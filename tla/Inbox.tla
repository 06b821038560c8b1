------------------------------- MODULE Inbox -------------------------------
(***************************************************************************)
(* From a send to the screen of the recipient: the message tables of the   *)
(* server (src/server/src/services/sealed_message_service.rs and           *)
(* message_service.rs with their repositories) and the chat of the iOS app *)
(* that polls them (ChatViewModel.swift).                                  *)
(*                                                                         *)
(* Messages are numbered in the order of their insertion, which is the     *)
(* order of created_at.  One mailbox is modelled, the one of user Me; the  *)
(* other users may send to it and may name its messages in requests.  A    *)
(* session has the number of the message that carried its offer.           *)
(***************************************************************************)
EXTENDS Naturals, FiniteSets

CONSTANTS Me, Others,     \* users
          Pollers,        \* polls of the app that may overlap
          Limit,          \* messages in one answer (50 by default, 100 at most)
          Sizes,          \* lengths of envelopes sent
          PlainSize,      \* length of what is stored as it comes
          MaxMessages     \* bound on the messages ever stored

ASSUME LimitAssumption == Limit \in Nat \ {0}
ASSUME MaxMessagesIsNat == MaxMessages \in Nat
ASSUME MeAssumption == Me \notin Others
ASSUME SizesAreNat == Sizes \subseteq Nat /\ PlainSize \in Nat

VARIABLES messages,   \* rows of both tables: [id, table, type, size, of, status]
          nextId,
          shown,      \* what is on the screen of the chat
          saved,      \* what is in the local store
          lost,       \* history: what the store dropped, or failed to take
          session,    \* the session of the chat, 0 when it has none
          starting,   \* sends of the chat are offering a session
          polls       \* what each poll of the app is doing

server == <<messages, nextId>>
store == <<saved, lost>>
app == <<shown, store, session, starting, polls>>
vars == <<server, app>>

Ids == 1..MaxMessages

EnvelopeSize == 65536
Prefix == 4

-----------------------------------------------------------------------------
(* Sending *)

IsHandshake(type) == type \in {"handshake_offer", "handshake_accept"}

\* pad_sealed_envelope has no room for more.
Padded(size) == {s \in {EnvelopeSize} : size <= EnvelopeSize - Prefix}

\* Mutant: the length prefix is written in front of a handshake, too.
FinalSizesPrefixed(type, size) ==
    IF IsHandshake(type) THEN {size + Prefix} ELSE Padded(size)

\* The final envelope, if there is one: handshakes stay as they are.
FinalSizes(type, size) ==
    IF IsHandshake(type) \/ size = EnvelopeSize THEN {size} ELSE Padded(size)

\* The sessions a message may be sealed for; 0 stands for those of other chats.
Sessions == {0, session} \cup {m.id : m \in {x \in messages : x.type = "handshake_offer"}}

\* The size is checked once more before the insert of a sealed message.
Storable(m) ==
    m.table = "sealed" /\ ~IsHandshake(m.type) => m.size = EnvelopeSize

Row(id, m) ==
    [id |-> id, table |-> m.table, type |-> m.type, size |-> m.size, of |-> m.of,
     status |-> "pending"]

Insert(m) ==
    /\ Storable(m)
    /\ nextId \in Ids
    /\ messages' = messages \cup {Row(nextId, m)}
    /\ nextId' = nextId + 1
    /\ UNCHANGED app

\* Once the recipient is looked up and the envelope padded the service sleeps
\* for up to five seconds.  The step is the one of its insert, so sends are
\* stored in any order; a send that is dropped leaves nothing.
SendSealed(type, size, of) ==
    \E final \in FinalSizes(type, size) :
        Insert([table |-> "sealed", type |-> type, size |-> final, of |-> of])

\* What clients ask for; no type at all is the one of sealed messages.
SealedRequests ==
    {[type |-> "sealed_sender", size |-> size, of |-> of] : size \in Sizes, of \in Sessions}
        \cup {[type |-> type, size |-> PlainSize, of |-> 0] :
                type \in {"handshake_offer", "handshake_accept"}}

\* POST /messages
PostMessage(r) == SendSealed(r.type, r.size, r.of)

\* POST /messages/legacy.  A row that names a session is refused: the server
\* never inserts one into the table of sessions.
SendLegacy(size) ==
    Insert([table |-> "legacy", type |-> "encrypted_message", size |-> size, of |-> 0])

-----------------------------------------------------------------------------
(* The mailbox *)

Pending(table) == {m \in messages : m.table = table /\ m.status = "pending"}

\* ORDER BY created_at LIMIT limit OFFSET offset
Page(rows, limit, offset) ==
    {m \in rows : LET before == Cardinality({x \in rows : x.id < m.id})
                  IN offset <= before /\ before < offset + limit}

\* Mutant: the statement forgets the recipient.
MarksById(m, table, id, user) == m.table = table /\ m.id = id

\* WHERE message_id = id AND to_user_id = user; the row of the legacy table
\* must be undelivered, too.
Marks(m, table, id, user) == m.table = table /\ m.id = id /\ user = Me

MarkRow(table, id, user) ==
    {IF Marks(m, table, id, user) THEN [m EXCEPT !.status = "delivered"] ELSE m :
        m \in messages}

\* POST /messages/:message_id/delivered and its legacy form, by clients other
\* than the app: the recipient has no other one for sealed messages.
MarkByOthers(table, id, user) ==
    /\ table = "sealed" => user # Me
    /\ messages' = MarkRow(table, id, user)
    /\ UNCHANGED <<nextId, app>>

\* What expires_at compares with is left to chance.
Deletable(m) == m.status = "delivered"

Cleanup ==
    /\ \E old \in SUBSET {m \in messages : Deletable(m)} : messages' = messages \ old
    /\ UNCHANGED <<nextId, app>>

-----------------------------------------------------------------------------
(* The local store of the app: an array of messages, encoded as a whole.    *)

\* fetchAllMessages.  There is an array for each user who has logged in and one
\* for apps that started with valid tokens, and one that does not decode reads
\* as empty: what the app reads is a part of what is saved.
Readings == SUBSET saved

\* saveMessage reads the array, appends to it and writes it back: one that did
\* not decode is gone with the write, and one that does not encode is not
\* written.  The caller is told of neither.
SaveMessage(ids) ==
    /\ \/ \E kept \in Readings : saved' = kept \cup ids
       \/ UNCHANGED saved
    /\ lost' = (lost \cup saved \cup ids) \ saved'

\* What is sent, and what other chats receive, goes into the same array.
SaveOther ==
    /\ SaveMessage({})
    /\ UNCHANGED <<server, shown, session, starting, polls>>

-----------------------------------------------------------------------------
(* The app.  The timer starts a poll every three seconds, whether the one   *)
(* before is done or not; a poll gives way at every request to the server.  *)

NoPoll == [pc |-> "idle", page |-> {}]

At(p) == CHOOSE i \in polls[p].page : \A j \in polls[p].page : i <= j

Become(p, pc, page) == polls' = [polls EXCEPT ![p] = [pc |-> pc, page |-> page]]

\* The poll goes on with the messages after the one it is at.
GoOver(p, page) == IF page = {} THEN polls' = [polls EXCEPT ![p] = NoPoll]
                   ELSE Become(p, "page", page)

Proceed(p) == GoOver(p, polls[p].page \ {At(p)})

\* Mutant: the app leaves out as many messages as it has.
FetchNext == {m.id : m \in Page(Pending("sealed"), Limit, Cardinality(shown))}

Fetch == {m.id : m \in Page(Pending("sealed"), Limit, 0)}

Poll(p) ==
    /\ polls[p].pc = "idle"
    /\ Fetch # {}
    /\ GoOver(p, Fetch)
    /\ UNCHANGED <<server, shown, store, session, starting>>

TypeOf(id) == {m.type : m \in {x \in messages : x.id = id}}

\* Messages of another session do not open, and a chat without a session does
\* not try.
Readable(m) == m.type = "sealed_sender" /\ session # 0 /\ m.of = session

Skips(id) == id \in shown \/ \A m \in messages : m.id = id => ~Readable(m)

\* An accept stands for whatever the chat cannot take: it is ignored, as are
\* an offer the responder refuses and a message that does not open, and none
\* of them is reported as delivered.
Skip(p) ==
    /\ polls[p].pc = "page"
    /\ Skips(At(p))
    /\ Proceed(p)
    /\ UNCHANGED <<server, shown, store, session, starting>>

\* handleHandshakeOffer, once respondToHandshakeOffer has sent the accept.  The
\* coordinator leaves its address empty, and while the server refuses it for
\* that, every offer is one that Skip leaves in the mailbox.
TakeOffer(p) ==
    /\ polls[p].pc = "page"
    /\ "handshake_offer" \in TypeOf(At(p))
    /\ session' = At(p)
    /\ Become(p, "offer", polls[p].page)
    /\ UNCHANGED <<server, shown, store, starting>>

\* handleIncomingMessage up to its request: decrypted, put on the screen and
\* saved, between which the main actor does not give way.  A crash in between
\* leaves what a crash before leaves.
Receive(p) ==
    /\ polls[p].pc = "page"
    /\ ~Skips(At(p))
    /\ shown' = shown \cup {At(p)}
    /\ SaveMessage({At(p)})
    /\ Become(p, "ack", polls[p].page)
    /\ UNCHANGED <<server, session, starting>>

\* try? await markAsDelivered: the request may be lost or refused, and the
\* poll goes on all the same.
MarkDelivered(p) ==
    \/ messages' = MarkRow("sealed", At(p), Me)
    \/ UNCHANGED messages

Acknowledge(p) ==
    /\ polls[p].pc = "ack"
    /\ MarkDelivered(p)
    /\ Proceed(p)
    /\ UNCHANGED <<nextId, shown, store, session, starting>>

\* The start of loadMessages: what is in the store takes the place of what is
\* on the screen.
Load == shown' \in Readings

\* The chat comes into view; the poll that follows is one like any other.
Appear ==
    /\ Load
    /\ UNCHANGED <<server, store, session, starting, polls>>

AcknowledgeOffer(p) ==
    /\ polls[p].pc = "offer"
    /\ MarkDelivered(p)
    /\ Load
    /\ Become(p, "reload", polls[p].page \ {At(p)})
    /\ UNCHANGED <<nextId, store, session, starting>>

\* loadMessages polls again inside the poll.  What was left of the page comes
\* after the new one; a message that is in both is gone over once here.
Reload(p) ==
    /\ polls[p].pc = "reload"
    /\ \E page \in {Fetch, {}} : GoOver(p, polls[p].page \cup page)
    /\ UNCHANGED <<server, shown, store, session, starting>>

\* getOrCreateSession, for the first messages that are written in this chat:
\* each send that finds no session offers one, and the last to come through
\* stays.  The offer has a number in the mailbox of the other user.
StartSession ==
    /\ session = 0
    /\ starting' = TRUE
    /\ UNCHANGED <<server, shown, store, session, polls>>

SessionStarted ==
    /\ starting
    /\ starting' \in BOOLEAN
    /\ \/ /\ nextId \in Ids
          /\ session' = nextId
          /\ nextId' = nextId + 1
       \/ UNCHANGED <<session, nextId>>
    /\ UNCHANGED <<messages, shown, store, polls>>

\* The app is killed and started, with or without a login.  The chat is loaded
\* from the local store, without its session.
Restart ==
    /\ Load
    /\ session' = 0
    /\ starting' = FALSE
    /\ polls' = [p \in Pollers |-> NoPoll]
    /\ UNCHANGED <<server, store>>

-----------------------------------------------------------------------------
Init ==
    /\ messages = {} /\ nextId = 1
    /\ shown = {} /\ session = 0 /\ starting = FALSE
    /\ saved = {} /\ lost = {}
    /\ polls = [p \in Pollers |-> NoPoll]

Work(p) ==
    \/ Poll(p) \/ Skip(p) \/ TakeOffer(p) \/ Receive(p)
    \/ Acknowledge(p) \/ AcknowledgeOffer(p) \/ Reload(p)

Next ==
    \/ \E r \in SealedRequests : PostMessage(r)
    \/ SendLegacy(PlainSize)
    \/ \E table \in {"sealed", "legacy"}, id \in Ids, user \in {Me} \cup Others :
          MarkByOthers(table, id, user)
    \/ Cleanup
    \/ \E p \in Pollers : Work(p)
    \/ Appear
    \/ SaveOther
    \/ StartSession
    \/ SessionStarted
    \/ Restart

\* The timer keeps firing and a poll that has been answered goes on.
Spec == Init /\ [][Next]_vars /\ \A p \in Pollers : WF_vars(Work(p))

-----------------------------------------------------------------------------
Rows == [id : Ids, table : {"sealed", "legacy"},
         type : {"sealed_sender", "handshake_offer", "handshake_accept", "encrypted_message"},
         size : Sizes \cup {PlainSize, EnvelopeSize}, of : {0} \cup Ids,
         status : {"pending", "delivered"}]

TypeOK ==
    /\ messages \subseteq Rows
    /\ nextId \in 1..(MaxMessages + 1)
    /\ shown \subseteq Ids /\ saved \subseteq Ids /\ lost \subseteq Ids
    /\ session \in {0} \cup Ids
    /\ starting \in BOOLEAN
    /\ polls \in [Pollers -> [pc : {"idle", "page", "offer", "reload", "ack"},
                              page : SUBSET Ids]]

\* The server tells nothing about the length of a sealed message: what it
\* stores and hands out has one size, whatever the clients sent.
OneSize ==
    \A m \in messages : m.type = "sealed_sender" => m.size = EnvelopeSize

\* What the recipient has done with a message that leaves the mailbox.
Received(m) ==
    \/ m.type = "sealed_sender" /\ m.id \in saved \cup lost
    \/ m.type = "handshake_offer" /\ \E p \in Pollers : polls[p].pc = "offer" /\ At(p) = m.id

\* A sealed message leaves the list of pending ones only once the recipient
\* has saved it or taken its offer: no crash of the app, no lost answer, no
\* overlapping poll and nobody else's request takes it away before.  Only the
\* local store loses messages: the app acknowledges also what was not written.
\* And nothing that is pending is ever deleted, as schema.sql:914 has it
\* ("Delete delivered sealed messages"); schema.sql:317 and the documents do
\* not agree with each other on that.
NothingLost ==
    [][\A m \in messages :
         m.status = "pending" =>
             \/ m \in messages'
             \/ m.table = "sealed" /\ Received(m)
             \/ m.table = "legacy" /\ \E n \in messages' : n.id = m.id]_vars

\* What the chat leaves in the mailbox: what it ignores, and what is on its
\* screen already, for a lost acknowledgement is not repeated.
Stuck == {m \in Pending("sealed") : Skips(m.id)}

FewStuck == Cardinality(Stuck) < Limit

\* The chat stays with a session and takes no more offers, also not the same
\* one over and over, as it would when no acknowledgement came through.
Settles ==
    /\ <>[](session # 0)
    /\ <>[][UNCHANGED session /\ \A p \in Pollers : ~TakeOffer(p)]_vars

\* Once a chat has settled on a session, it gets level with the mailbox again
\* and again: every message of the session was decrypted and handed to the
\* store, as long as those the chat does not take fill less than one page.
EveryMessageTaken ==
    Settles /\ <>[]FewStuck =>
        []<>(\A m \in Pending("sealed") : Readable(m) => m.id \in saved \cup lost)
=============================================================================
