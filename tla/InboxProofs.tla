---------------------------- MODULE InboxProofs ----------------------------
(***************************************************************************)
(* Safety of the mailbox for every set of users, pollers and sizes, every  *)
(* page size and any number of messages.                                   *)
(*                                                                         *)
(* NothingLost is about one step, in which some poll reports the message   *)
(* it is at.  IInv says what has brought the poll there: the rows of that  *)
(* number are of the type the poll took them for, and were handed to the   *)
(* local store by the time they are reported, which has them or lost them. *)
(***************************************************************************)
EXTENDS Inbox, TLAPS

\* Numbers are used once, and in order.
RowsOK ==
    /\ \A m, n \in messages : m.id = n.id => m = n
    /\ \A m \in messages : m.id < nextId

\* A poll that works on a message has seen it in the mailbox.
PollOK(p) ==
    /\ polls[p].pc \in {"offer", "ack"} => At(p) \in Ids /\ At(p) < nextId
    /\ \A m \in messages : m.id = At(p) =>
          /\ polls[p].pc = "offer" => m.type = "handshake_offer"
          /\ polls[p].pc = "ack" => m.type = "sealed_sender"
    /\ polls[p].pc = "ack" => At(p) \in saved \cup lost

PollsOK == \A p \in Pollers : PollOK(p)

IInv == TypeOK /\ OneSize /\ RowsOK /\ PollsOK

\* The smallest of a set of numbers.
Least(S) == CHOOSE i \in S : \A j \in S : i <= j

LEMMA AtIsLeast ==
    /\ \A p : At(p) = Least(polls[p].page)
    /\ \A p : At(p)' = Least(polls'[p].page)
BY DEF At, Least

\* What a poll that keeps its page is at stays the same.
LEMMA SamePage ==
    ASSUME NEW p, polls'[p].page = polls[p].page
    PROVE  At(p)' = At(p)
BY AtIsLeast

LEMMA FetchType == ASSUME TypeOK PROVE Fetch \subseteq Ids
BY DEF Fetch, Page, Pending, TypeOK, Rows

-----------------------------------------------------------------------------
(* The states of polls *)

States == {"idle", "page", "offer", "reload", "ack"}

\* Become gives one poll a state and a page and leaves the others alone.
LEMMA BecomeFacts ==
    ASSUME TypeOK, NEW p \in Pollers, NEW pc \in States, NEW page \in SUBSET Ids,
           Become(p, pc, page)
    PROVE  /\ polls' \in [Pollers -> [pc : States, page : SUBSET Ids]]
           /\ polls'[p].pc = pc /\ polls'[p].page = page
           /\ \A q \in Pollers : q # p => polls'[q] = polls[q]
BY DEF Become, TypeOK, States

\* GoOver leaves the poll idle or at the first message of the page.
LEMMA GoOverFacts ==
    ASSUME TypeOK, NEW p \in Pollers, NEW page \in SUBSET Ids, GoOver(p, page)
    PROVE  /\ polls' \in [Pollers -> [pc : States, page : SUBSET Ids]]
           /\ polls'[p].pc \in {"idle", "page"}
           /\ \A q \in Pollers : q # p => polls'[q] = polls[q]
<1>1. CASE page = {}
  <2>1. NoPoll \in [pc : States, page : SUBSET Ids] /\ NoPoll.pc = "idle"
      BY DEF NoPoll, States
  <2>2. polls' = [polls EXCEPT ![p] = NoPoll]
      BY <1>1 DEF GoOver
  <2>. QED BY <2>1, <2>2 DEF TypeOK, States
<1>2. CASE page # {}
  <2>1. Become(p, "page", page)
      BY <1>2 DEF GoOver
  <2>. QED BY <2>1, BecomeFacts DEF States
<1>. QED BY <1>1, <1>2

LEMMA ProceedFacts ==
    ASSUME TypeOK, NEW p \in Pollers, Proceed(p)
    PROVE  /\ polls' \in [Pollers -> [pc : States, page : SUBSET Ids]]
           /\ polls'[p].pc \in {"idle", "page"}
           /\ \A q \in Pollers : q # p => polls'[q] = polls[q]
<1>1. polls[p].page \ {At(p)} \in SUBSET Ids
    BY DEF TypeOK
<1>. QED BY <1>1, GoOverFacts DEF Proceed

-----------------------------------------------------------------------------
(* The rows *)

\* What an insert does to the table.
LEMMA InsertFacts ==
    ASSUME IInv, NEW m, Insert(m),
           m.table \in {"sealed", "legacy"},
           m.type \in {"sealed_sender", "handshake_offer", "handshake_accept",
                       "encrypted_message"},
           m.size \in Sizes \cup {PlainSize, EnvelopeSize},
           m.of \in {0} \cup Ids,
           m.type = "sealed_sender" => m.table = "sealed"
    PROVE  IInv' /\ messages \subseteq messages'
<1>. DEFINE row == Row(nextId, m)
<1>1. /\ nextId \in Ids /\ nextId \in Nat
      /\ messages' = messages \cup {row}
      /\ nextId' = nextId + 1
      /\ UNCHANGED app
    BY MaxMessagesIsNat DEF Insert, Ids
<1>2. /\ row \in Rows /\ row.id = nextId /\ row.type = m.type
      /\ row.size = m.size /\ row.table = m.table
    BY <1>1 DEF Row, Rows
<1>3. row.type = "sealed_sender" => row.size = EnvelopeSize
    BY <1>2 DEF Insert, Storable, IsHandshake
<1>. HIDE DEF row
<1>4. TypeOK'
    BY <1>1, <1>2, MaxMessagesIsNat DEF IInv, TypeOK, app, store, Ids
<1>5. OneSize'
    BY <1>1, <1>3 DEF IInv, OneSize
<1>6. \A n \in messages : n.id \in Nat /\ n.id < nextId
    BY MaxMessagesIsNat DEF IInv, RowsOK, TypeOK, Rows, Ids
<1>7. RowsOK'
    BY <1>1, <1>2, <1>6 DEF IInv, RowsOK
<1>8. PollsOK'
  <2>. SUFFICES ASSUME NEW p \in Pollers PROVE PollOK(p)'
      BY DEF PollsOK
  <2>1. polls' = polls /\ saved' = saved /\ lost' = lost
      BY <1>1 DEF app, store
  <2>2. At(p)' = At(p)
      BY <2>1, SamePage
  <2>3. polls[p].pc \in {"offer", "ack"} =>
            At(p) \in Nat /\ At(p) < nextId /\ At(p) # row.id
      BY <1>1, <1>2, MaxMessagesIsNat DEF IInv, PollsOK, PollOK, Ids
  <2>. QED BY <1>1, <2>1, <2>2, <2>3 DEF IInv, PollsOK, PollOK
<1>. QED BY <1>1, <1>4, <1>5, <1>7, <1>8 DEF IInv

\* Rows may change their status or go; nothing else about them changes.
RowsStay ==
    /\ messages' \subseteq Rows
    /\ \A m, n \in messages' : m.id = n.id => m = n
    /\ \A n \in messages' : \E m \in messages :
          m.id = n.id /\ m.type = n.type /\ m.size = n.size

LEMMA SameRows == IInv /\ UNCHANGED messages => RowsStay
BY DEF IInv, TypeOK, RowsOK, RowsStay

\* An update of the status of some rows.
LEMMA MarkRowFacts ==
    ASSUME IInv, NEW table, NEW id, NEW user, messages' = MarkRow(table, id, user)
    PROVE  /\ RowsStay
           /\ \A m \in messages : m \in messages' \/ Marks(m, table, id, user)
           /\ \A m \in messages : \E n \in messages' : n.id = m.id
<1>. DEFINE Image(m) == IF Marks(m, table, id, user)
                        THEN [m EXCEPT !.status = "delivered"] ELSE m
<1>1. messages' = {Image(m) : m \in messages}
    BY DEF MarkRow
<1>2. ASSUME NEW m \in messages
      PROVE  /\ Image(m) \in Rows /\ Image(m).id = m.id
             /\ Image(m).type = m.type /\ Image(m).size = m.size
             /\ ~Marks(m, table, id, user) => Image(m) = m
    BY m \in Rows DEF IInv, TypeOK, Rows
<1>. HIDE DEF Image
<1>3. \A m, n \in messages' : m.id = n.id => m = n
    BY <1>1, <1>2 DEF IInv, RowsOK
<1>. QED BY <1>1, <1>2, <1>3 DEF RowsStay

\* Rows that stay are numbered and padded as before.
LEMMA RowsStayFacts ==
    ASSUME IInv, RowsStay, UNCHANGED nextId
    PROVE  RowsOK' /\ OneSize'
BY DEF IInv, RowsOK, OneSize, RowsStay

\* What was handed to the store is in it or lost from then on.
StoreGrows == saved \cup lost \subseteq saved' \cup lost'

LEMMA SaveMessageFacts ==
    ASSUME TypeOK, NEW ids \in SUBSET Ids, SaveMessage(ids)
    PROVE  /\ StoreGrows
           /\ ids \subseteq saved' \cup lost'
           /\ saved' \subseteq Ids /\ lost' \subseteq Ids
<1>1. saved' \subseteq saved \cup ids
    BY DEF SaveMessage, Readings
<1>2. lost' = (lost \cup saved \cup ids) \ saved'
    BY DEF SaveMessage
<1>. QED BY <1>1, <1>2 DEF StoreGrows, TypeOK

LEMMA SameStore == UNCHANGED store => StoreGrows /\ saved' = saved /\ lost' = lost
BY DEF store, StoreGrows

\* What is loaded onto the screen are messages.
LEMMA LoadFacts == ASSUME TypeOK, Load PROVE shown' \subseteq Ids
BY DEF Load, Readings, TypeOK

\* A poll that does nothing is not disturbed by what others do.
LEMMA OtherPoll ==
    ASSUME IInv, RowsStay, UNCHANGED nextId, StoreGrows,
           NEW p \in Pollers, polls'[p] = polls[p]
    PROVE  PollOK(p)'
<1>1. At(p)' = At(p)
    BY SamePage
<1>2. PollOK(p)
    BY DEF IInv, PollsOK
<1>. QED BY <1>1, <1>2 DEF PollOK, RowsStay, StoreGrows

\* A step of a poll is judged by the poll itself.
LEMMA OnePoll ==
    ASSUME IInv, RowsStay, UNCHANGED nextId, StoreGrows,
           NEW p \in Pollers, \A q \in Pollers : q # p => polls'[q] = polls[q],
           PollOK(p)', TypeOK'
    PROVE  IInv'
<1>1. PollsOK'
    BY OtherPoll DEF PollsOK
<1>. QED BY <1>1, RowsStayFacts DEF IInv

\* A poll that works on nothing is all right.
LEMMA RestingPoll ==
    ASSUME NEW p, polls'[p].pc \notin {"offer", "ack"}
    PROVE  PollOK(p)'
BY DEF PollOK

-----------------------------------------------------------------------------
(* What others do *)

\* The sessions senders name are numbers.
LEMMA SessionsType == ASSUME TypeOK PROVE Sessions \subseteq {0} \cup Ids
BY DEF Sessions, TypeOK, Rows

LEMMA PostMessageStep ==
    ASSUME IInv, NEW r \in SealedRequests, PostMessage(r)
    PROVE  IInv' /\ messages \subseteq messages'
<1>1. /\ r.type \in {"sealed_sender", "handshake_offer", "handshake_accept"}
      /\ r.size \in Sizes \cup {PlainSize}
      /\ r.of \in {0} \cup Ids
    BY SessionsType DEF SealedRequests, IInv
<1>2. PICK final \in FinalSizes(r.type, r.size) :
          Insert([table |-> "sealed", type |-> r.type, size |-> final, of |-> r.of])
    BY DEF PostMessage, SendSealed
<1>3. final \in Sizes \cup {PlainSize, EnvelopeSize}
    BY <1>1, <1>2 DEF FinalSizes, Padded
<1>. DEFINE m == [table |-> "sealed", type |-> r.type, size |-> final, of |-> r.of]
<1>4. /\ m.table = "sealed" /\ m.type = r.type /\ m.size = final /\ m.of = r.of
      /\ Insert(m)
    BY <1>2
<1>. HIDE DEF m
<1>. QED BY <1>1, <1>3, <1>4, InsertFacts

LEMMA SendLegacyStep ==
    ASSUME IInv, SendLegacy(PlainSize)
    PROVE  IInv' /\ messages \subseteq messages'
<1>. DEFINE m == [table |-> "legacy", type |-> "encrypted_message",
                  size |-> PlainSize, of |-> 0]
<1>1. /\ m.table = "legacy" /\ m.type = "encrypted_message"
      /\ m.size = PlainSize /\ m.of = 0
      /\ Insert(m)
    BY DEF SendLegacy
<1>. HIDE DEF m
<1>. QED BY <1>1, InsertFacts

\* A step of the server alone.
LEMMA ServerStep ==
    ASSUME IInv, RowsStay, UNCHANGED nextId, UNCHANGED app
    PROVE  IInv'
<1>1. TypeOK'
    BY SameStore DEF IInv, TypeOK, RowsStay, app
<1>2. PollsOK'
    BY SameStore, OtherPoll DEF PollsOK, app
<1>. QED BY <1>1, <1>2, RowsStayFacts DEF IInv

\* No row of the sealed table is marked by others, and no row goes.
LEMMA MarkByOthersStep ==
    ASSUME IInv, NEW table, NEW id, NEW user, MarkByOthers(table, id, user)
    PROVE  /\ IInv'
           /\ \A m \in messages :
                \/ m \in messages'
                \/ m.table # "sealed" /\ \E n \in messages' : n.id = m.id
<1>1. messages' = MarkRow(table, id, user) /\ UNCHANGED nextId /\ UNCHANGED app
    BY DEF MarkByOthers
<1>2. \A m \in messages : Marks(m, table, id, user) => m.table # "sealed"
    BY DEF MarkByOthers, Marks
<1>. QED BY <1>1, <1>2, MarkRowFacts, ServerStep

\* Only rows that were delivered go.
LEMMA CleanupStep ==
    ASSUME IInv, Cleanup
    PROVE  IInv' /\ \A m \in messages : m.status = "pending" => m \in messages'
<1>1. PICK old \in SUBSET {m \in messages : Deletable(m)} : messages' = messages \ old
    BY DEF Cleanup
<1>2. RowsStay
    BY <1>1 DEF IInv, TypeOK, RowsOK, RowsStay
<1>3. UNCHANGED nextId /\ UNCHANGED app
    BY DEF Cleanup
<1>. QED BY <1>1, <1>2, <1>3, ServerStep DEF Deletable

-----------------------------------------------------------------------------
(* What the app does *)

LEMMA PollStep ==
    ASSUME IInv, NEW p \in Pollers, Poll(p)
    PROVE  IInv' /\ UNCHANGED messages
<1>1. /\ GoOver(p, Fetch) /\ UNCHANGED messages /\ UNCHANGED nextId
      /\ UNCHANGED <<shown, session, starting>> /\ UNCHANGED store
    BY DEF Poll, server
<1>2. /\ polls' \in [Pollers -> [pc : States, page : SUBSET Ids]]
      /\ polls'[p].pc \in {"idle", "page"}
      /\ \A q \in Pollers : q # p => polls'[q] = polls[q]
    BY <1>1, FetchType, GoOverFacts DEF IInv
<1>3. TypeOK'
    BY <1>1, <1>2, SameStore DEF IInv, TypeOK, States
<1>4. PollOK(p)'
    BY <1>2, RestingPoll
<1>. QED BY <1>1, <1>2, <1>3, <1>4, SameRows, SameStore, OnePoll

LEMMA SkipStep ==
    ASSUME IInv, NEW p \in Pollers, Skip(p)
    PROVE  IInv' /\ UNCHANGED messages
<1>1. /\ Proceed(p) /\ UNCHANGED messages /\ UNCHANGED nextId
      /\ UNCHANGED <<shown, session, starting>> /\ UNCHANGED store
    BY DEF Skip, server
<1>2. /\ polls' \in [Pollers -> [pc : States, page : SUBSET Ids]]
      /\ polls'[p].pc \in {"idle", "page"}
      /\ \A q \in Pollers : q # p => polls'[q] = polls[q]
    BY <1>1, ProceedFacts DEF IInv
<1>3. TypeOK'
    BY <1>1, <1>2, SameStore DEF IInv, TypeOK, States
<1>4. PollOK(p)'
    BY <1>2, RestingPoll
<1>. QED BY <1>1, <1>2, <1>3, <1>4, SameRows, SameStore, OnePoll

\* The poll is at an offer that is in the mailbox.
LEMMA TakeOfferStep ==
    ASSUME IInv, NEW p \in Pollers, TakeOffer(p)
    PROVE  IInv' /\ UNCHANGED messages
<1>1. /\ Become(p, "offer", polls[p].page) /\ UNCHANGED messages /\ UNCHANGED nextId
      /\ session' = At(p) /\ UNCHANGED <<shown, starting>> /\ UNCHANGED store
    BY DEF TakeOffer, server
<1>2. polls[p].page \in SUBSET Ids
    BY DEF IInv, TypeOK
<1>3. /\ polls' \in [Pollers -> [pc : States, page : SUBSET Ids]]
      /\ polls'[p].pc = "offer" /\ polls'[p].page = polls[p].page
      /\ \A q \in Pollers : q # p => polls'[q] = polls[q]
    BY <1>1, <1>2, BecomeFacts DEF IInv, States
<1>4. PICK m \in messages : m.id = At(p) /\ m.type = "handshake_offer"
    BY DEF TakeOffer, TypeOf
<1>5. /\ At(p) \in Ids /\ At(p) < nextId
      /\ \A n \in messages : n.id = At(p) => n.type = "handshake_offer"
    BY <1>4 DEF IInv, TypeOK, Rows, RowsOK
<1>6. TypeOK'
    BY <1>1, <1>3, <1>5, SameStore DEF IInv, TypeOK, States
<1>7. PollOK(p)'
    BY <1>1, <1>3, <1>5, SamePage DEF PollOK
<1>. QED BY <1>1, <1>3, <1>6, <1>7, SameRows, SameStore, OnePoll

\* The poll is at a sealed message that is in the mailbox, and hands it to the
\* store.
LEMMA ReceiveStep ==
    ASSUME IInv, NEW p \in Pollers, Receive(p)
    PROVE  IInv' /\ UNCHANGED messages
<1>1. /\ Become(p, "ack", polls[p].page) /\ UNCHANGED messages /\ UNCHANGED nextId
      /\ shown' = shown \cup {At(p)} /\ SaveMessage({At(p)})
      /\ UNCHANGED <<session, starting>>
    BY DEF Receive, server
<1>2. polls[p].page \in SUBSET Ids
    BY DEF IInv, TypeOK
<1>3. /\ polls' \in [Pollers -> [pc : States, page : SUBSET Ids]]
      /\ polls'[p].pc = "ack" /\ polls'[p].page = polls[p].page
      /\ \A q \in Pollers : q # p => polls'[q] = polls[q]
    BY <1>1, <1>2, BecomeFacts DEF IInv, States
<1>4. PICK m \in messages : m.id = At(p) /\ m.type = "sealed_sender"
    BY DEF Receive, Skips, Readable
<1>5. /\ At(p) \in Ids /\ At(p) < nextId
      /\ \A n \in messages : n.id = At(p) => n.type = "sealed_sender"
    BY <1>4 DEF IInv, TypeOK, Rows, RowsOK
<1>6. {At(p)} \in SUBSET Ids
    BY <1>5
<1>7. /\ StoreGrows /\ At(p) \in saved' \cup lost'
      /\ saved' \subseteq Ids /\ lost' \subseteq Ids
    BY <1>1, <1>6, SaveMessageFacts DEF IInv
<1>8. TypeOK'
    BY <1>1, <1>3, <1>5, <1>7 DEF IInv, TypeOK, States
<1>9. PollOK(p)'
    BY <1>1, <1>3, <1>5, <1>7, SamePage DEF PollOK
<1>. QED BY <1>1, <1>3, <1>7, <1>8, <1>9, SameRows, OnePoll

\* Whether the report arrives or not, it is about the message the poll is at.
LEMMA MarkDeliveredFacts ==
    ASSUME IInv, NEW p, MarkDelivered(p)
    PROVE  /\ RowsStay
           /\ \A m \in messages :
                m \in messages' \/ (m.table = "sealed" /\ m.id = At(p))
<1>1. CASE messages' = MarkRow("sealed", At(p), Me)
    BY <1>1, MarkRowFacts DEF Marks
<1>2. CASE UNCHANGED messages
    BY <1>2, SameRows
<1>. QED BY <1>1, <1>2 DEF MarkDelivered

LEMMA AcknowledgeStep ==
    ASSUME IInv, NEW p \in Pollers, Acknowledge(p)
    PROVE  /\ IInv'
           /\ \A m \in messages : m \in messages' \/ (m.table = "sealed" /\ Received(m))
<1>1. /\ polls[p].pc = "ack" /\ MarkDelivered(p) /\ Proceed(p)
      /\ UNCHANGED <<nextId, shown, session, starting>> /\ UNCHANGED store
    BY DEF Acknowledge
<1>2. /\ polls' \in [Pollers -> [pc : States, page : SUBSET Ids]]
      /\ polls'[p].pc \in {"idle", "page"}
      /\ \A q \in Pollers : q # p => polls'[q] = polls[q]
    BY <1>1, ProceedFacts DEF IInv
<1>3. RowsStay
    BY <1>1, MarkDeliveredFacts
<1>4. TypeOK'
    BY <1>1, <1>2, <1>3, SameStore DEF IInv, TypeOK, States, RowsStay
<1>5. PollOK(p)'
    BY <1>2, RestingPoll
<1>6. IInv'
    BY <1>1, <1>2, <1>3, <1>4, <1>5, SameStore, OnePoll
<1>7. \A m \in messages :
          m.id = At(p) => m.type = "sealed_sender" /\ m.id \in saved \cup lost
    BY <1>1 DEF IInv, PollsOK, PollOK
<1>. QED BY <1>1, <1>6, <1>7, MarkDeliveredFacts DEF Received

LEMMA AcknowledgeOfferStep ==
    ASSUME IInv, NEW p \in Pollers, AcknowledgeOffer(p)
    PROVE  /\ IInv'
           /\ \A m \in messages : m \in messages' \/ (m.table = "sealed" /\ Received(m))
<1>1. /\ polls[p].pc = "offer" /\ MarkDelivered(p) /\ Load
      /\ Become(p, "reload", polls[p].page \ {At(p)})
      /\ UNCHANGED <<nextId, session, starting>> /\ UNCHANGED store
    BY DEF AcknowledgeOffer
<1>2. polls[p].page \ {At(p)} \in SUBSET Ids
    BY DEF IInv, TypeOK
<1>3. /\ polls' \in [Pollers -> [pc : States, page : SUBSET Ids]]
      /\ polls'[p].pc = "reload"
      /\ \A q \in Pollers : q # p => polls'[q] = polls[q]
    BY <1>1, <1>2, BecomeFacts DEF IInv, States
<1>4. RowsStay
    BY <1>1, MarkDeliveredFacts
<1>5. TypeOK'
    BY <1>1, <1>3, <1>4, SameStore, LoadFacts DEF IInv, TypeOK, States, RowsStay
<1>6. PollOK(p)'
    BY <1>3, RestingPoll
<1>7. IInv'
    BY <1>1, <1>3, <1>4, <1>5, <1>6, SameStore, OnePoll
<1>8. \A m \in messages : m.id = At(p) => m.type = "handshake_offer"
    BY <1>1 DEF IInv, PollsOK, PollOK
<1>. QED BY <1>1, <1>7, <1>8, MarkDeliveredFacts DEF Received

LEMMA ReloadStep ==
    ASSUME IInv, NEW p \in Pollers, Reload(p)
    PROVE  IInv' /\ UNCHANGED messages
<1>1. PICK page \in {Fetch, {}} : GoOver(p, polls[p].page \cup page)
    BY DEF Reload
<1>2. /\ UNCHANGED messages /\ UNCHANGED nextId
      /\ UNCHANGED <<shown, session, starting>> /\ UNCHANGED store
    BY DEF Reload, server
<1>3. polls[p].page \cup page \in SUBSET Ids
    BY FetchType DEF IInv, TypeOK
<1>4. /\ polls' \in [Pollers -> [pc : States, page : SUBSET Ids]]
      /\ polls'[p].pc \in {"idle", "page"}
      /\ \A q \in Pollers : q # p => polls'[q] = polls[q]
    BY <1>1, <1>3, GoOverFacts DEF IInv
<1>5. TypeOK'
    BY <1>2, <1>4, SameStore DEF IInv, TypeOK, States
<1>6. PollOK(p)'
    BY <1>4, RestingPoll
<1>. QED BY <1>2, <1>4, <1>5, <1>6, SameRows, SameStore, OnePoll

\* What the rest of the app does to the screen and to the store.
LEMMA AppearStep ==
    ASSUME IInv, Appear
    PROVE  IInv' /\ UNCHANGED messages
<1>1. /\ UNCHANGED messages /\ UNCHANGED nextId /\ Load
      /\ UNCHANGED <<session, starting, polls>> /\ UNCHANGED store
    BY DEF Appear, server
<1>2. TypeOK'
    BY <1>1, SameStore, LoadFacts DEF IInv, TypeOK
<1>3. PollsOK'
    BY <1>1, SameRows, SameStore, OtherPoll DEF PollsOK
<1>. QED BY <1>1, <1>2, <1>3, SameRows, RowsStayFacts DEF IInv

LEMMA SaveOtherStep ==
    ASSUME IInv, SaveOther
    PROVE  IInv' /\ UNCHANGED messages
<1>1. /\ UNCHANGED messages /\ UNCHANGED nextId /\ SaveMessage({})
      /\ UNCHANGED <<shown, session, starting, polls>>
    BY DEF SaveOther, server
<1>2. StoreGrows /\ saved' \subseteq Ids /\ lost' \subseteq Ids
    BY <1>1, SaveMessageFacts DEF IInv
<1>3. TypeOK'
    BY <1>1, <1>2 DEF IInv, TypeOK
<1>4. PollsOK'
    BY <1>1, <1>2, SameRows, OtherPoll DEF PollsOK
<1>. QED BY <1>1, <1>3, <1>4, SameRows, RowsStayFacts DEF IInv

LEMMA StartSessionStep ==
    ASSUME IInv, StartSession
    PROVE  IInv' /\ UNCHANGED messages
<1>1. /\ UNCHANGED messages /\ UNCHANGED nextId
      /\ UNCHANGED <<shown, session, polls>> /\ UNCHANGED store /\ starting' = TRUE
    BY DEF StartSession, server
<1>2. TypeOK'
    BY <1>1, SameStore DEF IInv, TypeOK
<1>3. PollsOK'
    BY <1>1, SameRows, SameStore, OtherPoll DEF PollsOK
<1>. QED BY <1>1, <1>2, <1>3, SameRows, RowsStayFacts DEF IInv

\* The number of an offer in another mailbox is not used here.
LEMMA SessionStartedStep ==
    ASSUME IInv, SessionStarted
    PROVE  IInv' /\ UNCHANGED messages
<1>1. /\ UNCHANGED <<messages, shown, polls>> /\ UNCHANGED store /\ starting' \in BOOLEAN
      /\ \/ nextId \in Ids /\ session' = nextId /\ nextId' = nextId + 1
         \/ UNCHANGED <<session, nextId>>
    BY DEF SessionStarted
<1>2. nextId \in Nat /\ nextId' \in Nat /\ nextId <= nextId'
    BY <1>1, MaxMessagesIsNat DEF IInv, TypeOK
<1>3. TypeOK'
  <2>1. nextId' \in 1..(MaxMessages + 1) /\ session' \in {0} \cup Ids
      BY <1>1, <1>2, MaxMessagesIsNat DEF IInv, TypeOK, Ids
  <2>. QED BY <1>1, <2>1, SameStore DEF IInv, TypeOK
<1>4. OneSize'
    BY <1>1 DEF IInv, OneSize
<1>5. \A m \in messages : m.id \in Nat
    BY DEF IInv, TypeOK, Rows, Ids
<1>6. RowsOK'
    BY <1>1, <1>2, <1>5 DEF IInv, RowsOK
<1>7. ASSUME NEW p \in Pollers PROVE PollOK(p)'
  <2>1. At(p)' = At(p) /\ PollOK(p)
      BY <1>1, SamePage DEF IInv, PollsOK
  <2>2. polls[p].pc \in {"offer", "ack"} => At(p) \in Nat
      BY <2>1 DEF PollOK, Ids
  <2>. QED BY <1>1, <1>2, <2>1, <2>2, SameStore DEF PollOK
<1>. QED BY <1>1, <1>3, <1>4, <1>6, <1>7 DEF IInv, PollsOK

LEMMA RestartStep ==
    ASSUME IInv, Restart
    PROVE  IInv' /\ UNCHANGED messages
<1>1. /\ UNCHANGED messages /\ UNCHANGED nextId /\ UNCHANGED store
      /\ Load /\ session' = 0 /\ starting' = FALSE
      /\ polls' = [p \in Pollers |-> NoPoll]
    BY DEF Restart, server
<1>2. NoPoll \in [pc : States, page : SUBSET Ids] /\ NoPoll.pc = "idle"
    BY DEF NoPoll, States
<1>3. TypeOK'
    BY <1>1, <1>2, SameStore, LoadFacts DEF IInv, TypeOK, States
<1>4. \A p \in Pollers : polls'[p].pc \notin {"offer", "ack"}
    BY <1>1, <1>2
<1>5. PollsOK'
    BY <1>4, RestingPoll DEF PollsOK
<1>. QED BY <1>1, <1>3, <1>5, SameRows, RowsStayFacts DEF IInv

-----------------------------------------------------------------------------
(* The theorems *)

LEMMA InitIInv == Init => IInv
<1>. SUFFICES ASSUME Init PROVE IInv
    OBVIOUS
<1>1. NoPoll \in [pc : States, page : SUBSET Ids] /\ NoPoll.pc = "idle"
    BY DEF NoPoll, States
<1>2. TypeOK
  <2>1. nextId \in 1..(MaxMessages + 1)
      BY MaxMessagesIsNat DEF Init
  <2>2. polls \in [Pollers -> [pc : States, page : SUBSET Ids]]
      BY <1>1 DEF Init
  <2>. QED BY <2>1, <2>2 DEF Init, TypeOK, States
<1>3. \A p \in Pollers : polls[p].pc = "idle"
    BY <1>1 DEF Init
<1>4. OneSize /\ RowsOK /\ PollsOK
    BY <1>3 DEF Init, OneSize, RowsOK, PollsOK, PollOK
<1>. QED BY <1>2, <1>4 DEF IInv

\* What a step may do to a pending message.
NothingLostStep ==
    \A m \in messages :
        m.status = "pending" =>
            \/ m \in messages'
            \/ m.table = "sealed" /\ Received(m)
            \/ m.table = "legacy" /\ \E n \in messages' : n.id = m.id

LEMMA WorkStep ==
    ASSUME IInv, NEW p \in Pollers, Work(p)
    PROVE  IInv' /\ NothingLostStep
<1>1. ASSUME UNCHANGED messages PROVE NothingLostStep
    BY <1>1 DEF NothingLostStep
<1>2. CASE Poll(p)
    BY <1>1, <1>2, PollStep
<1>3. CASE Skip(p)
    BY <1>1, <1>3, SkipStep
<1>4. CASE TakeOffer(p)
    BY <1>1, <1>4, TakeOfferStep
<1>5. CASE Receive(p)
    BY <1>1, <1>5, ReceiveStep
<1>6. CASE Acknowledge(p)
    BY <1>6, AcknowledgeStep DEF NothingLostStep
<1>7. CASE AcknowledgeOffer(p)
    BY <1>7, AcknowledgeOfferStep DEF NothingLostStep
<1>8. CASE Reload(p)
    BY <1>1, <1>8, ReloadStep
<1>. QED BY <1>2, <1>3, <1>4, <1>5, <1>6, <1>7, <1>8 DEF Work

LEMMA NextStep == IInv /\ [Next]_vars => IInv' /\ (NothingLostStep \/ UNCHANGED vars)
<1>. SUFFICES ASSUME IInv, [Next]_vars
              PROVE  IInv' /\ (NothingLostStep \/ UNCHANGED vars)
    OBVIOUS
<1>1. ASSUME messages \subseteq messages' PROVE NothingLostStep
    BY <1>1 DEF NothingLostStep
<1>2. CASE \E r \in SealedRequests : PostMessage(r)
    BY <1>1, <1>2, PostMessageStep
<1>3. CASE SendLegacy(PlainSize)
    BY <1>1, <1>3, SendLegacyStep
<1>4. CASE \E table \in {"sealed", "legacy"}, id \in Ids, user \in {Me} \cup Others :
              MarkByOthers(table, id, user)
  <2>1. \A m \in messages : m.table \in {"sealed", "legacy"}
      BY DEF IInv, TypeOK, Rows
  <2>. QED BY <1>4, <2>1, MarkByOthersStep DEF NothingLostStep
<1>5. CASE Cleanup
    BY <1>5, CleanupStep DEF NothingLostStep
<1>6. CASE \E p \in Pollers : Work(p)
    BY <1>6, WorkStep
<1>7. CASE StartSession
    BY <1>1, <1>7, StartSessionStep
<1>8. CASE SessionStarted
    BY <1>1, <1>8, SessionStartedStep
<1>9. CASE Restart
    BY <1>1, <1>9, RestartStep
<1>10. CASE Appear
    BY <1>1, <1>10, AppearStep
<1>11. CASE SaveOther
    BY <1>1, <1>11, SaveOtherStep
<1>12. CASE UNCHANGED vars
  <2>1. /\ UNCHANGED messages /\ UNCHANGED nextId /\ UNCHANGED app
      BY <1>12 DEF vars, server
  <2>. QED BY <1>12, <2>1, SameRows, ServerStep
<1>. QED BY <1>2, <1>3, <1>4, <1>5, <1>6, <1>7, <1>8, <1>9, <1>10, <1>11, <1>12 DEF Next

LEMMA Invariance == Spec => []IInv
<1>1. Init => IInv
    BY InitIInv
<1>2. IInv /\ [Next]_vars => IInv'
    BY NextStep
<1>. QED BY <1>1, <1>2, PTL DEF Spec

\* For every page size and any number of pollers and messages the state keeps
\* its type: a poll is never at a message that is not one.
THEOREM MailboxTypes == Spec => []TypeOK
<1>1. IInv => TypeOK
    BY DEF IInv
<1>. QED BY <1>1, Invariance, PTL

\* What the server stores for a sealed message has one size, whatever sizes
\* clients send and whatever is marked, deleted or sent on other routes.
THEOREM SealedSizesAgree == Spec => []OneSize
<1>1. IInv => OneSize
    BY DEF IInv
<1>. QED BY <1>1, Invariance, PTL

\* No crash, lost acknowledgement, overlapping poll or request of another
\* client takes a message from the mailbox before the recipient has handed it to
\* its store, whether that write succeeds or fails, or has taken its offer.
THEOREM NoMessageLost == Spec => NothingLost
<1>1. IInv /\ [Next]_vars => NothingLostStep \/ UNCHANGED vars
    BY NextStep
<1>2. NothingLostStep \/ UNCHANGED vars <=>
          [\A m \in messages :
             m.status = "pending" =>
                 \/ m \in messages'
                 \/ m.table = "sealed" /\ Received(m)
                 \/ m.table = "legacy" /\ \E n \in messages' : n.id = m.id]_vars
    BY DEF NothingLostStep
<1>. QED BY <1>1, <1>2, Invariance, PTL DEF Spec, NothingLost
=============================================================================
