------------------------------ MODULE Contacts ------------------------------
(***************************************************************************)
(* The contact lists the server keeps                                      *)
(* (src/server/src/services/contact_service.rs and contact_repo.rs), with  *)
(* the numbers people type to find each other.  A handler awaits the       *)
(* database between two statements, so every statement is an action with   *)
(* the code up to the next await; a handler may be dropped at any await.   *)
(***************************************************************************)
EXTENDS Tables

CONSTANTS Handlers,   \* requests the server works on at the same time
          Users,      \* the keys of the registered users
          Number,     \* the six digits drawn for each user
          None

\* Accounts shows that the numbers of two users differ.
ASSUME NumberAssumption ==
    /\ Number \in [Users -> ConvroRange]
    /\ \A u, v \in Users : Number[u] = Number[v] => u = v
ASSUME NobodyAssumption == None \notin Users

VARIABLES devices, contacts,
          nextId,     \* key of the next contact: deleted rows never come back
          req,        \* what each handler is doing
          answer      \* the contact the last step has put in a response

vars == <<devices, contacts, nextId, req, answer>>

UserTable == {[id |-> u, number |-> FormatConvroNumber(Number[u])] : u \in Users}

\* What a client may send for the six digits n: the digits, the number as the
\* server prints it, or the number with its second group padded.
Entries(n) ==
    {NormalizeDigits(n), NormalizeText(FormatConvroNumber(n)),
     NormalizeText([head |-> Digits(n \div 1000), tail |-> Padded(n % 1000)])}

Idle == [pc |-> "idle", owner |-> None, typed |-> 0, user |-> None, rows |-> {}]

Become(h, r) == req' = [req EXCEPT ![h] = r]

Respond(h, owner, rows) ==
    Become(h, IF rows = {} THEN Idle
              ELSE [Idle EXCEPT !.pc = "respond", !.owner = owner, !.rows = rows])

Init ==
    /\ devices = {} /\ contacts = {} /\ nextId = 1
    /\ req = [h \in Handlers |-> Idle]
    /\ answer = {}

RegisterDevice(u, id) ==
    /\ NewId(devices, id)
    /\ devices' = devices \cup {DeviceRow(id, u, id)}
    /\ answer' = {}
    /\ UNCHANGED <<contacts, nextId, req>>

-----------------------------------------------------------------------------
(* POST /contacts *)

\* The number is normalised and its user looked up.
AddContact(h, owner, n, text) ==
    LET found == {u \in FindByConvroNumber(UserTable, text) : text # NoNumber} IN
    /\ req[h].pc = "idle"
    /\ \E u \in found :
         Become(h, [Idle EXCEPT !.pc = "insert", !.owner = owner, !.typed = n, !.user = u.id])
    /\ answer' = {}
    /\ UNCHANGED <<devices, contacts, nextId>>

\* The insert, which fails on a second row for the number.
InsertContact(h) ==
    LET owner  == req[h].owner
        number == FormatConvroNumber(Number[req[h].user])
        row    == ContactRow(nextId, owner, number, req[h].user)
    IN
    /\ req[h].pc = "insert"
    /\ IF ContactExists(contacts, owner, number)
       THEN /\ Become(h, Idle)
            /\ UNCHANGED <<contacts, nextId>>
       ELSE /\ nextId \in RowIds
            /\ contacts' = contacts \cup {row}
            /\ nextId' = nextId + 1
            /\ Respond(h, owner, {row})
    /\ answer' = {}
    /\ UNCHANGED devices

\* A body that is not JSON and a text that is no number are refused.
PostContact(h, owner, n) == \E text \in Entries(n) : AddContact(h, owner, n, text)

ContactResponse(to, c, d) == [to |-> to, contact |-> c, device |-> d.id]

\* contact_to_response for a row that was read before: it shows the device
\* the contact registered last, and skips a contact without a device.
ContactToResponse(h, c) ==
    /\ req[h].pc = "respond"
    /\ c \in req[h].rows
    /\ answer' = {ContactResponse(req[h].owner, c, d) : d \in PrimaryDevice(devices, c.user)}
    /\ Respond(h, req[h].owner, req[h].rows \ {c})
    /\ UNCHANGED <<devices, contacts, nextId>>

-----------------------------------------------------------------------------
(* GET /contacts, POST /contacts/:id/verify and DELETE /contacts/:id *)

ContactsOf(owner) == {c \in contacts : c.owner = owner}

ListContacts(h, owner) ==
    /\ req[h].pc = "idle"
    /\ ContactsOf(owner) # {}
    /\ Respond(h, owner, ContactsOf(owner))
    /\ answer' = {}
    /\ UNCHANGED <<devices, contacts, nextId>>

\* Mutant: the statement forgets the owner.
OwnedById(id, owner) == {c \in contacts : c.id = id}

\* WHERE contact_id = id AND user_id = owner
Owned(id, owner) == {c \in contacts : c.id = id /\ c.owner = owner}

VerifyContact(h, owner, id, verified) ==
    /\ req[h].pc = "idle"
    /\ \E c \in Owned(id, owner) :
         LET row == [c EXCEPT !.verified = verified] IN
         /\ contacts' = (contacts \ {c}) \cup {row}
         /\ Respond(h, owner, {row})
    /\ answer' = {}
    /\ UNCHANGED <<devices, nextId>>

\* The only value a route passes on.
PostVerify(h, owner, id) == VerifyContact(h, owner, id, TRUE)

\* No row of this owner is an error, and leaves the table as it is.
DeleteContact(owner, id) ==
    /\ contacts' = DeleteRow(contacts, id, owner)
    /\ answer' = {}
    /\ UNCHANGED <<devices, nextId, req>>

Drop(h) ==
    /\ req[h].pc # "idle"
    /\ Become(h, Idle)
    /\ answer' = {}
    /\ UNCHANGED <<devices, contacts, nextId>>

Next ==
    \/ \E u \in Users, id \in RowIds : RegisterDevice(u, id)
    \/ \E h \in Handlers :
         \/ InsertContact(h)
         \/ \E c \in req[h].rows : ContactToResponse(h, c)
         \/ Drop(h)
         \/ \E owner \in Users :
              \/ \E n \in {Number[u] : u \in Users} : PostContact(h, owner, n)
              \/ ListContacts(h, owner)
              \/ \E id \in RowIds : PostVerify(h, owner, id)
    \/ \E owner \in Users, id \in RowIds : DeleteContact(owner, id)

Spec == Init /\ [][Next]_vars

-----------------------------------------------------------------------------
ContactRows == [id : RowIds, owner : Users, user : Users, verified : BOOLEAN,
                number : {FormatConvroNumber(Number[u]) : u \in Users}]

TypeOK ==
    /\ devices \subseteq [id : RowIds, owner : Users, key : RowIds, active : BOOLEAN]
    /\ contacts \subseteq ContactRows
    /\ nextId \in 1..(MaxRows + 1)
    /\ req \in [Handlers -> [pc : {"idle", "insert", "respond"}, owner : Users \cup {None},
                             typed : {Number[u] : u \in Users} \cup {0},
                             user : Users \cup {None}, rows : SUBSET ContactRows]]
    /\ answer \subseteq [to : Users, contact : ContactRows, device : RowIds]

\* Whoever types somebody's six digits adds that person or nobody, although
\* numbers are compared as text and their second group is not padded.
ContactIsWhoWasTyped ==
    \A h \in Handlers : req[h].pc = "insert" => Number[req[h].user] = req[h].typed

\* Two requests for the same person never end in two entries of one list,
\* whether they were typed alike or not.
OneEntryPerPerson ==
    \A c, d \in contacts : c.owner = d.owner /\ c.user = d.user => c = d

\* A response goes to the owner of the entry, and the device it shows is one
\* of the contact's own, whatever was added, verified, deleted or registered
\* since the entry was read.
AnswersShowTheContact ==
    \A a \in answer :
        /\ a.contact.owner = a.to
        /\ \E d \in devices : d.id = a.device /\ d.owner = a.contact.user

\* An entry stays the one of its owner for its person: whatever is shown or
\* verified under its key later is about whom it was added for, and a new
\* entry, also for a person who was deleted, is not verified.
EntriesKeepTheirPerson ==
    [][\A c \in contacts' :
         \/ \E b \in contacts :
              /\ b.id = c.id /\ b.owner = c.owner /\ b.user = c.user
              /\ b.verified => c.verified
         \/ c.id = nextId /\ ~c.verified]_vars
=============================================================================
