--------------------------- MODULE ContactsProofs ---------------------------
(***************************************************************************)
(* The properties of contact lists, for every set of users with different  *)
(* numbers, any number of requests at once and any number of rows.         *)
(*                                                                         *)
(* A request that responds holds rows it has read before; the invariant    *)
(* says that they are its owner's.  A row names a user and the text of a   *)
(* number, and the constraint is on the text: NumbersOK ties the two.      *)
(***************************************************************************)
EXTENDS Contacts, TLAPS

\* The number of a row is the one printed for its user.
NumbersOK == \A c \in contacts : c.number = FormatConvroNumber(Number[c.user])

\* What a request has found before.
RequestsOK ==
    \A h \in Handlers :
        /\ req[h].pc # "idle" => req[h].owner \in Users
        /\ req[h].pc = "insert" => req[h].user \in Users
        /\ \A c \in req[h].rows : c.owner = req[h].owner

IInv ==
    /\ TypeOK
    /\ NumbersOK
    /\ RequestsOK
    /\ ContactIsWhoWasTyped
    /\ OneEntryPerPerson
    /\ AnswersShowTheContact

Requests == [pc : {"idle", "insert", "respond"}, owner : Users \cup {None},
             typed : {Number[u] : u \in Users} \cup {0},
             user : Users \cup {None}, rows : SUBSET ContactRows]

DeviceRows == [id : RowIds, owner : Users, key : RowIds, active : BOOLEAN]

-----------------------------------------------------------------------------
(* Numbers *)

\* Two numbers with the same groups are the same, however wide they print.
LEMMA GroupsName ==
    ASSUME NEW m \in ConvroRange, NEW n \in ConvroRange,
           m \div 1000 = n \div 1000, m % 1000 = n % 1000
    PROVE  m = n
<1>1. m \in Nat /\ n \in Nat
    BY DEF ConvroRange
<1>2. \A x, y \in Nat : x \div 1000 = y \div 1000 /\ x % 1000 = y % 1000 => x = y
    OBVIOUS
<1>. QED BY <1>1, <1>2

\* Whatever text of the six digits n finds a number, finds n.
LEMMA EntriesName ==
    ASSUME NEW n \in ConvroRange, NEW m \in ConvroRange, NEW text \in Entries(n),
           text # NoNumber, FormatConvroNumber(m) = text
    PROVE  m = n
<1>1. /\ text.head.value = n \div 1000
      /\ text.tail.value = n % 1000
    BY DEF Entries, NormalizeDigits, NormalizeText, FormatConvroNumber, Digits, Padded
<1>2. /\ text.head.value = m \div 1000
      /\ text.tail.value = m % 1000
    BY DEF FormatConvroNumber, Digits
<1>. QED BY <1>1, <1>2, GroupsName

-----------------------------------------------------------------------------
(* Requests *)

LEMMA IdleTyped == Idle \in Requests
BY DEF Idle, Requests

LEMMA TypedRequests == TypeOK <=> /\ devices \subseteq DeviceRows
                                  /\ contacts \subseteq ContactRows
                                  /\ nextId \in 1..(MaxRows + 1)
                                  /\ req \in [Handlers -> Requests]
                                  /\ answer \subseteq [to : Users, contact : ContactRows, device : RowIds]
BY DEF TypeOK, Requests, DeviceRows

\* One request goes on to r; what the invariant says of requests is kept when
\* it holds of r.
LEMMA BecomeKeeps ==
    ASSUME IInv, NEW h \in Handlers, NEW r \in Requests, Become(h, r),
           r.pc # "idle" => r.owner \in Users,
           r.pc = "insert" => r.user \in Users /\ Number[r.user] = r.typed,
           \A c \in r.rows : c.owner = r.owner
    PROVE  /\ req' \in [Handlers -> Requests]
           /\ RequestsOK'
           /\ ContactIsWhoWasTyped'
<1>1. req \in [Handlers -> Requests]
    BY TypedRequests DEF IInv
<1>2. /\ req' \in [Handlers -> Requests]
      /\ req'[h] = r
      /\ \A g \in Handlers : g # h => req'[g] = req[g]
    BY <1>1 DEF Become
<1>3. RequestsOK'
    BY <1>2 DEF RequestsOK, IInv
<1>4. ContactIsWhoWasTyped'
    BY <1>2 DEF ContactIsWhoWasTyped, IInv
<1>. QED BY <1>2, <1>3, <1>4

\* Responding with rows of the owner, or with none left.
LEMMA RespondKeeps ==
    ASSUME IInv, NEW h \in Handlers, NEW owner \in Users, NEW rows \in SUBSET ContactRows,
           Respond(h, owner, rows), \A c \in rows : c.owner = owner
    PROVE  /\ req' \in [Handlers -> Requests]
           /\ RequestsOK'
           /\ ContactIsWhoWasTyped'
<1>. DEFINE r == IF rows = {} THEN Idle
                 ELSE [Idle EXCEPT !.pc = "respond", !.owner = owner, !.rows = rows]
<1>1. r \in Requests
    BY DEF Idle, Requests
<1>2. /\ r.pc # "idle" => r.owner \in Users
      /\ r.pc # "insert"
      /\ \A c \in r.rows : c.owner = r.owner
    BY DEF Idle
<1>3. Become(h, r)
    BY DEF Respond
<1>. HIDE DEF r
<1>. QED BY <1>1, <1>2, <1>3, BecomeKeeps

\* Forgetting a request.
LEMMA IdleKeeps ==
    ASSUME IInv, NEW h \in Handlers, Become(h, Idle)
    PROVE  /\ req' \in [Handlers -> Requests]
           /\ RequestsOK'
           /\ ContactIsWhoWasTyped'
<1>1. Idle.pc = "idle" /\ Idle.rows = {}
    BY DEF Idle
<1>. QED BY <1>1, IdleTyped, BecomeKeeps

LEMMA SameRequests ==
    ASSUME IInv, UNCHANGED req
    PROVE  /\ req' \in [Handlers -> Requests]
           /\ RequestsOK'
           /\ ContactIsWhoWasTyped'
BY TypedRequests DEF IInv, RequestsOK, ContactIsWhoWasTyped

\* A step without an answer in it answers nobody wrongly.
LEMMA NoAnswer ==
    ASSUME answer' = {}
    PROVE  AnswersShowTheContact'
BY DEF AnswersShowTheContact

LEMMA SameContacts ==
    ASSUME IInv, UNCHANGED contacts
    PROVE  NumbersOK' /\ OneEntryPerPerson'
BY DEF IInv, NumbersOK, OneEntryPerPerson

-----------------------------------------------------------------------------
(* The steps *)

LEMMA RegisterDeviceStep ==
    ASSUME IInv, NEW u \in Users, NEW id \in RowIds, RegisterDevice(u, id)
    PROVE  IInv'
<1>1. DeviceRow(id, u, id) \in DeviceRows
    BY DEF DeviceRow, DeviceRows
<1>2. TypeOK'
    BY <1>1, TypedRequests, SameRequests DEF IInv, TypeOK, RegisterDevice, DeviceRows, Requests
<1>. QED BY <1>2, SameRequests, SameContacts, NoAnswer DEF IInv, RegisterDevice

LEMMA AddContactStep ==
    ASSUME IInv, NEW h \in Handlers, NEW owner \in Users, NEW v \in Users,
           NEW text \in Entries(Number[v]), AddContact(h, owner, Number[v], text)
    PROVE  IInv'
<1>0. PICK x \in UserTable :
        /\ x.number = text /\ text # NoNumber
        /\ Become(h, [Idle EXCEPT !.pc = "insert", !.owner = owner, !.typed = Number[v],
                                  !.user = x.id])
    BY DEF AddContact, FindByConvroNumber
<1>1. PICK u \in Users :
        /\ FormatConvroNumber(Number[u]) = text /\ text # NoNumber
        /\ Become(h, [Idle EXCEPT !.pc = "insert", !.owner = owner, !.typed = Number[v],
                                  !.user = u])
  <2>1. PICK u \in Users : x = [id |-> u, number |-> FormatConvroNumber(Number[u])]
      BY DEF UserTable
  <2>2. x.id = u /\ x.number = FormatConvroNumber(Number[u])
      BY <2>1
  <2>. QED BY <1>0, <2>2
<1>2. Number[u] = Number[v]
    BY <1>1, EntriesName, NumberAssumption
<1>. DEFINE r == [Idle EXCEPT !.pc = "insert", !.owner = owner, !.typed = Number[v], !.user = u]
<1>3. r \in Requests /\ r.owner \in Users /\ r.user \in Users /\ Number[r.user] = r.typed
      /\ r.rows = {}
    BY <1>2 DEF Idle, Requests
<1>4. Become(h, r)
    BY <1>1
<1>. HIDE DEF r
<1>5. req' \in [Handlers -> Requests] /\ RequestsOK' /\ ContactIsWhoWasTyped'
    BY <1>3, <1>4, BecomeKeeps
<1>6. TypeOK'
    BY <1>5 DEF IInv, TypeOK, AddContact, Requests
<1>. QED BY <1>5, <1>6, SameContacts, NoAnswer DEF IInv, AddContact

LEMMA InsertContactStep ==
    ASSUME IInv, NEW h \in Handlers, InsertContact(h)
    PROVE  IInv'
<1>. DEFINE owner  == req[h].owner
            u      == req[h].user
            number == FormatConvroNumber(Number[u])
            row    == ContactRow(nextId, owner, number, u)
<1>1. owner \in Users /\ u \in Users
    BY DEF InsertContact, IInv, RequestsOK
<1>2. CASE ContactExists(contacts, owner, number)
  <2>1. Become(h, Idle) /\ UNCHANGED <<contacts, nextId, devices>> /\ answer' = {}
      BY <1>2 DEF InsertContact
  <2>2. TypeOK'
      BY <2>1, IdleKeeps DEF IInv, TypeOK, Requests
  <2>. QED BY <2>1, <2>2, IdleKeeps, SameContacts, NoAnswer DEF IInv
<1>3. CASE ~ContactExists(contacts, owner, number)
  <2>1. /\ nextId \in RowIds
        /\ contacts' = contacts \cup {row}
        /\ nextId' = nextId + 1
        /\ Respond(h, owner, {row})
        /\ answer' = {} /\ UNCHANGED devices
      BY <1>3 DEF InsertContact
  <2>2. row = [id |-> nextId, owner |-> owner, number |-> number, user |-> u, verified |-> FALSE]
      BY DEF ContactRow
  <2>3. row \in ContactRows
      BY <1>1, <2>1, <2>2 DEF ContactRows
  <2>4. req' \in [Handlers -> Requests] /\ RequestsOK' /\ ContactIsWhoWasTyped'
    <3>1. \A c \in {row} : c.owner = owner
        BY <2>2
    <3>. HIDE DEF row, owner
    <3>. QED BY <1>1, <2>1, <2>3, <3>1, RespondKeeps
  <2>5. nextId' \in 1..(MaxRows + 1)
      BY <2>1, MaxRowsIsNat DEF RowIds
  <2>6. TypeOK'
      BY <2>1, <2>3, <2>4, <2>5 DEF IInv, TypeOK, Requests
  <2>7. NumbersOK'
      BY <2>1, <2>2 DEF IInv, NumbersOK
  <2>8. OneEntryPerPerson'
    <3>1. ASSUME NEW c \in contacts, c.owner = owner, c.user = u PROVE FALSE
      <4>1. c.number = number
          BY <3>1 DEF IInv, NumbersOK
      <4>. QED BY <1>3, <3>1, <4>1 DEF ContactExists
    <3>2. row.owner = owner /\ row.user = u
        BY <2>2
    <3>3. contacts' = contacts \cup {row}
        BY <2>1
    <3>. HIDE DEF row, owner, u
    <3>. QED BY <3>1, <3>2, <3>3 DEF IInv, OneEntryPerPerson
  <2>. QED BY <2>1, <2>4, <2>6, <2>7, <2>8, NoAnswer DEF IInv
<1>. QED BY <1>2, <1>3

LEMMA ContactToResponseStep ==
    ASSUME IInv, NEW h \in Handlers, NEW c \in req[h].rows, ContactToResponse(h, c)
    PROVE  IInv'
<1>1. /\ req[h].owner \in Users
      /\ req[h].rows \subseteq ContactRows
      /\ \A b \in req[h].rows : b.owner = req[h].owner
    BY TypedRequests DEF ContactToResponse, IInv, RequestsOK, Requests
<1>2. req' \in [Handlers -> Requests] /\ RequestsOK' /\ ContactIsWhoWasTyped'
    BY <1>1, RespondKeeps DEF ContactToResponse
<1>3. \A d \in PrimaryDevice(devices, c.user) :
        d \in devices /\ d.owner = c.user /\ d.id \in RowIds
    BY DEF PrimaryDevice, ListByUser, IInv, TypeOK
<1>4. \A a \in answer' : \E d \in PrimaryDevice(devices, c.user) :
        a = [to |-> req[h].owner, contact |-> c, device |-> d.id]
    BY DEF ContactToResponse, ContactResponse
<1>5. AnswersShowTheContact'
    BY <1>1, <1>3, <1>4 DEF AnswersShowTheContact, ContactToResponse
<1>6. answer' \subseteq [to : Users, contact : ContactRows, device : RowIds]
    BY <1>1, <1>3, <1>4
<1>7. TypeOK'
    BY <1>2, <1>6 DEF IInv, TypeOK, ContactToResponse, Requests
<1>. QED BY <1>2, <1>5, <1>7, SameContacts DEF IInv, ContactToResponse

LEMMA ListContactsStep ==
    ASSUME IInv, NEW h \in Handlers, NEW owner \in Users, ListContacts(h, owner)
    PROVE  IInv'
<1>1. /\ ContactsOf(owner) \in SUBSET ContactRows
      /\ \A c \in ContactsOf(owner) : c.owner = owner
    BY DEF ContactsOf, IInv, TypeOK
<1>2. req' \in [Handlers -> Requests] /\ RequestsOK' /\ ContactIsWhoWasTyped'
    BY <1>1, RespondKeeps DEF ListContacts
<1>3. TypeOK'
    BY <1>2 DEF IInv, TypeOK, ListContacts, Requests
<1>. QED BY <1>2, <1>3, SameContacts, NoAnswer DEF IInv, ListContacts

\* A verified row is the row it was, but for the mark.
LEMMA VerifyContactStep ==
    ASSUME IInv, NEW h \in Handlers, NEW owner \in Users, NEW id \in RowIds,
           PostVerify(h, owner, id)
    PROVE  IInv'
<1>1. PICK c \in contacts :
        /\ c.owner = owner
        /\ contacts' = (contacts \ {c}) \cup {[c EXCEPT !.verified = TRUE]}
        /\ Respond(h, owner, {[c EXCEPT !.verified = TRUE]})
    BY DEF PostVerify, VerifyContact, Owned
<1>. DEFINE row == [c EXCEPT !.verified = TRUE]
<1>2. c \in ContactRows
    BY DEF IInv, TypeOK
<1>3. /\ row \in ContactRows /\ row.owner = owner
      /\ row.owner = c.owner /\ row.user = c.user /\ row.number = c.number
    BY <1>1, <1>2 DEF ContactRows
<1>4. contacts' = (contacts \ {c}) \cup {row} /\ Respond(h, owner, {row})
    BY <1>1
<1>. HIDE DEF row
<1>5. req' \in [Handlers -> Requests] /\ RequestsOK' /\ ContactIsWhoWasTyped'
    BY <1>3, <1>4, RespondKeeps
<1>6. answer' = {} /\ UNCHANGED <<devices, nextId>>
    BY DEF PostVerify, VerifyContact
<1>7. TypeOK'
    BY <1>3, <1>4, <1>5, <1>6 DEF IInv, TypeOK, Requests
<1>8. NumbersOK'
    BY <1>3, <1>4 DEF IInv, NumbersOK
<1>9. OneEntryPerPerson'
    BY <1>3, <1>4 DEF IInv, OneEntryPerPerson
<1>. QED BY <1>5, <1>6, <1>7, <1>8, <1>9, NoAnswer DEF IInv

LEMMA DeleteContactStep ==
    ASSUME IInv, NEW owner \in Users, NEW id \in RowIds, DeleteContact(owner, id)
    PROVE  IInv'
<1>1. contacts' \subseteq contacts
    BY DEF DeleteContact, DeleteRow
<1>2. NumbersOK' /\ OneEntryPerPerson'
    BY <1>1 DEF IInv, NumbersOK, OneEntryPerPerson
<1>3. TypeOK'
    BY <1>1 DEF IInv, TypeOK, DeleteContact
<1>. QED BY <1>2, <1>3, SameRequests, NoAnswer DEF IInv, DeleteContact

LEMMA DropStep ==
    ASSUME IInv, NEW h \in Handlers, Drop(h)
    PROVE  IInv'
<1>1. TypeOK'
    BY IdleKeeps DEF IInv, TypeOK, Drop, Requests
<1>. QED BY <1>1, IdleKeeps, SameContacts, NoAnswer DEF IInv, Drop

-----------------------------------------------------------------------------
LEMMA InitIInv == Init => IInv
<1>. SUFFICES ASSUME Init PROVE IInv
    OBVIOUS
<1>1. \A h \in Handlers : req[h] = Idle
    BY DEF Init
<1>2. TypeOK
    BY IdleTyped, MaxRowsIsNat DEF Init, TypeOK, Requests
<1>3. Idle.pc = "idle" /\ Idle.rows = {}
    BY DEF Idle
<1>4. RequestsOK /\ ContactIsWhoWasTyped
    BY <1>1, <1>3 DEF RequestsOK, ContactIsWhoWasTyped
<1>. QED BY <1>2, <1>4 DEF Init, IInv, NumbersOK, OneEntryPerPerson, AnswersShowTheContact

LEMMA NextIInv == IInv /\ [Next]_vars => IInv'
<1>. SUFFICES ASSUME IInv, [Next]_vars PROVE IInv'
    OBVIOUS
<1>1. CASE \E u \in Users, id \in RowIds : RegisterDevice(u, id)
    BY <1>1, RegisterDeviceStep
<1>2. ASSUME NEW h \in Handlers, InsertContact(h) PROVE IInv'
    BY <1>2, InsertContactStep
<1>3. ASSUME NEW h \in Handlers, NEW c \in req[h].rows, ContactToResponse(h, c) PROVE IInv'
    BY <1>3, ContactToResponseStep
<1>4. ASSUME NEW h \in Handlers, Drop(h) PROVE IInv'
    BY <1>4, DropStep
<1>5. ASSUME NEW h \in Handlers, NEW owner \in Users, NEW u \in Users,
             PostContact(h, owner, Number[u])
      PROVE  IInv'
    BY <1>5, AddContactStep DEF PostContact
<1>6. ASSUME NEW h \in Handlers, NEW owner \in Users, ListContacts(h, owner) PROVE IInv'
    BY <1>6, ListContactsStep
<1>7. ASSUME NEW h \in Handlers, NEW owner \in Users, NEW id \in RowIds,
             PostVerify(h, owner, id)
      PROVE  IInv'
    BY <1>7, VerifyContactStep
<1>8. CASE \E owner \in Users, id \in RowIds : DeleteContact(owner, id)
    BY <1>8, DeleteContactStep
<1>9. CASE UNCHANGED vars
    BY <1>9, SameRequests, SameContacts
       DEF vars, IInv, TypeOK, AnswersShowTheContact
<1>. QED BY <1>1, <1>2, <1>3, <1>4, <1>5, <1>6, <1>7, <1>8, <1>9 DEF Next

LEMMA Invariance == Spec => []IInv
<1>. QED BY InitIInv, NextIInv, PTL DEF Spec

\* Every table and every request keeps its type, for any number of rows.
THEOREM ContactTypes == Spec => []TypeOK
<1>1. IInv => TypeOK
    BY DEF IInv
<1>. QED BY <1>1, Invariance, PTL

\* Numbers that are printed without padding and compared as text find the
\* person whose six digits were typed, or nobody.
THEOREM TypedIsFound == Spec => []ContactIsWhoWasTyped
<1>1. IInv => ContactIsWhoWasTyped
    BY DEF IInv
<1>. QED BY <1>1, Invariance, PTL

\* No list ever has two entries for one person.
THEOREM PersonsOnce == Spec => []OneEntryPerPerson
<1>1. IInv => OneEntryPerPerson
    BY DEF IInv
<1>. QED BY <1>1, Invariance, PTL

\* An answer shows an entry of the person who asked, with a device of the
\* contact.
THEOREM AnswersAreRight == Spec => []AnswersShowTheContact
<1>1. IInv => AnswersShowTheContact
    BY DEF IInv
<1>. QED BY <1>1, Invariance, PTL

\* The rows that are there after a step are those that were, with their person
\* and their mark, or the new one.
THEOREM EntriesStay == Spec => EntriesKeepTheirPerson
<1>. DEFINE Kept == \A c \in contacts' :
                      \/ \E b \in contacts :
                           /\ b.id = c.id /\ b.owner = c.owner /\ b.user = c.user
                           /\ b.verified => c.verified
                      \/ c.id = nextId /\ ~c.verified
<1>1. IInv /\ [Next]_vars => [Kept]_vars
  <2>. SUFFICES ASSUME IInv, Next PROVE Kept
      OBVIOUS
  <2>1. contacts' \subseteq contacts => Kept
      OBVIOUS
  <2>2. ASSUME NEW h \in Handlers, InsertContact(h) PROVE Kept
    <3>1. \/ UNCHANGED contacts
          \/ \E owner, number, user :
                contacts' = contacts \cup {ContactRow(nextId, owner, number, user)}
        BY <2>2 DEF InsertContact
    <3>. QED BY <2>1, <3>1 DEF ContactRow
  <2>3. ASSUME NEW h \in Handlers, NEW owner \in Users, NEW id \in RowIds,
               PostVerify(h, owner, id)
        PROVE  Kept
    <3>1. PICK c \in contacts :
            contacts' = (contacts \ {c}) \cup {[c EXCEPT !.verified = TRUE]}
        BY <2>3 DEF PostVerify, VerifyContact, Owned
    <3>2. c \in ContactRows
        BY DEF IInv, TypeOK
    <3>3. /\ [c EXCEPT !.verified = TRUE].id = c.id
          /\ [c EXCEPT !.verified = TRUE].owner = c.owner
          /\ [c EXCEPT !.verified = TRUE].user = c.user
          /\ [c EXCEPT !.verified = TRUE].verified
        BY <3>2 DEF ContactRows
    <3>. QED BY <3>1, <3>3
  <2>4. ASSUME NEW owner \in Users, NEW id \in RowIds, DeleteContact(owner, id) PROVE Kept
      BY <2>1, <2>4 DEF DeleteContact, DeleteRow
  <2>5. \/ UNCHANGED contacts
        \/ \E h \in Handlers : InsertContact(h)
        \/ \E h \in Handlers, owner \in Users, id \in RowIds : PostVerify(h, owner, id)
        \/ \E owner \in Users, id \in RowIds : DeleteContact(owner, id)
      BY DEF Next, RegisterDevice, ContactToResponse, Drop, PostContact, AddContact, ListContacts
  <2>. QED BY <2>1, <2>2, <2>3, <2>4, <2>5
<1>. QED BY <1>1, Invariance, PTL DEF Spec, EntriesKeepTheirPerson
=============================================================================
