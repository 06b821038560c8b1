--------------------------- MODULE AccountsProofs ---------------------------
(***************************************************************************)
(* The properties of accounts and devices, for every number of requests at *)
(* once, every set of people, names, numbers and devices, and every bound. *)
(*                                                                         *)
(* A request carries what its earlier statements have found and written:   *)
(* the invariant says that this still holds of the tables when the next    *)
(* statement runs.  It does, because rows are only ever added, or change   *)
(* their mark of being active.  The one thing a request relies on that     *)
(* others may undo, the second active device, is in DeactOK.               *)
(***************************************************************************)
EXTENDS Accounts, TLAPS

\* The person has proved to be the one of the account.
Owns(person, user) == \E u \in users : u.id = user /\ u.password = person

BelongsTo(device, user) == \E d \in devices : d.id = device /\ d.owner = user

\* What a request may rely on.
RecOK(r) ==
    /\ r \in Requests
    /\ r.pc \in {"number", "create"} => r.person \in Persons /\ r.username \in Usernames
    /\ r.pc = "create" => r.number \in Numbers
    /\ r.pc \in {"device", "prekeys", "touch"} => r.person \in Persons /\ Owns(r.person, r.user)
    /\ r.pc \in {"prekeys", "registered"} => BelongsTo(r.device, r.user)
    /\ r.pc = "registered" => /\ \E u \in users : u.id = r.user
                              /\ r.device \in bundles

ReqsOK ==
    /\ req \in [Handlers -> Requests]
    /\ \A h \in Handlers : RecOK(req[h])

TablesOK ==
    /\ users \subseteq UserRows
    /\ devices \subseteq DeviceRows
    /\ bundles \subseteq RowIds
    /\ raced \subseteq RowIds
    /\ UniqueRows

TokenRows == [holder : Persons, sub : RowIds, type : {"access", "refresh"}]

TokensOK == tokens \subseteq TokenRows /\ TokensOnlyToOwner

\* A deactivation that overlaps no other of its user finds two active devices.
DeactOK ==
    \A h \in Handlers :
        req[h].pc = "deactivate" /\ req[h].user \notin raced =>
            /\ ~AtMostOneActive(req[h].user)
            /\ \A g \in Handlers :
                 req[g].pc = "deactivate" /\ req[g].user = req[h].user => g = h

IInv == TablesOK /\ TokensOK /\ ReqsOK /\ DeactOK /\ KeepsADevice

\* Rows are added, and keep all but their mark of being active.
Grows ==
    /\ users \subseteq users'
    /\ bundles \subseteq bundles'
    /\ raced \subseteq raced'
    /\ \A d \in devices : \E e \in devices' : e.id = d.id /\ e.owner = d.owner

-----------------------------------------------------------------------------
\* What a request relies on outlasts every step of the others.
LEMMA RecOKStays ==
    ASSUME Grows, NEW r, RecOK(r)
    PROVE  RecOK(r)'
<1>1. Owns(r.person, r.user) => Owns(r.person, r.user)'
    BY DEF Owns, Grows
<1>2. BelongsTo(r.device, r.user) => BelongsTo(r.device, r.user)'
    BY DEF BelongsTo, Grows
<1>3. (\E u \in users : u.id = r.user) => (\E u \in users' : u.id = r.user)
    BY DEF Grows
<1>4. r.device \in bundles => r.device \in bundles'
    BY DEF Grows
<1>. QED BY <1>1, <1>2, <1>3, <1>4 DEF RecOK

LEMMA ReqsOKStep ==
    ASSUME ReqsOK, Grows,
           NEW h \in Handlers, NEW r, RecOK(r)', req' = [req EXCEPT ![h] = r]
    PROVE  ReqsOK'
<1>1. r \in Requests
    BY DEF RecOK, Requests
<1>2. req' \in [Handlers -> Requests]
    BY <1>1 DEF ReqsOK
<1>3. ASSUME NEW g \in Handlers PROVE RecOK(req[g])'
  <2>1. CASE g = h
      BY <2>1 DEF ReqsOK
  <2>2. CASE g # h
    <3>1. PICK q : q = req[g]
        OBVIOUS
    <3>2. RecOK(q)
        BY <3>1 DEF ReqsOK
    <3>3. RecOK(q)'
        BY <3>2, RecOKStays
    <3>4. req'[g] = q
        BY <2>2, <3>1 DEF ReqsOK
    <3>. QED BY <3>3, <3>4 DEF RecOK, Owns, BelongsTo
  <2>. QED BY <2>1, <2>2
<1>. QED BY <1>2, <1>3 DEF ReqsOK

LEMMA ReqsOKSame ==
    ASSUME ReqsOK, Grows, UNCHANGED req
    PROVE  ReqsOK'
<1>1. ASSUME NEW g \in Handlers PROVE RecOK(req[g])'
  <2>1. PICK q : q = req[g]
      OBVIOUS
  <2>2. RecOK(q)
      BY <2>1 DEF ReqsOK
  <2>3. RecOK(q)'
      BY <2>2, RecOKStays
  <2>. QED BY <2>1, <2>3 DEF RecOK, Owns, BelongsTo
<1>. QED BY <1>1 DEF ReqsOK

\* Steps that touch requests only.
LEMMA GrowsSame ==
    ASSUME UNCHANGED <<users, devices, bundles, raced>>
    PROVE  Grows
BY DEF Grows

LEMMA NoRequestTyped == NoRequest \in Requests
BY AttemptsAssumption DEF NoRequest, Requests, Answers

LEMMA NoRequestOK == RecOK(NoRequest)
BY AttemptsAssumption DEF RecOK, NoRequest, Requests, Busy, Answers

LEMMA NoRequestOKNext == RecOK(NoRequest)'
BY AttemptsAssumption DEF RecOK, NoRequest, Requests, Busy, Answers

\* A step after which fewer requests deactivate leaves the others as they were.
LEMMA DeactOKFewer ==
    ASSUME ReqsOK, DeactOK, UNCHANGED <<devices, raced>>,
           NEW h \in Handlers, NEW r, r.pc # "deactivate", req' = [req EXCEPT ![h] = r]
    PROVE  DeactOK'
<1>1. \A g \in Handlers : req'[g] = IF g = h THEN r ELSE req[g]
    BY DEF ReqsOK
<1>2. \A u : AtMostOneActive(u)' <=> AtMostOneActive(u)
    BY DEF AtMostOneActive, ActiveDevices, ListByUser
<1>. QED BY <1>1, <1>2 DEF DeactOK

\* The effect of a step that changes one request and no table.
LEMMA RequestStep ==
    ASSUME IInv, UNCHANGED <<users, devices, bundles, tokens, raced>>,
           NEW h \in Handlers, NEW r, RecOK(r), r.pc # "deactivate",
           req' = [req EXCEPT ![h] = r]
    PROVE  IInv'
<1>1. Grows
    BY GrowsSame
<1>2. RecOK(r)'
    BY <1>1, RecOKStays
<1>3. ReqsOK'
    BY <1>1, <1>2, ReqsOKStep DEF IInv
<1>4. DeactOK'
    BY DeactOKFewer DEF IInv
<1>5. TablesOK' /\ TokensOK' /\ KeepsADevice'
    BY DEF IInv, TablesOK, TokensOK, KeepsADevice, UniqueRows, TokensOnlyToOwner,
           ActiveDevices, ListByUser
<1>. QED BY <1>3, <1>4, <1>5 DEF IInv

LEMMA RefuseStep ==
    ASSUME IInv, NEW h \in Handlers, Refuse(h)
    PROVE  IInv'
BY NoRequestOK, RequestStep DEF Refuse, Answer, Done, NoRequest

LEMMA DropStep ==
    ASSUME IInv, NEW h \in Handlers, Drop(h)
    PROVE  IInv'
BY NoRequestOK, RequestStep DEF Drop, Answer, Done, NoRequest

LEMMA RegisterStep ==
    ASSUME IInv, NEW h \in Handlers, NEW p \in Persons, NEW name \in Usernames,
           Register(h, p, name)
    PROVE  IInv'
<1>. DEFINE r == [NoRequest EXCEPT !.pc = "number", !.person = p, !.username = name]
<1>1. RecOK(r) /\ r.pc # "deactivate"
  <2>1. r.pc = "number" /\ r.person = p /\ r.username = name
      BY DEF NoRequest
  <2>2. r \in Requests
      BY NoRequestTyped DEF Requests, Busy
  <2>. QED BY <2>1, <2>2 DEF RecOK
<1>2. /\ req' = [req EXCEPT ![h] = r]
      /\ UNCHANGED <<users, devices, bundles, tokens, raced>>
    BY DEF Register, Answer
<1>. HIDE DEF r
<1>. QED BY <1>1, <1>2, RequestStep

LEMMA LoginStep ==
    ASSUME IInv, NEW h \in Handlers, NEW p \in Persons, NEW name \in Usernames,
           Login(h, p, name)
    PROVE  IInv'
<1>1. PICK u \in users :
         /\ u.password = p
         /\ Answer(h, [NoRequest EXCEPT !.pc = "touch", !.person = p, !.user = u.id])
    BY DEF Login, FindByUsername, LoginAllowed
<1>. DEFINE r == [NoRequest EXCEPT !.pc = "touch", !.person = p, !.user = u.id]
<1>2. u.id \in RowIds
    BY DEF IInv, TablesOK, UserRows
<1>3. RecOK(r) /\ r.pc # "deactivate"
  <2>1. r.pc = "touch" /\ r.person = p /\ r.user = u.id
      BY DEF NoRequest
  <2>2. r \in Requests
      BY <1>2, NoRequestTyped DEF Requests, Busy
  <2>3. Owns(p, u.id)
      BY <1>1 DEF Owns
  <2>. QED BY <2>1, <2>2, <2>3 DEF RecOK
<1>4. /\ req' = [req EXCEPT ![h] = r]
      /\ UNCHANGED <<users, devices, bundles, tokens, raced>>
    BY <1>1 DEF Login, Answer
<1>. HIDE DEF r
<1>. QED BY <1>3, <1>4, RequestStep

LEMMA DrawNumberStep ==
    ASSUME IInv, NEW h \in Handlers, NEW n \in Numbers, DrawNumber(h, n)
    PROVE  IInv'
<1>1. /\ req[h] \in Requests /\ req[h].pc = "number"
      /\ req[h].person \in Persons /\ req[h].username \in Usernames
      /\ req \in [Handlers -> Requests]
    BY DEF IInv, ReqsOK, RecOK, DrawNumber
<1>2. UNCHANGED <<users, devices, bundles, tokens, raced>>
    BY DEF DrawNumber
<1>3. CASE IsConvroNumberAvailable(users, FormatConvroNumber(n))
  <2>. DEFINE r == [req[h] EXCEPT !.pc = "create", !.number = n]
  <2>1. req' = [req EXCEPT ![h] = r]
      BY <1>1, <1>3 DEF DrawNumber
  <2>2. RecOK(r) /\ r.pc # "deactivate"
      BY <1>1 DEF RecOK, Requests, Busy, Answers
  <2>. HIDE DEF r
  <2>. QED BY <1>2, <2>1, <2>2, RequestStep
<1>4. CASE ~IsConvroNumberAvailable(users, FormatConvroNumber(n)) /\ LastAttempt(req[h])
    BY <1>2, <1>4, NoRequestOK, RequestStep DEF DrawNumber, Answer, Done, NoRequest
<1>5. CASE ~IsConvroNumberAvailable(users, FormatConvroNumber(n)) /\ ~LastAttempt(req[h])
  <2>. DEFINE r == [req[h] EXCEPT !.tries = @ + 1]
  <2>1. req' = [req EXCEPT ![h] = r]
      BY <1>1, <1>5 DEF DrawNumber
  <2>2. req[h].tries + 1 \in 0..(MaxAttempts - 1)
    <3>1. req[h].tries \in 0..(MaxAttempts - 1)
        BY <1>1 DEF Requests
    <3>2. req[h].tries + 1 # MaxAttempts
        BY <1>5 DEF LastAttempt
    <3>. QED BY <3>1, <3>2, AttemptsAssumption
  <2>3. RecOK(r) /\ r.pc # "deactivate"
      BY <1>1, <2>2 DEF RecOK, Requests, Busy, Answers
  <2>. HIDE DEF r
  <2>. QED BY <1>2, <2>1, <2>3, RequestStep
<1>. QED BY <1>3, <1>4, <1>5

\* The row of a new user differs from all others in its key, name and number.
LEMMA CreateUserStep ==
    ASSUME IInv, NEW h \in Handlers, NEW form \in RegistrationForms, NEW id \in RowIds,
           CreateUser(h, form, id)
    PROVE  IInv'
<1>0. PICK q : q = req[h]
    OBVIOUS
<1>. DEFINE number == FormatConvroNumber(q.number)
<1>1. /\ q \in Requests /\ q.pc = "create" /\ req \in [Handlers -> Requests]
      /\ q.person \in Persons /\ q.username \in Usernames /\ q.number \in Numbers
    BY <1>0 DEF IInv, ReqsOK, RecOK, CreateUser
<1>2. UNCHANGED <<devices, bundles, tokens, raced>>
    BY DEF CreateUser
<1>3. CASE UserExists(users, q.username, number)
    BY <1>0, <1>2, <1>3, NoRequestOK, RequestStep
       DEF CreateUser, NumberOrNameTaken, Answer, Done, NoRequest
<1>4. CASE ~UserExists(users, q.username, number)
  <2>. DEFINE new == UserRow(id, q.username, number, q.person)
              r == IF form = "bad device keys" THEN NoRequest
                   ELSE [NoRequest EXCEPT !.pc = "device", !.person = q.person,
                                          !.user = id, !.form = form]
  <2>1. /\ NewId(users, id)
        /\ users' = users \cup {new}
        /\ req' = [req EXCEPT ![h] = r]
      BY <1>0, <1>4 DEF CreateUser, Answer, Done
  <2>2. /\ new \in UserRows /\ new.id = id /\ new.password = q.person
        /\ new.username = q.username /\ new.number = number
      BY <1>1 DEF UserRow, UserRows
  <2>3. \A u \in users : u.id \in RowIds /\ u.id < id
      BY <2>1 DEF NewId, IInv, TablesOK, UserRows
  <2>4. \A u \in users : u.id # id /\ u.username # q.username /\ u.number # number
      BY <1>4, <2>3, MaxRowsIsNat DEF UserExists, RowIds
  <2>. HIDE DEF new
  <2>5. Grows
      BY <1>2, <2>1 DEF Grows
  <2>6. TablesOK'
    <3>. HIDE DEF number
    <3>1. \A u, v \in users' : u.id = v.id \/ u.username = v.username \/ u.number = v.number
                               => u = v
        BY <2>1, <2>2, <2>4 DEF IInv, TablesOK, UniqueRows
    <3>2. users' \subseteq UserRows
        BY <2>1, <2>2 DEF IInv, TablesOK
    <3>. QED BY <1>2, <3>1, <3>2 DEF IInv, TablesOK, UniqueRows
  <2>7. TokensOK'
      BY <1>2, <2>1 DEF IInv, TokensOK, TokensOnlyToOwner
  <2>8. RecOK(r)' /\ r.pc # "deactivate"
    <3>1. CASE form = "bad device keys"
        BY <3>1, NoRequestOKNext DEF NoRequest
    <3>2. CASE form # "bad device keys"
      <4>1. r.pc = "device" /\ r.person = q.person /\ r.user = id
          BY <3>2 DEF NoRequest
      <4>2. r \in Requests
          BY <1>1, <3>2, NoRequestTyped DEF Requests, Busy, RegistrationForms
      <4>3. Owns(q.person, id)'
          BY <2>1, <2>2 DEF Owns
      <4>. QED BY <1>1, <4>1, <4>2, <4>3 DEF RecOK, Owns, Requests
    <3>. QED BY <3>1, <3>2
  <2>. HIDE DEF r
  <2>9. ReqsOK'
      BY <2>1, <2>5, <2>8, ReqsOKStep DEF IInv
  <2>10. DeactOK' /\ KeepsADevice'
    <3>1. DeactOK'
        BY <1>2, <2>1, <2>8, DeactOKFewer DEF IInv
    <3>2. KeepsADevice'
        BY <1>2 DEF IInv, KeepsADevice, ActiveDevices, ListByUser
    <3>. QED BY <3>1, <3>2
  <2>. QED BY <2>6, <2>7, <2>9, <2>10 DEF IInv
<1>. QED BY <1>3, <1>4

\* The row of a new device differs from all others in its key and device id.
LEMMA NewDevice ==
    ASSUME TablesOK, NEW key \in DeviceKeys, NEW id \in RowIds, NEW owner \in RowIds,
           ~DeviceExists(devices, key), NewId(devices, id),
           devices' = devices \cup {DeviceRow(id, owner, key)},
           UNCHANGED <<users, bundles, raced>>
    PROVE  /\ TablesOK' /\ Grows
           /\ BelongsTo(id, owner)'
<1>. DEFINE new == DeviceRow(id, owner, key)
<1>1. new \in DeviceRows /\ new.id = id /\ new.owner = owner /\ new.key = key
    BY DEF DeviceRow, DeviceRows
<1>2. \A d \in devices : d.id # id /\ d.key # key
  <2>1. \A d \in devices : d.id \in RowIds /\ d.id < id
      BY DEF NewId, TablesOK, DeviceRows
  <2>. QED BY <2>1, MaxRowsIsNat DEF DeviceExists, RowIds
<1>. HIDE DEF new
<1>3. devices' = devices \cup {new}
    BY DEF new
<1>4. \A c, d \in devices' : c.id = d.id \/ c.key = d.key => c = d
    BY <1>1, <1>2, <1>3 DEF TablesOK, UniqueRows
<1>5. TablesOK'
    BY <1>1, <1>3, <1>4 DEF TablesOK, UniqueRows
<1>6. Grows
    BY <1>3 DEF Grows
<1>7. BelongsTo(id, owner)'
    BY <1>1, <1>3 DEF BelongsTo
<1>. QED BY <1>5, <1>6, <1>7

\* The new device is active, and nobody has fewer active devices than before.
LEMMA NewDeviceActive ==
    ASSUME NEW key, NEW id, NEW owner, KeepsADevice,
           devices' = devices \cup {DeviceRow(id, owner, key)}, UNCHANGED raced
    PROVE  /\ KeepsADevice'
           /\ \A u : ~AtMostOneActive(u) => ~AtMostOneActive(u)'
<1>. DEFINE new == DeviceRow(id, owner, key)
<1>1. new.owner = owner /\ new.active = TRUE
    BY DEF DeviceRow
<1>. HIDE DEF new
<1>2. devices' = devices \cup {new}
    BY DEF new
<1>3. \A u : ActiveDevices(devices, u) \subseteq ActiveDevices(devices', u)
    BY <1>2 DEF ActiveDevices, ListByUser
<1>4. new \in ActiveDevices(devices', owner)
    BY <1>1, <1>2 DEF ActiveDevices, ListByUser
<1>5. KeepsADevice'
    BY <1>2, <1>3, <1>4, <1>1 DEF KeepsADevice
<1>6. \A u : ~AtMostOneActive(u) => ~AtMostOneActive(u)'
    BY <1>3 DEF AtMostOneActive
<1>. QED BY <1>5, <1>6

\* Deactivations go on with what they found.
LEMMA DeactOKGrows ==
    ASSUME ReqsOK, DeactOK, UNCHANGED raced,
           \A u : ~AtMostOneActive(u) => ~AtMostOneActive(u)',
           NEW h \in Handlers, NEW r, r.pc # "deactivate", req' = [req EXCEPT ![h] = r]
    PROVE  DeactOK'
<1>1. \A g \in Handlers : req'[g] = IF g = h THEN r ELSE req[g]
    BY DEF ReqsOK
<1>. QED
  <2>1. SUFFICES ASSUME NEW g \in Handlers, req'[g].pc = "deactivate",
                        req'[g].user \notin raced'
                 PROVE  /\ ~AtMostOneActive(req[g].user)'
                        /\ \A k \in Handlers :
                             req'[k].pc = "deactivate" /\ req'[k].user = req'[g].user => k = g
      BY DEF DeactOK
  <2>2. g # h /\ req'[g] = req[g]
      BY <1>1, <2>1
  <2>3. /\ ~AtMostOneActive(req[g].user)
        /\ \A k \in Handlers :
             req[k].pc = "deactivate" /\ req[k].user = req[g].user => k = g
      BY <2>1, <2>2 DEF DeactOK
  <2>4. PICK u : u = req[g].user
      OBVIOUS
  <2>5. ~AtMostOneActive(u)'
      BY <2>3, <2>4
  <2>6. ~AtMostOneActive(req[g].user)'
      BY <2>2, <2>4, <2>5 DEF AtMostOneActive
  <2>. QED BY <1>1, <2>2, <2>3, <2>6

LEMMA CreateDeviceStep ==
    ASSUME IInv, NEW h \in Handlers, NEW key \in DeviceKeys, NEW id \in RowIds,
           CreateDevice(h, key, id)
    PROVE  IInv'
<1>0. PICK q : q = req[h]
    OBVIOUS
<1>1. /\ q \in Requests /\ q.pc = "device" /\ req \in [Handlers -> Requests]
      /\ q.person \in Persons /\ Owns(q.person, q.user)
    BY <1>0 DEF IInv, ReqsOK, RecOK, CreateDevice
<1>2. UNCHANGED <<users, bundles, tokens, raced>>
    BY DEF CreateDevice
<1>3. CASE DeviceExists(devices, key)
    BY <1>0, <1>2, <1>3, NoRequestOK, RequestStep
       DEF CreateDevice, DeviceTaken, Answer, Done, NoRequest
<1>4. CASE ~DeviceExists(devices, key)
  <2>. DEFINE r == IF q.form = "bad prekeys" THEN NoRequest
                   ELSE [q EXCEPT !.pc = "prekeys", !.device = id]
  <2>1. /\ NewId(devices, id)
        /\ devices' = devices \cup {DeviceRow(id, q.user, key)}
        /\ req' = [req EXCEPT ![h] = r]
      BY <1>0, <1>4 DEF CreateDevice, Answer, StoredDevice, Done
  <2>2. q.user \in RowIds
      BY <1>1 DEF Owns, IInv, TablesOK, UserRows
  <2>3. TablesOK' /\ Grows /\ BelongsTo(id, q.user)'
      BY <1>2, <1>4, <2>1, <2>2, NewDevice DEF IInv
  <2>4. /\ KeepsADevice'
        /\ \A u : ~AtMostOneActive(u) => ~AtMostOneActive(u)'
      BY <1>2, <2>1, NewDeviceActive DEF IInv
  <2>5. TokensOK'
      BY <1>2 DEF IInv, TokensOK, TokensOnlyToOwner
  <2>6. RecOK(r)' /\ r.pc # "deactivate"
    <3>1. CASE q.form = "bad prekeys"
        BY <3>1, NoRequestOKNext DEF NoRequest
    <3>2. CASE q.form # "bad prekeys"
      <4>1. /\ r.pc = "prekeys" /\ r.person = q.person /\ r.user = q.user /\ r.device = id
            /\ r \in Requests
          BY <1>1, <3>2 DEF Requests, Busy
      <4>2. Owns(q.person, q.user)'
          BY <1>1, <1>2 DEF Owns
      <4>. HIDE DEF r
      <4>. QED BY <1>1, <2>3, <4>1, <4>2 DEF RecOK
    <3>. QED BY <3>1, <3>2
  <2>. HIDE DEF r
  <2>7. ReqsOK'
      BY <2>1, <2>3, <2>6, ReqsOKStep DEF IInv
  <2>8. DeactOK'
      BY <1>2, <2>1, <2>4, <2>6, DeactOKGrows DEF IInv
  <2>. QED BY <2>3, <2>4, <2>5, <2>7, <2>8 DEF IInv
<1>. QED BY <1>3, <1>4

LEMMA RegisterDeviceStep ==
    ASSUME IInv, NEW t \in tokens, NEW key \in DeviceKeys, NEW id \in RowIds,
           PostDevice(t, key, id)
    PROVE  IInv'
<1>1. /\ ~DeviceExists(devices, key) /\ NewId(devices, id)
      /\ devices' = devices \cup {DeviceRow(id, t.sub, key)}
      /\ UNCHANGED <<users, bundles, tokens, req, raced>>
    BY DEF PostDevice, RegisterDevice
<1>2. t.sub \in RowIds
    BY DEF IInv, TokensOK, TokenRows
<1>3. TablesOK' /\ Grows
    BY <1>1, <1>2, NewDevice DEF IInv
<1>4. /\ KeepsADevice'
      /\ \A u : ~AtMostOneActive(u) => ~AtMostOneActive(u)'
    BY <1>1, NewDeviceActive DEF IInv
<1>5. TokensOK'
    BY <1>1 DEF IInv, TokensOK, TokensOnlyToOwner
<1>6. ReqsOK'
    BY <1>1, <1>3, ReqsOKSame DEF IInv
<1>7. DeactOK'
  <2>1. ASSUME NEW g \in Handlers, req[g].pc = "deactivate", req[g].user \notin raced
        PROVE  ~AtMostOneActive(req[g].user)'
    <3>1. PICK u : u = req[g].user
        OBVIOUS
    <3>2. ~AtMostOneActive(u)'
        BY <1>4, <2>1, <3>1 DEF IInv, DeactOK
    <3>. QED BY <1>1, <3>1, <3>2 DEF AtMostOneActive
  <2>. QED BY <1>1, <2>1 DEF IInv, DeactOK
<1>. QED BY <1>3, <1>4, <1>5, <1>6, <1>7 DEF IInv

\* The tokens go to the person who has given the password of the account.
LEMMA NewTokens ==
    ASSUME IInv, NEW person \in Persons, NEW user, Owns(person, user),
           tokens' \subseteq tokens \cup GenerateTokens(person, user), users' = users
    PROVE  TokensOK'
<1>1. user \in RowIds
    BY DEF Owns, IInv, TablesOK, UserRows
<1>2. \A t \in GenerateTokens(person, user) :
        t \in TokenRows /\ t.sub = user /\ t.holder = person
    BY <1>1 DEF GenerateTokens, AccessToken, RefreshToken, Token, TokenRows
<1>. QED BY <1>2 DEF Owns, IInv, TokensOK, TokensOnlyToOwner

LEMMA UploadPrekeysStep ==
    ASSUME IInv, NEW h \in Handlers, UploadPrekeys(h)
    PROVE  IInv'
<1>0. PICK q : q = req[h]
    OBVIOUS
<1>1. /\ q \in Requests /\ q.pc = "prekeys" /\ q.person \in Persons
      /\ Owns(q.person, q.user) /\ BelongsTo(q.device, q.user)
    BY <1>0 DEF IInv, ReqsOK, RecOK, UploadPrekeys
<1>. DEFINE r == [NoRequest EXCEPT !.pc = "registered", !.user = q.user, !.device = q.device]
<1>2. /\ bundles' = bundles \cup {q.device}
      /\ tokens' = tokens \cup GenerateTokens(q.person, q.user)
      /\ req' = [req EXCEPT ![h] = r]
      /\ UNCHANGED <<users, devices, raced>>
    BY <1>0 DEF UploadPrekeys, Answer, Registered
<1>3. q.device \in RowIds
    BY <1>1 DEF BelongsTo, IInv, TablesOK, DeviceRows
<1>4. Grows
    BY <1>2 DEF Grows
<1>5. TablesOK'
    BY <1>2, <1>3 DEF IInv, TablesOK, UniqueRows
<1>6. TokensOK'
    BY <1>1, <1>2, NewTokens
<1>7. RecOK(r)' /\ r.pc # "deactivate"
  <2>1. r.pc = "registered" /\ r.user = q.user /\ r.device = q.device /\ r \in Requests
      BY <1>1, NoRequestTyped DEF NoRequest, Requests, Answers
  <2>. HIDE DEF r
  <2>2. BelongsTo(q.device, q.user)' /\ q.device \in bundles'
      BY <1>1, <1>2 DEF BelongsTo
  <2>3. \E u \in users' : u.id = q.user
      BY <1>1, <1>2 DEF Owns
  <2>. QED BY <2>1, <2>2, <2>3 DEF RecOK
<1>. HIDE DEF r
<1>8. ReqsOK'
    BY <1>2, <1>4, <1>7, ReqsOKStep DEF IInv
<1>9. DeactOK'
    BY <1>2, <1>7, DeactOKFewer DEF IInv
<1>10. KeepsADevice'
    BY <1>2 DEF IInv, KeepsADevice, ActiveDevices, ListByUser
<1>. QED BY <1>5, <1>6, <1>8, <1>9, <1>10 DEF IInv

LEMMA FinishLoginStep ==
    ASSUME IInv, NEW h \in Handlers, FinishLogin(h)
    PROVE  IInv'
<1>1. /\ req[h].person \in Persons /\ Owns(req[h].person, req[h].user)
    BY DEF IInv, ReqsOK, RecOK, FinishLogin
<1>2. /\ tokens' = tokens \cup GenerateTokens(req[h].person, req[h].user)
      /\ req' = [req EXCEPT ![h] = NoRequest]
      /\ UNCHANGED <<users, devices, bundles, raced>>
    BY DEF FinishLogin, Answer, Done
<1>3. TokensOK'
    BY <1>1, <1>2, NewTokens
<1>4. ReqsOK'
    BY <1>2, GrowsSame, NoRequestOKNext, ReqsOKStep DEF IInv
<1>5. DeactOK'
    BY <1>2, DeactOKFewer DEF IInv, NoRequest
<1>6. TablesOK' /\ KeepsADevice'
    BY <1>2 DEF IInv, TablesOK, UniqueRows, KeepsADevice, ActiveDevices, ListByUser
<1>. QED BY <1>3, <1>4, <1>5, <1>6 DEF IInv

\* A step that only changes the tokens.
LEMMA TokenStep ==
    ASSUME IInv, TokensOK', UNCHANGED <<users, devices, bundles, req, raced>>
    PROVE  IInv'
<1>1. ReqsOK'
    BY GrowsSame, ReqsOKSame DEF IInv
<1>2. DeactOK' /\ TablesOK' /\ KeepsADevice'
    BY DEF IInv, DeactOK, TablesOK, UniqueRows, KeepsADevice, AtMostOneActive,
           ActiveDevices, ListByUser
<1>. QED BY <1>1, <1>2 DEF IInv

LEMMA RefreshStep ==
    ASSUME IInv, NEW t \in tokens, RefreshAccessToken(t)
    PROVE  IInv'
<1>1. t.holder \in Persons /\ Owns(t.holder, t.sub)
    BY DEF IInv, TokensOK, TokensOnlyToOwner, TokenRows, Owns
<1>2. tokens' \subseteq tokens \cup GenerateTokens(t.holder, t.sub)
    BY DEF RefreshAccessToken, GenerateTokens
<1>3. UNCHANGED <<users, devices, bundles, req, raced>>
    BY DEF RefreshAccessToken
<1>4. TokensOK'
    BY <1>1, <1>2, <1>3, NewTokens
<1>. QED BY <1>3, <1>4, TokenStep

LEMMA ExpireStep ==
    ASSUME IInv, NEW t \in tokens, Expire(t)
    PROVE  IInv'
<1>1. TokensOK'
    BY DEF Expire, IInv, TokensOK, TokensOnlyToOwner
<1>. QED BY <1>1, TokenStep DEF Expire

\* Either nobody else deactivates a device of the user, or the user is marked.
LEMMA CheckLastActiveStep ==
    ASSUME IInv, NEW h \in Handlers, NEW user \in RowIds, NEW id \in RowIds,
           CheckLastActive(h, user, id)
    PROVE  IInv'
<1>. DEFINE r == [NoRequest EXCEPT !.pc = "deactivate", !.user = user, !.device = id]
<1>1. /\ ~AtMostOneActive(user)
      /\ req[h].pc \in Answers
      /\ req' = [req EXCEPT ![h] = r]
      /\ raced' = raced \cup Deactivating(user)
      /\ UNCHANGED <<users, devices, bundles, tokens>>
    BY DEF CheckLastActive, Answer, Ready
<1>2. r.pc = "deactivate" /\ r.user = user /\ r \in Requests
    BY NoRequestTyped DEF NoRequest, Requests, Busy
<1>. HIDE DEF r
<1>3. Grows
    BY <1>1 DEF Grows
<1>4. ReqsOK'
  <2>1. RecOK(r)'
      BY <1>2 DEF RecOK
  <2>. QED BY <1>1, <1>3, <2>1, ReqsOKStep DEF IInv
<1>5. TablesOK' /\ TokensOK'
    BY <1>1 DEF IInv, TablesOK, UniqueRows, TokensOK, TokensOnlyToOwner, Deactivating
<1>6. KeepsADevice'
    BY <1>1 DEF IInv, KeepsADevice, ActiveDevices, ListByUser
<1>7. DeactOK'
  <2>1. \A g \in Handlers : req'[g] = IF g = h THEN r ELSE req[g]
      BY <1>1 DEF IInv, ReqsOK
  <2>2. \A u : AtMostOneActive(u)' <=> AtMostOneActive(u)
      BY <1>1 DEF AtMostOneActive, ActiveDevices, ListByUser
  <2>3. user \notin raced' =>
          \A g \in Handlers : ~(req[g].pc = "deactivate" /\ req[g].user = user)
      BY <1>1 DEF Deactivating
  <2>4. raced \subseteq raced'
      BY <1>1
  <2>5. ASSUME NEW g \in Handlers, req'[g].pc = "deactivate", req'[g].user \notin raced'
        PROVE  /\ ~AtMostOneActive(req'[g].user)
               /\ \A k \in Handlers :
                    req'[k].pc = "deactivate" /\ req'[k].user = req'[g].user => k = g
    <3>1. CASE g = h
        BY <1>1, <1>2, <2>1, <2>3, <2>5, <3>1
    <3>2. CASE g # h
      <4>1. /\ req'[g] = req[g] /\ req[g].user \notin raced
            /\ ~AtMostOneActive(req[g].user)
            /\ \A k \in Handlers :
                 req[k].pc = "deactivate" /\ req[k].user = req[g].user => k = g
          BY <2>1, <2>4, <2>5, <3>2 DEF IInv, DeactOK
      <4>2. req[g].user # user
          BY <2>1, <2>3, <2>5, <3>2, <4>1
      <4>. QED BY <1>2, <2>1, <4>1, <4>2
    <3>. QED BY <3>1, <3>2
  <2>. QED BY <2>2, <2>5 DEF DeactOK
<1>. QED BY <1>4, <1>5, <1>6, <1>7 DEF IInv

\* What one deactivation does to the rows.
LEMMA Deactivated ==
    ASSUME NEW id, NEW user, devices' = DeactivateRow(devices, id, user),
           devices \subseteq DeviceRows
    PROVE  /\ \A d \in devices : ~(d.id = id /\ d.owner = user) => d \in devices'
           /\ \A d \in devices : d.id = id /\ d.owner = user =>
                [d EXCEPT !.active = FALSE] \in devices'
           /\ \A e \in devices' : \E d \in devices :
                \/ e = d /\ ~(d.id = id /\ d.owner = user)
                \/ d.id = id /\ d.owner = user /\ e = [d EXCEPT !.active = FALSE]
           /\ \A d \in devices : LET e == [d EXCEPT !.active = FALSE] IN
                e \in DeviceRows /\ e.id = d.id /\ e.owner = d.owner /\ e.key = d.key
<1>1. \A d \in devices : LET e == [d EXCEPT !.active = FALSE] IN
        e \in DeviceRows /\ e.id = d.id /\ e.owner = d.owner /\ e.key = d.key
    BY DEF DeviceRows
<1>. QED BY <1>1 DEF DeactivateRow

LEMMA DeactivateStep ==
    ASSUME IInv, NEW h \in Handlers, Deactivate(h)
    PROVE  IInv'
<1>0. PICK q : q = req[h]
    OBVIOUS
<1>1. /\ q.pc = "deactivate"
      /\ devices' = DeactivateRow(devices, q.device, q.user)
      /\ req' = [req EXCEPT ![h] = NoRequest]
      /\ UNCHANGED <<users, bundles, tokens, raced>>
    BY <1>0 DEF Deactivate, Answer, Done
<1>2. /\ \A d \in devices : ~(d.id = q.device /\ d.owner = q.user) => d \in devices'
      /\ \A d \in devices : d.id = q.device /\ d.owner = q.user =>
           [d EXCEPT !.active = FALSE] \in devices'
      /\ \A e \in devices' : \E d \in devices :
           \/ e = d /\ ~(d.id = q.device /\ d.owner = q.user)
           \/ d.id = q.device /\ d.owner = q.user /\ e = [d EXCEPT !.active = FALSE]
      /\ \A d \in devices : LET e == [d EXCEPT !.active = FALSE] IN
           e \in DeviceRows /\ e.id = d.id /\ e.owner = d.owner /\ e.key = d.key
    BY <1>1, Deactivated DEF IInv, TablesOK
<1>3. Grows
    BY <1>1, <1>2 DEF Grows
<1>4. TablesOK'
  <2>1. devices' \subseteq DeviceRows
      BY <1>2 DEF IInv, TablesOK
  <2>2. \A c, d \in devices' : c.id = d.id \/ c.key = d.key => c = d
    <3>1. \A e \in devices' : \E d \in devices :
            /\ d.id = e.id /\ d.key = e.key
            /\ IF d.id = q.device /\ d.owner = q.user THEN e = [d EXCEPT !.active = FALSE]
               ELSE e = d
        BY <1>2
    <3>2. ASSUME NEW c \in devices', NEW d \in devices', c.id = d.id \/ c.key = d.key
          PROVE  c = d
      <4>1. PICK b \in devices :
              /\ b.id = c.id /\ b.key = c.key
              /\ IF b.id = q.device /\ b.owner = q.user THEN c = [b EXCEPT !.active = FALSE]
                 ELSE c = b
          BY <3>1
      <4>2. PICK e \in devices :
              /\ e.id = d.id /\ e.key = d.key
              /\ IF e.id = q.device /\ e.owner = q.user THEN d = [e EXCEPT !.active = FALSE]
                 ELSE d = e
          BY <3>1
      <4>3. b = e
          BY <3>2, <4>1, <4>2 DEF IInv, TablesOK, UniqueRows
      <4>4. CASE b.id = q.device /\ b.owner = q.user
          BY <4>1, <4>2, <4>3, <4>4
      <4>5. CASE ~(b.id = q.device /\ b.owner = q.user)
          BY <4>1, <4>2, <4>3, <4>5
      <4>. QED BY <4>4, <4>5
    <3>. QED BY <3>2
  <2>. QED BY <1>1, <2>1, <2>2 DEF IInv, TablesOK, UniqueRows
<1>5. TokensOK'
    BY <1>1 DEF IInv, TokensOK, TokensOnlyToOwner
<1>6. ReqsOK'
    BY <1>1, <1>3, NoRequestOKNext, ReqsOKStep DEF IInv
<1>7. \A u : u # q.user => ActiveDevices(devices', u) = ActiveDevices(devices, u)
    BY <1>2 DEF ActiveDevices, ListByUser
<1>8. KeepsADevice'
  <2>1. SUFFICES ASSUME NEW e \in devices', e.owner \notin raced
                 PROVE  ActiveDevices(devices', e.owner) # {}
      BY <1>1 DEF KeepsADevice
  <2>2. PICK d \in devices : d.owner = e.owner
      BY <1>2
  <2>3. CASE e.owner # q.user
      BY <1>7, <2>1, <2>2, <2>3 DEF IInv, KeepsADevice
  <2>4. CASE e.owner = q.user
    <3>1. ~AtMostOneActive(q.user)
        BY <1>0, <1>1, <2>1, <2>4 DEF IInv, DeactOK
    <3>2. PICK c \in ActiveDevices(devices, q.user) : c.id # q.device
        BY <3>1 DEF AtMostOneActive, ActiveDevices, ListByUser, IInv, TablesOK, UniqueRows
    <3>3. c \in ActiveDevices(devices', q.user)
        BY <1>2, <3>2 DEF ActiveDevices, ListByUser
    <3>. QED BY <2>4, <3>3
  <2>. QED BY <2>3, <2>4
<1>9. DeactOK'
  <2>1. \A g \in Handlers : req'[g] = IF g = h THEN NoRequest ELSE req[g]
      BY <1>1 DEF IInv, ReqsOK
  <2>2. ASSUME NEW g \in Handlers, req'[g].pc = "deactivate", req'[g].user \notin raced'
        PROVE  /\ ~AtMostOneActive(req[g].user)'
               /\ \A k \in Handlers :
                    req'[k].pc = "deactivate" /\ req'[k].user = req'[g].user => k = g
    <3>1. g # h /\ req'[g] = req[g]
        BY <2>1, <2>2 DEF NoRequest
    <3>2. /\ ~AtMostOneActive(req[g].user)
          /\ \A k \in Handlers :
               req[k].pc = "deactivate" /\ req[k].user = req[g].user => k = g
        BY <1>1, <2>2, <3>1 DEF IInv, DeactOK
    <3>3. PICK u : u = req[g].user
        OBVIOUS
    <3>4. u # q.user
        BY <1>0, <1>1, <3>1, <3>2, <3>3
    <3>5. ~AtMostOneActive(u)'
        BY <1>7, <3>2, <3>3, <3>4 DEF AtMostOneActive
    <3>6. ~AtMostOneActive(req[g].user)'
        BY <3>1, <3>3, <3>5 DEF AtMostOneActive
    <3>7. \A k \in Handlers :
            req'[k].pc = "deactivate" /\ req'[k].user = req'[g].user => k = g
        BY <2>1, <3>1, <3>2 DEF NoRequest
    <3>. QED BY <3>6, <3>7
  <2>. QED BY <2>2 DEF DeactOK
<1>. QED BY <1>4, <1>5, <1>6, <1>8, <1>9 DEF IInv

-----------------------------------------------------------------------------
LEMMA InvInit == Init => IInv
<1>. SUFFICES ASSUME Init PROVE IInv
    OBVIOUS
<1>1. req = [h \in Handlers |-> NoRequest] /\ NoRequest.pc = "idle"
    BY DEF Init, NoRequest
<1>2. ReqsOK
    BY <1>1, NoRequestTyped, NoRequestOK DEF ReqsOK
<1>3. DeactOK
    BY <1>1 DEF DeactOK
<1>. QED BY <1>2, <1>3 DEF IInv, Init, TablesOK, UniqueRows, TokensOK, TokensOnlyToOwner,
                           KeepsADevice

LEMMA InvNext == IInv /\ [Next]_vars => IInv'
<1>. SUFFICES ASSUME IInv, [Next]_vars PROVE IInv'
    OBVIOUS
<1>1. ASSUME NEW h \in Handlers, Continue(h) PROVE IInv'
    BY <1>1, DrawNumberStep, CreateUserStep, CreateDeviceStep, UploadPrekeysStep,
       FinishLoginStep, DeactivateStep DEF Continue
<1>2. ASSUME NEW h \in Handlers, Drop(h) PROVE IInv'
    BY <1>2, DropStep
<1>3. ASSUME NEW h \in Handlers, NEW p \in Persons, NEW name \in Usernames,
             PostRegister(h, p, name) \/ PostLogin(h, p, name)
      PROVE  IInv'
    BY <1>3, RefuseStep, RegisterStep, LoginStep DEF PostRegister, PostLogin
<1>4. ASSUME NEW h \in Handlers, NEW t \in tokens, NEW id \in RowIds, DeleteDevice(h, t, id)
      PROVE  IInv'
  <2>1. t.sub \in RowIds
      BY DEF IInv, TokensOK, TokenRows
  <2>. QED BY <1>4, <2>1, RefuseStep, CheckLastActiveStep DEF DeleteDevice
<1>5. ASSUME NEW t \in tokens, NEW key \in DeviceKeys, NEW id \in RowIds,
             PostDevice(t, key, id)
      PROVE  IInv'
    BY <1>5, RegisterDeviceStep
<1>6. ASSUME NEW t \in tokens, RefreshAccessToken(t) \/ Expire(t) PROVE IInv'
    BY <1>6, RefreshStep, ExpireStep
<1>7. CASE UNCHANGED vars
  <2>1. TokensOK'
      BY <1>7 DEF vars, IInv, TokensOK, TokensOnlyToOwner
  <2>. QED BY <1>7, <2>1, TokenStep DEF vars
<1>. QED BY <1>1, <1>2, <1>3, <1>4, <1>5, <1>6, <1>7 DEF Next

LEMMA Invariance == Spec => []IInv
BY InvInit, InvNext, PTL DEF Spec

\* Every table holds rows of its type, and a request that has not found a free
\* number after MAX_ATTEMPTS draws is over (generate_unique_convro_number).
THEOREM TypeCorrectness == Spec => []TypeOK
<1>1. IInv => TypeOK
    BY DEF IInv, TablesOK, TokensOK, TokenRows, ReqsOK, TypeOK
<1>. QED BY <1>1, Invariance, PTL

\* No two accounts have a name or a number in common and no device is registered
\* twice, however many registrations find them free at the same time.
THEOREM RowsAreUnique == Spec => []UniqueRows
<1>1. IInv => UniqueRows
    BY DEF IInv, TablesOK
<1>. QED BY <1>1, Invariance, PTL

\* Whoever is answered 201 by POST /auth/register has an account, a device of
\* this account and prekeys for this device.
THEOREM RegistrationIsWhole == Spec => []RegisteredIsComplete
<1>1. IInv => RegisteredIsComplete
  <2>1. SUFFICES ASSUME IInv, NEW h \in Handlers, req[h].pc = "registered"
                 PROVE  \E u \in users, d \in devices :
                            /\ u.id = req[h].user
                            /\ d.id = req[h].device
                            /\ d.owner = u.id
                            /\ d.id \in bundles
      BY DEF RegisteredIsComplete
  <2>2. /\ BelongsTo(req[h].device, req[h].user)
        /\ \E u \in users : u.id = req[h].user
        /\ req[h].device \in bundles
      BY <2>1 DEF IInv, ReqsOK, RecOK
  <2>. QED BY <2>2 DEF BelongsTo
<1>. QED BY <1>1, Invariance, PTL

\* A token in the hands of a person is for an account whose password they gave.
THEOREM TokensBelongToOwner == Spec => []TokensOnlyToOwner
<1>1. IInv => TokensOnlyToOwner
    BY DEF IInv, TokensOK
<1>. QED BY <1>1, Invariance, PTL

\* Only overlapping deactivations take a user's last device away.
THEOREM LastDeviceStays == Spec => []KeepsADevice
<1>1. IInv => KeepsADevice
    BY DEF IInv
<1>. QED BY <1>1, Invariance, PTL

\* Rows of devices stay, and only the owner's request for a device turns it off.
THEOREM OwnerDeactivates == Spec => OnlyOwnerDeactivates
<1>1. IInv /\ [Next]_vars =>
        \A d \in devices :
          \/ d \in devices'
          \/ /\ [d EXCEPT !.active = FALSE] \in devices'
             /\ \E h \in Handlers : /\ req[h].pc = "deactivate"
                                    /\ req[h].user = d.owner
                                    /\ req[h].device = d.id
  <2>. SUFFICES ASSUME IInv, [Next]_vars, NEW d \in devices, d \notin devices'
                PROVE  /\ [d EXCEPT !.active = FALSE] \in devices'
                       /\ \E h \in Handlers : /\ req[h].pc = "deactivate"
                                              /\ req[h].user = d.owner
                                              /\ req[h].device = d.id
      OBVIOUS
  <2>1. ASSUME \A h \in Handlers : ~Deactivate(h) PROVE devices \subseteq devices'
    <3>1. ASSUME NEW h \in Handlers, Continue(h) PROVE devices \subseteq devices'
        BY <2>1, <3>1 DEF Continue, DrawNumber, CreateUser, CreateDevice, UploadPrekeys,
                          FinishLogin
    <3>2. ASSUME NEW h \in Handlers, Drop(h) PROVE devices \subseteq devices'
        BY <3>2 DEF Drop
    <3>3. ASSUME NEW h \in Handlers, NEW p \in Persons, NEW name \in Usernames,
                 PostRegister(h, p, name) \/ PostLogin(h, p, name)
          PROVE  devices \subseteq devices'
        BY <3>3 DEF PostRegister, PostLogin, Refuse, Register, Login
    <3>4. ASSUME NEW h \in Handlers, NEW t \in tokens, NEW id \in RowIds,
                 DeleteDevice(h, t, id)
          PROVE  devices \subseteq devices'
        BY <3>4 DEF DeleteDevice, Refuse, CheckLastActive
    <3>5. ASSUME NEW t \in tokens, NEW key \in DeviceKeys, NEW id \in RowIds,
                 PostDevice(t, key, id)
          PROVE  devices \subseteq devices'
        BY <3>5 DEF PostDevice, RegisterDevice
    <3>6. ASSUME NEW t \in tokens, RefreshAccessToken(t) \/ Expire(t)
          PROVE  devices \subseteq devices'
        BY <3>6 DEF RefreshAccessToken, Expire
    <3>7. CASE UNCHANGED vars
        BY <3>7 DEF vars
    <3>. QED BY <3>1, <3>2, <3>3, <3>4, <3>5, <3>6, <3>7 DEF Next
  <2>2. PICK h \in Handlers : Deactivate(h)
      BY <2>1
  <2>3. devices' = DeactivateRow(devices, req[h].device, req[h].user)
        /\ req[h].pc = "deactivate"
      BY <2>2 DEF Deactivate
  <2>4. /\ d.id = req[h].device /\ d.owner = req[h].user
        /\ [d EXCEPT !.active = FALSE] \in devices'
      BY <2>3, Deactivated DEF IInv, TablesOK
  <2>. QED BY <2>3, <2>4
<1>. QED BY <1>1, Invariance, PTL DEF Spec, OnlyOwnerDeactivates

\* No request goes round for ever: each of its steps brings its answer nearer.
THEOREM RequestsComeToAnEnd == Spec => RequestsEnd
<1>1. IInv /\ [Next]_vars =>
        \A h \in Handlers :
          req[h].pc \in Busy /\ req'[h] # req[h] => Rank(req'[h]) < Rank(req[h])
  <2>. SUFFICES ASSUME IInv, [Next]_vars, NEW h \in Handlers,
                       req[h].pc \in Busy, req'[h] # req[h]
                PROVE  Rank(req'[h]) < Rank(req[h])
      OBVIOUS
  <2>1. /\ req \in [Handlers -> Requests]
        /\ req[h].tries \in 0..(MaxAttempts - 1)
        /\ req[h].pc \notin Answers
      BY DEF IInv, ReqsOK, Requests, Busy, Answers
  <2>2. Rank(req[h]) \in Nat /\ Rank(req[h]) > 0
      BY <2>1, AttemptsAssumption DEF Rank, Busy
  <2>3. \A r : r.pc \in Answers => Rank(r) = 0
      BY DEF Rank
  <2>4. NoRequest.pc \in Answers
      BY DEF NoRequest, Answers
  <2>5. CASE \E n \in Numbers : DrawNumber(h, n)
    <3>1. PICK n : DrawNumber(h, n)
        BY <2>5
    <3>2. CASE IsConvroNumberAvailable(users, FormatConvroNumber(n))
      <4>1. req'[h].pc = "create" /\ req[h].pc = "number"
          BY <2>1, <3>1, <3>2 DEF DrawNumber, Requests
      <4>. QED BY <2>1, <4>1, AttemptsAssumption DEF Rank, Answers
    <3>3. CASE ~IsConvroNumberAvailable(users, FormatConvroNumber(n)) /\ LastAttempt(req[h])
      <4>1. req'[h] = NoRequest
          BY <2>1, <3>1, <3>3 DEF DrawNumber, Answer, Done
      <4>. QED BY <2>2, <2>3, <2>4, <4>1
    <3>4. CASE ~IsConvroNumberAvailable(users, FormatConvroNumber(n)) /\ ~LastAttempt(req[h])
      <4>1. /\ req'[h].pc = "number" /\ req[h].pc = "number"
            /\ req'[h].tries = req[h].tries + 1
          BY <2>1, <3>1, <3>4 DEF DrawNumber, Requests
      <4>. QED BY <2>1, <4>1, AttemptsAssumption DEF Rank, Answers
    <3>. QED BY <3>2, <3>3, <3>4
  <2>6. CASE \E form \in RegistrationForms, id \in RowIds : CreateUser(h, form, id)
    <3>1. PICK form, id : CreateUser(h, form, id)
        BY <2>6
    <3>2. /\ req[h].pc = "create"
          /\ req'[h].pc \in Answers \/ req'[h].pc = "device"
      <4>1. PICK person :
              \/ req'[h] = NoRequest
              \/ req'[h] = [NoRequest EXCEPT !.pc = "device", !.person = person,
                                             !.user = id, !.form = form]
          BY <2>1, <3>1 DEF CreateUser, Answer, NumberOrNameTaken, Done
      <4>2. req'[h].pc \in Answers \/ req'[h].pc = "device"
          BY <2>4, <4>1 DEF NoRequest
      <4>. QED BY <3>1, <4>2 DEF CreateUser
    <3>. QED BY <2>2, <2>3, <3>2 DEF Rank, Answers
  <2>7. CASE \E key \in DeviceKeys, id \in RowIds : CreateDevice(h, key, id)
    <3>1. PICK key, id : CreateDevice(h, key, id)
        BY <2>7
    <3>2. /\ req[h].pc = "device"
          /\ req'[h].pc \in Answers \/ req'[h].pc = "prekeys"
      <4>1. req[h].pc = "device" /\ req[h] \in Requests
          BY <2>1, <3>1 DEF CreateDevice
      <4>2. StoredDevice(req[h], id).pc \in Answers \/ StoredDevice(req[h], id).pc = "prekeys"
          BY <2>4, <4>1 DEF StoredDevice, Done, Requests
      <4>3. req'[h] = NoRequest \/ req'[h] = StoredDevice(req[h], id)
          BY <2>1, <3>1 DEF CreateDevice, Answer, DeviceTaken, Done
      <4>. QED BY <2>4, <4>1, <4>2, <4>3
    <3>. QED BY <2>2, <2>3, <3>2 DEF Rank, Answers
  <2>8. CASE UploadPrekeys(h) \/ FinishLogin(h) \/ Deactivate(h) \/ Drop(h)
    <3>1. Registered(req[h]).pc \in Answers
        BY DEF Registered, NoRequest, Answers
    <3>2. req'[h] = NoRequest \/ req'[h] = Registered(req[h])
        BY <2>1, <2>8 DEF UploadPrekeys, FinishLogin, Deactivate, Drop, Answer, Done
    <3>. QED BY <2>2, <2>3, <2>4, <3>1, <3>2
  <2>9. ASSUME NEW g \in Handlers, Continue(g) PROVE g = h
      BY <2>1, <2>9 DEF Continue, DrawNumber, CreateUser, CreateDevice, UploadPrekeys,
                        FinishLogin, Deactivate, Answer
  <2>10. ASSUME NEW g \in Handlers, Drop(g) PROVE g = h
      BY <2>1, <2>10 DEF Drop, Answer
  <2>11. ASSUME NEW g \in Handlers, NEW p \in Persons, NEW name \in Usernames,
                PostRegister(g, p, name) \/ PostLogin(g, p, name)
         PROVE  FALSE
      BY <2>1, <2>11 DEF PostRegister, PostLogin, Refuse, Register, Login, Ready, Answer
  <2>12. ASSUME NEW g \in Handlers, NEW t \in tokens, NEW id \in RowIds,
                DeleteDevice(g, t, id)
         PROVE  FALSE
      BY <2>1, <2>12 DEF DeleteDevice, Refuse, CheckLastActive, Ready, Answer
  <2>13. ASSUME NEW t \in tokens, NEW key \in DeviceKeys, NEW id \in RowIds,
                PostDevice(t, key, id)
         PROVE  FALSE
      BY <2>13 DEF PostDevice, RegisterDevice
  <2>14. ASSUME NEW t \in tokens, RefreshAccessToken(t) \/ Expire(t) PROVE FALSE
      BY <2>14 DEF RefreshAccessToken, Expire
  <2>15. ~UNCHANGED vars
      BY DEF vars
  <2>16. Continue(h) \/ Drop(h)
      BY <2>9, <2>10, <2>11, <2>12, <2>13, <2>14, <2>15 DEF Next
  <2>. QED BY <2>5, <2>6, <2>7, <2>8, <2>16 DEF Continue
<1>. QED BY <1>1, Invariance, PTL DEF Spec, RequestsEnd

=============================================================================
