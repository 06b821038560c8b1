------------------------------ MODULE Accounts ------------------------------
(***************************************************************************)
(* Registration, login, tokens and devices of the server                   *)
(* (src/server/src/services/auth_service.rs, device_service.rs and the     *)
(* handlers above them).  Several handlers run at once; a handler awaits   *)
(* the database between two statements, so every statement is an action of *)
(* its own together with the code up to the next await.  A handler may be  *)
(* dropped at any await: the client went away, the statement failed, or    *)
(* the process was restarted.                                              *)
(***************************************************************************)
EXTENDS Tables

CONSTANTS Handlers,     \* requests the server works on at the same time
          Persons,      \* each has a password of their own
          Usernames,
          Numbers,      \* the six digits the generator draws from
          DeviceKeys,
          MaxAttempts,  \* draws of a number before giving up (100 in the code)
          None

ASSUME AttemptsAssumption == MaxAttempts \in Nat \ {0}
ASSUME NumbersAssumption == Numbers \subseteq ConvroRange
ASSUME NoneAssumption == /\ None \notin Persons
                         /\ None \notin Usernames
                         /\ None \notin DeviceKeys

VARIABLES users, devices,
          bundles,      \* the devices with uploaded prekeys
          tokens,       \* the tokens in clients' hands
          req,          \* what each handler is doing, or answered last
          raced         \* users for whom two deactivations overlapped

vars == <<users, devices, bundles, tokens, req, raced>>

Busy == {"number", "create", "device", "prekeys", "touch", "deactivate"}

\* Only the answer to a complete registration is remembered: any other one,
\* and being dropped, leaves the handler as it was before the request.
Answers == {"idle", "registered"}

NoRequest == [pc |-> "idle", person |-> None, username |-> None, form |-> "good",
              number |-> 0, tries |-> 0, user |-> 0, device |-> 0]

Ready(h) == req[h].pc \in Answers

Answer(h, answer) == req' = [req EXCEPT ![h] = answer]
Done == NoRequest
Registered(r) == [NoRequest EXCEPT !.pc = "registered", !.user = r.user, !.device = r.device]

Token(person, user, type) == [holder |-> person, sub |-> user, type |-> type]
AccessToken(person, user) == Token(person, user, "access")
RefreshToken(person, user) == Token(person, user, "refresh")
GenerateTokens(person, user) == {AccessToken(person, user), RefreshToken(person, user)}

\* decode_token refuses what the server has not signed and what has expired.
Decodes(t) == t \in tokens

\* require_auth lets a request through on an access token only.
RequireAuth(t) == Decodes(t) /\ t.type = "access"

\* The bodies of registrations that validate() lets through.  It looks at lengths
\* only: keys that are not hexadecimal are let through, as are identifiers of
\* prekeys of any length.
RegistrationForms == {"bad device keys", "bad prekeys", "good"}

\* What a handler answers before it has read or written anything.
Refuse(h) == Ready(h) /\ Answer(h, Done) /\ UNCHANGED <<users, devices, bundles, tokens, raced>>

Init ==
    /\ users = {} /\ devices = {} /\ bundles = {} /\ tokens = {} /\ raced = {}
    /\ req = [h \in Handlers |-> NoRequest]

-----------------------------------------------------------------------------
(* POST /auth/register *)

Register(h, p, name) ==
    /\ Ready(h)
    /\ FindByUsername(users, name) = {}
    /\ Answer(h, [NoRequest EXCEPT !.pc = "number", !.person = p, !.username = name])
    /\ UNCHANGED <<users, devices, bundles, tokens, raced>>

\* A body of another form and a name that exists are refused.
PostRegister(h, p, name) == Refuse(h) \/ Register(h, p, name)

\* Mutant: the loop draws once too often.
LastAttemptAndOne(r) == r.tries = MaxAttempts

LastAttempt(r) == r.tries + 1 = MaxAttempts

\* One round of generate_unique_convro_number.
DrawNumber(h, n) ==
    /\ req[h].pc = "number"
    /\ IF IsConvroNumberAvailable(users, FormatConvroNumber(n))
       THEN req' = [req EXCEPT ![h].pc = "create", ![h].number = n]
       ELSE IF LastAttempt(req[h])
       THEN Answer(h, Done)
       ELSE req' = [req EXCEPT ![h].tries = @ + 1]
    /\ UNCHANGED <<users, devices, bundles, tokens, raced>>

\* Mutant: a registration that lost the race for its name goes on with the
\* row that won.
UseWinner(r) ==
    CHOOSE a \in {[r EXCEPT !.pc = "device", !.username = None, !.number = 0, !.tries = 0,
                            !.user = u.id] :
                    u \in {x \in users : UserExists({x}, r.username, FormatConvroNumber(r.number))}} :
        TRUE

\* Mutant: a registration that lost the race for its number draws again, and
\* counts from the start.
DrawAgain(r) == [r EXCEPT !.pc = "number", !.number = 0, !.tries = 0]

\* A violated constraint is a conflict, and the end of the request.
NumberOrNameTaken(r) == Done

\* The row is committed before the keys of the device are looked at, and it is
\* here that the form of the request is chosen.
CreateUser(h, form, id) ==
    LET r      == req[h]
        number == FormatConvroNumber(r.number)
    IN
    /\ r.pc = "create"
    /\ \/ /\ UserExists(users, r.username, number)
          /\ Answer(h, NumberOrNameTaken(r))
          /\ UNCHANGED users
       \/ /\ ~UserExists(users, r.username, number)
          /\ NewId(users, id)
          /\ users' = users \cup {UserRow(id, r.username, number, r.person)}
          /\ Answer(h, IF form = "bad device keys" THEN Done
                       ELSE [NoRequest EXCEPT !.pc = "device", !.person = r.person,
                                              !.user = id, !.form = form])
    /\ UNCHANGED <<devices, bundles, tokens, raced>>

\* The row of the device is committed before the prekeys are looked at.
StoredDevice(r, id) ==
    IF r.form = "bad prekeys" THEN Done ELSE [r EXCEPT !.pc = "prekeys", !.device = id]

\* Mutant: a device that is registered already is taken as it is.
ReuseDevice(r, key) ==
    StoredDevice(r, CHOOSE id \in RowIds : \E d \in devices : d.id = id /\ d.key = key)

DeviceTaken(r, key) == Done

CreateDevice(h, key, id) ==
    /\ req[h].pc = "device"
    /\ \/ /\ DeviceExists(devices, key)
          /\ Answer(h, DeviceTaken(req[h], key))
          /\ UNCHANGED devices
       \/ /\ ~DeviceExists(devices, key)
          /\ NewId(devices, id)
          /\ devices' = devices \cup {DeviceRow(id, req[h].user, key)}
          /\ Answer(h, StoredDevice(req[h], id))
    /\ UNCHANGED <<users, bundles, tokens, raced>>

UploadPrekeys(h) ==
    /\ req[h].pc = "prekeys"
    /\ bundles' = bundles \cup {req[h].device}
    /\ tokens' = tokens \cup GenerateTokens(req[h].person, req[h].user)
    /\ Answer(h, Registered(req[h]))
    /\ UNCHANGED <<users, devices, raced>>

-----------------------------------------------------------------------------
(* POST /auth/login *)

\* The account is active (nothing in the server changes its status) and the
\* password is the one of the account.
LoginAllowed(u, p) == u.password = p

Login(h, p, name) ==
    LET found == {u \in FindByUsername(users, name) : LoginAllowed(u, p)} IN
    /\ Ready(h)
    /\ found # {}
    /\ \E u \in found :
          Answer(h, [NoRequest EXCEPT !.pc = "touch", !.person = p, !.user = u.id])
    /\ UNCHANGED <<users, devices, bundles, tokens, raced>>

\* An empty password or a short name is refused like a wrong one.
PostLogin(h, p, name) == Refuse(h) \/ Login(h, p, name)

\* The update of last_login, which nothing reads, and the tokens.
FinishLogin(h) ==
    /\ req[h].pc = "touch"
    /\ tokens' = tokens \cup GenerateTokens(req[h].person, req[h].user)
    /\ Answer(h, Done)
    /\ UNCHANGED <<users, devices, bundles, raced>>

-----------------------------------------------------------------------------
(* POST /auth/refresh, and what becomes of tokens *)

RefreshAccessToken(t) ==
    /\ Decodes(t) /\ t.type = "refresh"
    /\ FindById(users, t.sub) # {}
    /\ tokens' = tokens \cup {AccessToken(t.holder, t.sub)}
    /\ UNCHANGED <<users, devices, bundles, req, raced>>

\* A token expires, or its client logs out and throws it away: logout does
\* nothing on the server.
Expire(t) ==
    /\ t \in tokens
    /\ tokens' = tokens \ {t}
    /\ UNCHANGED <<users, devices, bundles, req, raced>>

-----------------------------------------------------------------------------
(* POST /devices and DELETE /devices/:device_id *)

\* A conflict changes nothing.
RegisterDevice(user, key, id) ==
    /\ ~DeviceExists(devices, key)
    /\ NewId(devices, id)
    /\ devices' = devices \cup {DeviceRow(id, user, key)}
    /\ UNCHANGED <<users, bundles, tokens, req, raced>>

\* The device belongs to the user of the token, whoever holds it.
PostDevice(t, key, id) == RequireAuth(t) /\ RegisterDevice(t.sub, key, id)

\* Mutant: deactivated devices are counted, too.
AtMostOneDevice(owner) == \A c, d \in ListByUser(devices, owner) : c = d

\* active_count <= 1
AtMostOneActive(owner) ==
    \A c, d \in ActiveDevices(devices, owner) : c = d

Deactivating(user) ==
    {u \in {user} : \E h \in Handlers : req[h].pc = "deactivate" /\ req[h].user = u}

CheckLastActive(h, user, id) ==
    /\ Ready(h)
    /\ ~AtMostOneActive(user)
    /\ Answer(h, [NoRequest EXCEPT !.pc = "deactivate", !.user = user, !.device = id])
    /\ raced' = raced \cup Deactivating(user)
    /\ UNCHANGED <<users, devices, bundles, tokens>>

\* The path names a device of anybody.
DeleteDevice(h, t, id) ==
    /\ RequireAuth(t)
    /\ \/ AtMostOneActive(t.sub) /\ Refuse(h)
       \/ CheckLastActive(h, t.sub, id)

Deactivate(h) ==
    /\ req[h].pc = "deactivate"
    /\ Answer(h, Done)
    \* No row of this user is an error, and leaves the table as it is.
    /\ devices' = DeactivateRow(devices, req[h].device, req[h].user)
    /\ UNCHANGED <<users, bundles, tokens, raced>>

-----------------------------------------------------------------------------
\* A dropped handler leaves what its statements have committed.
Drop(h) ==
    /\ req[h].pc \in Busy
    /\ Answer(h, Done)
    /\ UNCHANGED <<users, devices, bundles, tokens, raced>>

Continue(h) ==
    \/ \E n \in Numbers : DrawNumber(h, n)
    \/ \E form \in RegistrationForms, id \in RowIds : CreateUser(h, form, id)
    \/ \E key \in DeviceKeys, id \in RowIds : CreateDevice(h, key, id)
    \/ UploadPrekeys(h)
    \/ FinishLogin(h)
    \/ Deactivate(h)

Next ==
    \/ \E h \in Handlers :
         \/ Continue(h)
         \/ Drop(h)
         \/ \E p \in Persons, name \in Usernames :
              \/ PostRegister(h, p, name)
              \/ PostLogin(h, p, name)
         \/ \E t \in tokens, id \in RowIds : DeleteDevice(h, t, id)
    \/ \E t \in tokens :
         \/ \E key \in DeviceKeys, id \in RowIds : PostDevice(t, key, id)
         \/ RefreshAccessToken(t)
         \/ Expire(t)

Spec == Init /\ [][Next]_vars

-----------------------------------------------------------------------------
Requests == [pc : Busy \cup Answers, person : Persons \cup {None},
             username : Usernames \cup {None}, form : {"bad prekeys", "good"},
             number : Numbers \cup {0},
             tries : 0..(MaxAttempts - 1), user : RowIds \cup {0},
             device : RowIds \cup {0}]

UserRows == [id : RowIds, username : Usernames, password : Persons,
             number : {FormatConvroNumber(n) : n \in Numbers}]

DeviceRows == [id : RowIds, owner : RowIds, key : DeviceKeys, active : BOOLEAN]

\* Every table holds rows of its type, and the loop over candidate numbers
\* ends before it has drawn MAX_ATTEMPTS of them in vain.
TypeOK ==
    /\ users \subseteq UserRows
    /\ devices \subseteq DeviceRows
    /\ bundles \subseteq RowIds
    /\ tokens \subseteq [holder : Persons, sub : RowIds, type : {"access", "refresh"}]
    /\ req \in [Handlers -> Requests]
    /\ raced \subseteq RowIds

\* Two registrations that both found the name and the number free never end
\* in two accounts with one of them, nor is a device ever registered twice:
\* the checks before the inserts do not decide, the constraints do.
UniqueRows ==
    /\ \A u, v \in users :
         u.id = v.id \/ u.username = v.username \/ u.number = v.number => u = v
    /\ \A c, d \in devices : c.id = d.id \/ c.key = d.key => c = d

\* The client that was answered 201 has an account whose own device has
\* prekeys, whatever ran between the four statements of its registration.
RegisteredIsComplete ==
    \A h \in Handlers : req[h].pc = "registered" =>
        \E u \in users, d \in devices :
            /\ u.id = req[h].user
            /\ d.id = req[h].device
            /\ d.owner = u.id
            /\ d.id \in bundles

\* A token is only ever held by the person whose password the account has:
\* losing the race for a name gives no token of the winner.
TokensOnlyToOwner ==
    \A t \in tokens : \E u \in users : u.id = t.sub /\ u.password = t.holder

\* As long as no two deactivations of a user overlap, a user who has
\* registered a device has an active one.
KeepsADevice ==
    \A d \in devices : ActiveDevices(devices, d.owner) # {} \/ d.owner \in raced

\* Devices stay with their user and in the table, and one is deactivated only
\* by a request that names it, on a token of that user: whatever identifiers
\* others put in the path, and whatever they were checked against before.
OnlyOwnerDeactivates ==
    [][\A d \in devices :
         \/ d \in devices'
         \/ /\ [d EXCEPT !.active = FALSE] \in devices'
            /\ \E h \in Handlers : /\ req[h].pc = "deactivate"
                                   /\ req[h].user = d.owner
                                   /\ req[h].device = d.id]_vars

\* What is left of a request: its statements, and the draws of a number.
Rank(r) ==
    IF r.pc \in Answers THEN 0
    ELSE IF r.pc \in {"prekeys", "touch", "deactivate"} THEN 1
    ELSE IF r.pc = "device" THEN 2
    ELSE IF r.pc = "create" THEN 3
    ELSE 3 + MaxAttempts - r.tries

\* Every statement of a request brings its answer nearer: however requests
\* contend for names and numbers, none goes round for ever.
RequestsEnd ==
    [][\A h \in Handlers :
         req[h].pc \in Busy /\ req'[h] # req[h] => Rank(req'[h]) < Rank(req[h])]_vars
=============================================================================
