------------------------------ MODULE Prekeys ------------------------------
(***************************************************************************)
(* The prekeys the server keeps for handshakes                             *)
(* (src/server/src/services/prekey_service.rs and prekey_repo.rs).  Every  *)
(* operation is one statement or one transaction, so each is one action.   *)
(***************************************************************************)
EXTENDS Tables

CONSTANTS Users,        \* the keys of the registered users
          OtpKeys,      \* the rows of the one-time prekeys to come
          Nobody

\* A row's key is never the absent one of a bundle without a prekey.
ASSUME OtpKeysAreRows == 0 \notin OtpKeys

ASSUME NobodyIsNoUser == Nobody \notin Users

VARIABLES devices, bundles, otps,
          fetched       \* the bundles given out, and to whom

vars == <<devices, bundles, otps, fetched>>

Init == devices = {} /\ bundles = {} /\ otps = {} /\ fetched = {}

\* POST /devices; a device is known by its row here.
RegisterDevice(u, id) ==
    /\ NewId(devices, id)
    /\ devices' = devices \cup {DeviceRow(id, u, id)}
    /\ UNCHANGED <<bundles, otps, fetched>>

\* DELETE /devices/:device_id by a user with another device: overlapping
\* requests may leave none active (see Accounts).
DeactivateDevice(u, d) ==
    /\ d \in ListByUser(devices, u)
    /\ ListByUser(devices, u) # {d}
    /\ devices' = DeactivateRow(devices, d.id, u)
    /\ UNCHANGED <<bundles, otps, fetched>>

\* A request to upload has at least one one-time prekey.
UploadRequests == SUBSET OtpKeys \ {{}}

\* The foreign keys ask for a row of the device.
UploadPrekeys(d, keys, id) ==
    /\ d \in devices
    /\ \A o \in otps : o.key \notin keys
    /\ NewId(bundles, id)
    /\ bundles' = bundles \cup {[id |-> id, device |-> d.id]}
    /\ otps' = otps \cup UploadedOtps(d.id, id, keys, Nobody)
    /\ UNCHANGED <<devices, fetched>>

\* POST /prekeys.  The request names the device, which need not be one of the
\* user who sends it.
PostPrekeys(keys, id) ==
    \E d \in devices : UploadPrekeys(d, keys, id)

\* GET /prekeys/:convro_number.  The statement only reads, and the service
\* leaves the one-time prekey to be consumed later.
Fetch(by, owner) ==
    /\ \E b \in FetchBundle(devices, bundles, otps, owner, Nobody) :
          fetched' = fetched \cup {[by |-> by, bundle |-> b]}
    /\ UNCHANGED <<devices, bundles, otps>>

\* PrekeyService::consume_otp, by whoever was given the prekey; no route
\* leads there yet.
ConsumeOtp(f) ==
    /\ f \in fetched
    /\ otps' = ConsumeRow(otps, f.bundle.otp, f.by, Nobody)
    /\ UNCHANGED <<devices, bundles, fetched>>

Next ==
    \/ \E u \in Users, id \in RowIds : RegisterDevice(u, id)
    \/ \E u \in Users, d \in devices : DeactivateDevice(u, d)
    \/ \E keys \in UploadRequests, id \in RowIds : PostPrekeys(keys, id)
    \/ \E by, owner \in Users : Fetch(by, owner)
    \/ \E f \in fetched : ConsumeOtp(f)

Spec == Init /\ [][Next]_vars

-----------------------------------------------------------------------------
DeviceRows == [id : RowIds, owner : Users, key : RowIds, active : BOOLEAN]
BundleRows == [id : RowIds, device : RowIds]
OtpRows == [device : RowIds, key : OtpKeys, batch : RowIds, by : Users \cup {Nobody}]
Answers == [by : Users,
            bundle : [user : Users, device : RowIds, spk : RowIds, otp : OtpKeys \cup {0}]]

\* Rows and answers have their types.
TypeOK ==
    /\ devices \subseteq DeviceRows
    /\ bundles \subseteq BundleRows
    /\ otps \subseteq OtpRows
    /\ fetched \subseteq Answers

\* A handshake is with one device: the signed prekey and the one-time prekey
\* of a bundle are both of the device it names, which is of the user who was
\* asked for, also after later uploads and deactivations (the joins of
\* fetch_bundle, prekey_repo.rs; no row names the signed prekey a one-time
\* prekey came with).
BundleIsOfOneDevice ==
    \A f \in fetched :
        /\ \E d \in devices : d.id = f.bundle.device
        /\ \A d \in devices : d.id = f.bundle.device => d.owner = f.bundle.user
        /\ \E b \in bundles : b.id = f.bundle.spk
        /\ \A b \in bundles : b.id = f.bundle.spk => b.device = f.bundle.device
        /\ f.bundle.otp # 0 => \E o \in otps : o.key = f.bundle.otp
        /\ \A o \in otps : o.key = f.bundle.otp => o.device = f.bundle.device

ConsumedForGood ==
    \A o \in otps : \E p \in otps' :
        /\ p.key = o.key /\ p.device = o.device
        /\ o.by # Nobody => p.by = o.by

GivenIsFresh ==
    \A f \in fetched' \ fetched :
        /\ \E d \in devices : d.id = f.bundle.device /\ d.active
        /\ IF f.bundle.otp = 0
           THEN \A o \in otps : o.device = f.bundle.device => o.by # Nobody
           ELSE \A o \in otps : o.key = f.bundle.otp => o.by = Nobody

\* A one-time prekey goes one way, from unused to given out to consumed.  Once
\* someone consumed it, it stays consumed by them, and none is moved to another
\* device or lost, whoever else was given it and consumes it too (consume_otp of
\* schema.sql).  What is given out for the first time is of an active device, its
\* prekey is one nobody has consumed, and there is none only when that device has
\* none left (the LEFT JOIN of fetch_bundle).
OtpsMoveOneWay == [][ConsumedForGood /\ GivenIsFresh]_vars

\* Two clients are never given the same one-time prekey (PK-201 and PK-202 of
\* docs/identity/identity-test-matrix.md; "atomically consumed (server
\* authority)" in docs/identity/prekeys-lifecycle.md).
OtpGivenOnce ==
    \A f, g \in fetched :
        f.bundle.otp = g.bundle.otp /\ f.bundle.otp # 0 => f.by = g.by
=============================================================================
