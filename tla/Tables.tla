------------------------------- MODULE Tables -------------------------------
(***************************************************************************)
(* The tables of the server's database that accounts, devices, prekeys and *)
(* contacts live in (src/server/src/repositories).  A table is a set of    *)
(* rows; every operator is one SQL statement of a repository.  The pool    *)
(* runs each statement as a transaction of its own, so a statement is      *)
(* atomic and whatever a service does between two of them is not.  The     *)
(* generated keys (UUIDs, with NOW() beside them) are numbers in the order *)
(* of insertion.                                                           *)
(***************************************************************************)
EXTENDS Naturals

CONSTANT MaxRows    \* bound on the rows that are ever inserted in a table

ASSUME MaxRowsIsNat == MaxRows \in Nat

RowIds == 1..MaxRows

\* id is the key the next row of the table gets.
NewId(table, id) ==
    /\ id \in RowIds
    /\ \A x \in table : x.id < id
    /\ \A j \in RowIds : (\A x \in table : x.id < j) => id <= j

-----------------------------------------------------------------------------
(* Convro numbers (src/server/src/utils/convro_number.rs).  A printed group *)
(* of digits has a value and a width; a number is printed in two groups.    *)

ConvroRange == {n \in Nat : 100000 <= n /\ n < 1000000}

Digits(n) == [value |-> n, width |-> IF n < 10 THEN 1 ELSE IF n < 100 THEN 2 ELSE 3]
Padded(n) == [value |-> n, width |-> 3]

\* Mutant: the second group keeps two digits only.
FormatTwoDigits(n) == [head |-> Digits(n \div 1000), tail |-> Digits(n % 100)]

FormatConvroNumber(n) == [head |-> Digits(n \div 1000), tail |-> Digits(n % 1000)]

NoNumber == [head |-> Digits(0), tail |-> Digits(0)]

IsValidFormat(text) == text.head.width = 3 /\ text.tail.width = 3

\* Six digits are formatted; a text that starts with +99 is taken as it is.
NormalizeDigits(n) == IF n \in ConvroRange THEN FormatConvroNumber(n) ELSE NoNumber
NormalizeText(text) == IF IsValidFormat(text) THEN text ELSE NoNumber

-----------------------------------------------------------------------------
(* Users: [id, username, number, password] *)

FindById(users, id) == {u \in users : u.id = id}
FindByUsername(users, name) == {u \in users : u.username = name}
FindByConvroNumber(users, number) == {u \in users : u.number = number}
IsConvroNumberAvailable(users, number) == FindByConvroNumber(users, number) = {}

\* Mutant: the number has no constraint.
UserNameExists(users, name, number) == \E u \in users : u.username = name

\* The unique constraints on the name and on the number.
UserExists(users, name, number) ==
    \E u \in users : u.username = name \/ u.number = number

UserRow(id, name, number, password) ==
    [id |-> id, username |-> name, number |-> number,
     password |-> password]

-----------------------------------------------------------------------------
(* Devices: [id, owner, key, active]; key stands for the device id that is  *)
(* derived from the identity key and sent along with it.                    *)

DeviceExists(devices, key) == \E d \in devices : d.key = key

DeviceRow(id, owner, key) == [id |-> id, owner |-> owner, key |-> key, active |-> TRUE]

ListByUser(devices, owner) == {d \in devices : d.owner = owner}

ActiveDevices(devices, owner) == {d \in ListByUser(devices, owner) : d.active}

\* UPDATE ... WHERE device_identity_id = id AND user_id = owner.
DeactivateRow(devices, id, owner) ==
    {IF d.id = id /\ d.owner = owner THEN [d EXCEPT !.active = FALSE] ELSE d
     : d \in devices}

-----------------------------------------------------------------------------
(* Prekeys.  Bundles are [id, device], one per uploaded signed prekey.  A   *)
(* one-time prekey is [device, key, batch, by]: the upload it came with and *)
(* the user who consumed it.                                                *)

JoinedBundles(devices, bundles, owner) ==
    {b \in bundles : \E d \in ActiveDevices(devices, owner) : d.id = b.device}

Unconsumed(otps, device, nobody) == {o \in otps : o.device = device /\ o.by = nobody}

\* ORDER BY uploaded_at: the prekeys of one upload all have the time of its
\* transaction.
Oldest(rows) == {o \in rows : \A x \in rows : o.batch <= x.batch}

PrekeyBundle(owner, b, otp) ==
    [user |-> owner, device |-> b.device, spk |-> b.id, otp |-> otp]

\* Mutant: the prekey is joined by its user, not by its device.
FetchBundleOfUser(devices, bundles, otps, owner, nobody) ==
    LET Joined == Oldest({o \in otps : /\ o.by = nobody
                                       /\ \E d \in ActiveDevices(devices, owner) : d.id = o.device})
    IN
    {PrekeyBundle(owner, b, o.key) : b \in JoinedBundles(devices, bundles, owner), o \in Joined}

\* The rows the query behind GET /prekeys/:convro_number may return: any
\* bundle of any active device, joined with an oldest unconsumed one-time
\* prekey of that device, or with none when there is none.
FetchBundle(devices, bundles, otps, owner, nobody) ==
    LET Joined(b) == Oldest(Unconsumed(otps, b.device, nobody)) IN
    {PrekeyBundle(owner, b, 0) :
        b \in {c \in JoinedBundles(devices, bundles, owner) : Joined(c) = {}}}
    \cup
    UNION {{PrekeyBundle(owner, b, o.key) : o \in Joined(b)} :
              b \in JoinedBundles(devices, bundles, owner)}

\* One upload: a bundle and its one-time prekeys in one transaction.
UploadedOtps(device, batch, keys, nobody) ==
    {[device |-> device, key |-> k, batch |-> batch, by |-> nobody] : k \in keys}

\* Mutant: a consumed row is consumed again.
ConsumeRowAgain(otps, key, user, nobody) ==
    {IF o.key = key THEN [o EXCEPT !.by = user] ELSE o : o \in otps}

\* The function consume_otp of the schema: the row is locked, and one that is
\* consumed already raises an exception.
ConsumeRow(otps, key, user, nobody) ==
    {IF o.key = key /\ o.by = nobody THEN [o EXCEPT !.by = user] ELSE o : o \in otps}

-----------------------------------------------------------------------------
(* Contacts: [id, owner, number, user, verified] *)

\* Mutant: the unique index covers verified entries only.
ContactExistsVerified(contacts, owner, number) ==
    \E c \in contacts : c.owner = owner /\ c.number = number /\ c.verified

ContactExists(contacts, owner, number) ==
    \E c \in contacts : c.owner = owner /\ c.number = number

\* Mutant: the column is true by default.
ContactRowVerified(id, owner, number, user) ==
    [id |-> id, owner |-> owner, number |-> number, user |-> user, verified |-> TRUE]

ContactRow(id, owner, number, user) ==
    [id |-> id, owner |-> owner, number |-> number, user |-> user, verified |-> FALSE]

DeleteRow(contacts, id, owner) == {c \in contacts : ~(c.id = id /\ c.owner = owner)}

\* Mutant: a contact without a device is shown with an empty one.
PrimaryDeviceOrNone(devices, owner) ==
    LET own == ListByUser(devices, owner) IN
    IF own = {} THEN {[id |-> 0]} ELSE {d \in own : \A x \in own : x.id <= d.id}

\* ORDER BY registered_at DESC, active or not: the first of them.
PrimaryDevice(devices, owner) ==
    {d \in ListByUser(devices, owner) : \A x \in ListByUser(devices, owner) : x.id <= d.id}

=============================================================================
