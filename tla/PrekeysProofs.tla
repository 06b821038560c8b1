--------------------------- MODULE PrekeysProofs ---------------------------
(***************************************************************************)
(* The properties of the prekeys the server keeps, for any users, devices, *)
(* uploads and one-time prekeys.                                           *)
(*                                                                         *)
(* A bundle that was given out names rows, and the rows go on changing     *)
(* below it.  It stays a bundle of one device because rows are only added, *)
(* with a key of their own (UniqueRows), and no statement moves one to     *)
(* another device.                                                         *)
(***************************************************************************)
EXTENDS Prekeys, NaturalsInduction, WellFoundedInduction, TLAPS

\* A key is of one row.
UniqueRows ==
    /\ \A d, e \in devices : d.id = e.id => d = e
    /\ \A b, c \in bundles : b.id = c.id => b = c
    /\ \A o, p \in otps : o.key = p.key => o = p

IInv == TypeOK /\ UniqueRows /\ BundleIsOfOneDevice

-----------------------------------------------------------------------------
(* What the statements do with the rows *)

LEMMA NewIdIsNew ==
    ASSUME NEW table, NEW id, NewId(table, id)
    PROVE  id \in RowIds /\ \A x \in table : x.id # id
<1>1. id \in RowIds /\ \A x \in table : x.id < id
    BY DEF NewId
<1>2. id < id => FALSE
    BY <1>1 DEF RowIds
<1>. QED BY <1>1, <1>2

\* A device that is deactivated is the row it was, but for the flag.
LEMMA DeactivateKeeps ==
    ASSUME NEW table \in SUBSET DeviceRows, NEW id, NEW owner,
           NEW e \in DeactivateRow(table, id, owner)
    PROVE  \E d \in table : /\ e \in DeviceRows
                            /\ e.id = d.id /\ e.owner = d.owner
                            /\ e = IF d.id = id /\ d.owner = owner
                                   THEN [d EXCEPT !.active = FALSE] ELSE d
BY DEF DeactivateRow, DeviceRows

LEMMA DeactivateHasAll ==
    ASSUME NEW table \in SUBSET DeviceRows, NEW id, NEW owner, NEW d \in table
    PROVE  \E e \in DeactivateRow(table, id, owner) : e.id = d.id
<1>. DEFINE e == IF d.id = id /\ d.owner = owner THEN [d EXCEPT !.active = FALSE] ELSE d
<1>1. e \in DeactivateRow(table, id, owner)
    BY DEF DeactivateRow
<1>2. e.id = d.id
    BY DEF DeviceRows
<1>. QED BY <1>1, <1>2

\* A row that someone consumes is the row it was, but for them, and a row that
\* is consumed is not touched.
LEMMA ConsumeKeeps ==
    ASSUME NEW table \in SUBSET OtpRows, NEW key, NEW user \in Users,
           NEW p \in ConsumeRow(table, key, user, Nobody)
    PROVE  \E o \in table : /\ p \in OtpRows
                            /\ p.key = o.key /\ p.device = o.device
                            /\ p = IF o.key = key /\ o.by = Nobody
                                   THEN [o EXCEPT !.by = user] ELSE o
BY DEF ConsumeRow, OtpRows

LEMMA ConsumeHasAll ==
    ASSUME NEW table \in SUBSET OtpRows, NEW key, NEW user \in Users, NEW o \in table
    PROVE  \E p \in ConsumeRow(table, key, user, Nobody) :
              /\ p.key = o.key /\ p.device = o.device
              /\ o.by # Nobody => p.by = o.by
<1>. DEFINE p == IF o.key = key /\ o.by = Nobody THEN [o EXCEPT !.by = user] ELSE o
<1>1. p \in ConsumeRow(table, key, user, Nobody)
    BY DEF ConsumeRow
<1>2. /\ p.key = o.key /\ p.device = o.device
      /\ o.by # Nobody => p.by = o.by
    BY DEF OtpRows
<1>. QED BY <1>1, <1>2

\* What a bundle is put together from: an active device of the owner, an upload
\* of that device, and an unconsumed prekey of that device, if it has one.
LEMMA FetchedFrom ==
    ASSUME NEW owner, NEW f \in FetchBundle(devices, bundles, otps, owner, Nobody)
    PROVE  \E d \in devices, b \in bundles :
              /\ d.owner = owner /\ d.active /\ b.device = d.id
              /\ f.user = owner /\ f.device = d.id /\ f.spk = b.id
              /\ \/ /\ f = PrekeyBundle(owner, b, 0)
                    /\ Oldest(Unconsumed(otps, d.id, Nobody)) = {}
                 \/ \E o \in otps : /\ f = PrekeyBundle(owner, b, o.key)
                                    /\ o.device = d.id /\ o.by = Nobody
<1>1. PICK b \in JoinedBundles(devices, bundles, owner) :
        \/ /\ f = PrekeyBundle(owner, b, 0)
           /\ Oldest(Unconsumed(otps, b.device, Nobody)) = {}
        \/ \E o \in Oldest(Unconsumed(otps, b.device, Nobody)) : f = PrekeyBundle(owner, b, o.key)
    BY DEF FetchBundle
<1>2. PICK d \in devices : d.owner = owner /\ d.active /\ b.device = d.id /\ b \in bundles
    BY DEF JoinedBundles, ActiveDevices, ListByUser
<1>3. f.user = owner /\ f.device = d.id /\ f.spk = b.id
    BY <1>1, <1>2 DEF PrekeyBundle
<1>4. \A o \in Oldest(Unconsumed(otps, d.id, Nobody)) :
        o \in otps /\ o.device = d.id /\ o.by = Nobody
    BY DEF Oldest, Unconsumed
<1>. QED BY <1>1, <1>2, <1>3, <1>4

-----------------------------------------------------------------------------
(* The oldest prekey *)

LEMMA LeastNatural ==
    ASSUME NEW T \in SUBSET Nat, T # {}
    PROVE  \E x \in T : \A y \in T : x <= y
<1>1. PICK x \in T : \A y \in T : ~ (<<y, x>> \in OpToRel(<, Nat))
    BY NatLessThanWellFounded, WFMin, Zenon
<1>2. ASSUME NEW y \in T PROVE x <= y
  <2>1. ~ (y < x)
      BY <1>1, y \in Nat, x \in Nat, Zenon DEF OpToRel
  <2>. QED BY <2>1
<1>. QED BY <1>2

\* Rows that are there have an oldest one: a bundle is without a prekey only
\* when there is none to take.
LEMMA OldestOfSome ==
    ASSUME NEW rows \in SUBSET OtpRows, Oldest(rows) = {}
    PROVE  rows = {}
<1>. SUFFICES ASSUME rows # {} PROVE FALSE
    OBVIOUS
<1>1. {o.batch : o \in rows} \in SUBSET Nat /\ {o.batch : o \in rows} # {}
    BY DEF OtpRows, RowIds
<1>2. PICK n \in {o.batch : o \in rows} : \A m \in {o.batch : o \in rows} : n <= m
    BY <1>1, LeastNatural
<1>3. PICK o \in rows : \A x \in rows : o.batch <= x.batch
    BY <1>2
<1>. QED BY <1>3 DEF Oldest

-----------------------------------------------------------------------------
(* The steps *)

LEMMA RegisterDeviceStep ==
    ASSUME IInv, NEW u \in Users, NEW id \in RowIds, RegisterDevice(u, id)
    PROVE  IInv'
<1>. DEFINE row == DeviceRow(id, u, id)
<1>1. row \in DeviceRows /\ row.id = id
    BY DEF DeviceRow, DeviceRows
<1>2. devices' = devices \cup {row} /\ UNCHANGED <<bundles, otps, fetched>>
    BY DEF RegisterDevice
<1>3. \A d \in devices : d.id # id
    BY NewIdIsNew DEF RegisterDevice
<1>. HIDE DEF row
<1>4. TypeOK'
    BY <1>1, <1>2 DEF IInv, TypeOK
<1>5. UniqueRows'
    BY <1>1, <1>2, <1>3 DEF IInv, UniqueRows
<1>6. BundleIsOfOneDevice'
    BY <1>1, <1>2, <1>3 DEF IInv, BundleIsOfOneDevice
<1>. QED BY <1>4, <1>5, <1>6 DEF IInv

LEMMA DeactivateDeviceStep ==
    ASSUME IInv, NEW u \in Users, NEW x \in devices, DeactivateDevice(u, x)
    PROVE  IInv'
<1>1. devices' = DeactivateRow(devices, x.id, u) /\ UNCHANGED <<bundles, otps, fetched>>
    BY DEF DeactivateDevice
<1>2. devices \in SUBSET DeviceRows
    BY DEF IInv, TypeOK
<1>3. \A e \in devices' : \E d \in devices :
        /\ e \in DeviceRows /\ e.id = d.id /\ e.owner = d.owner
        /\ e = IF d.id = x.id /\ d.owner = u THEN [d EXCEPT !.active = FALSE] ELSE d
    BY <1>1, <1>2, DeactivateKeeps
<1>4. \A d \in devices : \E e \in devices' : e.id = d.id
    BY <1>1, <1>2, DeactivateHasAll
<1>5. TypeOK'
    BY <1>1, <1>3 DEF IInv, TypeOK
<1>6. UniqueRows'
  <2>1. ASSUME NEW e1 \in devices', NEW e2 \in devices', e1.id = e2.id PROVE e1 = e2
    <3>1. PICK d1 \in devices :
            /\ e1.id = d1.id
            /\ e1 = IF d1.id = x.id /\ d1.owner = u THEN [d1 EXCEPT !.active = FALSE] ELSE d1
        BY <1>3
    <3>2. PICK d2 \in devices :
            /\ e2.id = d2.id
            /\ e2 = IF d2.id = x.id /\ d2.owner = u THEN [d2 EXCEPT !.active = FALSE] ELSE d2
        BY <1>3
    <3>3. d1 = d2
        BY <2>1, <3>1, <3>2 DEF IInv, UniqueRows
    <3>. QED BY <3>1, <3>2, <3>3
  <2>. QED BY <1>1, <2>1 DEF IInv, UniqueRows
<1>7. \A e \in devices' : \E d \in devices : d.id = e.id /\ d.owner = e.owner
    BY <1>3
<1>8. BundleIsOfOneDevice'
    BY <1>1, <1>4, <1>7 DEF IInv, BundleIsOfOneDevice
<1>. QED BY <1>5, <1>6, <1>8 DEF IInv

\* An upload adds rows with keys of their own, and 0 is not one of them.
LEMMA UploadPrekeysStep ==
    ASSUME IInv, NEW d \in devices, NEW keys \in UploadRequests, NEW id \in RowIds,
           UploadPrekeys(d, keys, id)
    PROVE  IInv'
<1>. DEFINE b    == [id |-> id, device |-> d.id]
            rows == UploadedOtps(d.id, id, keys, Nobody)
<1>1. /\ bundles' = bundles \cup {b} /\ otps' = otps \cup rows
      /\ UNCHANGED <<devices, fetched>>
    BY DEF UploadPrekeys
<1>2. b \in BundleRows /\ b.id = id /\ \A c \in bundles : c.id # id
    BY NewIdIsNew DEF UploadPrekeys, BundleRows, IInv, TypeOK, DeviceRows
<1>3. keys \subseteq OtpKeys
    BY DEF UploadRequests
<1>4. /\ rows \subseteq OtpRows
      /\ \A o, p \in rows : o.key = p.key => o = p
      /\ \A p \in rows : p.key \in keys
    BY <1>3 DEF UploadedOtps, OtpRows, IInv, TypeOK, DeviceRows
<1>5. \A o \in otps, p \in rows : o.key # p.key
    BY <1>4 DEF UploadPrekeys
<1>6. \A p \in rows : p.key # 0
    BY <1>3, <1>4, OtpKeysAreRows
<1>. HIDE DEF b, rows
<1>7. TypeOK'
    BY <1>1, <1>2, <1>4 DEF IInv, TypeOK
<1>8. UniqueRows'
    BY <1>1, <1>2, <1>4, <1>5 DEF IInv, UniqueRows
<1>9. BundleIsOfOneDevice'
  <2>. SUFFICES ASSUME NEW f \in fetched
                PROVE  /\ \E c \in bundles' : c.id = f.bundle.spk
                       /\ \A c \in bundles' : c.id = f.bundle.spk => c.device = f.bundle.device
                       /\ f.bundle.otp # 0 => \E o \in otps' : o.key = f.bundle.otp
                       /\ \A o \in otps' : o.key = f.bundle.otp => o.device = f.bundle.device
      BY <1>1 DEF IInv, BundleIsOfOneDevice
  <2>1. /\ \E c \in bundles : c.id = f.bundle.spk
        /\ \A c \in bundles : c.id = f.bundle.spk => c.device = f.bundle.device
        /\ f.bundle.otp # 0 => \E o \in otps : o.key = f.bundle.otp
        /\ \A o \in otps : o.key = f.bundle.otp => o.device = f.bundle.device
      BY DEF IInv, BundleIsOfOneDevice
  <2>2. \A p \in rows : p.key # f.bundle.otp
      BY <1>5, <1>6, <2>1
  <2>3. b.id # f.bundle.spk
      BY <1>2, <2>1
  <2>. QED BY <1>1, <2>1, <2>2, <2>3
<1>. QED BY <1>7, <1>8, <1>9 DEF IInv

LEMMA FetchStep ==
    ASSUME IInv, NEW by \in Users, NEW owner \in Users, Fetch(by, owner)
    PROVE  IInv'
<1>1. UNCHANGED <<devices, bundles, otps>>
    BY DEF Fetch
<1>2. PICK f \in FetchBundle(devices, bundles, otps, owner, Nobody) :
        fetched' = fetched \cup {[by |-> by, bundle |-> f]}
    BY DEF Fetch
<1>3. PICK d \in devices, b \in bundles :
        /\ d.owner = owner /\ d.active /\ b.device = d.id
        /\ f.user = owner /\ f.device = d.id /\ f.spk = b.id
        /\ \/ /\ f = PrekeyBundle(owner, b, 0)
              /\ Oldest(Unconsumed(otps, d.id, Nobody)) = {}
           \/ \E o \in otps : /\ f = PrekeyBundle(owner, b, o.key)
                              /\ o.device = d.id /\ o.by = Nobody
    BY FetchedFrom
<1>4. PICK k \in OtpKeys \cup {0} :
        /\ f = PrekeyBundle(owner, b, k)
        /\ k # 0 => \E o \in otps : o.key = k /\ o.device = d.id
    BY <1>3 DEF IInv, TypeOK, OtpRows
<1>5. [by |-> by, bundle |-> f] \in Answers
    BY <1>3, <1>4 DEF PrekeyBundle, Answers, IInv, TypeOK, DeviceRows, BundleRows
<1>6. TypeOK'
    BY <1>1, <1>2, <1>5 DEF IInv, TypeOK
<1>7. UniqueRows'
    BY <1>1 DEF IInv, UniqueRows
<1>8. /\ \A e \in devices : e.id = d.id => e.owner = owner
      /\ \A c \in bundles : c.id = b.id => c.device = d.id
    BY <1>3 DEF IInv, UniqueRows
<1>9. f.otp = k
    BY <1>4 DEF PrekeyBundle
<1>10. \A o \in otps : o.key = k => o.device = d.id
    BY <1>4, OtpKeysAreRows DEF IInv, UniqueRows, TypeOK, OtpRows
<1>11. BundleIsOfOneDevice'
  <2>. DEFINE One(g) == /\ \E e \in devices : e.id = g.bundle.device
                        /\ \A e \in devices : e.id = g.bundle.device => e.owner = g.bundle.user
                        /\ \E c \in bundles : c.id = g.bundle.spk
                        /\ \A c \in bundles : c.id = g.bundle.spk => c.device = g.bundle.device
                        /\ g.bundle.otp # 0 => \E o \in otps : o.key = g.bundle.otp
                        /\ \A o \in otps : o.key = g.bundle.otp => o.device = g.bundle.device
  <2>1. \A g \in fetched : One(g)
      BY DEF IInv, BundleIsOfOneDevice
  <2>2. One([by |-> by, bundle |-> f])
      BY <1>3, <1>4, <1>8, <1>9, <1>10
  <2>3. \A g \in fetched' : One(g)
    <3>. HIDE DEF One
    <3>. QED BY <1>2, <2>1, <2>2
  <2>. QED BY <1>1, <2>3 DEF BundleIsOfOneDevice
<1>. QED BY <1>6, <1>7, <1>11 DEF IInv

LEMMA ConsumeOtpStep ==
    ASSUME IInv, NEW f \in fetched, ConsumeOtp(f)
    PROVE  IInv'
<1>. DEFINE key == f.bundle.otp
<1>1. otps' = ConsumeRow(otps, key, f.by, Nobody) /\ UNCHANGED <<devices, bundles, fetched>>
    BY DEF ConsumeOtp
<1>2. otps \in SUBSET OtpRows /\ f.by \in Users
    BY DEF IInv, TypeOK, Answers
<1>3. \A p \in otps' : \E o \in otps :
        /\ p \in OtpRows /\ p.key = o.key /\ p.device = o.device
        /\ p = IF o.key = key /\ o.by = Nobody THEN [o EXCEPT !.by = f.by] ELSE o
    BY <1>1, <1>2, ConsumeKeeps
<1>4. \A o \in otps : \E p \in otps' : p.key = o.key
    BY <1>1, <1>2, ConsumeHasAll
<1>. HIDE DEF key
<1>5. TypeOK'
    BY <1>1, <1>3 DEF IInv, TypeOK
<1>6. UniqueRows'
  <2>1. ASSUME NEW p1 \in otps', NEW p2 \in otps', p1.key = p2.key PROVE p1 = p2
    <3>1. PICK o1 \in otps :
            /\ p1.key = o1.key
            /\ p1 = IF o1.key = key /\ o1.by = Nobody THEN [o1 EXCEPT !.by = f.by] ELSE o1
        BY <1>3
    <3>2. PICK o2 \in otps :
            /\ p2.key = o2.key
            /\ p2 = IF o2.key = key /\ o2.by = Nobody THEN [o2 EXCEPT !.by = f.by] ELSE o2
        BY <1>3
    <3>3. o1 = o2
        BY <2>1, <3>1, <3>2 DEF IInv, UniqueRows
    <3>. QED BY <3>1, <3>2, <3>3
  <2>. QED BY <1>1, <2>1 DEF IInv, UniqueRows
<1>7. \A p \in otps' : \E o \in otps : p.key = o.key /\ p.device = o.device
    BY <1>3
<1>8. BundleIsOfOneDevice'
    BY <1>1, <1>4, <1>7 DEF IInv, BundleIsOfOneDevice
<1>. QED BY <1>5, <1>6, <1>8 DEF IInv

-----------------------------------------------------------------------------
LEMMA InitIInv == Init => IInv
BY DEF Init, IInv, TypeOK, UniqueRows, BundleIsOfOneDevice

LEMMA NextIInv == IInv /\ [Next]_vars => IInv'
<1>. SUFFICES ASSUME IInv, [Next]_vars PROVE IInv'
    OBVIOUS
<1>1. CASE \E u \in Users, id \in RowIds : RegisterDevice(u, id)
    BY <1>1, RegisterDeviceStep
<1>2. CASE \E u \in Users, d \in devices : DeactivateDevice(u, d)
    BY <1>2, DeactivateDeviceStep
<1>3. CASE \E keys \in UploadRequests, id \in RowIds : PostPrekeys(keys, id)
    BY <1>3, UploadPrekeysStep DEF PostPrekeys
<1>4. CASE \E by, owner \in Users : Fetch(by, owner)
    BY <1>4, FetchStep
<1>5. CASE \E f \in fetched : ConsumeOtp(f)
    BY <1>5, ConsumeOtpStep
<1>6. CASE UNCHANGED vars
    BY <1>6 DEF vars, IInv, TypeOK, UniqueRows, BundleIsOfOneDevice
<1>. QED BY <1>1, <1>2, <1>3, <1>4, <1>5, <1>6 DEF Next

LEMMA Invariance == Spec => []IInv
<1>. QED BY InitIInv, NextIInv, PTL DEF Spec

\* Rows and answers keep their types, however many are inserted.
THEOREM PrekeyTypes == Spec => []TypeOK
<1>1. IInv => TypeOK
    BY DEF IInv
<1>. QED BY <1>1, Invariance, PTL

\* The parts of a bundle are of one device of the person who was asked for,
\* through all that happens to the rows after it was given out.
THEOREM BundlesAreOfOneDevice == Spec => []BundleIsOfOneDevice
<1>1. IInv => BundleIsOfOneDevice
    BY DEF IInv
<1>. QED BY <1>1, Invariance, PTL

\* Of the users who were given one prekey, the first to consume it keeps it.
LEMMA StepConsumesForGood == IInv /\ Next => ConsumedForGood
<1>. SUFFICES ASSUME IInv, Next PROVE ConsumedForGood
    OBVIOUS
<1>1. otps \subseteq otps' => ConsumedForGood
    BY DEF ConsumedForGood
<1>2. ASSUME NEW f \in fetched, ConsumeOtp(f) PROVE ConsumedForGood
    BY <1>2, ConsumeHasAll DEF ConsumeOtp, IInv, TypeOK, Answers, ConsumedForGood
<1>3. ASSUME NEW keys \in UploadRequests, NEW id \in RowIds, PostPrekeys(keys, id)
      PROVE  ConsumedForGood
    BY <1>1, <1>3 DEF PostPrekeys, UploadPrekeys
<1>. QED BY <1>1, <1>2, <1>3 DEF Next, RegisterDevice, DeactivateDevice, Fetch

\* No bundle is given out with a prekey that somebody consumed, nor without one
\* while its device has one left.
LEMMA StepGivesFresh == IInv /\ Next => GivenIsFresh
<1>. DEFINE Fresh(f) == /\ \E d \in devices : d.id = f.bundle.device /\ d.active
                        /\ IF f.bundle.otp = 0
                           THEN \A o \in otps : o.device = f.bundle.device => o.by # Nobody
                           ELSE \A o \in otps : o.key = f.bundle.otp => o.by = Nobody
<1>. SUFFICES ASSUME IInv, Next PROVE \A f \in fetched' \ fetched : Fresh(f)
    BY DEF GivenIsFresh
<1>1. ASSUME NEW by \in Users, NEW owner \in Users, Fetch(by, owner)
      PROVE  \A f \in fetched' \ fetched : Fresh(f)
  <2>1. PICK g \in FetchBundle(devices, bundles, otps, owner, Nobody) :
          fetched' = fetched \cup {[by |-> by, bundle |-> g]}
      BY <1>1 DEF Fetch
  <2>2. PICK d \in devices, b \in bundles :
          /\ d.owner = owner /\ d.active /\ b.device = d.id
          /\ g.user = owner /\ g.device = d.id /\ g.spk = b.id
          /\ \/ /\ g = PrekeyBundle(owner, b, 0)
                /\ Oldest(Unconsumed(otps, d.id, Nobody)) = {}
             \/ \E o \in otps : /\ g = PrekeyBundle(owner, b, o.key)
                                /\ o.device = d.id /\ o.by = Nobody
      BY FetchedFrom
  <2>3. CASE g = PrekeyBundle(owner, b, 0) /\ Oldest(Unconsumed(otps, d.id, Nobody)) = {}
    <3>1. Unconsumed(otps, d.id, Nobody) \in SUBSET OtpRows
        BY DEF Unconsumed, IInv, TypeOK
    <3>2. Unconsumed(otps, d.id, Nobody) = {}
        BY <2>3, <3>1, OldestOfSome
    <3>3. g.otp = 0 /\ \A o \in otps : o.device = d.id => o.by # Nobody
        BY <2>3, <3>2 DEF PrekeyBundle, Unconsumed
    <3>4. Fresh([by |-> by, bundle |-> g])
        BY <2>2, <3>3
    <3>. QED
      <4>. HIDE DEF Fresh
      <4>. QED BY <2>1, <3>4
  <2>4. CASE \E o \in otps : /\ g = PrekeyBundle(owner, b, o.key)
                             /\ o.device = d.id /\ o.by = Nobody
    <3>1. PICK o \in otps : g = PrekeyBundle(owner, b, o.key) /\ o.by = Nobody
        BY <2>4
    <3>2. g.otp = o.key /\ o.key # 0
        BY <3>1, OtpKeysAreRows DEF PrekeyBundle, IInv, TypeOK, OtpRows
    <3>3. \A p \in otps : p.key = o.key => p.by = Nobody
        BY <3>1 DEF IInv, UniqueRows
    <3>4. Fresh([by |-> by, bundle |-> g])
        BY <2>2, <3>2, <3>3
    <3>. QED
      <4>. HIDE DEF Fresh
      <4>. QED BY <2>1, <3>4
  <2>. QED BY <2>2, <2>3, <2>4
<1>2. UNCHANGED fetched => \A f \in fetched' \ fetched : Fresh(f)
    OBVIOUS
<1>. HIDE DEF Fresh
<1>. QED BY <1>1, <1>2 DEF Next, RegisterDevice, DeactivateDevice, PostPrekeys, UploadPrekeys, ConsumeOtp

\* A one-time prekey goes from unused to given out to consumed, and never back.
THEOREM OneWayOtps == Spec => OtpsMoveOneWay
<1>1. IInv /\ [Next]_vars => [ConsumedForGood /\ GivenIsFresh]_vars
    BY StepConsumesForGood, StepGivesFresh
<1>. QED BY <1>1, Invariance, PTL DEF Spec, OtpsMoveOneWay
=============================================================================
