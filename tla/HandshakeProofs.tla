-------------------------- MODULE HandshakeProofs --------------------------
(***************************************************************************)
(* The properties of the handshake, for every set of devices and any       *)
(* number of offers, rotations and one-time prekeys.                       *)
(*                                                                         *)
(* None of the properties is inductive.  The invariant below ties the      *)
(* parts of the state together: offers are what Offer makes of a bundle,   *)
(* under session ids of their own; whatever was accepted answers an offer  *)
(* with the keys of that offer; the sessions in use are those of offers    *)
(* and of accepts; and a one-time prekey that went into a session is gone. *)
(***************************************************************************)
EXTENDS Handshake, FiniteSetTheorems, TLAPS

BundleOf(o) == [device |-> o.wire.hello.responder, prekeys |-> o.wire.th.prekeys]

\* Every result of create_offer, and the session id it was given.
OfferInv ==
    /\ IsFiniteSet(created)
    /\ \A o \in created :
           /\ o.by \in Device /\ o.wire.hello.responder \in Device
           /\ o.keys.sid \in 1 .. Cardinality(created)
           /\ o = Offer(o.by, BundleOf(o), o.keys.sid)
    /\ \A o, p \in created : o.keys.sid = p.keys.sid => o = p

\* The responder's keys for an offer.
ResponderKeys(o) == SessionKeys(o.keys.sid, o.keys.prk, "responder")

\* r is an acceptance of offer o by the device it was made for.
Answers(r, o) ==
    /\ o.by = r.initiator
    /\ o.wire.hello.responder = r.by
    /\ r.keys = ResponderKeys(o)
    /\ r.accept.kc2 = KcTag(o.keys.prk, "RESP")
    /\ r.otp = o.wire.th.prekeys.otp

AcceptInv == \A r \in accepted : \E o \in created : Answers(r, o)

OtpInv ==
    /\ \A v \in Device : otps[v] \subseteq OwnedOtps(v)
    /\ \A r \in accepted :
           r.by \in Device /\ r.otp \subseteq OwnedOtps(r.by) /\ r.otp \cap otps[r.by] = {}
    /\ \A r, s \in accepted : r.otp # {} /\ r.otp = s.otp => r = s

ActiveInv ==
    /\ \A v \in Device : \A k \in active[v] : \E o \in created :
           \/ k = o.keys /\ o.by = v
           \/ k = ResponderKeys(o) /\ o.wire.hello.responder = v
    /\ \A o \in created : o.wire.hello.responder # o.by => o.keys \in active[o.by]
    /\ \A r \in accepted : r.keys \in active[r.by]

ConfirmInv ==
    /\ confirmed \subseteq created
    /\ \A o \in confirmed : \E r \in accepted : r.accept.kc2 = KcTag(o.keys.prk, "RESP")

SlotInv ==
    /\ spk \in [Device -> 1 .. MaxSpk]
    /\ published \in [Device -> SUBSET (1 .. MaxSpk)]
    /\ \A v \in Device : published[v] \subseteq 1 .. spk[v]
    /\ otps \in [Device -> SUBSET Otps]
    /\ DOMAIN active = Device
    /\ Cardinality(created) <= MaxOffers

HInv ==
    SlotInv /\ OfferInv /\ AcceptInv /\ OtpInv /\ ActiveInv /\ ConfirmInv

(***************************************************************************)
(* Offers.                                                                 *)
(***************************************************************************)
\* The fields of an offer that its acceptance depends on.
LEMMA OfferFields ==
    ASSUME NEW a, NEW b, NEW n
    PROVE  LET o == Offer(a, b, n)
           IN  /\ o.by = a
               /\ o.keys = SessionKeys(n, o.keys.prk, "initiator")
               /\ o.keys.sid = n /\ o.keys.role = "initiator"
               /\ o.keys.prk = Prk(OfferIkm(a, EphemeralKey(a, n), b.prekeys), o.wire.th)
               /\ o.wire.hello.sid = n /\ o.wire.hello.initiator = a
               /\ o.wire.hello.responder = b.device
               /\ o.wire.hello.ikDh = IdentityKey(a) /\ o.wire.hello.ikSig = a
               /\ o.wire.hello.ek = EphemeralKey(a, n)
               /\ o.wire.hello.suite = 1
               /\ o.wire.th = TranscriptHash(o.wire.hello, b.prekeys)
               /\ o.wire.kc1 = KcTag(o.keys.prk, "INIT")
               /\ o.wire.sig = Sign(a, o.wire.th)
               /\ o.wire.spkId = b.prekeys.spkId
               /\ o.wire.otpId = {p.id : p \in b.prekeys.otp}
BY DEF Offer, SessionKeys

\* The same of an offer in the state.
LEMMA CreatedFields ==
    ASSUME OfferInv, NEW o \in created
    PROVE  /\ o.by \in Device
           /\ o.keys = SessionKeys(o.keys.sid, o.keys.prk, "initiator")
           /\ o.keys.role = "initiator"
           /\ o.keys.prk = Prk(OfferIkm(o.by, EphemeralKey(o.by, o.keys.sid),
                                        o.wire.th.prekeys), o.wire.th)
           /\ o.wire.hello.sid = o.keys.sid /\ o.wire.hello.initiator = o.by
           /\ o.wire.hello.ikDh = IdentityKey(o.by) /\ o.wire.hello.ikSig = o.by
           /\ o.wire.hello.ek = EphemeralKey(o.by, o.keys.sid)
           /\ o.wire.hello.suite = 1
           /\ o.wire.th = TranscriptHash(o.wire.hello, o.wire.th.prekeys)
           /\ o.wire.kc1 = KcTag(o.keys.prk, "INIT")
           /\ o.wire.sig = Sign(o.by, o.wire.th)
           /\ o.wire.spkId = o.wire.th.prekeys.spkId
           /\ o.wire.otpId = {p.id : p \in o.wire.th.prekeys.otp}
<1>1. o = Offer(o.by, BundleOf(o), o.keys.sid) /\ o.by \in Device
    BY DEF OfferInv
<1>2. BundleOf(o).prekeys = o.wire.th.prekeys
    BY DEF BundleOf
<1>. QED BY <1>1, <1>2, OfferFields

\* Offers with the same secret are the same offer.
LEMMA SamePrk ==
    ASSUME OfferInv, NEW o \in created, NEW p \in created, o.keys.prk = p.keys.prk
    PROVE  o = p
<1>1. ASSUME NEW x \in created PROVE x.keys.prk.th.sid = x.keys.sid
  <2>1. x.keys.prk.th = x.wire.th
    <3>1. x.keys.prk = Prk(OfferIkm(x.by, EphemeralKey(x.by, x.keys.sid),
                                    x.wire.th.prekeys), x.wire.th)
        BY CreatedFields
    <3>2. \A ikm, th : Prk(ikm, th).th = th
        BY DEF Prk
    <3>. QED BY <3>1, <3>2
  <2>2. x.wire.th.sid = x.wire.hello.sid
    <3>1. x.wire.th = TranscriptHash(x.wire.hello, x.wire.th.prekeys)
        BY CreatedFields
    <3>2. \A h, q : TranscriptHash(h, q).sid = h.sid
        BY DEF TranscriptHash
    <3>. QED BY <3>1, <3>2, Zenon
  <2>. QED BY <2>1, <2>2, CreatedFields
<1>3. o.keys.sid = p.keys.sid
    BY <1>1
<1>. QED BY <1>3 DEF OfferInv

\* What arrives at a responder keeps at least one of the two fields that
\* authenticate it, because at most one field was altered.
Arrives(w) == w \in Sent \cup AlteredOffers

LEMMA ArrivesAuthenticated ==
    ASSUME OfferInv, NEW w, Arrives(w)
    PROVE  \E o \in created : w.sig = o.wire.sig \/ w.kc1 = o.wire.kc1
<1>. DEFINE fields == {"version", "spkId", "spkPub", "th", "kc1", "sig"}
            chosen == {"sid", "initiator", "responder", "ikDh", "ikSig", "ek"}
            Kept(y) == w.sig = y.sig \/ w.kc1 = y.kc1
<1>1. \A y \in Sent : DOMAIN y = {"version", "hello", "spkId", "spkPub", "otpId",
                                  "th", "kc1", "sig"}
  <2>1. \A a, b, n : DOMAIN Offer(a, b, n).wire =
            {"version", "hello", "spkId", "spkPub", "otpId", "th", "kc1", "sig"}
      BY DEF Offer
  <2>. QED BY <2>1 DEF Sent, OfferInv
<1>2. ASSUME NEW y \in Sent, NEW f \in fields, NEW z, w = [y EXCEPT ![f] = z]
      PROVE  Kept(y)
    BY <1>1, <1>2
<1>3. ASSUME NEW y \in Sent, NEW z, w = [y EXCEPT !.hello = z]
      PROVE  Kept(y)
    BY <1>1, <1>3
<1>4. ASSUME NEW y \in Sent, NEW z, w = [y EXCEPT !.otpId = z]
      PROVE  Kept(y)
    BY <1>1, <1>4
<1>5. \E y \in Sent : Kept(y)
  <2>1. CASE w \in Sent
      BY <2>1
  <2>2. CASE \E y \in Sent, f \in fields : \E z : w = [y EXCEPT ![f] = z]
      BY <1>2, <2>2
  <2>3. CASE \E y \in Sent : \E z : w = [y EXCEPT !.hello = z]
      BY <1>3, <2>3
  <2>4. CASE \E y \in Sent : \E z : w = [y EXCEPT !.otpId = z]
      BY <1>4, <2>4
  <2>5. w \in AlteredOffers =>
            \/ \E y \in Sent, f \in fields : \E z : w = [y EXCEPT ![f] = z]
            \/ \E y \in Sent : \E z : w = [y EXCEPT !.hello = z]
            \/ \E y \in Sent : \E z : w = [y EXCEPT !.otpId = z]
      BY DEF AlteredOffers
  <2>. QED BY <2>1, <2>2, <2>3, <2>4, <2>5 DEF Arrives
<1>. QED BY <1>5 DEF Sent

\* Whatever a device accepts was offered to it: the transcript the device puts
\* together from what arrived and from its own Keychain is that of an offer, and
\* the four secrets come out the same on both sides.
LEMMA AcceptedWasOffered ==
    ASSUME OfferInv, NEW v \in Device, NEW w, Arrives(w), Accepts(v, w)
    PROVE  \E o \in created : /\ o.by = w.hello.initiator
                              /\ o.wire.hello.responder = v
                              /\ o.keys.sid = w.hello.sid
                              /\ o.keys.prk = AcceptPrk(v, w)
                              /\ o.wire.th.prekeys.otp = LoadOtp(v, w)
<1>1. PICK o \in created : w.sig = o.wire.sig \/ w.kc1 = o.wire.kc1
    BY ArrivesAuthenticated
<1>. DEFINE h == o.wire.hello
            q == OwnPrekeys(v, w)
<1>2. /\ w.hello.responder = v
      /\ w.sig = Sign(w.hello.ikSig, AcceptHash(v, w))
      /\ w.kc1 = KcTag(AcceptPrk(v, w), "INIT")
    BY DEF Accepts
<1>3. /\ o.keys.prk = Prk(OfferIkm(o.by, EphemeralKey(o.by, o.keys.sid),
                                   o.wire.th.prekeys), o.wire.th)
      /\ h.sid = o.keys.sid /\ h.initiator = o.by /\ h.ikDh = IdentityKey(o.by)
      /\ h.ek = EphemeralKey(o.by, o.keys.sid)
      /\ o.wire.th = TranscriptHash(h, o.wire.th.prekeys)
      /\ o.wire.kc1 = KcTag(o.keys.prk, "INIT") /\ o.wire.sig = Sign(o.by, o.wire.th)
    BY CreatedFields
<1>4. o.wire.th = AcceptHash(v, w)
  <2>1. CASE w.sig = o.wire.sig
    <3>1. \A a, b, m, n : Sign(a, m) = Sign(b, n) => m = n
        BY DEF Sign
    <3>. QED BY <1>2, <1>3, <2>1, <3>1
  <2>2. CASE w.kc1 = o.wire.kc1
    <3>1. \A k, l, d : KcTag(k, d) = KcTag(l, d) => k = l
        BY DEF KcTag
    <3>2. \A i, j, m, n : Prk(i, m) = Prk(j, n) => m = n
        BY DEF Prk
    <3>3. AcceptPrk(v, w) = o.keys.prk
        BY <1>2, <1>3, <2>2, <3>1
    <3>4. AcceptPrk(v, w) = Prk(AcceptIkm(v, w), AcceptHash(v, w))
        BY DEF AcceptPrk
    <3>. QED BY <1>3, <3>2, <3>3, <3>4
  <2>. QED BY <1>1, <2>1, <2>2
<1>5. /\ h.sid = w.hello.sid /\ h.initiator = w.hello.initiator
      /\ h.responder = w.hello.responder /\ h.ikDh = w.hello.ikDh /\ h.ek = w.hello.ek
      /\ o.wire.th.prekeys = q
  <2>1. TranscriptHash(h, o.wire.th.prekeys) = TranscriptHash(w.hello, q)
      BY <1>3, <1>4 DEF AcceptHash
  <2>2. \A x, y, a, b : TranscriptHash(x, a) = TranscriptHash(y, b) =>
            /\ x.sid = y.sid /\ x.initiator = y.initiator
            /\ x.responder = y.responder /\ x.ikDh = y.ikDh /\ x.ek = y.ek
            /\ a = b
      BY DEF TranscriptHash
  <2>. QED BY <2>1, <2>2
<1>6. OfferIkm(o.by, EphemeralKey(o.by, o.keys.sid), q) = AcceptIkm(v, w)
  <2>1. /\ q.ikDh = IdentityKey(v) /\ q.spkPub = SpkKey(v, spk[v])
        /\ q.otp = LoadOtp(v, w)
      BY DEF OwnPrekeys, Prekeys
  <2>2. w.hello.ikDh = IdentityKey(o.by) /\ w.hello.ek = EphemeralKey(o.by, o.keys.sid)
      BY <1>3, <1>5
  <2>3. \A x, y : Dh(x, y) = Dh(y, x)
      BY DEF Dh
  <2>. QED BY <2>1, <2>2, <2>3 DEF OfferIkm, AcceptIkm
<1>7. o.keys.prk = AcceptPrk(v, w)
    BY <1>3, <1>4, <1>5, <1>6 DEF AcceptPrk
<1>8. q.otp = LoadOtp(v, w)
    BY DEF OwnPrekeys, Prekeys
<1>. HIDE DEF q
<1>. QED BY <1>2, <1>3, <1>5, <1>7, <1>8

(***************************************************************************)
(* The invariant is inductive.                                             *)
(***************************************************************************)
\* After registration the invariant holds.
LEMMA InitHInv == Init => HInv
<1>. SUFFICES ASSUME Init PROVE HInv
    OBVIOUS
<1>1. IsFiniteSet(created) /\ Cardinality(created) = 0
    BY FS_EmptySet DEF Init
<1>2. SlotInv
    BY <1>1, HandshakeAssumption DEF Init, SlotInv, Otps
<1>3. OfferInv /\ AcceptInv /\ OtpInv /\ ActiveInv /\ ConfirmInv
    BY <1>1 DEF Init, OfferInv, AcceptInv, OtpInv, ActiveInv, ConfirmInv
<1>. QED BY <1>2, <1>3 DEF HInv

\* Rotation and upload leave everything but the slot and what was published alone,
\* and what is published was in the slot.
LEMMA RotateStep ==
    ASSUME HInv, NEW v \in Device, RotateSpk(v) \/ UploadSpk(v)
    PROVE  HInv'
<1>1. UNCHANGED <<otps, created, accepted, confirmed, active>>
    BY DEF RotateSpk, UploadSpk
<1>2. OfferInv' /\ AcceptInv' /\ OtpInv' /\ ActiveInv' /\ ConfirmInv'
    BY <1>1 DEF HInv, OfferInv, AcceptInv, OtpInv, ActiveInv, ConfirmInv, Answers
<1>3. SlotInv
    BY DEF HInv
<1>4. MaxSpk \in Nat /\ \A u \in Device : spk[u] \in 1 .. MaxSpk /\ spk[u] \in Nat
    BY <1>3, HandshakeAssumption DEF SlotInv
<1>5. CASE RotateSpk(v)
  <2>1. spk' = [spk EXCEPT ![v] = @ + 1] /\ spk[v] < MaxSpk /\ published' = published
      BY <1>5 DEF RotateSpk
  <2>2. spk' \in [Device -> 1 .. MaxSpk]
      BY <1>3, <1>4, <2>1 DEF SlotInv
  <2>3. \A u \in Device : published'[u] \subseteq 1 .. spk'[u]
      BY <1>3, <1>4, <2>1 DEF SlotInv
  <2>. QED BY <1>1, <1>2, <1>3, <2>1, <2>2, <2>3 DEF HInv, SlotInv
<1>6. CASE UploadSpk(v)
  <2>1. published' = [published EXCEPT ![v] = @ \cup {spk[v]}] /\ spk' = spk
      BY <1>6 DEF UploadSpk
  <2>2. published' \in [Device -> SUBSET (1 .. MaxSpk)]
      BY <1>3, <1>4, <2>1 DEF SlotInv
  <2>3. \A u \in Device : published'[u] \subseteq 1 .. spk'[u]
      BY <1>3, <1>4, <2>1 DEF SlotInv
  <2>. QED BY <1>1, <1>2, <1>3, <2>1, <2>2, <2>3 DEF HInv, SlotInv
<1>. QED BY <1>5, <1>6

\* A bundle, mixed up or not, names a device.
LEMMA BundleNamesDevice ==
    ASSUME NEW b \in GenuineBundles \cup MixedBundles
    PROVE  b.device \in Device
<1>1. \A c \in GenuineBundles : c.device \in Device /\ DOMAIN c = {"device", "prekeys"}
    BY DEF GenuineBundles
<1>2. CASE b \in GenuineBundles
    BY <1>1, <1>2
<1>3. ASSUME NEW c \in GenuineBundles, NEW e \in GenuineBundles,
             b = [c EXCEPT !.device = e.device]
      PROVE  b.device \in Device
    BY <1>1, <1>3
<1>4. ASSUME NEW c \in GenuineBundles, NEW z, b = [c EXCEPT !.prekeys = z]
      PROVE  b.device \in Device
    BY <1>1, <1>4
<1>5. b \in MixedBundles =>
          \/ \E c, e \in GenuineBundles : b = [c EXCEPT !.device = e.device]
          \/ \E c \in GenuineBundles : \E z : b = [c EXCEPT !.prekeys = z]
    BY DEF MixedBundles
<1>. QED BY <1>2, <1>3, <1>4, <1>5

\* A new offer has a session id of its own, so it replaces no session in use.
LEMMA CreateOfferStep ==
    ASSUME HInv, NEW a \in Device, NEW b \in GenuineBundles \cup MixedBundles,
           CreateOffer(a, b)
    PROVE  HInv'
<1>. DEFINE n == Cardinality(created) + 1
            new == Offer(a, b, n)
<1>1. /\ SlotInv /\ OfferInv /\ AcceptInv /\ OtpInv /\ ActiveInv /\ ConfirmInv
      /\ MaxOffers \in Nat
    BY HandshakeAssumption DEF HInv
<1>2. /\ Cardinality(created) < MaxOffers
      /\ created' = created \cup {new}
      /\ active' = [active EXCEPT ![a] = {k \in @ : k.sid # new.keys.sid} \cup {new.keys}]
      /\ UNCHANGED <<spk, published, otps, accepted, confirmed>>
    BY DEF CreateOffer, Activate
<1>3. /\ new.by = a /\ new.keys.sid = n
      /\ new.wire.hello.responder = b.device
      /\ b.device \in Device
    BY OfferFields, BundleNamesDevice
<1>4. new = Offer(new.by, BundleOf(new), n)
  <2>1. new.wire.th.prekeys = b.prekeys
      BY DEF Offer, TranscriptHash
  <2>2. BundleOf(new) = [device |-> b.device, prekeys |-> b.prekeys]
      BY <1>3, <2>1 DEF BundleOf
  <2>3. Offer(a, b, n) = Offer(a, [device |-> b.device, prekeys |-> b.prekeys], n)
      BY DEF Offer
  <2>. QED BY <1>3, <2>2, <2>3
<1>. HIDE DEF new
<1>5. /\ Cardinality(created) \in Nat
      /\ \A o \in created : o.keys.sid \in 1 .. Cardinality(created)
    BY <1>1, FS_CardinalityType DEF OfferInv
<1>6. new \notin created /\ \A o \in created : o.keys.sid # n
    BY <1>3, <1>5
<1>7. IsFiniteSet(created') /\ Cardinality(created') = n
    BY <1>1, <1>2, <1>6, FS_AddElement DEF OfferInv
<1>8. SlotInv'
  <2>1. Cardinality(created') <= MaxOffers
      BY <1>1, <1>2, <1>5, <1>7
  <2>. QED BY <1>1, <1>2, <2>1 DEF SlotInv
<1>9. OfferInv'
  <2>1. ASSUME NEW o \in created'
        PROVE  /\ o.by \in Device /\ o.wire.hello.responder \in Device
               /\ o.keys.sid \in 1 .. n
               /\ o = Offer(o.by, BundleOf(o), o.keys.sid)
    <3>1. CASE o \in created
        BY <1>1, <1>5, <3>1 DEF OfferInv
    <3>2. CASE o = new
      <4>1. n \in 1 .. n
          BY <1>5
      <4>. QED BY <1>3, <1>4, <3>2, <4>1
    <3>. QED BY <1>2, <3>1, <3>2
  <2>2. \A o, p \in created' : o.keys.sid = p.keys.sid => o = p
      BY <1>1, <1>2, <1>3, <1>6 DEF OfferInv
  <2>. QED BY <1>7, <2>1, <2>2 DEF OfferInv
<1>10. AcceptInv' /\ OtpInv' /\ ConfirmInv'
    BY <1>1, <1>2 DEF AcceptInv, OtpInv, ConfirmInv, Answers
<1>11. ActiveInv'
  <2>1. \A k \in active[a] : k.sid # n
      BY <1>1, <1>6 DEF ActiveInv, ResponderKeys, SessionKeys
  <2>2. /\ active'[a] = active[a] \cup {new.keys}
        /\ \A v \in Device : v # a => active'[v] = active[v]
      BY <1>1, <1>2, <1>3, <2>1 DEF SlotInv
  <2>3. ASSUME NEW v \in Device, NEW k \in active'[v]
        PROVE  \E o \in created' : \/ k = o.keys /\ o.by = v
                                   \/ k = ResponderKeys(o) /\ o.wire.hello.responder = v
    <3>1. CASE k \in active[v]
        BY <1>1, <1>2, <3>1 DEF ActiveInv
    <3>2. CASE k \notin active[v]
      <4>1. v = a /\ k = new.keys
          BY <2>2, <3>2
      <4>. QED BY <1>2, <1>3, <4>1
    <3>. QED BY <3>1, <3>2
  <2>4. \A o \in created' : o.wire.hello.responder # o.by => o.keys \in active'[o.by]
      BY <1>1, <1>2, <1>3, <2>2 DEF ActiveInv, OfferInv
  <2>5. \A r \in accepted' : r.keys \in active'[r.by]
      BY <1>1, <1>2, <2>2 DEF ActiveInv, OtpInv
  <2>. QED BY <2>3, <2>4, <2>5 DEF ActiveInv
<1>. QED BY <1>8, <1>9, <1>10, <1>11 DEF HInv

\* The one-time prekeys of two devices have nothing in common.
LEMMA OtpsOfOneDevice ==
    ASSUME NEW u, NEW v, NEW x \in OwnedOtps(u), x \in OwnedOtps(v)
    PROVE  u = v
BY DEF OwnedOtps, Otp, OtpKey, X25519Key

\* An acceptance answers an offer, its one-time prekey is gone afterwards, and the
\* session it replaces, if there is one, is the same session.
LEMMA AcceptStep ==
    ASSUME HInv, NEW v \in Device, NEW w, Arrives(w), Accepts(v, w), Respond(v, w)
    PROVE  HInv'
<1>. DEFINE new == Acceptance(v, w)
            used == LoadOtp(v, w)
<1>1. SlotInv /\ OfferInv /\ AcceptInv /\ OtpInv /\ ActiveInv /\ ConfirmInv
    BY DEF HInv
<1>2. PICK o \in created : /\ o.by = w.hello.initiator
                          /\ o.wire.hello.responder = v
                          /\ o.keys.sid = w.hello.sid
                          /\ o.keys.prk = AcceptPrk(v, w)
                          /\ o.wire.th.prekeys.otp = used
    BY <1>1, AcceptedWasOffered
<1>3. /\ otps' = [otps EXCEPT ![v] = otps[v] \ used]
      /\ accepted' = accepted \cup {new}
      /\ active' = [active EXCEPT ![v] = {k \in @ : k.sid # new.keys.sid} \cup {new.keys}]
      /\ UNCHANGED <<spk, published, created, confirmed>>
    BY DEF Respond, Activate, OtpsAfter
<1>4. /\ new.by = v /\ new.otp = used /\ new.initiator = o.by
      /\ new.keys = ResponderKeys(o)
      /\ new.accept.kc2 = KcTag(o.keys.prk, "RESP")
    BY <1>2 DEF Acceptance, ResponderKeys
<1>5. used \subseteq otps[v]
    BY DEF LoadOtp
<1>6. \A p : ResponderKeys(p).sid = p.keys.sid
    BY DEF ResponderKeys, SessionKeys
<1>. HIDE DEF new, used
<1>7. /\ \A u \in Device : u # v => otps'[u] = otps[u] /\ active'[u] = active[u]
      /\ otps'[v] = otps[v] \ used
      /\ active'[v] = {k \in active[v] : k.sid # o.keys.sid} \cup {ResponderKeys(o)}
    BY <1>1, <1>3, <1>4, <1>6 DEF SlotInv
<1>8. SlotInv'
    BY <1>1, <1>3, <1>5 DEF SlotInv
<1>9. OfferInv'
    BY <1>1, <1>3 DEF OfferInv
<1>10. AcceptInv'
    BY <1>1, <1>2, <1>3, <1>4 DEF AcceptInv, Answers
<1>11. OtpInv'
  <2>1. \A u \in Device : otps'[u] \subseteq otps[u] /\ otps'[u] \subseteq OwnedOtps(u)
      BY <1>1, <1>7 DEF OtpInv
  <2>2. used \subseteq OwnedOtps(v) /\ used \cap otps'[v] = {}
      BY <1>1, <1>5, <1>7 DEF OtpInv
  <2>3. \A r \in accepted' :
            r.by \in Device /\ r.otp \subseteq OwnedOtps(r.by) /\ r.otp \cap otps'[r.by] = {}
      BY <1>1, <1>3, <1>4, <2>1, <2>2 DEF OtpInv
  <2>4. ASSUME NEW r \in accepted, r.otp # {}, r.otp = used
        PROVE  FALSE
    <3>1. PICK x : x \in r.otp
        BY <2>4
    <3>2. x \in OwnedOtps(r.by) /\ x \in OwnedOtps(v) /\ x \in otps[v]
        BY <1>1, <1>5, <2>2, <2>4, <3>1 DEF OtpInv
    <3>3. r.by = v
        BY <3>2, OtpsOfOneDevice
    <3>. QED BY <1>1, <3>1, <3>2, <3>3 DEF OtpInv
  <2>5. \A r, s \in accepted' : r.otp # {} /\ r.otp = s.otp => r = s
      BY <1>1, <1>3, <1>4, <2>4 DEF OtpInv
  <2>. QED BY <2>1, <2>3, <2>5 DEF OtpInv
<1>12. ActiveInv'
  <2>1. ASSUME NEW u \in Device, NEW k \in active'[u]
        PROVE  \E p \in created : \/ k = p.keys /\ p.by = u
                                  \/ k = ResponderKeys(p) /\ p.wire.hello.responder = u
    <3>1. CASE k \in active[u]
        BY <1>1, <3>1 DEF ActiveInv
    <3>2. CASE k \notin active[u]
      <4>1. u = v /\ k = ResponderKeys(o)
          BY <1>7, <3>2
      <4>. QED BY <1>2, <4>1
    <3>. QED BY <3>1, <3>2
  <2>2. ASSUME NEW p \in created, p.wire.hello.responder # p.by
        PROVE  p.keys \in active'[p.by]
    <3>1. p.keys \in active[p.by] /\ p.by \in Device
        BY <1>1, <2>2 DEF ActiveInv, OfferInv
    <3>2. p.by = v => p.keys.sid # o.keys.sid
        BY <1>1, <1>2, <2>2 DEF OfferInv
    <3>. QED BY <1>7, <3>1, <3>2
  <2>3. ASSUME NEW r \in accepted
        PROVE  r.keys \in active'[r.by]
    <3>1. r.keys \in active[r.by] /\ r.by \in Device
        BY <1>1 DEF ActiveInv, OtpInv
    <3>2. PICK p \in created : r.keys = ResponderKeys(p)
        BY <1>1 DEF AcceptInv, Answers
    <3>3. r.keys.sid = o.keys.sid => r.keys = ResponderKeys(o)
      <4>1. r.keys.sid = o.keys.sid => p = o
          BY <1>1, <1>6, <3>2 DEF OfferInv
      <4>. QED BY <3>2, <4>1
    <3>. QED BY <1>7, <3>1, <3>3
  <2>4. \A r \in accepted' : r.keys \in active'[r.by]
      BY <1>3, <1>4, <1>7, <2>3
  <2>. QED BY <1>3, <2>1, <2>2, <2>4 DEF ActiveInv
<1>13. ConfirmInv'
    BY <1>1, <1>3 DEF ConfirmInv
<1>. QED BY <1>8, <1>9, <1>10, <1>11, <1>12, <1>13 DEF HInv

\* A refusal changes nothing.
LEMMA RespondStep ==
    ASSUME HInv, NEW v \in Device, NEW w, Arrives(w), Respond(v, w)
    PROVE  HInv'
<1>1. CASE ~Accepts(v, w)
  <2>1. otps' = otps
      BY <1>1 DEF Respond, OtpsAfter, HInv, SlotInv
  <2>2. UNCHANGED vars
      BY <1>1, <2>1 DEF Respond, vars
  <2>. QED BY <2>2 DEF vars, HInv, SlotInv, OfferInv, AcceptInv, OtpInv, ActiveInv,
                       ConfirmInv, Answers
<1>. QED BY <1>1, AcceptStep

\* The tag that confirms an offer is of the direction of the responder, so it was
\* made by an acceptance and by no offer.
LEMMA VerifyStep ==
    ASSUME HInv, NEW o \in created, NEW x \in ArrivingAccepts, VerifyAccept(o, x)
    PROVE  HInv'
<1>1. SlotInv /\ OfferInv /\ AcceptInv /\ OtpInv /\ ActiveInv /\ ConfirmInv
    BY DEF HInv
<1>2. /\ x.kc2 = KcTag(o.keys.prk, "RESP")
      /\ confirmed' = confirmed \cup {o}
      /\ UNCHANGED <<spk, published, otps, created, accepted, active>>
    BY DEF VerifyAccept, Verifies
<1>3. x.kc2 \in Tags
    BY DEF ArrivingAccepts, Accept
<1>4. \A p \in created : p.wire.kc1 # x.kc2
  <2>1. \A k, l : KcTag(k, "INIT") # KcTag(l, "RESP")
      BY DEF KcTag
  <2>. QED BY <1>1, <1>2, <2>1, CreatedFields
<1>5. \E r \in accepted : r.accept.kc2 = KcTag(o.keys.prk, "RESP")
    BY <1>2, <1>3, <1>4 DEF Tags, Sent
<1>6. ConfirmInv'
    BY <1>1, <1>2, <1>5 DEF ConfirmInv
<1>. QED BY <1>1, <1>2, <1>6 DEF HInv, SlotInv, OfferInv, AcceptInv, OtpInv, ActiveInv,
                                 Answers

LEMMA NextHInv == HInv /\ [Next]_vars => HInv'
<1>. SUFFICES ASSUME HInv, [Next]_vars PROVE HInv'
    OBVIOUS
<1>1. ASSUME NEW v \in Device, RotateSpk(v) \/ UploadSpk(v) PROVE HInv'
    BY <1>1, RotateStep
<1>2. ASSUME NEW v \in Device, NEW b \in GenuineBundles \cup MixedBundles,
             CreateOffer(v, b)
      PROVE  HInv'
    BY <1>2, CreateOfferStep
<1>3. ASSUME NEW v \in Device, NEW w, w \in Sent \cup AlteredOffers, Respond(v, w)
      PROVE  HInv'
    BY <1>3, RespondStep DEF Arrives
<1>4. ASSUME NEW o \in created, NEW x \in ArrivingAccepts, VerifyAccept(o, x)
      PROVE  HInv'
    BY <1>4, VerifyStep
<1>5. CASE UNCHANGED vars
    BY <1>5 DEF vars, HInv, SlotInv, OfferInv, AcceptInv, OtpInv, ActiveInv, ConfirmInv,
                Answers
<1>6. CASE Next
  <2>1. Next => \/ \E v \in Device : RotateSpk(v) \/ UploadSpk(v)
                \/ \E v \in Device, b \in GenuineBundles \cup MixedBundles : CreateOffer(v, b)
                \/ \E v \in Device, w \in Sent \cup AlteredOffers : Respond(v, w)
                \/ \E o \in created, x \in ArrivingAccepts : VerifyAccept(o, x)
      BY Zenon DEF Next
  <2>. QED BY <1>1, <1>2, <1>3, <1>4, <1>6, <2>1, Zenon
<1>. QED BY <1>5, <1>6

\* The parts of the state of a handshake stay tied together in every behaviour.
THEOREM HandshakeInvariant == Spec => []HInv
BY InitHInv, NextHInv, PTL DEF Spec

(***************************************************************************)
(* What follows from the invariant.                                        *)
(***************************************************************************)
LEMMA HInvTypeOK == HInv => TypeOK
<1>. SUFFICES ASSUME HInv PROVE TypeOK
    OBVIOUS
<1>1. SlotInv /\ OfferInv /\ AcceptInv /\ OtpInv /\ ConfirmInv
    BY DEF HInv
<1>2. ASSUME NEW o \in created PROVE PrkType(o.keys.prk)
  <2>. DEFINE ikm == OfferIkm(o.by, EphemeralKey(o.by, o.keys.sid), o.wire.th.prekeys)
              th  == TranscriptHash(o.wire.hello, o.wire.th.prekeys)
  <2>1. o.keys.prk = Prk(ikm, th)
      BY <1>1, CreatedFields
  <2>2. Len(ikm) = 4
      BY DEF OfferIkm
  <2>3. th.suite = 1 % 256
      BY <1>1, CreatedFields DEF TranscriptHash
  <2>4. 1 % 256 \in 0 .. 255
      OBVIOUS
  <2>5. \A i, t : /\ DOMAIN Prk(i, t) = {"ikm", "th"}
                  /\ Prk(i, t).ikm = i /\ Prk(i, t).th = t
      BY DEF Prk
  <2>. HIDE DEF ikm, th
  <2>6. PrkType(Prk(ikm, th))
      BY <2>2, <2>3, <2>4, <2>5 DEF PrkType
  <2>. QED BY <2>1, <2>6, Zenon
<1>3. ASSUME NEW r \in accepted
      PROVE  r.by \in Device /\ r.otp \subseteq Otps /\ PrkType(r.keys.prk)
  <2>1. PICK o \in created : r.keys = ResponderKeys(o)
      BY <1>1 DEF AcceptInv, Answers
  <2>2. r.keys.prk = o.keys.prk
      BY <2>1 DEF ResponderKeys, SessionKeys
  <2>3. r.by \in Device /\ r.otp \subseteq Otps
      BY <1>1 DEF OtpInv, Otps
  <2>. QED BY <1>2, <2>2, <2>3
<1>. QED BY <1>1, <1>2, <1>3 DEF TypeOK, SlotInv, OfferInv, OtpInv, ConfirmInv

\* Types, and nothing published before it is in the Keychain.
THEOREM HandshakeTypes == Spec => []TypeOK
BY HandshakeInvariant, HInvTypeOK, PTL

\* The two ends of an offer and of its acceptance mirror one another.
LEMMA EndsMirror ==
    ASSUME OfferInv, NEW o \in created
    PROVE  Mirrored(o.keys, ResponderKeys(o))
<1>1. o.keys.role = "initiator"
    BY CreatedFields
<1>. QED BY <1>1 DEF Mirrored, ResponderKeys, SessionKeys

\* Whatever a responder accepts was offered to it by the device the offer names,
\* which holds the other end of the session, whatever the server delivers.
THEOREM AcceptedIsAuthentic == Spec => []AcceptAuthentic
<1>1. HInv => AcceptAuthentic
  <2>1. HInv => OfferInv /\ AcceptInv
      BY DEF HInv
  <2>2. ASSUME OfferInv, AcceptInv, NEW r \in accepted
        PROVE  \E o \in created : /\ o.by = r.initiator
                                  /\ o.wire.hello.responder = r.by
                                  /\ Mirrored(o.keys, r.keys)
    <3>1. PICK o \in created : Answers(r, o)
        BY <2>2 DEF AcceptInv
    <3>2. Mirrored(o.keys, r.keys)
        BY <2>2, <3>1, EndsMirror DEF Answers
    <3>. QED BY <3>1, <3>2 DEF Answers
  <2>. QED BY <2>1, <2>2 DEF AcceptAuthentic
<1>. QED BY <1>1, HandshakeInvariant, PTL

\* Once verify_accept returned without error, both ends of the session are in use,
\* on the device that made the offer and on the one it was made for.
THEOREM ConfirmedSessionsAgree == Spec => []ConfirmedAgree
<1>1. ASSUME HInv, NEW o \in confirmed, o.wire.hello.responder # o.by
      PROVE  /\ o.keys \in active[o.by]
             /\ \E k \in active[o.wire.hello.responder] : Mirrored(o.keys, k)
  <2>1. OfferInv /\ AcceptInv /\ ActiveInv /\ o \in created
      BY <1>1 DEF HInv, ConfirmInv
  <2>2. PICK r \in accepted : r.accept.kc2 = KcTag(o.keys.prk, "RESP")
      BY <1>1 DEF HInv, ConfirmInv
  <2>3. PICK p \in created : Answers(r, p)
      BY <2>1 DEF AcceptInv
  <2>4. p.keys.prk = o.keys.prk
    <3>1. \A k, l, d : KcTag(k, d) = KcTag(l, d) => k = l
        BY DEF KcTag
    <3>. QED BY <2>2, <2>3, <3>1 DEF Answers
  <2>5. p = o
      BY <2>1, <2>4, SamePrk
  <2>6. ResponderKeys(o) \in active[o.wire.hello.responder]
      BY <2>1, <2>3, <2>5 DEF ActiveInv, Answers
  <2>. QED BY <1>1, <2>1, <2>6, EndsMirror DEF ActiveInv
<1>2. HInv => ConfirmedAgree
    BY <1>1 DEF ConfirmedAgree
<1>. QED BY <1>2, HandshakeInvariant, PTL

\* A one-time prekey goes into the keys of one session only, however often the
\* server hands it out.
THEOREM OneSessionPerOtp == Spec => []OtpUsedOnce
<1>1. HInv => OtpUsedOnce
    BY DEF HInv, OtpInv, OtpUsedOnce
<1>. QED BY <1>1, HandshakeInvariant, PTL

\* An offer that cost a one-time prekey is answered once: to be accepted again it
\* would need the same prekey, since the session id fixes the offer and the offer
\* fixes the prekey in its transcript, and that prekey is gone.
THEOREM AnsweredOffersRefused == Spec => []AnsweredOnce
<1>1. ASSUME HInv, NEW r \in accepted, r.otp # {}, NEW w, Arrives(w),
             NEW v \in Device, w.hello.sid = r.keys.sid, Accepts(v, w)
      PROVE  FALSE
  <2>1. OfferInv /\ AcceptInv /\ OtpInv
      BY <1>1 DEF HInv
  <2>2. PICK o \in created : /\ o.wire.hello.responder = v
                            /\ o.keys.sid = w.hello.sid
                            /\ o.wire.th.prekeys.otp = LoadOtp(v, w)
      BY <1>1, <2>1, AcceptedWasOffered
  <2>3. PICK p \in created : Answers(r, p)
      BY <2>1 DEF AcceptInv
  <2>4. p = o
    <3>1. p.keys.sid = r.keys.sid
        BY <2>3 DEF Answers, ResponderKeys, SessionKeys
    <3>. QED BY <1>1, <2>1, <2>2, <3>1 DEF OfferInv
  <2>5. r.by = v /\ r.otp = LoadOtp(v, w)
      BY <2>2, <2>3, <2>4 DEF Answers
  <2>6. LoadOtp(v, w) \subseteq otps[v]
      BY DEF LoadOtp
  <2>. QED BY <1>1, <2>1, <2>5, <2>6 DEF OtpInv
<1>2. HInv => AnsweredOnce
    BY <1>1 DEF AnsweredOnce, Arrives
<1>. QED BY <1>2, HandshakeInvariant, PTL

\* An offer from a bundle of the responder's own fields, delivered as it was made,
\* is accepted as long as its prekeys are in the Keychain, and its accept verifies.
THEOREM GenuineOffersAccepted == Spec => []GenuineAccepted
<1>1. ASSUME HInv, NEW o \in created, NEW v, v = o.wire.hello.responder,
             NEW p, p = o.wire.th.prekeys,
             p.otp \subseteq otps[v], p = Prekeys(v, spk[v], p.otp)
      PROVE  Accepts(v, o.wire) /\ Verifies(o, Acceptance(v, o.wire).accept)
  <2>. DEFINE w == o.wire
              h == w.hello
  <2>1. OfferInv /\ v \in Device /\ otps[v] \subseteq OwnedOtps(v)
      BY <1>1 DEF HInv, OfferInv, OtpInv
  <2>2. /\ o.keys.prk = Prk(OfferIkm(o.by, EphemeralKey(o.by, o.keys.sid), p), w.th)
        /\ h.sid = o.keys.sid /\ h.ikDh = IdentityKey(o.by) /\ h.ikSig = o.by
        /\ h.ek = EphemeralKey(o.by, o.keys.sid)
        /\ w.th = TranscriptHash(h, p)
        /\ w.kc1 = KcTag(o.keys.prk, "INIT") /\ w.sig = Sign(o.by, w.th)
        /\ w.spkId = p.spkId /\ w.otpId = {q.id : q \in p.otp}
      BY <1>1, <2>1, CreatedFields
  <2>3. LoadOtp(v, w) = p.otp
    <3>1. \A x, y \in OwnedOtps(v) : x.id = y.id => x = y
        BY DEF OwnedOtps, Otp
    <3>2. LoadOtp(v, w) = {x \in otps[v] : \E q \in p.otp : x.id = q.id}
        BY <2>2 DEF LoadOtp
    <3>. QED BY <1>1, <2>1, <3>1, <3>2
  <2>4. OwnPrekeys(v, w) = p
      BY <1>1, <2>3 DEF OwnPrekeys
  <2>5. /\ p.ikDh = IdentityKey(v) /\ p.spkPub = SpkKey(v, spk[v])
        /\ p.spkId = SpkId(v, spk[v])
    <3>1. \A u, n, x : LET q == Prekeys(u, n, x)
                       IN  /\ q.ikDh = IdentityKey(u) /\ q.spkPub = SpkKey(u, n)
                           /\ q.spkId = SpkId(u, n)
        BY DEF Prekeys
    <3>. QED BY <1>1, <3>1
  <2>6. AcceptHash(v, w) = w.th
      BY <2>2, <2>4 DEF AcceptHash
  <2>7. AcceptIkm(v, w) = OfferIkm(o.by, EphemeralKey(o.by, o.keys.sid), p)
    <3>1. \A x, y : Dh(x, y) = Dh(y, x)
        BY DEF Dh
    <3>. QED BY <2>2, <2>3, <2>5, <3>1 DEF OfferIkm, AcceptIkm
  <2>8. AcceptPrk(v, w) = o.keys.prk
      BY <2>2, <2>6, <2>7 DEF AcceptPrk
  <2>9. Accepts(v, w)
      BY <1>1, <2>2, <2>5, <2>6, <2>8 DEF Accepts
  <2>10. /\ Acceptance(v, w).accept.sid = o.keys.sid
         /\ Acceptance(v, w).accept.kc2 = KcTag(o.keys.prk, "RESP")
      BY <2>2, <2>8 DEF Acceptance
  <2>. QED BY <2>9, <2>10 DEF Verifies
<1>2. HInv => GenuineAccepted
    BY <1>1 DEF GenuineAccepted
<1>. QED BY <1>2, HandshakeInvariant, PTL

\* An offer that is refused costs the responder none of its one-time prekeys: they
\* only go away together with an acceptance that was not there before.
THEOREM RefusalsCostNoOtp == Spec => RefusalKeepsOtps
<1>. DEFINE Kept ==
        \A v \in Device : otps'[v] # otps[v] =>
            \E r \in accepted' \ accepted : r.by = v /\ otps[v] = otps'[v] \cup r.otp
<1>1. ASSUME HInv, NEW u \in Device, NEW w, Respond(u, w) PROVE Kept
  <2>1. ASSUME NEW v \in Device, otps'[v] # otps[v]
        PROVE  \E r \in accepted' \ accepted : r.by = v /\ otps[v] = otps'[v] \cup r.otp
    <3>1. otps' = [otps EXCEPT ![u] = OtpsAfter(u, w)] /\ DOMAIN otps = Device
        BY <1>1 DEF Respond, HInv, SlotInv
    <3>2. v = u /\ Accepts(u, w) /\ otps'[u] = otps[u] \ LoadOtp(u, w)
        BY <2>1, <3>1 DEF OtpsAfter
    <3>3. Acceptance(u, w) \in accepted'
        BY <1>1, <3>2 DEF Respond
    <3>4. Acceptance(u, w).by = u /\ Acceptance(u, w).otp = LoadOtp(u, w)
        BY DEF Acceptance
    <3>5. LoadOtp(u, w) \subseteq otps[u] /\ LoadOtp(u, w) # {}
        BY <2>1, <3>2 DEF LoadOtp
    <3>6. Acceptance(u, w) \notin accepted
        BY <1>1, <3>4, <3>5 DEF HInv, OtpInv
    <3>. QED BY <3>2, <3>3, <3>4, <3>5, <3>6
  <2>. QED BY <2>1
<1>2. otps' = otps => Kept
    OBVIOUS
<1>. HIDE DEF Kept
<1>3. HInv /\ [Next]_vars => Kept
  <2>1. UNCHANGED vars => otps' = otps
      BY DEF vars
  <2>2. Next => (\E u \in Device : \E w : Respond(u, w)) \/ otps' = otps
      BY DEF Next, RotateSpk, UploadSpk, CreateOffer, VerifyAccept
  <2>. QED BY <1>1, <1>2, <2>1, <2>2
<1>4. HInv /\ [Next]_vars => [Kept]_vars
    BY <1>3
<1>5. Spec => [][Kept]_vars
    BY <1>4, HandshakeInvariant, PTL DEF Spec
<1>. QED BY <1>5 DEF RefusalKeepsOtps, Kept

(***************************************************************************)
(* The handshake implements Agreement.                                     *)
(***************************************************************************)
\* The session id is in the secret, so new sessions have new secrets.
LEMMA SecretHasSid ==
    ASSUME NEW a, NEW b, NEW n
    PROVE  Offer(a, b, n).keys.prk.th.sid = n
<1>. DEFINE o == Offer(a, b, n)
<1>1. /\ o.keys.prk = Prk(OfferIkm(a, EphemeralKey(a, n), b.prekeys), o.wire.th)
      /\ o.wire.th = TranscriptHash(o.wire.hello, b.prekeys)
      /\ o.wire.hello.sid = n
    BY OfferFields
<1>2. \A i, th : Prk(i, th).th = th
    BY DEF Prk
<1>3. \A h, q : TranscriptHash(h, q).sid = h.sid
    BY DEF TranscriptHash
<1>. HIDE DEF o
<1>4. o.keys.prk.th = o.wire.th
    BY <1>1, <1>2
<1>5. o.wire.th.sid = n
    BY <1>1, <1>3, Zenon
<1>. QED BY <1>4, <1>5 DEF o

\* The session of an acceptance is that of the offer it answers.
LEMMA AnswerJoins ==
    ASSUME NEW o, NEW r, Answers(r, o)
    PROVE  JoinedSession(r) = OfferedSession(o)
BY DEF Answers, ResponderKeys, SessionKeys, JoinedSession, OfferedSession

\* A new offer asks for a session with an id and a secret no other has.
LEMMA CreateOfferAsks ==
    ASSUME HInv, NEW a \in Device, NEW b \in GenuineBundles \cup MixedBundles,
           CreateOffer(a, b)
    PROVE  A!Next
<1>. DEFINE n   == Cardinality(created) + 1
            new == Offer(a, b, n)
            s   == OfferedSession(new)
<1>1. OfferInv
    BY DEF HInv
<1>2. created' = created \cup {new} /\ UNCHANGED <<accepted, confirmed>>
    BY DEF CreateOffer
<1>3. /\ s.from = a /\ s.to = b.device /\ b.device \in Device
      /\ s.sid = n /\ s.secret = new.keys.prk /\ s.secret.th.sid = n
    BY OfferFields, SecretHasSid, BundleNamesDevice DEF OfferedSession
<1>4. ASSUME NEW o \in created
      PROVE  o.keys.sid # n /\ o.keys.prk.th.sid # n
  <2>1. o.keys.sid \in 1 .. Cardinality(created) /\ Cardinality(created) \in Nat
      BY <1>1, FS_CardinalityType DEF OfferInv
  <2>2. o = Offer(o.by, BundleOf(o), o.keys.sid)
      BY <1>1 DEF OfferInv
  <2>3. o.keys.prk.th.sid = o.keys.sid
      BY <2>2, SecretHasSid
  <2>. QED BY <2>1, <2>3
<1>. HIDE DEF new, n
<1>5. \A t \in Asked : t.sid # s.sid /\ t.secret # s.secret
    BY <1>3, <1>4 DEF Asked, OfferedSession
<1>6. /\ Asked' = Asked \cup {s}
      /\ UNCHANGED <<Joined, Known>>
    BY <1>2 DEF Asked, Joined, Known
<1>7. A!Ask(s)
    BY <1>3, <1>5, <1>6 DEF A!Ask
<1>. QED BY <1>6, <1>7 DEF A!Next

\* An acceptance joins the session of its offer.  The one-time prekey was still
\* in the Keychain, so no session before was joined with it.
LEMMA RespondJoins ==
    ASSUME HInv, NEW v \in Device, NEW w, Arrives(w), Accepts(v, w), Respond(v, w)
    PROVE  A!Next
<1>. DEFINE new  == Acceptance(v, w)
            used == LoadOtp(v, w)
            j    == [session |-> JoinedSession(new), spent |-> new.otp]
<1>1. OfferInv /\ OtpInv
    BY DEF HInv
<1>2. PICK o \in created : /\ o.by = w.hello.initiator
                          /\ o.wire.hello.responder = v
                          /\ o.keys.sid = w.hello.sid
                          /\ o.keys.prk = AcceptPrk(v, w)
    BY <1>1, AcceptedWasOffered
<1>3. accepted' = accepted \cup {new} /\ UNCHANGED <<created, confirmed>>
    BY DEF Respond
<1>4. JoinedSession(new) = OfferedSession(o) /\ new.otp = used
    BY <1>2 DEF Acceptance, JoinedSession, OfferedSession, SessionKeys
<1>5. used \subseteq otps[v]
    BY DEF LoadOtp
<1>. HIDE DEF new, used
<1>6. j.session \in Asked /\ j.spent = used
    BY <1>4 DEF Asked
<1>7. ASSUME NEW r \in accepted PROVE r.otp \cap used = {}
  <2>. SUFFICES ASSUME NEW x \in r.otp, x \in used PROVE FALSE
      OBVIOUS
  <2>1. x \in OwnedOtps(r.by) /\ x \in OwnedOtps(v) /\ x \notin otps[r.by] /\ x \in otps[v]
      BY <1>1, <1>5 DEF OtpInv
  <2>2. r.by = v
      BY <2>1, OtpsOfOneDevice
  <2>. QED BY <2>1, <2>2
<1>8. \A i \in Joined : i.spent \cap j.spent = {}
    BY <1>6, <1>7 DEF Joined
<1>9. /\ Joined' = Joined \cup {j}
      /\ UNCHANGED <<Asked, Known>>
    BY <1>3 DEF Asked, Joined, Known
<1>10. A!Join(j)
    BY <1>6, <1>8, <1>9 DEF A!Join
<1>. QED BY <1>9, <1>10 DEF A!Next

\* The tag that confirms an offer is that of an acceptance of the same offer.
LEMMA VerifyLearns ==
    ASSUME HInv, HInv', NEW o \in created, NEW x \in ArrivingAccepts, VerifyAccept(o, x)
    PROVE  A!Next
<1>. DEFINE s == OfferedSession(o)
<1>1. OfferInv /\ AcceptInv
    BY DEF HInv
<1>2. confirmed' = confirmed \cup {o} /\ UNCHANGED <<created, accepted>>
    BY DEF VerifyAccept
<1>3. PICK r \in accepted : r.accept.kc2 = KcTag(o.keys.prk, "RESP")
    BY <1>2 DEF HInv, ConfirmInv
<1>4. PICK p \in created : Answers(r, p)
    BY <1>1 DEF AcceptInv
<1>5. p = o
  <2>1. \A k, l, d : KcTag(k, d) = KcTag(l, d) => k = l
      BY DEF KcTag
  <2>2. p.keys.prk = o.keys.prk
      BY <1>3, <1>4, <2>1 DEF Answers
  <2>. QED BY <1>1, <2>2, SamePrk
<1>6. s \in Asked /\ \E j \in Joined : j.session = s
  <2>1. JoinedSession(r) = s
      BY <1>4, <1>5, AnswerJoins
  <2>. DEFINE j == [session |-> JoinedSession(r), spent |-> r.otp]
  <2>2. j \in Joined
      BY DEF Joined
  <2>3. j.session = s
      BY <2>1
  <2>. QED BY <2>2, <2>3 DEF Asked
<1>7. /\ Known' = Known \cup {s}
      /\ UNCHANGED <<Asked, Joined>>
    BY <1>2 DEF Asked, Joined, Known
<1>8. A!Learn(s)
    BY <1>6, <1>7 DEF A!Learn
<1>. QED BY <1>7, <1>8 DEF A!Next

\* Rotations, uploads and refusals are no step of the agreement.
LEMMA SameSessions ==
    ASSUME UNCHANGED <<created, accepted, confirmed>>
    PROVE  UNCHANGED <<Asked, Joined, Known>>
BY DEF Asked, Joined, Known

LEMMA StepAgrees == HInv /\ HInv' /\ [Next]_vars => [A!Next]_<<Asked, Joined, Known>>
<1>. SUFFICES ASSUME HInv, HInv', [Next]_vars
              PROVE  A!Next \/ UNCHANGED <<Asked, Joined, Known>>
    OBVIOUS
<1>1. ASSUME NEW v \in Device, RotateSpk(v) \/ UploadSpk(v)
      PROVE  UNCHANGED <<Asked, Joined, Known>>
    BY <1>1, SameSessions DEF RotateSpk, UploadSpk
<1>2. ASSUME NEW v \in Device, NEW b \in GenuineBundles \cup MixedBundles,
             CreateOffer(v, b)
      PROVE  A!Next
    BY <1>2, CreateOfferAsks
<1>3. ASSUME NEW v \in Device, NEW w, w \in Sent \cup AlteredOffers, Respond(v, w)
      PROVE  A!Next \/ UNCHANGED <<Asked, Joined, Known>>
  <2>1. CASE Accepts(v, w)
      BY <1>3, <2>1, RespondJoins DEF Arrives
  <2>2. CASE ~Accepts(v, w)
    <3>1. UNCHANGED <<created, accepted, confirmed>>
        BY <1>3, <2>2 DEF Respond
    <3>. QED BY <3>1, SameSessions
  <2>. QED BY <2>1, <2>2
<1>4. ASSUME NEW o \in created, NEW x \in ArrivingAccepts, VerifyAccept(o, x)
      PROVE  A!Next
    BY <1>4, VerifyLearns
<1>5. CASE UNCHANGED vars
    BY <1>5, SameSessions DEF vars
<1>6. CASE Next
  <2>1. \/ \E v \in Device : RotateSpk(v) \/ UploadSpk(v)
        \/ \E v \in Device, b \in GenuineBundles \cup MixedBundles : CreateOffer(v, b)
        \/ \E v \in Device, w \in Sent \cup AlteredOffers : Respond(v, w)
        \/ \E o \in created, x \in ArrivingAccepts : VerifyAccept(o, x)
      BY <1>6, Zenon DEF Next
  <2>. QED BY <1>1, <1>2, <1>3, <1>4, <2>1
<1>. QED BY <1>5, <1>6

\* The handshake is a key agreement step by step, for any devices and whatever
\* arrives: only the device an offer was made for joins its session, with the
\* secret of the offer and a one-time prekey no other session has, and an offer
\* is confirmed only after that.
THEOREM HandshakeImplementsAgreement == Spec => ImplementsAgreement
<1>1. Init => A!Init
    BY DEF Init, A!Init, Asked, Joined, Known
<1>2. Spec => A!Init /\ [][A!Next]_<<Asked, Joined, Known>>
    BY <1>1, StepAgrees, HandshakeInvariant, PTL DEF Spec
<1>. QED BY <1>2, PTL DEF ImplementsAgreement, A!Spec
=============================================================================
