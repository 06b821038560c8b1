----------------------------- MODULE Handshake -----------------------------
(***************************************************************************)
(* The Island Accord handshake: offers and accepts of rust/c6p-handshake   *)
(* as the bridge calls them (rust/c6p-ios/src/handshake.rs), and the steps *)
(* of HandshakeCoordinator, C6PManager and DeviceIdentityManager around    *)
(* them, which run on the main actor and suspend only for the network.     *)
(*                                                                         *)
(* Cryptography is symbolic.  The two halves of an X25519 key pair are one *)
(* term and Dh is symmetric in them; a signature is its signer and its     *)
(* message; a hash and a derived key are what they are computed from.  An  *)
(* Ed25519 key is written as the device it belongs to.                     *)
(*                                                                         *)
(* The server is outside the module: it hands out any bundle it was ever   *)
(* given, possibly with a field of another bundle in it, and delivers      *)
(* offers and accepts late, twice, in any order, to the wrong device, or   *)
(* with an altered field.                                                  *)
(***************************************************************************)
EXTENDS Integers, FiniteSets, Sequences

CONSTANTS
    Device,
    Garbled,    \* the value of a field that was damaged on the way
    MaxOffers,  \* bound: offers created in all
    MaxSpk,     \* bound: signed prekeys a device generates
    MaxOtp      \* bound: one-time prekeys a device registers with

ASSUME HandshakeAssumption ==
    /\ Garbled \notin Device
    /\ MaxOffers \in Nat /\ MaxSpk \in Nat \ {0} /\ MaxOtp \in Nat

VARIABLES
    spk,        \* number of the signed prekey in the one Keychain slot
    published,  \* numbers of the signed prekeys the server was given
    otps,       \* the one-time prekeys in the Keychain
    created,    \* history: results of create_offer
    accepted,   \* history: results of accept_offer
    confirmed,  \* history: results of create_offer whose accept was verified
    active      \* C6PManager.activeSessions: the keys of each session in use

vars == <<spk, published, otps, created, accepted, confirmed, active>>

(***************************************************************************)
(* Keys.                                                                   *)
(***************************************************************************)
X25519Key(kind, owner, n) == [kind |-> kind, owner |-> owner, n |-> n]

IdentityKey(v)     == X25519Key("identity", v, 0)
SpkKey(v, n)       == X25519Key("spk", v, n)
EphemeralKey(v, n) == X25519Key("ephemeral", v, n)
OtpKey(v, n)       == X25519Key("otp", v, n)

Dh(x, y) == {x, y}

Sign(v, message) == [by |-> v, over |-> message]

\* Ids of prekeys are random, so no two prekeys share one.
SpkId(v, n)  == <<v, n>>
Otp(v, n)    == [id |-> <<v, n>>, pub |-> OtpKey(v, n)]
OwnedOtps(v) == {Otp(v, n) : n \in 1 .. MaxOtp}

(***************************************************************************)
(* Bundles.  `prekeys' is what the transcript has of the responder.  What  *)
(* is optional is a set of at most one element.                            *)
(***************************************************************************)
Prekeys(v, n, otp) ==
    [ikSig  |-> v,
     ikDh   |-> IdentityKey(v),
     spkId  |-> SpkId(v, n),
     spkPub |-> SpkKey(v, n),
     spkSig |-> Sign(v, <<SpkId(v, n), SpkKey(v, n)>>),
     otp    |-> otp]

GenuineBundles ==
    UNION {{[device |-> v, prekeys |-> Prekeys(v, n, otp)] :
                n \in published[v],
                otp \in {{}} \cup {{p} : p \in OwnedOtps(v)}} : v \in Device}

\* One field of a bundle is that of another bundle.
MixedBundles ==
    {[b EXCEPT !.device = c.device] : b, c \in GenuineBundles}
        \cup {[b EXCEPT !.prekeys[f] = c.prekeys[f]] : b, c \in GenuineBundles,
                 f \in {"ikSig", "ikDh", "spkId", "spkPub", "spkSig", "otp"}}

\* PrekeyBundle::validate
Validates(b) ==
    b.prekeys.spkSig = Sign(b.prekeys.ikSig, <<b.prekeys.spkId, b.prekeys.spkPub>>)

(***************************************************************************)
(* Transcript and key schedule.                                            *)
(***************************************************************************)
\* The transcript has the suite id as one byte.  Signature input, context and
\* confirmation payload repeat fields of the transcript, so its hash stands
\* for them as well.
TranscriptHash(hello, prekeys) ==
    [suite |-> hello.suite % 256, sid |-> hello.sid,
     initiator |-> hello.initiator, responder |-> hello.responder,
     ikDh |-> hello.ikDh, ikSig |-> hello.ikSig, ek |-> hello.ek,
     prekeys |-> prekeys]

\* The fourth secret, if there is a one-time prekey.
OtpDh(otp, ek) == {Dh(p.pub, ek) : p \in otp}

\* The secret all keys of a session are expanded from: root key, confirmation
\* key and the chain keys of both streams.
Prk(ikm, th) == [ikm |-> ikm, th |-> th]

\* A plausible slip: the direction is not mixed into the tag.
KcTagUndirected(prk, direction) == [key |-> prk, direction |-> "INIT"]

KcTag(prk, direction) == [key |-> prk, direction |-> direction]

SessionKeys(sid, prk, role) == [sid |-> sid, prk |-> prk, role |-> role]

(***************************************************************************)
(* create_offer.                                                           *)
(***************************************************************************)
OfferIkm(a, ek, p) ==
    << Dh(IdentityKey(a), p.spkPub), Dh(ek, p.ikDh), Dh(ek, p.spkPub),
       OtpDh(p.otp, ek) >>

\* The n-th call of create_offer; session id and ephemeral key are fresh.
Offer(a, b, n) ==
    LET hello == [suite |-> 1, sid |-> n, initiator |-> a, responder |-> b.device,
                  ikDh |-> IdentityKey(a), ikSig |-> a, ek |-> EphemeralKey(a, n)]
        th    == TranscriptHash(hello, b.prekeys)
        prk   == Prk(OfferIkm(a, EphemeralKey(a, n), b.prekeys), th)
    IN  [by   |-> a,
         keys |-> SessionKeys(n, prk, "initiator"),
         wire |-> [version |-> 1, hello |-> hello,
                   spkId |-> b.prekeys.spkId, spkPub |-> b.prekeys.spkPub,
                   otpId |-> {p.id : p \in b.prekeys.otp}, th |-> th,
                   kc1 |-> KcTag(prk, "INIT"), sig |-> Sign(a, th)]]

(***************************************************************************)
(* accept_offer, with the prekeys HandshakeCoordinator loads for it: the   *)
(* current signed prekey, and the one-time prekey the offer names if it is *)
(* still there.                                                            *)
(***************************************************************************)
LoadOtp(v, w) == {p \in otps[v] : p.id \in w.otpId}

\* Fields of the responder in the transcript come from the Keychain and not
\* from the wire.
OwnPrekeys(v, w) == Prekeys(v, spk[v], LoadOtp(v, w))

\* A plausible slip: the first two secrets in the order of the responder.
AcceptIkmSwapped(v, w) ==
    << Dh(IdentityKey(v), w.hello.ek), Dh(SpkKey(v, spk[v]), w.hello.ikDh),
       Dh(SpkKey(v, spk[v]), w.hello.ek), OtpDh(LoadOtp(v, w), w.hello.ek) >>

AcceptIkm(v, w) ==
    << Dh(SpkKey(v, spk[v]), w.hello.ikDh), Dh(IdentityKey(v), w.hello.ek),
       Dh(SpkKey(v, spk[v]), w.hello.ek), OtpDh(LoadOtp(v, w), w.hello.ek) >>

AcceptHash(v, w) == TranscriptHash(w.hello, OwnPrekeys(v, w))
AcceptPrk(v, w)  == Prk(AcceptIkm(v, w), AcceptHash(v, w))

\* A plausible slip: the ids are compared and the errors of the two
\* verifications are dropped.
AcceptsUnverified(v, w) ==
    w.hello.responder = v /\ w.spkId = SpkId(v, spk[v])

\* Accept::construct.  Its comparison of the two OTP presence flags always
\* holds here: both are set from what LoadOtp returned.  An offer whose OTP is
\* gone is refused by its signature, because the transcript has no OTP.
Accepts(v, w) ==
    /\ w.hello.responder = v
    /\ w.spkId = SpkId(v, spk[v])
    /\ w.sig = Sign(w.hello.ikSig, AcceptHash(v, w))
    /\ w.kc1 = KcTag(AcceptPrk(v, w), "INIT")

Acceptance(v, w) ==
    [by        |-> v,
     initiator |-> w.hello.initiator,
     otp       |-> LoadOtp(v, w),
     keys      |-> SessionKeys(w.hello.sid, AcceptPrk(v, w), "responder"),
     accept    |-> [sid |-> w.hello.sid, responder |-> v,
                    kc2 |-> KcTag(AcceptPrk(v, w), "RESP")]]

\* A plausible slip: the OTP is deleted before the offer is accepted.
OtpsAfterEager(v, w) == otps[v] \ LoadOtp(v, w)

\* A plausible slip: the OTP is not deleted.
OtpsAfterKept(v, w) == otps[v]

\* The OTP is deleted once the offer was accepted.
OtpsAfter(v, w) == IF Accepts(v, w) THEN otps[v] \ LoadOtp(v, w) ELSE otps[v]

(***************************************************************************)
(* verify_accept.  The responder id of the accept is not compared.         *)
(***************************************************************************)
VerifiesUnbound(o, x) == x.sid = o.keys.sid

Verifies(o, x) == x.sid = o.keys.sid /\ x.kc2 = KcTag(o.keys.prk, "RESP")

(***************************************************************************)
(* What arrives.                                                           *)
(***************************************************************************)
Sent == {o.wire : o \in created}

\* The values a damaged or mixed-up field of an offer may have.
AlteredOffers ==
    LET fields == {"version", "spkId", "spkPub", "th", "kc1", "sig"}
        chosen == {"sid", "initiator", "responder", "ikDh", "ikSig", "ek"}
    IN  {[w EXCEPT ![f] = x[f]] : w, x \in Sent, f \in fields}
          \cup {[w EXCEPT ![f] = Garbled] : w \in Sent, f \in fields}
          \cup {[w EXCEPT !.hello[f] = x.hello[f]] : w, x \in Sent, f \in chosen}
          \cup {[w EXCEPT !.hello[f] = Garbled] : w \in Sent, f \in chosen}
          \cup {[w EXCEPT !.hello.suite = s] : w \in Sent, s \in {2, 257}}
          \cup {[w EXCEPT !.otpId = ids] : w \in Sent,
                   ids \in {{}, {Garbled}} \cup {x.otpId : x \in Sent}}

\* An accept under any session id with any tag that was ever on the wire.
Accept(sid, v, tag) == [sid |-> sid, responder |-> v, kc2 |-> tag]
Tags == {w.kc1 : w \in Sent} \cup {r.accept.kc2 : r \in accepted}
ArrivingAccepts ==
    {Accept(o.keys.sid, v, tag) : o \in created, v \in Device, tag \in Tags}

(***************************************************************************)
(* Actions.                                                                *)
(***************************************************************************)
\* A session is entered in activeSessions under its session id.
Activate(v, keys) ==
    active' = [active EXCEPT ![v] = {k \in @ : k.sid # keys.sid} \cup {keys}]

\* After registration a device has one signed prekey and its OTPs, and the
\* server has the public halves.
Init ==
    /\ spk = [v \in Device |-> 1]
    /\ published = [v \in Device |-> {1}]
    /\ otps = [v \in Device |-> OwnedOtps(v)]
    /\ created = {} /\ accepted = {} /\ confirmed = {}
    /\ active = [v \in Device |-> {}]

\* rotateSignedPrekey overwrites the Keychain slot ...
RotateSpk(v) ==
    /\ spk[v] < MaxSpk
    /\ spk' = [spk EXCEPT ![v] = @ + 1]
    /\ UNCHANGED <<published, otps, created, accepted, confirmed, active>>

\* A plausible slip: the key is uploaded before it is in the Keychain.
UploadSpkFirst(v) ==
    /\ spk[v] < MaxSpk
    /\ published' = [published EXCEPT ![v] = @ \cup {spk[v] + 1}]
    /\ UNCHANGED <<spk, otps, created, accepted, confirmed, active>>

\* ... and uploads afterwards, which may never succeed.
UploadSpk(v) ==
    /\ published' = [published EXCEPT ![v] = @ \cup {spk[v]}]
    /\ UNCHANGED <<spk, otps, created, accepted, confirmed, active>>

\* createHandshakeOffer with a bundle fetched for it: the keys are put in use
\* together with the offer.
CreateOffer(a, b) ==
    LET o == Offer(a, b, Cardinality(created) + 1)
    IN  /\ Cardinality(created) < MaxOffers
        /\ Validates(b)
        /\ created' = created \cup {o}
        /\ Activate(a, o.keys)
        /\ UNCHANGED <<spk, published, otps, accepted, confirmed>>

\* respondToHandshakeOffer: an offer that is refused changes nothing.
Respond(v, w) ==
    /\ otps' = [otps EXCEPT ![v] = OtpsAfter(v, w)]
    /\ IF Accepts(v, w)
       THEN /\ accepted' = accepted \cup {Acceptance(v, w)}
            /\ Activate(v, Acceptance(v, w).keys)
       ELSE UNCHANGED <<accepted, active>>
    /\ UNCHANGED <<spk, published, created, confirmed>>

\* verifyHandshakeAccept
VerifyAccept(o, x) ==
    /\ Verifies(o, x)
    /\ confirmed' = confirmed \cup {o}
    /\ UNCHANGED <<spk, published, otps, created, accepted, active>>

Next ==
    \/ \E v \in Device :
          \/ RotateSpk(v)
          \/ UploadSpk(v)
          \/ \E b \in GenuineBundles \cup MixedBundles : CreateOffer(v, b)
          \/ \E w \in Sent : Respond(v, w)
          \/ \E w \in AlteredOffers : Respond(v, w)
    \/ \E o \in created, x \in ArrivingAccepts : VerifyAccept(o, x)

Spec == Init /\ [][Next]_vars
(***************************************************************************)
(* Properties.                                                             *)
(***************************************************************************)
Otps == UNION {OwnedOtps(v) : v \in Device}
PrkType(prk) ==
    /\ DOMAIN prk = {"ikm", "th"}
    /\ Len(prk.ikm) = 4
    /\ prk.th.suite \in 0 .. 255

\* Types of the state; nothing is published before it is in the Keychain, and a
\* device holds only one-time prekeys of its own.
TypeOK ==
    /\ spk \in [Device -> 1 .. MaxSpk]
    /\ \A v \in Device : published[v] \subseteq 1 .. spk[v]
    /\ \A v \in Device : otps[v] \subseteq OwnedOtps(v)
    /\ Cardinality(created) <= MaxOffers
    /\ confirmed \subseteq created
    /\ \A o \in created : o.by \in Device /\ PrkType(o.keys.prk)
    /\ \A r \in accepted :
           r.by \in Device /\ r.otp \subseteq Otps /\ PrkType(r.keys.prk)

\* The two ends of one session: the same secret, so the same root key, and the
\* sending chain of one is the receiving chain of the other.
Mirrored(k, l) == k.sid = l.sid /\ k.prk = l.prk /\ k.role # l.role

\* Whatever a responder accepts was offered to it by the device the offer
\* names, and that device holds the other end of the session: no late,
\* misrouted or altered offer makes two devices disagree on their keys, and
\* none is accepted under another name (accept.rs, steps 1 to 11).
AcceptAuthentic ==
    \A r \in accepted : \E o \in created :
        /\ o.by = r.initiator
        /\ o.wire.hello.responder = r.by
        /\ Mirrored(o.keys, r.keys)

\* Once verify_accept returned without error both ends of the session are in
\* use, that of the responder on the device the offer was made for: no reflected
\* confirmation tag and no tag of another session will do, and no offer that
\* arrives later replaces the session under its id.  (Of an offer a device makes
\* to itself the session of the responder replaces that of the initiator.)
ConfirmedAgree ==
    \A o \in {c \in confirmed : c.wire.hello.responder # c.by} :
        /\ o.keys \in active[o.by]
        /\ \E k \in active[o.wire.hello.responder] : Mirrored(o.keys, k)

\* An offer whose acceptance used a one-time prekey is never accepted again: not
\* when it comes late or twice, nor with a field altered, nor by another device
\* (HandshakeCoordinator, step 5; of an offer without one nothing is kept).
AnsweredOnce ==
    \A r \in accepted : r.otp # {} =>
        \A w \in Sent \cup AlteredOffers, v \in Device :
            w.hello.sid = r.keys.sid => ~Accepts(v, w)

\* A one-time prekey goes into the keys of one session only, although the
\* server hands it to any number of initiators (HandshakeCoordinator, step 5).
OtpUsedOnce ==
    \A r, s \in accepted : r.otp # {} /\ r.otp = s.otp => r = s

\* An offer that reaches the responder as it was made, from a bundle of the
\* responder's own fields, is accepted as long as the prekeys it names are in
\* the Keychain, and the accept that answers it verifies.
GenuineAccepted ==
    \A o \in created :
        LET v == o.wire.hello.responder
            p == o.wire.th.prekeys
        IN  ( /\ p.otp \subseteq otps[v] /\ p = Prekeys(v, spk[v], p.otp) )
            => /\ Accepts(v, o.wire)
               /\ Verifies(o, Acceptance(v, o.wire).accept)

\* An offer that is refused, for whatever reason, costs the responder none of
\* its one-time prekeys.
RefusalKeepsOtps ==
    [][\A v \in Device : otps'[v] # otps[v] =>
          \E r \in accepted' \ accepted : r.by = v /\ otps[v] = otps'[v] \cup r.otp]_vars

\* The session of an offer, and the one a responder joins.
OfferedSession(o) ==
    [sid |-> o.keys.sid, from |-> o.by, to |-> o.wire.hello.responder,
     secret |-> o.keys.prk]
JoinedSession(r) ==
    [sid |-> r.keys.sid, from |-> r.initiator, to |-> r.by, secret |-> r.keys.prk]

Asked  == {OfferedSession(o) : o \in created}
Joined == {[session |-> JoinedSession(r), spent |-> r.otp] : r \in accepted}
Known  == {OfferedSession(o) : o \in confirmed}

A == INSTANCE Agreement
        WITH Parties <- Device, asked <- Asked, joined <- Joined, known <- Known

\* The handshake is a key agreement, step by step: an accept joins the session
\* of an offer that was made before, with its secret, by the device it was made
\* for, and spends a one-time prekey no other session was joined with; and an
\* offer is confirmed only after that (create_offer, accept_offer and
\* verify_accept, whatever arrives in between).
ImplementsAgreement == A!Spec
=============================================================================
