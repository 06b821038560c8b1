---------------------------- MODULE KeySchedule ----------------------------
(***************************************************************************)
(* Every byte string the protocol hashes, signs, or expands a key from:    *)
(* rust/c6p-crypto, the transcript, signatures and confirmation tags of    *)
(* rust/c6p-handshake, the ratchet of rust/c6p-sessions and the identities *)
(* of rust/c6p-identity.  The other modules take a derived key for what it *)
(* is derived from; KeyScheduleProofs shows that the encodings allow it.   *)
(*                                                                         *)
(* A byte string is the tuple of its fields.  The first is a label, no     *)
(* label is a prefix of another, and every field behind it has a fixed     *)
(* width, so two byte strings are equal exactly when the tuples are.  An   *)
(* integer is encoded by its bytes.  Hash, HKDF, HMAC and signature are    *)
(* free constructors: no collisions.                                       *)
(***************************************************************************)
EXTENDS Integers

CONSTANTS SessionId, DeviceId

U8  == 0 .. 255
U16 == 0 .. 65535
U64 == Nat      \* no counter beyond 2^64 - 1 is ever encoded

LowByte(x)  == x % 256
HighByte(x) == x \div 256

Be16(x) == <<HighByte(x), LowByte(x)>>

\* to_be_bytes of a u64: four groups of two bytes.
Be64(c) ==
    LET q1 == c \div 65536
        q2 == q1 \div 65536
        q3 == q2 \div 65536
    IN  <<Be16(q3), Be16(q2 % 65536), Be16(q1 % 65536), Be16(c % 65536)>>

(***************************************************************************)
(* Constants (constants.rs) and primitives (primitives.rs).                *)
(***************************************************************************)
C6P_VERSION == 1
IA_VERSION  == 1

LABEL_ROOT        == "C6P_ROOT_V1"
LABEL_CHAIN       == "C6P_CHAIN_V1"
LABEL_MSG         == "C6P_MSG_V1"
LABEL_NONCE       == "C6P_NONCE_V1"
LABEL_KC          == "C6P_KC_V1"
LABEL_BIND        == "C6P_BIND_V1"
LABEL_PREKEY      == "C6P_PREKEY_V1"
LABEL_HANDSHAKE   == "ISLAND_ACCORD_V1"
LABEL_OFFER_SIG   == "IA_OFFER_SIG_V1"
LABEL_AEGIS       == "C6P_AEAD_AEGIS_128L_V1"
LABEL_DEVICE_ID   == "C6P_DEVICE_ID_V1"
LABEL_FINGERPRINT == "C6P_FINGERPRINT_V1"

StreamIds    == [I2R |-> 1, R2I |-> 2]
MessageTypes == [DM |-> 1, GROUP |-> 2, CHANNEL |-> 3, CONTROL |-> 16]

SUITE_CHACHA20_POLY1305  == 1
SUITE_XCHACHA20_POLY1305 == 2
SUITE_AEGIS_128L         == 3
SuiteIds == {SUITE_CHACHA20_POLY1305, SUITE_XCHACHA20_POLY1305, SUITE_AEGIS_128L}

\* Widths, in bytes, of what the wire and the bridge carry.
FieldLen ==
    [session_id |-> 8, device_id |-> 16, prekey_id |-> 8, key |-> 32,
     hash |-> 32, tag |-> 32, signature |-> 64]

NonceLen ==
    [s \in SuiteIds |-> CASE s = SUITE_CHACHA20_POLY1305  -> 12
                          [] s = SUITE_XCHACHA20_POLY1305 -> 24
                          [] s = SUITE_AEGIS_128L         -> 16]

Sha256(data)                  == <<"sha256", data>>
HkdfExtract(salt, ikm)        == <<"hkdf_extract", salt, ikm>>
HkdfExpand(prk, info, length) == <<"hkdf_expand", prk, info, length>>
HmacSha256(key, data)         == <<"hmac", key, data>>

(***************************************************************************)
(* Contexts (types.rs).                                                    *)
(***************************************************************************)
SessionContext ==
    [session_id : SessionId, initiator_device_id : DeviceId, responder_device_id : DeviceId]

\* SessionContext::to_bytes
CtxBytes(ctx) == <<ctx.session_id, ctx.initiator_device_id, ctx.responder_device_id>>

StreamContext == [stream_id : U8, message_type : U8, suite_id : U16]

\* StreamContext::to_bytes keeps the high byte of the suite id.
StreamCtxBytes(sc) == <<sc.stream_id, sc.message_type, HighByte(sc.suite_id)>>

(***************************************************************************)
(* Root, confirmation and chain keys (key_schedule.rs).                    *)
(***************************************************************************)
RootPrk(ikm, th, ctx) == HkdfExtract(Sha256(<<LABEL_ROOT, CtxBytes(ctx), th>>), ikm)

RootKey(ikm, th, ctx) == HkdfExpand(RootPrk(ikm, th, ctx), <<LABEL_ROOT, 1>>, FieldLen.key)
KcKey(ikm, th, ctx)   == HkdfExpand(RootPrk(ikm, th, ctx), <<LABEL_KC, 1, th>>, FieldLen.key)

\* The info block has the low byte of the suite id.
InitialChainKey(root, th, ctx, sc) ==
    HkdfExpand(HkdfExtract(Sha256(<<LABEL_CHAIN, CtxBytes(ctx), th>>), root),
               <<LABEL_CHAIN, 1, sc.stream_id, LowByte(sc.suite_id), sc.message_type>>,
               FieldLen.key)

\* derive_per_message of c6p-crypto
DerivePerMessage(ck, c, ctx, th, sc) ==
    LET prk == HkdfExtract(Sha256(<<LABEL_MSG, CtxBytes(ctx), th, StreamCtxBytes(sc),
                                    Be64(c)>>), ck)
    IN  [mk_material    |-> HkdfExpand(prk, <<LABEL_MSG, 1, StreamCtxBytes(sc)>>, FieldLen.key),
         next_chain_key |-> HkdfExpand(prk, <<LABEL_CHAIN, 1, StreamCtxBytes(sc), Be64(c)>>,
                                       FieldLen.key)]

(***************************************************************************)
(* The ratchet (c6p-sessions/src/ratchet.rs), with both bytes of the suite *)
(* id.                                                                     *)
(***************************************************************************)
RatchetCtx(sc) ==
    <<sc.stream_id, sc.message_type, HighByte(sc.suite_id), LowByte(sc.suite_id)>>

RatchetPrk(ck, c, ctx, th, sc) ==
    HkdfExtract(Sha256(<<LABEL_MSG, CtxBytes(ctx), th, RatchetCtx(sc), Be64(c)>>), ck)

RatchetStep(ck, c, ctx, th, sc) ==
    LET prk == RatchetPrk(ck, c, ctx, th, sc)
    IN  [mk_material    |-> HkdfExpand(prk, <<LABEL_MSG, 1, RatchetCtx(sc)>>, FieldLen.key),
         next_chain_key |-> HkdfExpand(prk, <<LABEL_CHAIN, 1, RatchetCtx(sc), Be64(c)>>,
                                       FieldLen.key)]

(***************************************************************************)
(* AEAD key and nonce (aead.rs, nonce.rs); an unknown suite panics.        *)
(***************************************************************************)
SessionBinding(ctx) ==
    Sha256(<<LABEL_BIND, ctx.session_id, ctx.initiator_device_id, ctx.responder_device_id>>)

\* map_to_suite_key
SuiteKey(mk, suite) ==
    IF suite = SUITE_AEGIS_128L
    THEN HkdfExpand(HkdfExtract(LABEL_AEGIS, mk), <<LABEL_AEGIS, 1>>, 16)
    ELSE mk

NoncePrk(mk, binding) == HkdfExtract(binding, mk)

NonceInfo(suite, type, stream, sid, c) ==
    <<LABEL_NONCE, 1, LowByte(suite), type, stream, sid, Be64(c)>>

Nonce(mk, binding, suite, type, stream, sid, c) ==
    HkdfExpand(NoncePrk(mk, binding), NonceInfo(suite, type, stream, sid, c), NonceLen[suite])

(***************************************************************************)
(* Key confirmation: key_schedule.rs, and once more in                     *)
(* c6p-handshake/src/crypto.rs, which is the one the handshake calls.      *)
(***************************************************************************)
KcPayload(ctx, th, suite) ==
    Sha256(<<LABEL_KC, 1, CtxBytes(ctx), th, LowByte(suite)>>)
KcTag(kc, payload, direction) == HmacSha256(kc, <<payload, direction>>)

HandshakeKcPayload(sid, initiator, responder, th, suite) ==
    Sha256(<<LABEL_KC, C6P_VERSION, <<sid, initiator, responder>>, th, LowByte(suite)>>)

Kc1(kc, sid, initiator, responder, th, suite) ==
    KcTag(kc, HandshakeKcPayload(sid, initiator, responder, th, suite), "INIT")
Kc2(kc, sid, initiator, responder, th, suite) ==
    KcTag(kc, HandshakeKcPayload(sid, initiator, responder, th, suite), "RESP")

(***************************************************************************)
(* Identities (c6p-identity).  Sixteen bytes of a hash are taken to have   *)
(* no collisions either.                                                   *)
(***************************************************************************)
Truncated(bytes, n) == <<"first", n, bytes>>

DeriveDeviceId(key) == Truncated(Sha256(<<LABEL_DEVICE_ID, key>>), 16)
Fingerprint(key)    == Sha256(<<LABEL_FINGERPRINT, key>>)
ShortHex(key)       == Truncated(Fingerprint(key), 8)

(***************************************************************************)
(* What identity keys sign.                                                *)
(***************************************************************************)
Sign(key, message) == <<"signature", key, message>>

PrekeyMessage(spkId, spkPub) == <<LABEL_PREKEY, spkId, spkPub>>
VerifySpkSignature(key, spkId, spkPub, sig) == sig = Sign(key, PrekeyMessage(spkId, spkPub))

OfferSignatureInput(th, suite, sid, initiator, responder) ==
    Sha256(<<LABEL_OFFER_SIG, th, C6P_VERSION, LowByte(suite), sid, initiator, responder>>)
SignOffer(key, th, suite, sid, initiator, responder) ==
    Sign(key, OfferSignatureInput(th, suite, sid, initiator, responder))
VerifyOfferSignature(key, sig, th, suite, sid, initiator, responder) ==
    sig = Sign(key, OfferSignatureInput(th, suite, sid, initiator, responder))

(***************************************************************************)
(* Prekey bundles.  The bridge carries byte vectors of any length, as      *)
(* [bytes, len]; what is optional is a set of at most one element.         *)
(***************************************************************************)
\* convert_bundle_to_core fails on a field of a wrong length.
Converts(b) ==
    /\ b.responder_device_id.len = FieldLen.device_id
    /\ b.identity_pub_ed25519.len = FieldLen.key
    /\ b.identity_pub_x25519.len = FieldLen.key
    /\ b.spk_id.len = FieldLen.prekey_id
    /\ b.spk_pub.len = FieldLen.key
    /\ b.spk_sig.len = FieldLen.signature
    /\ \A id \in b.otp_id, pub \in b.otp_pub :
          id.len = FieldLen.prekey_id /\ pub.len = FieldLen.key

\* One of the two halves of a one-time prekey without the other is dropped.
CoreBundle(b) ==
    [responder_device_id  |-> b.responder_device_id.bytes,
     identity_pub_ed25519 |-> b.identity_pub_ed25519.bytes,
     identity_pub_x25519  |-> b.identity_pub_x25519.bytes,
     spk_id  |-> b.spk_id.bytes,
     spk_pub |-> b.spk_pub.bytes,
     spk_sig |-> b.spk_sig.bytes,
     otp |-> {[id |-> id.bytes, pub |-> pub.bytes] : id \in b.otp_id, pub \in b.otp_pub}]

\* PrekeyBundle::validate; a prekey in otp has both halves.
ValidBundle(p) ==
    VerifySpkSignature(p.identity_pub_ed25519, p.spk_id, p.spk_pub, p.spk_sig)

(***************************************************************************)
(* The handshake.  a is what the initiator puts in: suite_id, session_id,  *)
(* device_id and the keys ik_dh, ik_sig and ek.  p is the bundle.  The two *)
(* halves of a key pair are one term, and Dh is symmetric in them.         *)
(***************************************************************************)
Dh(x, y) == {x, y}

ConstructIkm(dh1, dh2, dh3, dh4) == <<dh1, dh2, dh3, dh4>>

\* The flag, and the prekey if there is one.
OtpFields(otp) == IF otp = {} THEN <<0>> ELSE <<1, otp>>

Transcript(a, p) ==
    <<LABEL_HANDSHAKE, IA_VERSION, C6P_VERSION, LowByte(a.suite_id), a.session_id,
      a.device_id, p.responder_device_id, a.ik_dh, a.ik_sig, a.ek,
      p.identity_pub_x25519, p.identity_pub_ed25519,
      p.spk_id, p.spk_pub, p.spk_sig, OtpFields(p.otp)>>

TranscriptHash(a, p) == Sha256(Transcript(a, p))

HandshakeContext(a, p) ==
    [session_id |-> a.session_id, initiator_device_id |-> a.device_id,
     responder_device_id |-> p.responder_device_id]

DmStream(stream, suite) ==
    [stream_id |-> stream, message_type |-> MessageTypes.DM, suite_id |-> suite]

ChainKeyOf(ikm, a, p, stream) ==
    LET th == TranscriptHash(a, p) ctx == HandshakeContext(a, p) IN
    InitialChainKey(RootKey(ikm, th, ctx), th, ctx, DmStream(stream, a.suite_id))

\* Offer::construct
InitiatorIkm(a, p) ==
    ConstructIkm(Dh(a.ik_dh, p.spk_pub), Dh(a.ek, p.identity_pub_x25519),
                 Dh(a.ek, p.spk_pub), {Dh(a.ek, o.pub) : o \in p.otp})

\* InitiatorHandshakeOutput
InitiatorOutput(a, p) ==
    LET ikm == InitiatorIkm(a, p)
        th  == TranscriptHash(a, p)
        ctx == HandshakeContext(a, p)
    IN  [root_key        |-> RootKey(ikm, th, ctx),
         kc_key          |-> KcKey(ikm, th, ctx),
         send_chain_key  |-> ChainKeyOf(ikm, a, p, StreamIds.I2R),
         recv_chain_key  |-> ChainKeyOf(ikm, a, p, StreamIds.R2I),
         session_binding |-> SessionBinding(ctx)]

\* The struct Offer.
Offer(a, p) ==
    LET th == TranscriptHash(a, p) IN
    [version |-> 1, from |-> a, responder_device_id |-> p.responder_device_id,
     used_spk_id |-> p.spk_id, used_spk_pub |-> p.spk_pub, used_spk_sig |-> p.spk_sig,
     used_otp_id |-> {o.id : o \in p.otp}, used_otp_pub |-> {o.pub : o \in p.otp},
     transcript_hash |-> th,
     kc1 |-> Kc1(InitiatorOutput(a, p).kc_key, a.session_id, a.device_id,
                 p.responder_device_id, th, a.suite_id),
     offer_signature |-> SignOffer(a.ik_sig, th, a.suite_id, a.session_id, a.device_id,
                                   p.responder_device_id)]

\* OfferWire has neither the signature of the signed prekey nor the public
\* half of the one-time prekey ...
OfferWire(o) ==
    [version |-> o.version, from |-> o.from, responder_device_id |-> o.responder_device_id,
     used_spk_id |-> o.used_spk_id, used_spk_pub |-> o.used_spk_pub,
     used_otp_id |-> o.used_otp_id, transcript_hash |-> o.transcript_hash,
     kc1 |-> o.kc1, offer_signature |-> o.offer_signature]

\* ... and offer_from_wire takes them from the responder's own prekeys.
OfferFromWire(w, spkSig, otpPub) ==
    [version |-> w.version, from |-> w.from, responder_device_id |-> w.responder_device_id,
     used_spk_id |-> w.used_spk_id, used_spk_pub |-> w.used_spk_pub, used_spk_sig |-> spkSig,
     used_otp_id |-> w.used_otp_id, used_otp_pub |-> otpPub,
     transcript_hash |-> w.transcript_hash,
     kc1 |-> w.kc1, offer_signature |-> w.offer_signature]

\* Offer::has_otp
HasOtp(o) == o.used_otp_id # {} /\ o.used_otp_pub # {}

\* Accept::construct: its keys, mirrored and swapped.  own is the bundle of
\* the responder's own prekeys; the transcript takes the ids, the signature of
\* the signed prekey and the one-time prekey from the offer.
TranscriptBundle(o, own) ==
    [responder_device_id  |-> o.responder_device_id,
     identity_pub_ed25519 |-> own.identity_pub_ed25519,
     identity_pub_x25519  |-> own.identity_pub_x25519,
     spk_id  |-> o.used_spk_id,
     spk_pub |-> own.spk_pub,
     spk_sig |-> o.used_spk_sig,
     otp |-> {[id |-> id, pub |-> pub] : id \in o.used_otp_id, pub \in o.used_otp_pub}]

ResponderIkm(o, own) ==
    ConstructIkm(Dh(own.spk_pub, o.from.ik_dh), Dh(own.identity_pub_x25519, o.from.ek),
                 Dh(own.spk_pub, o.from.ek), {Dh(x.pub, o.from.ek) : x \in own.otp})

ResponderOutput(o, own) ==
    LET ikm == ResponderIkm(o, own)
        p   == TranscriptBundle(o, own)
        th  == TranscriptHash(o.from, p)
        ctx == HandshakeContext(o.from, p)
    IN  [root_key        |-> RootKey(ikm, th, ctx),
         kc_key          |-> KcKey(ikm, th, ctx),
         send_chain_key  |-> ChainKeyOf(ikm, o.from, p, StreamIds.R2I),
         recv_chain_key  |-> ChainKeyOf(ikm, o.from, p, StreamIds.I2R),
         session_binding |-> SessionBinding(ctx)]

\* Its checks: steps 1, 2, 3, 10 and 11.
ConstructsAccept(o, own) ==
    LET a  == o.from
        th == TranscriptHash(a, TranscriptBundle(o, own))
    IN  /\ o.responder_device_id = own.responder_device_id
        /\ o.used_spk_id = own.spk_id
        /\ HasOtp(o) <=> own.otp # {}
        /\ \A id \in o.used_otp_id, x \in own.otp : id = x.id
        /\ VerifyOfferSignature(a.ik_sig, o.offer_signature, th, a.suite_id, a.session_id,
                                a.device_id, o.responder_device_id)
        /\ o.kc1 = Kc1(ResponderOutput(o, own).kc_key, a.session_id, a.device_id,
                       o.responder_device_id, th, a.suite_id)

Accept(o, own) ==
    [session_id |-> o.from.session_id, responder_device_id |-> o.responder_device_id,
     kc2 |-> Kc2(ResponderOutput(o, own).kc_key, o.from.session_id, o.from.device_id,
                 o.responder_device_id, TranscriptHash(o.from, TranscriptBundle(o, own)),
                 o.from.suite_id)]

\* AcceptWire has every field of the accept.
AcceptWire(x) ==
    [session_id |-> x.session_id, responder_device_id |-> x.responder_device_id, kc2 |-> x.kc2]

\* Accept::validate, for the offer of a to the owner of p.
ValidatesAccept(x, a, p) ==
    /\ x.session_id = a.session_id
    /\ x.responder_device_id = p.responder_device_id
    /\ x.kc2 = Kc2(InitiatorOutput(a, p).kc_key, x.session_id, a.device_id,
                   x.responder_device_id, TranscriptHash(a, p), a.suite_id)
=============================================================================
