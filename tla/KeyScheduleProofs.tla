------------------------- MODULE KeyScheduleProofs -------------------------
(***************************************************************************)
(* The encodings of KeySchedule lose nothing that has to tell two keys,    *)
(* nonces, tags or signatures apart, and the two sides of a handshake      *)
(* compute the same keys.                                                  *)
(***************************************************************************)
EXTENDS KeySchedule, TLAPS

LEMMA BytesName ==
    ASSUME NEW x \in Nat, NEW y \in Nat,
           HighByte(x) = HighByte(y), LowByte(x) = LowByte(y)
    PROVE  x = y
BY DEF HighByte, LowByte

LEMMA Be16Names ==
    ASSUME NEW x \in Nat, NEW y \in Nat, Be16(x) = Be16(y)
    PROVE  x = y
BY BytesName DEF Be16

LEMMA QuotientsName ==
    ASSUME NEW x \in Nat, NEW y \in Nat,
           x \div 65536 = y \div 65536, x % 65536 = y % 65536
    PROVE  x = y
OBVIOUS

LEMMA Be64Names ==
    ASSUME NEW x \in Nat, NEW y \in Nat, Be64(x) = Be64(y)
    PROVE  x = y
<1> DEFINE x1 == x \div 65536   x2 == x1 \div 65536   x3 == x2 \div 65536
           y1 == y \div 65536   y2 == y1 \div 65536   y3 == y2 \div 65536
<1>1. /\ Be16(x3) = Be16(y3)
      /\ Be16(x2 % 65536) = Be16(y2 % 65536)
      /\ Be16(x1 % 65536) = Be16(y1 % 65536)
      /\ Be16(x % 65536) = Be16(y % 65536)
  BY DEF Be64
<1>2. x1 \in Nat /\ x2 \in Nat /\ x3 \in Nat /\ y1 \in Nat /\ y2 \in Nat /\ y3 \in Nat
  OBVIOUS
<1>3. x3 = y3 /\ x2 % 65536 = y2 % 65536
  BY <1>1, <1>2, Be16Names
<1>4. x1 % 65536 = y1 % 65536 /\ x % 65536 = y % 65536
  BY <1>1, <1>2, Be16Names
<1>5. x2 = y2
  BY <1>2, <1>3, QuotientsName
<1>6. x1 = y1
  BY <1>2, <1>4, <1>5, QuotientsName
<1> QED
  BY <1>4, <1>6, QuotientsName

LEMMA RatchetCtxNames ==
    ASSUME NEW s \in StreamContext, NEW t \in StreamContext, RatchetCtx(s) = RatchetCtx(t)
    PROVE  s = t
<1>1. /\ HighByte(s.suite_id) = HighByte(t.suite_id)
      /\ LowByte(s.suite_id) = LowByte(t.suite_id)
  BY DEF RatchetCtx
<1>3. s.suite_id \in Nat /\ t.suite_id \in Nat
  <2>1. s.suite_id \in U16 /\ t.suite_id \in U16
    BY DEF StreamContext
  <2>2. \A n \in U16 : n \in Nat
    BY DEF U16
  <2> QED
    BY <2>1, <2>2
<1>4. s.suite_id = t.suite_id
  BY <1>1, <1>3, BytesName
<1>2. s.stream_id = t.stream_id /\ s.message_type = t.message_type
  BY DEF RatchetCtx
<1> QED
  BY <1>4, <1>2 DEF StreamContext

LEMMA CtxNames ==
    ASSUME NEW x \in SessionContext, NEW y \in SessionContext, CtxBytes(x) = CtxBytes(y)
    PROVE  x = y
BY DEF CtxBytes, SessionContext

\* The key the ratchet extracts for a message is that of no other message.
LEMMA RatchetPrkNames ==
    ASSUME NEW ck1, NEW ck2, NEW th1, NEW th2, NEW c1 \in U64, NEW c2 \in U64,
           NEW x1 \in SessionContext, NEW x2 \in SessionContext,
           NEW s1 \in StreamContext, NEW s2 \in StreamContext,
           RatchetPrk(ck1, c1, x1, th1, s1) = RatchetPrk(ck2, c2, x2, th2, s2)
    PROVE  ck1 = ck2 /\ c1 = c2 /\ x1 = x2 /\ th1 = th2 /\ s1 = s2
<1>1. /\ ck1 = ck2
      /\ CtxBytes(x1) = CtxBytes(x2)
      /\ th1 = th2
      /\ RatchetCtx(s1) = RatchetCtx(s2)
      /\ Be64(c1) = Be64(c2)
  BY DEF RatchetPrk, HkdfExtract, Sha256
<1> QED
  BY <1>1, CtxNames, RatchetCtxNames, Be64Names DEF U64

-----------------------------------------------------------------------------
(***************************************************************************)
(* Message keys and chain keys.                                            *)
(***************************************************************************)
\* The key of a message, and the chain key behind it, are those of no other
\* chain key, counter, session, transcript or stream: what StreamState takes
\* for granted when it writes a key as what it was derived from.
THEOREM RatchetStepNamesMessage ==
    ASSUME NEW ck1, NEW ck2, NEW th1, NEW th2, NEW c1 \in U64, NEW c2 \in U64,
           NEW x1 \in SessionContext, NEW x2 \in SessionContext,
           NEW s1 \in StreamContext, NEW s2 \in StreamContext,
           \/ RatchetStep(ck1, c1, x1, th1, s1).mk_material
                = RatchetStep(ck2, c2, x2, th2, s2).mk_material
           \/ RatchetStep(ck1, c1, x1, th1, s1).next_chain_key
                = RatchetStep(ck2, c2, x2, th2, s2).next_chain_key
    PROVE  ck1 = ck2 /\ c1 = c2 /\ x1 = x2 /\ th1 = th2 /\ s1 = s2
<1>1. RatchetPrk(ck1, c1, x1, th1, s1) = RatchetPrk(ck2, c2, x2, th2, s2)
  BY DEF RatchetStep, HkdfExpand
<1> QED
  BY <1>1, RatchetPrkNames

\* An initial chain key belongs to one root key, transcript, session and
\* stream; of the suite id it has the low byte.
THEOREM InitialChainKeyNamesStream ==
    ASSUME NEW r1, NEW r2, NEW th1, NEW th2,
           NEW x1 \in SessionContext, NEW x2 \in SessionContext, NEW s1, NEW s2,
           InitialChainKey(r1, th1, x1, s1) = InitialChainKey(r2, th2, x2, s2)
    PROVE  /\ r1 = r2 /\ th1 = th2 /\ x1 = x2
           /\ s1.stream_id = s2.stream_id /\ s1.message_type = s2.message_type
           /\ LowByte(s1.suite_id) = LowByte(s2.suite_id)
<1>1. CtxBytes(x1) = CtxBytes(x2)
  BY DEF InitialChainKey, HkdfExpand, HkdfExtract, Sha256
<1>2. x1 = x2
  BY <1>1, CtxNames
<1> QED
  BY <1>2 DEF InitialChainKey, HkdfExpand, HkdfExtract, Sha256

\* No two of the five kinds of key ever coincide, whatever they are derived
\* from: the labels keep them apart, and the salt keeps the first chain key
\* of a stream apart from all later ones.
THEOREM KeysApart ==
    ASSUME NEW ikm1, NEW th1, NEW x1, NEW ikm2, NEW th2, NEW x2,
           NEW root, NEW th3, NEW x3, NEW s3,
           NEW ck4, NEW c4, NEW th4, NEW x4, NEW s4,
           NEW ck5, NEW c5, NEW th5, NEW x5, NEW s5
    PROVE  LET R == RootKey(ikm1, th1, x1)
               K == KcKey(ikm2, th2, x2)
               C == InitialChainKey(root, th3, x3, s3)
               M == RatchetStep(ck4, c4, x4, th4, s4).mk_material
               N == RatchetStep(ck5, c5, x5, th5, s5).next_chain_key
           IN  /\ R # K /\ R # C /\ R # M /\ R # N
               /\ K # C /\ K # M /\ K # N
               /\ C # M /\ C # N /\ M # N
<1> DEFINE R == RootKey(ikm1, th1, x1)
           K == KcKey(ikm2, th2, x2)
           C == InitialChainKey(root, th3, x3, s3)
           M == RatchetStep(ck4, c4, x4, th4, s4).mk_material
           N == RatchetStep(ck5, c5, x5, th5, s5).next_chain_key
<1>1. /\ R[3][1] = "C6P_ROOT_V1"
      /\ K[3][1] = "C6P_KC_V1"
      /\ C[3][1] = "C6P_CHAIN_V1"
      /\ M[3][1] = "C6P_MSG_V1"
      /\ N[3][1] = "C6P_CHAIN_V1"
  BY DEF RootKey, KcKey, InitialChainKey, RatchetStep, HkdfExpand,
         LABEL_ROOT, LABEL_KC, LABEL_CHAIN, LABEL_MSG
<1>2. /\ C[2][2][2][1] = "C6P_CHAIN_V1"
      /\ N[2][2][2][1] = "C6P_MSG_V1"
  BY DEF InitialChainKey, RatchetStep, RatchetPrk, HkdfExpand, HkdfExtract, Sha256,
         LABEL_CHAIN, LABEL_MSG
<1> HIDE DEF R, K, C, M, N
<1>3. /\ R # K /\ R # C /\ R # M /\ R # N
      /\ K # C /\ K # M /\ K # N
      /\ C # M /\ C # N /\ M # N
  BY <1>1, <1>2
<1> QED
  BY <1>3 DEF R, K, C, M, N

\* derive_per_message of c6p-crypto, of which its doc says that both paths
\* must use it, never gives a key of the ratchet both paths do use: its stream
\* context is one byte shorter.
THEOREM RatchetsApart ==
    ASSUME NEW ck1, NEW c1, NEW x1, NEW th1, NEW s1,
           NEW ck2, NEW c2, NEW x2, NEW th2, NEW s2
    PROVE  /\ DerivePerMessage(ck1, c1, x1, th1, s1).mk_material
                # RatchetStep(ck2, c2, x2, th2, s2).mk_material
           /\ DerivePerMessage(ck1, c1, x1, th1, s1).next_chain_key
                # RatchetStep(ck2, c2, x2, th2, s2).next_chain_key
<1>1. StreamCtxBytes(s1) # RatchetCtx(s2)
  BY DEF StreamCtxBytes, RatchetCtx
<1> QED
  BY <1>1 DEF DerivePerMessage, RatchetStep, HkdfExpand

-----------------------------------------------------------------------------
(***************************************************************************)
(* AEAD keys and nonces.                                                   *)
(***************************************************************************)
LEMMA SuiteBytes ==
    \A s, t \in SuiteIds : LowByte(s) = LowByte(t) => s = t
BY DEF SuiteIds, SUITE_CHACHA20_POLY1305, SUITE_XCHACHA20_POLY1305, SUITE_AEGIS_128L, LowByte

\* A nonce belongs to one message key, session and message; and a nonce key
\* and info block are never expanded to two lengths, of which the shorter
\* would be a prefix of the longer: the info block names the suite.
THEOREM NonceNamesMessage ==
    ASSUME NEW mk1, NEW mk2, NEW b1, NEW b2, NEW suite1 \in SuiteIds, NEW suite2 \in SuiteIds,
           NEW t1, NEW t2, NEW s1, NEW s2, NEW sid1, NEW sid2, NEW c1 \in U64, NEW c2 \in U64
    PROVE  /\ Nonce(mk1, b1, suite1, t1, s1, sid1, c1) = Nonce(mk2, b2, suite2, t2, s2, sid2, c2)
                 => /\ mk1 = mk2 /\ b1 = b2 /\ suite1 = suite2 /\ t1 = t2 /\ s1 = s2
                    /\ sid1 = sid2 /\ c1 = c2
           /\ NonceInfo(suite1, t1, s1, sid1, c1) = NonceInfo(suite2, t2, s2, sid2, c2)
                 => NonceLen[suite1] = NonceLen[suite2]
<1>1. ASSUME NonceInfo(suite1, t1, s1, sid1, c1) = NonceInfo(suite2, t2, s2, sid2, c2)
      PROVE  suite1 = suite2 /\ t1 = t2 /\ s1 = s2 /\ sid1 = sid2 /\ c1 = c2
  <2>1. /\ LowByte(suite1) = LowByte(suite2) /\ t1 = t2 /\ s1 = s2 /\ sid1 = sid2
        /\ Be64(c1) = Be64(c2)
    BY <1>1 DEF NonceInfo
  <2> QED
    BY <2>1, SuiteBytes, Be64Names DEF U64
<1>2. ASSUME Nonce(mk1, b1, suite1, t1, s1, sid1, c1) = Nonce(mk2, b2, suite2, t2, s2, sid2, c2)
      PROVE  /\ mk1 = mk2 /\ b1 = b2
             /\ NonceInfo(suite1, t1, s1, sid1, c1) = NonceInfo(suite2, t2, s2, sid2, c2)
  BY <1>2 DEF Nonce, NoncePrk, HkdfExpand, HkdfExtract
<1> QED
  BY <1>1, <1>2

\* Two messages sealed under one AEAD key are the same message of the same
\* stream, suite included, although two suites use the message key as it is.
THEOREM SuiteKeyNamesMessage ==
    ASSUME NEW ck1, NEW ck2, NEW th1, NEW th2, NEW c1 \in U64, NEW c2 \in U64,
           NEW x1 \in SessionContext, NEW x2 \in SessionContext,
           NEW s1 \in StreamContext, NEW s2 \in StreamContext,
           SuiteKey(RatchetStep(ck1, c1, x1, th1, s1).mk_material, s1.suite_id)
             = SuiteKey(RatchetStep(ck2, c2, x2, th2, s2).mk_material, s2.suite_id)
    PROVE  ck1 = ck2 /\ c1 = c2 /\ x1 = x2 /\ th1 = th2 /\ s1 = s2
<1> DEFINE M1 == RatchetStep(ck1, c1, x1, th1, s1).mk_material
           M2 == RatchetStep(ck2, c2, x2, th2, s2).mk_material
<1>1. M1[4] = 32 /\ M2[4] = 32
  BY DEF RatchetStep, HkdfExpand, FieldLen
<1>2. \A m : SuiteKey(m, SUITE_AEGIS_128L)[4] = 16
  BY DEF SuiteKey, HkdfExpand
<1>3. \A m, n : SuiteKey(m, SUITE_AEGIS_128L) = SuiteKey(n, SUITE_AEGIS_128L) => m = n
  BY DEF SuiteKey, HkdfExpand, HkdfExtract
<1>4. \A m, s : s # SUITE_AEGIS_128L => SuiteKey(m, s) = m
  BY DEF SuiteKey
<1>5. M1 = M2
  <2> HIDE DEF M1, M2
  <2>1. SuiteKey(M1, s1.suite_id) = SuiteKey(M2, s2.suite_id)
    BY DEF M1, M2
  <2>2. CASE s1.suite_id = SUITE_AEGIS_128L /\ s2.suite_id = SUITE_AEGIS_128L
    BY <2>1, <2>2, <1>3
  <2>3. CASE s1.suite_id # SUITE_AEGIS_128L /\ s2.suite_id # SUITE_AEGIS_128L
    BY <2>1, <2>3, <1>4
  <2>4. CASE (s1.suite_id = SUITE_AEGIS_128L) # (s2.suite_id = SUITE_AEGIS_128L)
    BY <2>1, <2>4, <1>1, <1>2, <1>4
  <2> QED
    BY <2>2, <2>3, <2>4
<1> QED
  BY <1>5, RatchetStepNamesMessage

-----------------------------------------------------------------------------
(***************************************************************************)
(* Signatures and confirmation tags.                                       *)
(***************************************************************************)
\* The two messages an identity key signs are never the same bytes.
THEOREM SignaturesApart ==
    ASSUME NEW id, NEW pub, NEW th, NEW suite, NEW sid, NEW x, NEW y
    PROVE  PrekeyMessage(id, pub) # OfferSignatureInput(th, suite, sid, x, y)
<1>1. PrekeyMessage(id, pub)[1] = "C6P_PREKEY_V1"
  BY DEF PrekeyMessage, LABEL_PREKEY
<1>2. OfferSignatureInput(th, suite, sid, x, y)[1] = "sha256"
  BY DEF OfferSignatureInput, Sha256
<1> QED
  BY <1>1, <1>2

\* A confirmation tag of one direction is no tag of the other, so none can be
\* sent back to the side that made it; and a tag names its key, session,
\* transcript and, up to the high byte, suite.
THEOREM KcTagsName ==
    ASSUME NEW k, NEW k2, NEW sid, NEW sid2, NEW x, NEW x2, NEW y, NEW y2, NEW th, NEW th2,
           NEW s, NEW s2
    PROVE  /\ Kc1(k, sid, x, y, th, s) # Kc2(k2, sid2, x2, y2, th2, s2)
           /\ Kc1(k, sid, x, y, th, s) = Kc1(k2, sid2, x2, y2, th2, s2)
                => k = k2 /\ sid = sid2 /\ x = x2 /\ y = y2 /\ th = th2 /\ LowByte(s) = LowByte(s2)
           /\ Kc2(k, sid, x, y, th, s) = Kc2(k2, sid2, x2, y2, th2, s2)
                => k = k2 /\ sid = sid2 /\ x = x2 /\ y = y2 /\ th = th2 /\ LowByte(s) = LowByte(s2)
<1>1. Kc1(k, sid, x, y, th, s)[3][2] = "INIT" /\ Kc2(k2, sid2, x2, y2, th2, s2)[3][2] = "RESP"
  BY DEF Kc1, Kc2, KcTag, HmacSha256
<1>2. Kc1(k, sid, x, y, th, s) # Kc2(k2, sid2, x2, y2, th2, s2)
  BY <1>1
<1> QED
  BY <1>2 DEF Kc1, Kc2, KcTag, HmacSha256, HandshakeKcPayload, Sha256

\* The payload c6p-crypto computes and the one the handshake computes for
\* itself are the same.
THEOREM KcPayloadsAgree ==
    ASSUME NEW ctx \in SessionContext, NEW th, NEW suite
    PROVE  KcPayload(ctx, th, suite)
             = HandshakeKcPayload(ctx.session_id, ctx.initiator_device_id,
                                  ctx.responder_device_id, th, suite)
BY DEF KcPayload, HandshakeKcPayload, CtxBytes, C6P_VERSION

-----------------------------------------------------------------------------
(***************************************************************************)
(* The handshake.                                                          *)
(***************************************************************************)
\* The two handshakes agree on every field of the transcript.
SameHandshake(a, p, b, q) ==
    /\ LowByte(a.suite_id) = LowByte(b.suite_id)
    /\ a.session_id = b.session_id
    /\ a.device_id = b.device_id
    /\ a.ik_dh = b.ik_dh /\ a.ik_sig = b.ik_sig /\ a.ek = b.ek
    /\ p.responder_device_id = q.responder_device_id
    /\ p.identity_pub_x25519 = q.identity_pub_x25519
    /\ p.identity_pub_ed25519 = q.identity_pub_ed25519
    /\ p.spk_id = q.spk_id /\ p.spk_pub = q.spk_pub /\ p.spk_sig = q.spk_sig
    /\ p.otp = q.otp

\* The transcript hash names all parties, keys and prekeys of a handshake,
\* and nothing can be moved between its optional last fields and the others.
THEOREM TranscriptNamesHandshake ==
    ASSUME NEW a, NEW p, NEW b, NEW q, TranscriptHash(a, p) = TranscriptHash(b, q)
    PROVE  SameHandshake(a, p, b, q)
<1>1. Transcript(a, p) = Transcript(b, q)
  BY DEF TranscriptHash, Sha256
<1>2. OtpFields(p.otp) = OtpFields(q.otp)
  BY <1>1 DEF Transcript
<1>3. p.otp = q.otp
  BY <1>2 DEF OtpFields
<1> QED
  BY <1>1, <1>3 DEF Transcript, SameHandshake

LEMMA SameTranscript ==
    ASSUME NEW a, NEW p, NEW b, NEW q, SameHandshake(a, p, b, q)
    PROVE  TranscriptHash(a, p) = TranscriptHash(b, q)
BY DEF SameHandshake, TranscriptHash, Transcript

LEMMA RootKeyNames ==
    ASSUME NEW i1, NEW i2, NEW th1, NEW th2, NEW x1, NEW x2,
           \/ RootKey(i1, th1, x1) = RootKey(i2, th2, x2)
           \/ KcKey(i1, th1, x1) = KcKey(i2, th2, x2)
    PROVE  i1 = i2 /\ th1 = th2 /\ CtxBytes(x1) = CtxBytes(x2)
<1>1. RootPrk(i1, th1, x1) = RootPrk(i2, th2, x2)
  BY DEF RootKey, KcKey, HkdfExpand
<1> QED
  BY <1>1 DEF RootPrk, HkdfExtract, Sha256

\* A chain key a handshake ends with belongs to no other handshake and to no
\* other stream: two sessions never send under the same key, nor the two
\* directions of one session.
THEOREM ChainKeyNamesHandshake ==
    ASSUME NEW i, NEW j, NEW a, NEW p, NEW b, NEW q, NEW s, NEW t,
           ChainKeyOf(i, a, p, s) = ChainKeyOf(j, b, q, t)
    PROVE  i = j /\ s = t /\ SameHandshake(a, p, b, q)
<1> DEFINE th1 == TranscriptHash(a, p)
           th2 == TranscriptHash(b, q)
           r1  == RootKey(i, th1, HandshakeContext(a, p))
           r2  == RootKey(j, th2, HandshakeContext(b, q))
<1>1. InitialChainKey(r1, th1, HandshakeContext(a, p), DmStream(s, a.suite_id))
        = InitialChainKey(r2, th2, HandshakeContext(b, q), DmStream(t, b.suite_id))
  BY DEF ChainKeyOf
<1>2. /\ r1 = r2 /\ th1 = th2
      /\ DmStream(s, a.suite_id).stream_id = DmStream(t, b.suite_id).stream_id
  <2> HIDE DEF th1, th2, r1, r2
  <2> QED
    BY <1>1 DEF InitialChainKey, HkdfExpand, HkdfExtract, Sha256
<1>3. s = t
  BY <1>2 DEF DmStream
<1>4. i = j
  <2> HIDE DEF th1, th2
  <2> QED
    BY <1>2, RootKeyNames
<1> QED
  BY <1>2, <1>3, <1>4, TranscriptNamesHandshake

\* What reaches the responder of the offer of a to p, completed with the
\* responder's own prekeys.
Arrived(a, p, own) ==
    OfferFromWire(OfferWire(Offer(a, p)), own.spk_sig, {x.pub : x \in own.otp})

LEMMA ArrivedFields ==
    ASSUME NEW a, NEW p, NEW own
    PROVE  LET o == Arrived(a, p, own) IN
           /\ o.from = a
           /\ o.responder_device_id = p.responder_device_id
           /\ o.used_spk_id = p.spk_id
           /\ o.used_spk_sig = own.spk_sig
           /\ o.used_otp_id = {x.id : x \in p.otp}
           /\ o.used_otp_pub = {x.pub : x \in own.otp}
           /\ o.kc1 = Kc1(InitiatorOutput(a, p).kc_key, a.session_id, a.device_id,
                          p.responder_device_id, TranscriptHash(a, p), a.suite_id)
           /\ o.offer_signature
                = SignOffer(a.ik_sig, TranscriptHash(a, p), a.suite_id, a.session_id,
                            a.device_id, p.responder_device_id)
BY DEF Arrived, OfferFromWire, OfferWire, Offer

\* The sender's keys of one side are the receiver's keys of the other.
Mirrors(x, y) ==
    /\ x.root_key = y.root_key /\ x.kc_key = y.kc_key
    /\ x.send_chain_key = y.recv_chain_key
    /\ x.recv_chain_key = y.send_chain_key
    /\ x.session_binding = y.session_binding

LEMMA IkmMirrors ==
    ASSUME NEW p, NEW o, NEW own,
           p.spk_pub = own.spk_pub, p.identity_pub_x25519 = own.identity_pub_x25519,
           {x.pub : x \in p.otp} = {x.pub : x \in own.otp}
    PROVE  InitiatorIkm(o.from, p) = ResponderIkm(o, own)
<1>1. \A x, y : Dh(x, y) = Dh(y, x)
  BY DEF Dh
<1>2. {Dh(o.from.ek, x.pub) : x \in p.otp} = {Dh(x.pub, o.from.ek) : x \in own.otp}
  <2> DEFINE P == {x.pub : x \in p.otp}
  <2>1. {Dh(o.from.ek, x.pub) : x \in p.otp} = {Dh(o.from.ek, k) : k \in P}
    OBVIOUS
  <2>2. {Dh(x.pub, o.from.ek) : x \in own.otp} = {Dh(k, o.from.ek) : k \in P}
    OBVIOUS
  <2> HIDE DEF P
  <2>3. {Dh(o.from.ek, k) : k \in P} = {Dh(k, o.from.ek) : k \in P}
    BY <1>1
  <2> QED
    BY <2>1, <2>2, <2>3
<1>3. Dh(o.from.ik_dh, p.spk_pub) = Dh(own.spk_pub, o.from.ik_dh)
  BY <1>1
<1>4. Dh(o.from.ek, p.identity_pub_x25519) = Dh(own.identity_pub_x25519, o.from.ek)
  BY <1>1
<1>5. Dh(o.from.ek, p.spk_pub) = Dh(own.spk_pub, o.from.ek)
  BY <1>1
<1> QED
  BY <1>2, <1>3, <1>4, <1>5 DEF InitiatorIkm, ResponderIkm, ConstructIkm

LEMMA OutputsMirror ==
    ASSUME NEW p, NEW o, NEW own,
           SameHandshake(o.from, p, o.from, TranscriptBundle(o, own)),
           InitiatorIkm(o.from, p) = ResponderIkm(o, own)
    PROVE  Mirrors(InitiatorOutput(o.from, p), ResponderOutput(o, own))
<1> DEFINE q == TranscriptBundle(o, own)
<1>1. TranscriptHash(o.from, p) = TranscriptHash(o.from, q)
  BY SameTranscript
<1>2. HandshakeContext(o.from, p) = HandshakeContext(o.from, q)
  BY DEF SameHandshake, HandshakeContext
<1> HIDE DEF q
<1>3. \A i, s : ChainKeyOf(i, o.from, p, s) = ChainKeyOf(i, o.from, q, s)
  BY <1>1, <1>2 DEF ChainKeyOf
<1> QED
  BY <1>1, <1>2, <1>3 DEF Mirrors, InitiatorOutput, ResponderOutput, q

\* If the responder constructs an accept for an offer that was made from any
\* bundle whatsoever, then the bundle was one of its own prekeys, and each
\* side sends under the key the other receives under.
THEOREM SessionKeysMirror ==
    ASSUME NEW a, NEW p, NEW own, ConstructsAccept(Arrived(a, p, own), own)
    PROVE  /\ Mirrors(InitiatorOutput(a, p), ResponderOutput(Arrived(a, p, own), own))
           /\ p.identity_pub_ed25519 = own.identity_pub_ed25519
           /\ p.spk_id = own.spk_id /\ p.spk_pub = own.spk_pub /\ p.spk_sig = own.spk_sig
<1> DEFINE o == Arrived(a, p, own)
           q == TranscriptBundle(o, own)
<1>1. /\ o.from = a
      /\ o.used_otp_id = {x.id : x \in p.otp}
      /\ o.used_otp_pub = {x.pub : x \in own.otp}
      /\ o.offer_signature
           = SignOffer(a.ik_sig, TranscriptHash(a, p), a.suite_id, a.session_id,
                       a.device_id, p.responder_device_id)
  BY ArrivedFields
<1> HIDE DEF o
<1>2. /\ o.used_spk_id = own.spk_id
      /\ HasOtp(o) <=> own.otp # {}
      /\ VerifyOfferSignature(a.ik_sig, o.offer_signature, TranscriptHash(a, q), a.suite_id,
                              a.session_id, a.device_id, o.responder_device_id)
  BY <1>1 DEF ConstructsAccept, o
<1>3. TranscriptHash(a, p) = TranscriptHash(a, q)
  <2> HIDE DEF q
  <2> QED
    BY <1>1, <1>2 DEF VerifyOfferSignature, SignOffer, Sign, OfferSignatureInput, Sha256
<1>4. SameHandshake(a, p, a, q)
  BY <1>3, TranscriptNamesHandshake
<1>5. /\ q.spk_pub = own.spk_pub
      /\ q.identity_pub_x25519 = own.identity_pub_x25519
      /\ q.identity_pub_ed25519 = own.identity_pub_ed25519
      /\ q.spk_id = own.spk_id
      /\ q.spk_sig = o.used_spk_sig
      /\ q.otp = {[id |-> id, pub |-> pub] : id \in o.used_otp_id, pub \in o.used_otp_pub}
  BY <1>2 DEF TranscriptBundle
<1>6. o.used_spk_sig = own.spk_sig
  BY ArrivedFields DEF o
<1>7. /\ p.spk_pub = own.spk_pub
      /\ p.identity_pub_x25519 = own.identity_pub_x25519
      /\ p.identity_pub_ed25519 = own.identity_pub_ed25519
      /\ p.spk_id = own.spk_id /\ p.spk_sig = own.spk_sig
      /\ p.otp = q.otp
  <2> HIDE DEF q
  <2> QED
    BY <1>4, <1>5, <1>6 DEF SameHandshake
<1>8. {x.pub : x \in p.otp} = {x.pub : x \in own.otp}
  <2> DEFINE ids == {x.id : x \in p.otp}
             pubs == {x.pub : x \in own.otp}
  <2>1. p.otp = {[id |-> id, pub |-> pub] : id \in ids, pub \in pubs}
    BY <1>1, <1>5, <1>7
  <2>2. own.otp # {} => ids # {}
    BY <1>1, <1>2 DEF HasOtp
  <2>3. ASSUME NEW x \in p.otp PROVE x.pub \in pubs
    <3>1. PICK id \in ids, pub \in pubs : x = [id |-> id, pub |-> pub]
      BY <2>1
    <3> QED
      BY <3>1
  <2>4. ASSUME NEW x \in own.otp PROVE x.pub \in {y.pub : y \in p.otp}
    <3>1. x.pub \in pubs
      OBVIOUS
    <3>2. PICK id \in ids : TRUE
      BY <2>2
    <3>3. [id |-> id, pub |-> x.pub] \in p.otp
      BY <2>1, <3>1, <3>2
    <3> QED
      BY <3>3
  <2> QED
    BY <2>3, <2>4
<1>9. InitiatorIkm(a, p) = ResponderIkm(o, own)
  BY <1>1, <1>7, <1>8, IkmMirrors
<1>10. Mirrors(InitiatorOutput(a, p), ResponderOutput(o, own))
  BY <1>1, <1>4, <1>9, OutputsMirror
<1> QED
  BY <1>7, <1>10 DEF o

\* An offer made from the responder's own bundle is accepted: nothing the wire
\* leaves out is missing.
THEOREM GenuineOfferAccepted ==
    ASSUME NEW a, NEW p, NEW id, NEW pub,
           p.otp \in {{}, {[id |-> id, pub |-> pub]}}
    PROVE  ConstructsAccept(Arrived(a, p, p), p)
<1> DEFINE o == Arrived(a, p, p)
           q == TranscriptBundle(o, p)
<1>1. /\ o.from = a
      /\ o.responder_device_id = p.responder_device_id
      /\ o.used_spk_id = p.spk_id
      /\ o.used_spk_sig = p.spk_sig
      /\ o.used_otp_id = {x.id : x \in p.otp}
      /\ o.used_otp_pub = {x.pub : x \in p.otp}
      /\ o.kc1 = Kc1(InitiatorOutput(a, p).kc_key, a.session_id, a.device_id,
                     p.responder_device_id, TranscriptHash(a, p), a.suite_id)
      /\ o.offer_signature
           = SignOffer(a.ik_sig, TranscriptHash(a, p), a.suite_id, a.session_id,
                       a.device_id, p.responder_device_id)
  BY ArrivedFields
<1> HIDE DEF o
<1>2. p.otp = {[id |-> i, pub |-> k] : i \in o.used_otp_id, k \in o.used_otp_pub}
  <2>1. CASE p.otp = {}
    BY <1>1, <2>1
  <2>2. CASE p.otp = {[id |-> id, pub |-> pub]}
    <3>1. o.used_otp_id = {id} /\ o.used_otp_pub = {pub}
      BY <1>1, <2>2
    <3> QED
      BY <2>2, <3>1
  <2> QED
    BY <2>1, <2>2
<1>3. SameHandshake(a, p, a, q)
  BY <1>1, <1>2 DEF SameHandshake, TranscriptBundle
<1> HIDE DEF q
<1>4. TranscriptHash(a, p) = TranscriptHash(a, q)
  BY <1>3, SameTranscript
<1>5. InitiatorIkm(a, p) = ResponderIkm(o, p)
  BY <1>1, IkmMirrors
<1>6. InitiatorOutput(a, p).kc_key = ResponderOutput(o, p).kc_key
  BY <1>1, <1>3, <1>5, OutputsMirror DEF q, Mirrors
<1>7. \A i \in o.used_otp_id, x \in p.otp : i = x.id
  BY <1>1
<1>8. HasOtp(o) <=> p.otp # {}
  BY <1>1 DEF HasOtp
<1> QED
  BY <1>1, <1>4, <1>6, <1>7, <1>8
  DEF ConstructsAccept, VerifyOfferSignature, SignOffer, o, q

\* An accept verifies only for the one offer it was constructed for, and then
\* both sides hold the same keys; it says so whatever prekeys the responder
\* had and whatever it was sent.
THEOREM VerifiedAcceptAgrees ==
    ASSUME NEW a, NEW p, NEW o, NEW own,
           ValidatesAccept(AcceptWire(Accept(o, own)), a, p)
    PROVE  /\ SameHandshake(a, p, o.from, TranscriptBundle(o, own))
           /\ Mirrors(InitiatorOutput(a, p), ResponderOutput(o, own))
<1> DEFINE q == TranscriptBundle(o, own)
           x == AcceptWire(Accept(o, own))
           k1 == InitiatorOutput(a, p).kc_key
           k2 == ResponderOutput(o, own).kc_key
<1>1. Kc2(k1, x.session_id, a.device_id, x.responder_device_id, TranscriptHash(a, p), a.suite_id)
        = Kc2(k2, o.from.session_id, o.from.device_id, o.responder_device_id,
              TranscriptHash(o.from, q), o.from.suite_id)
  BY DEF ValidatesAccept, AcceptWire, Accept
<1>2. k1 = k2 /\ TranscriptHash(a, p) = TranscriptHash(o.from, q)
  <2> HIDE DEF q, k1, k2, x
  <2> QED
    BY <1>1, KcTagsName
<1>3. SameHandshake(a, p, o.from, q)
  BY <1>2, TranscriptNamesHandshake
<1> HIDE DEF q
<1>4. HandshakeContext(a, p) = HandshakeContext(o.from, q)
  BY <1>3 DEF SameHandshake, HandshakeContext
<1>5. /\ k1 = KcKey(InitiatorIkm(a, p), TranscriptHash(a, p), HandshakeContext(a, p))
      /\ k2 = KcKey(ResponderIkm(o, own), TranscriptHash(o.from, q), HandshakeContext(o.from, q))
  BY DEF InitiatorOutput, ResponderOutput, q
<1>6. InitiatorIkm(a, p) = ResponderIkm(o, own)
  <2>1. KcKey(InitiatorIkm(a, p), TranscriptHash(a, p), HandshakeContext(a, p))
          = KcKey(ResponderIkm(o, own), TranscriptHash(o.from, q), HandshakeContext(o.from, q))
    BY <1>2, <1>5
  <2> HIDE DEF x, k1, k2, q
  <2>2. \A i1, i2, th1, th2, x1, x2 : KcKey(i1, th1, x1) = KcKey(i2, th2, x2) => i1 = i2
    BY RootKeyNames
  <2> QED
    BY <2>1, <2>2
<1>7. LowByte(a.suite_id) = LowByte(o.from.suite_id)
  BY <1>3 DEF SameHandshake
<1>8. \A i, s : ChainKeyOf(i, a, p, s) = ChainKeyOf(i, o.from, q, s)
  BY <1>2, <1>4, <1>7 DEF ChainKeyOf, InitialChainKey, DmStream
<1> QED
  BY <1>2, <1>3, <1>4, <1>6, <1>8 DEF Mirrors, InitiatorOutput, ResponderOutput, q
=============================================================================
