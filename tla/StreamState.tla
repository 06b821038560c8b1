---------------------------- MODULE StreamState ----------------------------
(***************************************************************************)
(* rust/c6p-sessions/src/state.rs: the state of one direction of a DM      *)
(* session (chain key, send counter, skip-window) and its operations, as   *)
(* operators from a stream to a stream and a result.  DirectMessage and    *)
(* BridgeSession turn them into actions.                                   *)
(*                                                                         *)
(* Cryptography is symbolic.  A chain key is its derivation: the initial   *)
(* key of a stream and the sequence of ratchet inputs applied to it.  Two  *)
(* derivations are the same key exactly when they are equal, which is what *)
(* HKDF is used for.  A sealed message opens only under the key and the    *)
(* associated data it was sealed with, and only if no byte was changed.    *)
(***************************************************************************)
EXTENDS SkipWindow, Sequences

StreamDirection == {"I2R", "R2I"}

\* Suite ids of the protocol; encrypt_message and decrypt_message implement
\* the first and return an error for the others.
Suites == {"ChaCha20Poly1305", "XChaCha20Poly1305"}
ImplementedSuites == {"ChaCha20Poly1305"}

\* StreamContext; its message type is DM in every call.
StreamContext == [stream : StreamDirection, suite : Suites]

RatchetInput == [counter : Counter, ctx : StreamContext]
ChainKey == [stream : StreamDirection, steps : Seq(RatchetInput)]

\* derive_initial_chain_key: one key per stream of the session.
InitialChainKey(d) == [stream |-> d, steps |-> << >>]

(***************************************************************************)
(* The symmetric ratchet (ratchet.rs).                                     *)
(***************************************************************************)
MessageKeyMaterial ==
    [chain : ChainKey, counter : Counter, ctx : StreamContext]

MessageKey(ck, c, ctx) == [chain |-> ck, counter |-> c, ctx |-> ctx]

NextChainKey(ck, c, ctx) ==
    [ck EXCEPT !.steps = Append(@, [counter |-> c, ctx |-> ctx])]

\* A plausible slip: the last step of the loop is left out.
RatchetShort(ck, from, to, ctx) ==
    [ck EXCEPT !.steps =
        @ \o [i \in 1 .. to - from - 1 |-> [counter |-> from + i - 1, ctx |-> ctx]]]

\* The loops `for c in from..to' of derive_chain_key_at and mark_received.
RatchetRange(ck, from, to, ctx) ==
    [ck EXCEPT !.steps =
        @ \o [i \in 1 .. to - from |-> [counter |-> from + i - 1, ctx |-> ctx]]]

(***************************************************************************)
(* AEAD (aead.rs).                                                         *)
(***************************************************************************)
\* The fields of the canonical AAD that differ between messages of a session.
ConstructAad(c, ctx) == [counter |-> c, ctx |-> ctx]

\* Sealed messages whose plaintext is in P; `intact' is the AEAD tag.
SealedMessage(P) ==
    [key : MessageKeyMaterial, aad : [counter : Counter, ctx : StreamContext],
     plain : P, intact : BOOLEAN]

Seal(p, mk, c, ctx) ==
    [key |-> mk, aad |-> ConstructAad(c, ctx), plain |-> p, intact |-> TRUE]

\* What anyone on the way can make of a sealed message without its key.
Altered(s) == [s EXCEPT !.intact = FALSE]

\* A plausible slip: the plaintext is returned before the tag is compared.
DecryptUnverified(s, mk, c, ctx) ==
    IF ctx.suite \in ImplementedSuites THEN "Ok" ELSE "DecryptionFailed"

EncryptMessageResult(ctx) ==
    IF ctx.suite \in ImplementedSuites THEN "Ok" ELSE "InvalidFormat"

DecryptMessageResult(s, mk, c, ctx) ==
    IF /\ ctx.suite \in ImplementedSuites
       /\ s.intact /\ s.key = mk /\ s.aad = ConstructAad(c, ctx)
    THEN "Ok" ELSE "DecryptionFailed"

(***************************************************************************)
(* StreamState.                                                            *)
(***************************************************************************)
Stream == [chainKey : ChainKey, sendCounter : Counter, window : Window]

\* StreamState::new is WithCounter at counter 0.
WithCounter(ck, sendCounter, recvExpected) ==
    [chainKey |-> ck, sendCounter |-> sendCounter, window |-> NewWindow(recvExpected)]

\* A plausible slip: a saturating increment, which never fails.
AdvanceSendSaturates(st) == "Ok"

\* Counters are u64 and `checked_increment' fails at the last one.
AdvanceSendResult(st) ==
    IF st.sendCounter < MaxCounter THEN "Ok" ELSE "CounterExhausted"

\* A plausible slip: a u128 counter that leaves the u64 range.
AdvanceSendWide(st, ctx) ==
    [chainKey    |-> NextChainKey(st.chainKey, st.sendCounter, ctx),
     sendCounter |-> st.sendCounter + 1,
     window      |-> st.window]

\* A plausible slip: the counter moves on and the chain key stays.
AdvanceSendKeepsKey(st, ctx) ==
    [chainKey    |-> st.chainKey,
     sendCounter |-> IF st.sendCounter < MaxCounter
                     THEN st.sendCounter + 1 ELSE st.sendCounter,
     window      |-> st.window]

\* The chain key is replaced before the increment is checked, so an exhausted
\* stream loses its chain key although the call fails.
AdvanceSend(st, ctx) ==
    [chainKey    |-> NextChainKey(st.chainKey, st.sendCounter, ctx),
     sendCounter |-> IF st.sendCounter < MaxCounter
                     THEN st.sendCounter + 1 ELSE st.sendCounter,
     window      |-> st.window]

\* encrypt_and_send: the stream has advanced whatever encrypt_message says.
EncryptAndSendResult(st, ctx) ==
    IF AdvanceSendResult(st) # "Ok" THEN AdvanceSendResult(st)
    ELSE EncryptMessageResult(ctx)

EncryptAndSend(st, p, ctx) ==
    [counter |-> st.sendCounter,
     sealed  |-> Seal(p, MessageKey(st.chainKey, st.sendCounter, ctx),
                      st.sendCounter, ctx)]

\* A counter below recv_expected gets the current chain key, which opens
\* nothing; prepare_receive never asks for one.
DeriveChainKeyAt(st, c, ctx) ==
    IF c > st.window.recvExpected
    THEN RatchetRange(st.chainKey, st.window.recvExpected, c, ctx)
    ELSE st.chainKey

PrepareReceive(st, c, ctx) == MessageKey(DeriveChainKeyAt(st, c, ctx), c, ctx)

\* A plausible slip: the counter is never marked (session.rs, line 232).
MarkReceivedNever(st, c, ctx) == st

MarkReceived(st, c, ctx) ==
    LET w == MarkConsumed(st.window, c)
    IN  [chainKey    |-> RatchetRange(st.chainKey, st.window.recvExpected,
                                      w.recvExpected, ctx),
         sendCounter |-> st.sendCounter,
         window      |-> w]

ReceiveResult(st, c, s, ctx) ==
    IF CanAccept(st.window, c) # "Ok" THEN CanAccept(st.window, c)
    ELSE DecryptMessageResult(s, PrepareReceive(st, c, ctx), c, ctx)

\* A plausible slip: the counter is marked before the message is opened, so a
\* forged envelope uses it up.
ReceiveMarksFirst(st, c, s, ctx) ==
    IF CanAccept(st.window, c) = "Ok" THEN MarkReceived(st, c, ctx) ELSE st

\* The stream after receive_and_decrypt: only a message that opens moves it.
ReceiveAndDecrypt(st, c, s, ctx) ==
    IF ReceiveResult(st, c, s, ctx) = "Ok" THEN MarkReceived(st, c, ctx) ELSE st
=============================================================================
