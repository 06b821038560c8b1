--------------------------- MODULE BridgeSession ---------------------------
(***************************************************************************)
(* A DM session as the iOS app holds it: rust/c6p-ios/src/session.rs       *)
(* wraps a StreamState to send with and one to receive with, and           *)
(* C6PManager.swift keeps the object under its session id.                 *)
(*                                                                         *)
(* It is the session of DirectMessage with two differences.  decrypt calls *)
(* prepare_receive and decrypt_message and stops there, so the receiving   *)
(* stream never moves.  And acceptHandshakeOffer makes a new object each   *)
(* time it is called: an offer without a one-time prekey that is handled   *)
(* twice is accepted twice with the same keys (Handshake: ConfirmedAgree), *)
(* and the responder's streams begin again.                                *)
(*                                                                         *)
(* encrypt and decrypt hold the stream's mutex from the first read to the  *)
(* return, and C6PManager is a @MainActor, so each is one step.            *)
(***************************************************************************)
EXTENDS DirectMessage

CONSTANT MaxReturns     \* bound: how often decrypt returns one plaintext

VARIABLE repeated       \* history: has the offer been accepted again?

bridgeVars == <<vars, repeated>>

\* SessionState::new: StreamState::new with the chain key of a direction.
NewStream(d) == WithCounter(InitialChainKey(d), 0, 0)

\* Both devices hold a new object made of the swapped keys of one handshake;
\* suite_id is 0x01 in every session.
BridgeInit ==
    /\ Init
    /\ suite = "ChaCha20Poly1305"
    /\ start = [d \in Dir |-> 0]
    /\ repeated = FALSE

\* A plausible slip: the ratchet moves a copy of the stream.
EncryptOnCopy(d) ==
    /\ calls[d] < MaxCalls
    /\ calls' = [calls EXCEPT ![d] = @ + 1]
    /\ sent' = [sent EXCEPT ![d] = @ \cup
                   {EncryptAndSend(sendStream[d], [dir |-> d, call |-> calls[d] + 1], Ctx(d))}]
    /\ UNCHANGED <<suite, sendStream, recvStream, start, opened, repeated>>

\* advance_send and encrypt_message, in the order of encrypt_and_send.
Encrypt(d) == (Send(d) \/ SendFails(d)) /\ UNCHANGED repeated

\* A decrypt that returns the plaintext; one that fails changes nothing.
\* prepare_receive has &self, and nothing calls mark_received.
Decrypt(d, c, s) ==
    /\ ReceiveResult(recvStream[d], c, s, Ctx(d)) = "Ok"
    /\ opened[d][s.plain] < MaxReturns
    /\ opened' = [opened EXCEPT ![d][s.plain] = @ + 1]
    /\ UNCHANGED <<suite, sendStream, recvStream, start, calls, sent, repeated>>

\* A plausible slip: the new object gets its two chain keys the wrong way round.
AcceptAgainSwapped ==
    /\ sendStream' = [sendStream EXCEPT !["R2I"] = NewStream("I2R")]
    /\ recvStream' = [recvStream EXCEPT !["I2R"] = NewStream("R2I")]
    /\ repeated' = TRUE
    /\ UNCHANGED <<suite, start, calls, sent, opened>>

\* acceptHandshakeOffer of the offer the responder has a session of already:
\* the new object takes the place of the one in activeSessions.
AcceptAgain ==
    /\ sendStream' = [sendStream EXCEPT !["R2I"] = NewStream("R2I")]
    /\ recvStream' = [recvStream EXCEPT !["I2R"] = NewStream("I2R")]
    /\ repeated' = TRUE
    /\ UNCHANGED <<suite, start, calls, sent, opened>>

\* What decrypt may be handed: sealed messages of the session, altered or not,
\* under any counter and in either direction.
Deliverable == Network \cup {Altered(s) : s \in Network}

BridgeNext ==
    \/ \E d \in Dir : Encrypt(d)
    \/ \E d \in Dir, c \in Counter, s \in Deliverable : Decrypt(d, c, s)
    \/ AcceptAgain

BridgeSpec == BridgeInit /\ [][BridgeNext]_bridgeVars

(***************************************************************************)
(* Properties.                                                             *)
(***************************************************************************)
BridgeTypeOK == TypeOK /\ repeated \in BOOLEAN

Restarted(d) == repeated /\ d = "R2I"

\* What a receiving stream that never moves can do, in place of the window: an
\* envelope opens, at any time and however often, exactly if its counter is one
\* of the first window.  From there on nothing opens, whatever is done.
FirstWindowOpens ==
    \A d \in Dir : \A e \in sent[d] :
        Openable(d, e) <=> e.counter < SkipWindowSize

\* Two envelopes of the session share a message key, and with it the nonce, only
\* if they are the responder's and its session was made anew in between.
KeysUsedOnceUnlessRepeated ==
    \A d, b \in Dir : \A e \in sent[d], f \in sent[b] :
        e.sealed.key = f.sealed.key => e = f \/ (Restarted(d) /\ d = b)

\* encrypt: old chain keys deleted after ratchet.  The sending stream gives away
\* the key of no envelope it has sent, again unless the session was made anew.
SenderForgets ==
    \A d \in Dir : \A e \in sent[d] :
        Derives(sendStream[d].chainKey, e.sealed.key) => Restarted(d)

\* decrypt promises replay protection via skip-window that detects duplicate
\* counters: no message is returned to the app twice.
ReplayProtection == AtMostOnce
=============================================================================
