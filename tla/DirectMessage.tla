--------------------------- MODULE DirectMessage ---------------------------
(***************************************************************************)
(* A DM session of rust/c6p-sessions between two devices: one StreamState  *)
(* per direction on either side, used through encrypt_and_send and         *)
(* receive_and_decrypt, over a network that loses, duplicates, reorders,   *)
(* misroutes and alters envelopes and can put any counter in front of any  *)
(* sealed message.                                                         *)
(*                                                                         *)
(* Both sides hold the session keys of one completed handshake.  Each      *)
(* operation has &mut self on its stream, so it is one step.               *)
(***************************************************************************)
EXTENDS StreamState

CONSTANTS
    Starts,     \* counters a stream may stand at in the first state (with_counter)
    MaxCalls    \* bound: encrypt calls per direction

ASSUME DirectMessageAssumption ==
    /\ Starts \subseteq Counter
    /\ MaxCalls \in Nat

VARIABLES
    suite,          \* suite id the session was set up with
    sendStream,     \* per direction, the stream of the sending device
    recvStream,     \* per direction, the stream of the receiving device
    start,          \* history: the counter each direction started at
    calls,          \* history: encrypt calls made, to tell plaintexts apart
    sent,           \* history: envelopes handed to the network; none is ever lost
                    \*   from this set, a lost one is just never delivered
    opened          \* history: how often each plaintext was returned, per stream

vars == <<suite, sendStream, recvStream, start, calls, sent, opened>>

Dir == StreamDirection
Plaintext == [dir : Dir, call : 1 .. MaxCalls]
Envelope == [counter : Counter, sealed : SealedMessage(Plaintext)]

Ctx(d) == [stream |-> d, suite |-> suite]

Network == UNION {{e.sealed : e \in sent[d]} : d \in Dir}

Init ==
    /\ suite \in Suites
    /\ start \in [Dir -> Starts]
    /\ sendStream = [d \in Dir |-> WithCounter(InitialChainKey(d), start[d], 0)]
    /\ recvStream = [d \in Dir |-> WithCounter(InitialChainKey(d), 0, start[d])]
    /\ calls = [d \in Dir |-> 0]
    /\ sent = [d \in Dir |-> {}]
    /\ opened = [d \in Dir |-> [p \in Plaintext |-> 0]]

(***************************************************************************)
(* Actions.                                                                *)
(***************************************************************************)
\* encrypt_and_send of a fresh plaintext that returns an envelope.
Send(d) ==
    LET p == [dir |-> d, call |-> calls[d] + 1]
    IN  /\ calls[d] < MaxCalls
        /\ EncryptAndSendResult(sendStream[d], Ctx(d)) = "Ok"
        /\ calls' = [calls EXCEPT ![d] = @ + 1]
        /\ sent' = [sent EXCEPT ![d] = @ \cup {EncryptAndSend(sendStream[d], p, Ctx(d))}]
        /\ sendStream' = [sendStream EXCEPT ![d] = AdvanceSend(@, Ctx(d))]
        /\ UNCHANGED <<suite, recvStream, start, opened>>

\* encrypt_and_send that returns an error after the ratchet has moved.
SendFails(d) ==
    /\ calls[d] < MaxCalls
    /\ EncryptAndSendResult(sendStream[d], Ctx(d)) # "Ok"
    /\ calls' = [calls EXCEPT ![d] = @ + 1]
    /\ sendStream' = [sendStream EXCEPT ![d] = AdvanceSend(@, Ctx(d))]
    /\ UNCHANGED <<suite, recvStream, start, sent, opened>>

\* receive_and_decrypt of sealed message s under wire counter c.
Receive(d, c, s) ==
    /\ recvStream' = [recvStream EXCEPT ![d] = ReceiveAndDecrypt(@, c, s, Ctx(d))]
    /\ opened' = IF ReceiveResult(recvStream[d], c, s, Ctx(d)) = "Ok"
                 THEN [opened EXCEPT ![d][s.plain] = @ + 1]
                 ELSE opened
    /\ UNCHANGED <<suite, sendStream, start, calls, sent>>

Genuine(d) == \E e \in sent[d] : Receive(d, e.counter, e.sealed)

\* A sealed message under a counter, or in a stream, that is not its own.
Misdelivered(d) ==
    \E c \in Counter, s \in Network :
        s.aad # ConstructAad(c, Ctx(d)) /\ Receive(d, c, s)

Tampered(d) == \E e \in sent[d] : Receive(d, e.counter, Altered(e.sealed))

Next ==
    \E d \in Dir :
        Send(d) \/ SendFails(d) \/ Genuine(d) \/ Misdelivered(d) \/ Tampered(d)

Spec == Init /\ [][Next]_vars

\* The store behind the network keeps an envelope until it was fetched and
\* acknowledged, so the receiver is eventually handed one it can open while
\* there is any.  Nothing is assumed of the order, nothing of the sender, and
\* nothing of the forged deliveries in between.
OpensSomething(d) == Genuine(d) /\ opened' # opened

Fairness == \A d \in Dir : WF_vars(OpensSomething(d))

FairSpec == Spec /\ Fairness

(***************************************************************************)
(* Properties.                                                             *)
(***************************************************************************)
\* Types of the state; in particular no counter that is stored, sent or put in
\* a key leaves the u64 range.
TypeOK ==
    /\ suite \in Suites
    /\ sendStream \in [Dir -> Stream]
    /\ recvStream \in [Dir -> Stream]
    /\ start \in [Dir -> Starts]
    /\ calls \in [Dir -> 0 .. MaxCalls]
    /\ sent \in [Dir -> SUBSET Envelope]
    /\ opened \in [Dir -> [Plaintext -> Nat]]

\* A plaintext is returned to the receiving application at most once, however
\* often and under whatever counters its envelope is delivered
\* (c6p-replay-and-skip-window.md, 2: a receiver must not accept two messages
\* with the same tuple, even if the AEAD verifies).
AtMostOnce == \A d \in Dir : \A p \in Plaintext : opened[d][p] <= 1

\* Whatever a stream returns was encrypted by the peer for this stream: no
\* envelope of the other direction opens here (stream separation by chain key,
\* ratchet salt and AAD).
OnlyOwnStream ==
    \A d \in Dir : \A p \in Plaintext :
        opened[d][p] > 0 => \E e \in sent[d] : e.sealed.plain = p

\* Two envelopes never share a counter within a stream, and two envelopes of
\* the session never share a message key, which is what keeps the derived
\* nonces unique, also in the last steps before the counter is exhausted.
CountersAndKeysUsedOnce ==
    /\ \A d \in Dir : \A e, f \in sent[d] : e.counter = f.counter => e = f
    /\ \A d, b \in Dir : \A e \in sent[d], f \in sent[b] :
           e.sealed.key = f.sealed.key => e = f

Openable(d, e) ==
    ReceiveResult(recvStream[d], e.counter, e.sealed, Ctx(d)) = "Ok"

\* The hard case of a receive state that ratchets while messages are missing:
\* whatever was lost, reordered, replayed or forged before, every envelope of
\* the stream that lies in the window and was not opened yet opens.  Forgeries
\* use no counter up, and the receiving chain key stays at recv_expected.
GenuineOpens ==
    \A d \in Dir : \A e \in sent[d] :
        LET r == recvStream[d].window.recvExpected
        IN  ( /\ r <= e.counter /\ e.counter < r + SkipWindowSize
              /\ r + SkipWindowSize <= MaxCounter
              /\ opened[d][e.sealed.plain] = 0 )
            => Openable(d, e)

\* A chain key gives every later key of its stream away, and no earlier one.
Derives(ck, key) ==
    /\ ck.stream = key.chain.stream
    /\ Len(ck.steps) <= Len(key.chain.steps)
    /\ SubSeq(key.chain.steps, 1, Len(ck.steps)) = ck.steps

\* Forward secrecy (session.rs, encrypt: old chain keys deleted after ratchet):
\* the sender's state gives away the key of no envelope it has sent, and the
\* receiver's state that of no envelope below recv_expected.
ForwardSecrecy ==
    \A d \in Dir : \A e \in sent[d] :
        /\ ~Derives(sendStream[d].chainKey, e.sealed.key)
        /\ e.counter < recvStream[d].window.recvExpected
               => ~Derives(recvStream[d].chainKey, e.sealed.key)

\* Both directions keep the promise of AcceptOnce, where a counter is accepted
\* as often as the plaintext sealed under it was returned.
Acceptances(d) ==
    [c \in Counter |->
        IF \E e \in sent[d] : e.counter = c
        THEN opened[d][(CHOOSE e \in sent[d] : e.counter = c).sealed.plain]
        ELSE 0]

Promise == INSTANCE AcceptOnce
               WITH Streams <- Dir, accepted <- [d \in Dir |-> Acceptances(d)],
                    WindowSize <- SkipWindowSize, CounterSpace <- Counter

KeepsPromise == Promise!Spec

\* No order of delivery wedges a stream: an envelope that was sent is opened in
\* the end, unless the stream has run into the last window of the counter range.
EverythingOpens ==
    \A d \in Dir : \A n \in 1 .. MaxCalls :
        (\E e \in sent[d] : e.sealed.plain.call = n)
            ~> \/ opened[d][[dir |-> d, call |-> n]] = 1
               \/ recvStream[d].window.recvExpected + SkipWindowSize > MaxCounter

\* dm-ratchet-state-machine.md, 2: on an encryption failure, abort and do not
\* advance state.
FailedSendKeepsState ==
    [][\A d \in Dir : SendFails(d) => sendStream' = sendStream]_vars
=============================================================================
