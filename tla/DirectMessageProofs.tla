------------------------ MODULE DirectMessageProofs ------------------------
(***************************************************************************)
(* Proofs about the skip-window, the streams, DirectMessage and            *)
(* BridgeSession, for every window size, counter range, set of start       *)
(* counters and number of calls.                                           *)
(*                                                                         *)
(* The first two parts say what the operations of a window and of a stream *)
(* do: they stay within their types, and what a send does to the counter   *)
(* and a receive to the window.                                            *)
(*                                                                         *)
(* AtMostOnce is not inductive: it says nothing of why the window refuses  *)
(* a second delivery.  IInv adds what ties the pieces together: an         *)
(* envelope carries the counter it was sealed under, no counter and no     *)
(* plaintext occurs in two envelopes of a stream, and a plaintext that was *)
(* returned has an envelope whose counter the receiving window has used.   *)
(* KeyInv, further down, says which key each stored and sealed key is, and *)
(* GapInv what the refinement of AcceptOnce needs.  The last part carries  *)
(* what holds of both modules over to the session object of the app.       *)
(***************************************************************************)
EXTENDS BridgeSession, SequenceTheorems, WellFoundedInduction, TLAPS

-----------------------------------------------------------------------------
(* The skip-window *)

\* The counters a window refuses as replayed or expired.
Used(w) == (0 .. w.recvExpected - 1) \cup w.consumed

\* A set of naturals that is not empty has a least element.
LEMMA LeastElement ==
    ASSUME NEW T \in SUBSET Nat, T # {}
    PROVE  \E x \in T : \A y \in T : x <= y
<1>1. PICK x \in T : \A y \in T : ~ (<<y, x>> \in OpToRel(<, Nat))
    BY NatLessThanWellFounded, WFMin, Zenon
<1>2. ASSUME NEW y \in T PROVE x <= y
  <2>1. ~ (y < x)
      BY <1>1, y \in Nat, x \in Nat, Zenon DEF OpToRel
  <2>. QED BY <2>1
<1>. QED BY <1>2

\* The loop of advance_window stops at the first counter that is not consumed,
\* or after a whole window.
LEMMA FirstUnconsumedFacts ==
    ASSUME NEW S, NEW r \in Nat
    PROVE  LET g == FirstUnconsumed(S, r)
           IN  /\ g \in r .. r + SkipWindowSize
               /\ g = r + SkipWindowSize \/ g \notin S
               /\ \A c \in r .. g - 1 : c \in S
<1>. DEFINE Stop == {g \in r .. r + SkipWindowSize :
                         g = r + SkipWindowSize \/ g \notin S}
<1>1. SkipWindowSize \in Nat
    BY SkipWindowAssumption
<1>2. Stop \in SUBSET Nat /\ r + SkipWindowSize \in Stop
    BY <1>1
<1>3. PICK x \in Stop : \A y \in Stop : x <= y
    BY <1>2, LeastElement, Zenon
<1>4. ASSUME NEW c \in r .. x - 1 PROVE c \in S
  <2>1. c \in Nat /\ c < x /\ c \in r .. r + SkipWindowSize
      BY <1>1, <1>2, <1>3
  <2>2. c \notin Stop
      BY <1>2, <1>3, <2>1
  <2>. QED BY <2>1, <2>2
<1>5. \E g \in r .. r + SkipWindowSize :
          /\ g = r + SkipWindowSize \/ g \notin S
          /\ \A c \in r .. g - 1 : c \in S
    BY <1>3, <1>4
<1>. QED BY <1>5, Zenon DEF FirstUnconsumed

\* A counter is accepted only where r + W does not wrap, between r and r + W,
\* and only if it was not used before.
LEMMA AcceptedIsFresh ==
    ASSUME NEW w \in Window, NEW c \in Counter, CanAccept(w, c) = "Ok"
    PROVE  /\ w.recvExpected + SkipWindowSize <= MaxCounter
           /\ w.recvExpected <= c
           /\ c < w.recvExpected + SkipWindowSize
           /\ c \notin Used(w)
<1>. DEFINE r == w.recvExpected
<1>1. /\ r \in Nat /\ r <= MaxCounter /\ c \in Nat
      /\ SkipWindowSize \in Nat /\ MaxCounter \in Nat
      /\ SkipWindowSize <= MaxCounter
    BY SkipWindowAssumption DEF Window, Counter
<1>2. UpperEdge(w) \in Int
    BY <1>1 DEF UpperEdge, Wrap64
<1>3. c >= r /\ c < UpperEdge(w) /\ ~IsConsumed(w, c)
  <2>1. CASE c < r
      BY <1>1, <2>1 DEF CanAccept
  <2>2. CASE c >= r /\ c >= UpperEdge(w)
      BY <1>1, <1>2, <2>2 DEF CanAccept
  <2>3. CASE c >= r /\ c < UpperEdge(w)
      BY <1>1, <1>2, <2>3 DEF CanAccept
  <2>. QED BY <1>1, <1>2, <2>1, <2>2, <2>3
<1>4. r + SkipWindowSize <= MaxCounter /\ UpperEdge(w) = r + SkipWindowSize
    BY <1>1, <1>3 DEF UpperEdge, Wrap64
<1>5. c \notin Used(w)
    BY <1>1, <1>3 DEF Used, IsConsumed
<1>. QED BY <1>1, <1>3, <1>4, <1>5

\* Conversely, a counter of the window that was not used is accepted.
LEMMA FreshIsAccepted ==
    ASSUME NEW w \in Window, NEW c \in Counter,
           w.recvExpected + SkipWindowSize <= MaxCounter,
           w.recvExpected <= c, c < w.recvExpected + SkipWindowSize,
           c \notin Used(w)
    PROVE  CanAccept(w, c) = "Ok"
<1>. DEFINE r == w.recvExpected
<1>1. /\ r \in Nat /\ c \in Nat
      /\ SkipWindowSize \in Nat /\ MaxCounter \in Nat
    BY SkipWindowAssumption DEF Window, Counter
<1>2. UpperEdge(w) = r + SkipWindowSize
    BY <1>1 DEF UpperEdge, Wrap64
<1>3. ~IsConsumed(w, c)
    BY DEF IsConsumed, Used
<1>4. ~(c < r) /\ c >= r /\ c < UpperEdge(w) /\ ~(c >= UpperEdge(w))
    BY <1>1, <1>2
<1>. QED BY <1>3, <1>4 DEF CanAccept

\* Marking an accepted counter uses up that counter and no other, moves
\* recv_expected forward only, and keeps it a u64.
LEMMA MarkConsumedFacts ==
    ASSUME NEW w \in Window, NEW c \in Counter, CanAccept(w, c) = "Ok"
    PROVE  /\ MarkConsumed(w, c) \in Window
           /\ w.recvExpected <= MarkConsumed(w, c).recvExpected
           /\ Used(MarkConsumed(w, c)) = Used(w) \cup {c}
<1>. DEFINE r == w.recvExpected
            marked == [w EXCEPT !.consumed = @ \cup {c}]
            g == FirstUnconsumed(marked.consumed, r)
<1>1. /\ r \in Nat /\ c \in Nat /\ w.consumed \subseteq Counter
      /\ r + SkipWindowSize <= MaxCounter
      /\ SkipWindowSize \in Nat /\ MaxCounter \in Nat
    BY AcceptedIsFresh, SkipWindowAssumption DEF Window, Counter
<1>2. /\ marked \in Window /\ marked.recvExpected = r
      /\ marked.consumed = w.consumed \cup {c}
    BY DEF Window
<1>3. CASE c # r
  <2>1. MarkConsumed(w, c) = marked
      BY <1>3 DEF MarkConsumed
  <2>2. Used(marked) = Used(w) \cup {c}
      BY <1>2 DEF Used
  <2>3. w.recvExpected <= marked.recvExpected
      BY <1>1, <1>2
  <2>. QED BY <1>2, <2>1, <2>2, <2>3, Zenon
<1>4. CASE c = r
  <2>1. /\ g \in r .. r + SkipWindowSize
        /\ \A x \in r .. g - 1 : x \in marked.consumed
      BY <1>1, FirstUnconsumedFacts
  <2>2. MarkConsumed(w, c) =
            [recvExpected |-> g, consumed |-> {x \in marked.consumed : x >= g}]
      BY <1>2, <1>4 DEF MarkConsumed, AdvanceWindow
  <2>3. g \in Counter /\ r <= g
      BY <1>1, <2>1 DEF Counter
  <2>4. MarkConsumed(w, c) \in Window
      BY <1>2, <2>2, <2>3 DEF Window
  <2>5. ASSUME NEW x
        PROVE  x \in Used(MarkConsumed(w, c)) <=> x \in Used(w) \cup {c}
    <3>1. /\ marked.consumed \subseteq Nat
          /\ Used(MarkConsumed(w, c)) =
                (0 .. g - 1) \cup {y \in marked.consumed : y >= g}
        BY <1>1, <1>2, <2>2 DEF Used, Counter
    <3>2. Used(w) \cup {c} = (0 .. r - 1) \cup marked.consumed
        BY <1>2 DEF Used
    <3>3. x \in (0 .. g - 1) \cup {y \in marked.consumed : y >= g}
              <=> x \in (0 .. r - 1) \cup marked.consumed
        BY <1>1, <2>1, <2>3, <3>1 DEF Counter
    <3>. QED BY <3>1, <3>2, <3>3
  <2>. QED BY <2>2, <2>3, <2>4, <2>5
<1>. QED BY <1>3, <1>4

\* The window stands on a gap, and holds nothing that lies outside of it.
OnGap(w) ==
    /\ w.recvExpected \notin w.consumed
    /\ \A c \in w.consumed :
           w.recvExpected <= c /\ c < w.recvExpected + SkipWindowSize

\* mark_consumed leaves recv_expected on a gap, also when the whole window was
\* consumed: it never stops on a counter that was already used.
LEMMA MarkConsumedOnGap ==
    ASSUME NEW w \in Window, OnGap(w), NEW c \in Counter, CanAccept(w, c) = "Ok"
    PROVE  OnGap(MarkConsumed(w, c))
<1>. DEFINE r == w.recvExpected
            marked == [w EXCEPT !.consumed = @ \cup {c}]
            g == FirstUnconsumed(marked.consumed, r)
<1>1. /\ r \in Nat /\ c \in Nat /\ w.consumed \subseteq Nat
      /\ r <= c /\ c < r + SkipWindowSize /\ SkipWindowSize \in Nat
    BY AcceptedIsFresh, SkipWindowAssumption DEF Window, Counter
<1>2. /\ marked.recvExpected = r
      /\ marked.consumed = w.consumed \cup {c}
    BY DEF Window
<1>3. \A x \in marked.consumed : x \in Nat /\ r <= x /\ x < r + SkipWindowSize
    BY <1>1, <1>2 DEF OnGap
<1>4. CASE c # r
  <2>1. MarkConsumed(w, c) = marked
      BY <1>4 DEF MarkConsumed
  <2>2. r \notin marked.consumed
      BY <1>2, <1>4 DEF OnGap
  <2>. QED BY <1>2, <1>3, <2>1, <2>2 DEF OnGap
<1>5. CASE c = r
  <2>1. /\ g \in r .. r + SkipWindowSize
        /\ g = r + SkipWindowSize \/ g \notin marked.consumed
      BY <1>1, FirstUnconsumedFacts
  <2>2. MarkConsumed(w, c) =
            [recvExpected |-> g, consumed |-> {x \in marked.consumed : x >= g}]
      BY <1>2, <1>5 DEF MarkConsumed, AdvanceWindow
  <2>3. g \notin marked.consumed
      BY <1>1, <1>3, <2>1
  <2>4. \A x \in marked.consumed : x >= g => g <= x /\ x < g + SkipWindowSize
      BY <1>1, <1>3, <2>1
  <2>. QED BY <2>2, <2>3, <2>4 DEF OnGap
<1>. QED BY <1>4, <1>5

-----------------------------------------------------------------------------
(* Streams *)

\* The bounds of the u64 range, for the arithmetic of the steps below.
LEMMA CounterFacts ==
    /\ MaxCounter \in Nat
    /\ \A c \in Counter : c \in Nat /\ c <= MaxCounter
    /\ \A c \in Nat : c <= MaxCounter => c \in Counter
BY SkipWindowAssumption DEF Counter

\* One ratchet step takes a chain key to a chain key.
LEMMA NextChainKeyType ==
    ASSUME NEW ck \in ChainKey, NEW c \in Counter, NEW ctx \in StreamContext
    PROVE  NextChainKey(ck, c, ctx) \in ChainKey
<1>. DEFINE in == [counter |-> c, ctx |-> ctx]
<1>1. ck.steps \in Seq(RatchetInput) /\ in \in RatchetInput
    BY DEF ChainKey, RatchetInput
<1>2. Append(ck.steps, in) \in Seq(RatchetInput)
    BY <1>1
<1>. QED BY <1>2 DEF NextChainKey, ChainKey

\* Ratcheting over any range of counters takes a chain key to a chain key.
LEMMA RatchetRangeType ==
    ASSUME NEW ck \in ChainKey, NEW from \in Counter, NEW to \in Counter,
           NEW ctx \in StreamContext, from <= to
    PROVE  RatchetRange(ck, from, to, ctx) \in ChainKey
<1>. DEFINE n == to - from
            run == [i \in 1 .. n |-> [counter |-> from + i - 1, ctx |-> ctx]]
<1>1. n \in Nat
    BY CounterFacts
<1>2. \A i \in 1 .. n : [counter |-> from + i - 1, ctx |-> ctx] \in RatchetInput
  <2>. TAKE i \in 1 .. n
  <2>1. from + i - 1 \in Counter
      BY <1>1, CounterFacts
  <2>. QED BY <2>1 DEF RatchetInput
<1>3. run \in [1 .. n -> RatchetInput]
    BY <1>2
<1>4. run \in Seq(RatchetInput)
    BY <1>1, <1>3, SeqDef
<1>5. ck.steps \in Seq(RatchetInput)
    BY DEF ChainKey
<1>6. ck.steps \o run \in Seq(RatchetInput)
    BY <1>4, <1>5, ConcatProperties
<1>. QED BY <1>6 DEF RatchetRange, ChainKey

\* A send that is not refused uses the counter it stands at and moves on by one;
\* no send leaves the counter range.
LEMMA AdvanceSendFacts ==
    ASSUME NEW st \in Stream, NEW ctx \in StreamContext
    PROVE  /\ AdvanceSend(st, ctx) \in Stream
           /\ st.sendCounter <= AdvanceSend(st, ctx).sendCounter
           /\ AdvanceSendResult(st) = "Ok" =>
                  AdvanceSend(st, ctx).sendCounter = st.sendCounter + 1
<1>. DEFINE sc == IF st.sendCounter < MaxCounter THEN st.sendCounter + 1
                  ELSE st.sendCounter
            ck == NextChainKey(st.chainKey, st.sendCounter, ctx)
<1>1. st.chainKey \in ChainKey /\ st.sendCounter \in Counter /\ st.window \in Window
    BY DEF Stream
<1>2. ck \in ChainKey
    BY <1>1, NextChainKeyType
<1>3. sc \in Counter /\ st.sendCounter <= sc
    BY <1>1, CounterFacts
<1>4. AdvanceSend(st, ctx) =
          [chainKey |-> ck, sendCounter |-> sc, window |-> st.window]
    BY DEF AdvanceSend
<1>5. AdvanceSendResult(st) = "Ok" => sc = st.sendCounter + 1
    BY DEF AdvanceSendResult
<1>. QED BY <1>1, <1>2, <1>3, <1>4, <1>5 DEF Stream

\* encrypt_and_send yields a counter of the range and a well-formed sealed message.
LEMMA EncryptAndSendType ==
    ASSUME NEW st \in Stream, NEW ctx \in StreamContext, NEW P, NEW p \in P
    PROVE  EncryptAndSend(st, p, ctx) \in
               [counter : Counter, sealed : SealedMessage(P)]
BY DEF EncryptAndSend, Seal, ConstructAad, MessageKey, SealedMessage,
       MessageKeyMaterial, Stream

\* The stream stays well formed, and its window takes in the counter.
LEMMA MarkReceivedFacts ==
    ASSUME NEW st \in Stream, NEW c \in Counter, NEW ctx \in StreamContext,
           CanAccept(st.window, c) = "Ok"
    PROVE  /\ MarkReceived(st, c, ctx) \in Stream
           /\ MarkReceived(st, c, ctx).window = MarkConsumed(st.window, c)
<1>. DEFINE w == MarkConsumed(st.window, c)
            ck == RatchetRange(st.chainKey, st.window.recvExpected,
                               w.recvExpected, ctx)
<1>1. st.chainKey \in ChainKey /\ st.sendCounter \in Counter /\ st.window \in Window
    BY DEF Stream
<1>2. w \in Window /\ st.window.recvExpected <= w.recvExpected
    BY <1>1, MarkConsumedFacts
<1>3. st.window.recvExpected \in Counter /\ w.recvExpected \in Counter
    BY <1>1, <1>2 DEF Window
<1>4. ck \in ChainKey
    BY <1>1, <1>2, <1>3, RatchetRangeType
<1>5. MarkReceived(st, c, ctx) =
          [chainKey |-> ck, sendCounter |-> st.sendCounter, window |-> w]
    BY DEF MarkReceived
<1>. QED BY <1>1, <1>2, <1>4, <1>5 DEF Stream

\* receive_and_decrypt uses up the counter of a message that opens, and of no
\* other, so that it is refused from then on; a message that does not open
\* leaves the stream as it was: keys, counters and window.
LEMMA ReceiveAndDecryptFacts ==
    ASSUME NEW st \in Stream, NEW c \in Counter, NEW ctx \in StreamContext, NEW s
    PROVE  LET after  == ReceiveAndDecrypt(st, c, s, ctx)
               result == ReceiveResult(st, c, s, ctx)
           IN  /\ after \in Stream
               /\ result = "Ok" =>
                     /\ c \notin Used(st.window)
                     /\ Used(after.window) = Used(st.window) \cup {c}
                     /\ \A t : ReceiveResult(after, c, t, ctx) # "Ok"
               /\ result # "Ok" => after = st
<1>. DEFINE after == ReceiveAndDecrypt(st, c, s, ctx)
<1>1. CASE ReceiveResult(st, c, s, ctx) # "Ok"
    BY <1>1 DEF ReceiveAndDecrypt
<1>2. CASE ReceiveResult(st, c, s, ctx) = "Ok"
  <2>1. CanAccept(st.window, c) = "Ok" /\ st.window \in Window
      BY <1>2 DEF ReceiveResult, Stream
  <2>2. Used(MarkConsumed(st.window, c)) = Used(st.window) \cup {c}
      BY <2>1, MarkConsumedFacts
  <2>3. after = MarkReceived(st, c, ctx)
      BY <1>2 DEF ReceiveAndDecrypt
  <2>4. after \in Stream /\ after.window = MarkConsumed(st.window, c)
      BY <2>1, <2>3, MarkReceivedFacts
  <2>. HIDE DEF after
  <2>5. after.window \in Window /\ c \in Used(after.window)
      BY <2>2, <2>4 DEF Stream
  <2>6. CanAccept(after.window, c) # "Ok"
      BY <2>5, AcceptedIsFresh
  <2>7. \A t : ReceiveResult(after, c, t, ctx) # "Ok"
      BY <2>6 DEF ReceiveResult
  <2>8. c \notin Used(st.window)
      BY <2>1, AcceptedIsFresh
  <2>. QED BY <1>2, <2>2, <2>4, <2>7, <2>8 DEF after
<1>. QED BY <1>1, <1>2

\* A message that opens was accepted by the window and is, byte for byte, one
\* that was sealed under this counter for this stream.
LEMMA OpenedIsAuthentic ==
    ASSUME NEW st, NEW c, NEW ctx, NEW s, ReceiveResult(st, c, s, ctx) = "Ok"
    PROVE  /\ CanAccept(st.window, c) = "Ok"
           /\ s.intact
           /\ s.aad = ConstructAad(c, ctx)
BY DEF ReceiveResult, DecryptMessageResult
-----------------------------------------------------------------------------
(* A DM session *)

\* What is true of every envelope of a stream, and of any two.
SealedInv ==
    \A d \in Dir : \A e \in sent[d] :
        /\ e.sealed.intact
        /\ e.sealed.aad = ConstructAad(e.counter, Ctx(d))
        /\ e.sealed.key.counter = e.counter
        /\ e.sealed.key.ctx = Ctx(d)
        /\ e.sealed.plain.dir = d
        /\ e.sealed.plain.call <= calls[d]

SentInv ==
    /\ SealedInv
    /\ \A d \in Dir : \A e \in sent[d] : e.counter < sendStream[d].sendCounter

DistinctInv ==
    \A d \in Dir : \A e, f \in sent[d] :
        /\ e.counter = f.counter => e = f
        /\ e.sealed.plain = f.sealed.plain => e = f

\* The window remembers, as a used counter, every plaintext that was returned.
OpenedInv ==
    \A d \in Dir : \A p \in Plaintext :
        \/ opened[d][p] = 0
        \/ /\ opened[d][p] = 1
           /\ \E e \in sent[d] :
                  e.sealed.plain = p /\ e.counter \in Used(recvStream[d].window)

IInv == TypeOK /\ SentInv /\ DistinctInv /\ OpenedInv

(***************************************************************************)
(* Facts about single operations.                                          *)
(***************************************************************************)
\* The context both sides build for a direction is a StreamContext.
LEMMA CtxType ==
    ASSUME suite \in Suites, NEW d \in Dir
    PROVE  Ctx(d) \in StreamContext
BY DEF Ctx, StreamContext, Dir

\* The sealed messages a delivery may carry.
Delivered(s) == s \in Network \/ \E x \in Network : s = Altered(x)

\* Whatever the network delivers carries a plaintext of the session, altered or not.
LEMMA DeliveredPlain ==
    ASSUME TypeOK, NEW s, Delivered(s)
    PROVE  s.plain \in Plaintext
<1>1. \A x \in Network : x \in SealedMessage(Plaintext)
    BY DEF Network, TypeOK, Envelope
<1>2. CASE s \in Network
    BY <1>1, <1>2 DEF SealedMessage
<1>3. CASE \E x \in Network : s = Altered(x)
  <2>1. PICK x \in Network : s = Altered(x)
      BY <1>3
  <2>2. x \in SealedMessage(Plaintext)
      BY <1>1
  <2>3. s.plain = x.plain
      BY <2>1, <2>2 DEF Altered, SealedMessage
  <2>. QED BY <2>2, <2>3 DEF SealedMessage
<1>. QED BY <1>2, <1>3 DEF Delivered

\* What opens in stream d under counter c is the envelope of stream d that was
\* sealed under c, and its counter was not used before.
LEMMA OpenedWasSent ==
    ASSUME TypeOK, SealedInv,
           NEW d \in Dir, NEW c \in Counter, NEW s, Delivered(s),
           ReceiveResult(recvStream[d], c, s, Ctx(d)) = "Ok"
    PROVE  /\ \E e \in sent[d] : e.sealed = s /\ e.counter = c
           /\ c \notin Used(recvStream[d].window)
<1>1. /\ CanAccept(recvStream[d].window, c) = "Ok"
      /\ s.intact
      /\ s.aad = ConstructAad(c, Ctx(d))
    BY OpenedIsAuthentic
<1>2. c \notin Used(recvStream[d].window)
  <2>1. recvStream[d].window \in Window
      BY DEF TypeOK, Stream
  <2>. QED BY <1>1, <2>1, AcceptedIsFresh
<1>3. s \in Network
  <2>1. ASSUME NEW x \in Network, s = Altered(x) PROVE FALSE
    <3>1. x \in SealedMessage(Plaintext)
        BY DEF Network, TypeOK, Envelope
    <3>2. ~ s.intact
        BY <2>1, <3>1 DEF Altered, SealedMessage
    <3>. QED BY <1>1, <3>2
  <2>. QED BY <2>1 DEF Delivered
<1>4. PICK b \in Dir : \E x \in sent[b] : s = x.sealed
    BY <1>3 DEF Network
<1>5. PICK e \in sent[b] : s = e.sealed
    BY <1>4
<1>6. s.aad = ConstructAad(e.counter, Ctx(b))
    BY <1>5 DEF SealedInv
<1>7. e.counter = c /\ b = d
    BY <1>1, <1>6 DEF ConstructAad, Ctx
<1>. QED BY <1>2, <1>5, <1>7

(***************************************************************************)
(* The invariant is inductive.                                             *)
(***************************************************************************)
\* Two fresh streams per direction, nothing sent, satisfy the invariant.
LEMMA InitIInv == Init => IInv
<1>. SUFFICES ASSUME Init PROVE IInv
    OBVIOUS
<1>1. \A ck, sc, re : (ck \in ChainKey /\ sc \in Counter /\ re \in Counter)
                          => WithCounter(ck, sc, re) \in Stream
    BY DEF WithCounter, NewWindow, Window, Stream
<1>2. \A d \in Dir : InitialChainKey(d) \in ChainKey
    BY EmptySeq DEF InitialChainKey, ChainKey, Dir
<1>3. 0 \in Counter /\ \A d \in Dir : start[d] \in Counter
    BY CounterFacts, DirectMessageAssumption DEF Init
<1>4. TypeOK
  <2>1. sendStream \in [Dir -> Stream] /\ recvStream \in [Dir -> Stream]
      BY <1>1, <1>2, <1>3 DEF Init
  <2>2. calls \in [Dir -> 0 .. MaxCalls]
      BY DirectMessageAssumption DEF Init
  <2>. QED BY <2>1, <2>2 DEF Init, TypeOK
<1>5. SentInv /\ DistinctInv
    BY DEF Init, SealedInv, SentInv, DistinctInv
<1>6. OpenedInv
    BY DEF Init, OpenedInv
<1>. QED BY <1>4, <1>5, <1>6 DEF IInv

\* A send that returns an envelope: its counter and its key are those the stream
\* stood at, and the stream has moved on.
LEMMA SendAdds ==
    ASSUME TypeOK, NEW d \in Dir, Send(d)
    PROVE  \E new \in Envelope :
               /\ new.counter = sendStream[d].sendCounter
               /\ new.sealed.intact
               /\ new.sealed.aad = ConstructAad(new.counter, Ctx(d))
               /\ new.sealed.key =
                      MessageKey(sendStream[d].chainKey, new.counter, Ctx(d))
               /\ new.sealed.plain = [dir |-> d, call |-> calls[d] + 1]
               /\ sent'[d] = sent[d] \cup {new}
               /\ sendStream'[d].sendCounter = sendStream[d].sendCounter + 1
               /\ calls'[d] = calls[d] + 1
               /\ \A b \in Dir : b # d =>
                      /\ sendStream'[b] = sendStream[b] /\ sent'[b] = sent[b]
                      /\ calls'[b] = calls[b]
               /\ TypeOK'
<1>. DEFINE st == sendStream[d]
            p == [dir |-> d, call |-> calls[d] + 1]
            new == EncryptAndSend(st, p, Ctx(d))
<1>1. MaxCalls \in Nat
    BY DirectMessageAssumption
<1>2. Ctx(d) \in StreamContext /\ st \in Stream
    BY CtxType DEF TypeOK
<1>3. /\ AdvanceSendResult(st) = "Ok"
      /\ calls[d] < MaxCalls
      /\ calls' = [calls EXCEPT ![d] = @ + 1]
      /\ sent' = [sent EXCEPT ![d] = @ \cup {new}]
      /\ sendStream' = [sendStream EXCEPT ![d] = AdvanceSend(@, Ctx(d))]
      /\ UNCHANGED <<suite, recvStream, start, opened>>
    BY DEF Send, EncryptAndSendResult
<1>4. p \in Plaintext
    BY <1>1, <1>3 DEF TypeOK, Plaintext
<1>5. new \in Envelope
    BY <1>2, <1>4, EncryptAndSendType DEF Envelope
<1>6. /\ new.counter = st.sendCounter
      /\ new.sealed = Seal(p, MessageKey(st.chainKey, st.sendCounter, Ctx(d)),
                           st.sendCounter, Ctx(d))
    BY DEF EncryptAndSend
<1>7. /\ new.sealed.intact
      /\ new.sealed.aad = ConstructAad(new.counter, Ctx(d))
      /\ new.sealed.key = MessageKey(st.chainKey, new.counter, Ctx(d))
      /\ new.sealed.plain = p
    BY <1>6 DEF Seal
<1>8. /\ AdvanceSend(st, Ctx(d)) \in Stream
      /\ AdvanceSend(st, Ctx(d)).sendCounter = st.sendCounter + 1
    BY <1>2, <1>3, AdvanceSendFacts
<1>. HIDE DEF st, p, new
<1>9. TypeOK'
  <2>1. sendStream' \in [Dir -> Stream]
      BY <1>3, <1>8 DEF TypeOK, st
  <2>2. sent' \in [Dir -> SUBSET Envelope]
      BY <1>3, <1>5 DEF TypeOK
  <2>3. calls' \in [Dir -> 0 .. MaxCalls]
      BY <1>1, <1>3 DEF TypeOK
  <2>. QED BY <1>3, <2>1, <2>2, <2>3 DEF TypeOK
<1>10. /\ sendStream'[d].sendCounter = st.sendCounter + 1
       /\ sent'[d] = sent[d] \cup {new}
       /\ calls'[d] = calls[d] + 1
       /\ \A b \in Dir : b # d =>
              /\ sendStream'[b] = sendStream[b] /\ sent'[b] = sent[b]
              /\ calls'[b] = calls[b]
    BY <1>3, <1>8 DEF TypeOK, st
<1>. QED BY <1>5, <1>6, <1>7, <1>9, <1>10 DEF st, p

\* The new envelope is well sealed, and its plaintext is that of no other.
LEMMA SendKeepsSealed ==
    ASSUME TypeOK, SealedInv, NEW d \in Dir, Send(d)
    PROVE  /\ SealedInv'
           /\ \A b \in Dir : \A e, f \in sent'[b] :
                  \/ e.sealed.plain # f.sealed.plain
                  \/ e = f
                  \/ e \in sent[b] /\ f \in sent[b]
<1>1. PICK new \in Envelope :
          /\ new.counter = sendStream[d].sendCounter
          /\ new.sealed.intact
          /\ new.sealed.aad = ConstructAad(new.counter, Ctx(d))
          /\ new.sealed.key = MessageKey(sendStream[d].chainKey, new.counter, Ctx(d))
          /\ new.sealed.plain = [dir |-> d, call |-> calls[d] + 1]
          /\ sent'[d] = sent[d] \cup {new}
          /\ calls'[d] = calls[d] + 1
          /\ \A b \in Dir : b # d => sent'[b] = sent[b] /\ calls'[b] = calls[b]
    BY SendAdds
<1>2. \A b \in Dir : Ctx(b)' = Ctx(b)
    BY DEF Send, Ctx
<1>3. calls[d] \in Nat /\ \A e \in sent[d] : e.sealed.plain.call \in Nat
    BY DEF TypeOK, Envelope, SealedMessage, Plaintext
<1>4. new.sealed.key.counter = new.counter /\ new.sealed.key.ctx = Ctx(d)
    BY <1>1 DEF MessageKey
<1>5. ASSUME NEW b \in Dir, NEW e \in sent'[b]
      PROVE  /\ e.sealed.intact
             /\ e.sealed.aad = ConstructAad(e.counter, Ctx(b))
             /\ e.sealed.key.counter = e.counter
             /\ e.sealed.key.ctx = Ctx(b)
             /\ e.sealed.plain.dir = b
             /\ e.sealed.plain.call <= calls'[b]
  <2>1. CASE b # d
      BY <1>1, <2>1 DEF SealedInv
  <2>2. CASE b = d /\ e \in sent[d]
    <3>1. e.sealed.plain.call <= calls[d] + 1
        BY <1>3, <2>2 DEF SealedInv
    <3>. QED BY <1>1, <2>2, <3>1 DEF SealedInv
  <2>3. CASE b = d /\ e = new
    <3>1. new.sealed.plain.dir = d /\ new.sealed.plain.call = calls[d] + 1
        BY <1>1
    <3>2. calls[d] + 1 <= calls[d] + 1
        BY <1>3
    <3>. QED BY <1>1, <1>4, <2>3, <3>1, <3>2
  <2>. QED BY <1>1, <2>1, <2>2, <2>3
<1>6. \A e \in sent[d] : e.sealed.plain # new.sealed.plain
  <2>1. new.sealed.plain.call = calls[d] + 1
      BY <1>1
  <2>2. \A e \in sent[d] : e.sealed.plain.call <= calls[d]
      BY DEF SealedInv
  <2>. QED BY <1>3, <2>1, <2>2
<1>. QED BY <1>1, <1>2, <1>5, <1>6 DEF SealedInv

\* A successful send adds one envelope under a counter and a key no envelope has.
LEMMA SendStep ==
    ASSUME IInv, NEW d \in Dir, Send(d)
    PROVE  IInv'
<1>1. TypeOK /\ SealedInv /\ SentInv /\ DistinctInv /\ OpenedInv
    BY DEF IInv, SentInv
<1>2. PICK new \in Envelope :
          /\ new.counter = sendStream[d].sendCounter
          /\ sent'[d] = sent[d] \cup {new}
          /\ sendStream'[d].sendCounter = sendStream[d].sendCounter + 1
          /\ \A b \in Dir : b # d =>
                 sendStream'[b] = sendStream[b] /\ sent'[b] = sent[b]
          /\ TypeOK'
    BY <1>1, SendAdds
<1>3. /\ sendStream[d].sendCounter \in Nat
      /\ \A e \in sent[d] : e.counter \in Nat
    BY <1>1, CounterFacts DEF TypeOK, Envelope, Stream
<1>4. SentInv'
  <2>1. ASSUME NEW b \in Dir, NEW e \in sent'[b]
        PROVE  e.counter < sendStream'[b].sendCounter
    <3>1. CASE b # d
        BY <1>1, <1>2, <3>1 DEF SentInv
    <3>2. CASE b = d
        BY <1>1, <1>2, <1>3, <3>2 DEF SentInv
    <3>. QED BY <3>1, <3>2
  <2>. QED BY <1>1, <2>1, SendKeepsSealed DEF SentInv
<1>5. DistinctInv'
  <2>1. \A e \in sent[d] : e.counter # new.counter
      BY <1>1, <1>2, <1>3 DEF SentInv
  <2>2. ASSUME NEW b \in Dir, NEW e \in sent'[b], NEW f \in sent'[b]
        PROVE  /\ e.counter = f.counter => e = f
               /\ e.sealed.plain = f.sealed.plain => e = f
    <3>1. e.counter = f.counter => e = f
        BY <1>1, <1>2, <2>1 DEF DistinctInv
    <3>2. e.sealed.plain = f.sealed.plain => e = f
        BY <1>1, SendKeepsSealed DEF DistinctInv
    <3>. QED BY <3>1, <3>2
  <2>. QED BY <2>2 DEF DistinctInv
<1>6. OpenedInv'
  <2>1. UNCHANGED <<recvStream, opened>> /\ \A b \in Dir : sent[b] \subseteq sent'[b]
      BY <1>2 DEF Send
  <2>. QED BY <1>1, <2>1 DEF OpenedInv
<1>. QED BY <1>2, <1>4, <1>5, <1>6 DEF IInv

\* A send that fails moves the stream, never back, and sends nothing.
LEMMA SendFailsMoves ==
    ASSUME TypeOK, SealedInv, NEW d \in Dir, SendFails(d)
    PROVE  /\ TypeOK' /\ SealedInv'
           /\ UNCHANGED <<suite, recvStream, start, sent, opened>>
           /\ \A b \in Dir : /\ sendStream[b].sendCounter \in Nat
                              /\ sendStream'[b].sendCounter \in Nat
                              /\ sendStream[b].sendCounter <= sendStream'[b].sendCounter
<1>1. Ctx(d) \in StreamContext /\ sendStream[d] \in Stream /\ MaxCalls \in Nat
    BY CtxType, DirectMessageAssumption DEF TypeOK
<1>2. /\ AdvanceSend(sendStream[d], Ctx(d)) \in Stream
      /\ sendStream[d].sendCounter <= AdvanceSend(sendStream[d], Ctx(d)).sendCounter
    BY <1>1, AdvanceSendFacts
<1>3. TypeOK'
  <2>1. sendStream' \in [Dir -> Stream]
      BY <1>2 DEF TypeOK, SendFails
  <2>2. calls' \in [Dir -> 0 .. MaxCalls]
      BY <1>1 DEF TypeOK, SendFails
  <2>. QED BY <2>1, <2>2 DEF TypeOK, SendFails
<1>4. UNCHANGED <<suite, recvStream, start, sent, opened>>
    BY DEF SendFails
<1>5. \A b \in Dir : sendStream[b].sendCounter \in Nat /\ sendStream'[b].sendCounter \in Nat
    BY <1>3, CounterFacts DEF TypeOK, Stream
<1>6. \A b \in Dir : sendStream[b].sendCounter <= sendStream'[b].sendCounter
    BY <1>2, <1>5 DEF TypeOK, SendFails
<1>7. SealedInv'
  <2>1. \A b \in Dir : calls[b] <= calls'[b] /\ calls[b] \in Nat /\ calls'[b] \in Nat
      BY <1>1 DEF TypeOK, SendFails
  <2>2. \A b \in Dir : Ctx(b)' = Ctx(b)
      BY <1>4 DEF Ctx
  <2>3. ASSUME NEW b \in Dir, NEW e \in sent[b] PROVE e.sealed.plain.call <= calls'[b]
    <3>1. e.sealed.plain.call \in Nat /\ e.sealed.plain.call <= calls[b]
        BY DEF TypeOK, Envelope, SealedMessage, Plaintext, SealedInv
    <3>. QED BY <2>1, <3>1
  <2>. QED BY <1>4, <2>2, <2>3 DEF SealedInv
<1>. QED BY <1>3, <1>4, <1>5, <1>6, <1>7

\* A failed send moves the sending stream past a counter and sends nothing, so
\* every key and counter used before stays behind it.
LEMMA SendFailsStep ==
    ASSUME IInv, NEW d \in Dir, SendFails(d)
    PROVE  IInv'
<1>1. TypeOK /\ SealedInv /\ SentInv /\ DistinctInv /\ OpenedInv
    BY DEF IInv, SentInv
<1>2. /\ TypeOK' /\ SealedInv'
      /\ UNCHANGED <<suite, recvStream, start, sent, opened>>
      /\ \A b \in Dir : /\ sendStream[b].sendCounter \in Nat
                         /\ sendStream'[b].sendCounter \in Nat
                         /\ sendStream[b].sendCounter <= sendStream'[b].sendCounter
    BY <1>1, SendFailsMoves
<1>3. \A b \in Dir : \A e \in sent[b] : e.counter \in Nat
    BY <1>1, CounterFacts DEF TypeOK, Envelope
<1>4. SentInv'
    BY <1>1, <1>2, <1>3 DEF SentInv
<1>5. DistinctInv' /\ OpenedInv'
    BY <1>1, <1>2 DEF DistinctInv, OpenedInv
<1>. QED BY <1>2, <1>4, <1>5 DEF IInv

\* Whatever is delivered, a receive opens only what was sent under that counter,
\* and only once.
LEMMA ReceiveStep ==
    ASSUME IInv, NEW d \in Dir, NEW c \in Counter, NEW s, Delivered(s),
           Receive(d, c, s)
    PROVE  IInv'
<1>. DEFINE st == recvStream[d]
            after == ReceiveAndDecrypt(st, c, s, Ctx(d))
<1>1. TypeOK /\ SentInv /\ DistinctInv /\ OpenedInv
    BY DEF IInv
<1>2. Ctx(d) \in StreamContext /\ st \in Stream /\ s.plain \in Plaintext
    BY <1>1, CtxType, DeliveredPlain DEF TypeOK
<1>3. /\ after \in Stream
      /\ Used(st.window) \subseteq Used(after.window)
      /\ ReceiveResult(st, c, s, Ctx(d)) = "Ok" => c \in Used(after.window)
  <2>1. /\ after \in Stream
        /\ ReceiveResult(st, c, s, Ctx(d)) = "Ok" =>
               Used(after.window) = Used(st.window) \cup {c}
        /\ ReceiveResult(st, c, s, Ctx(d)) # "Ok" => after = st
      BY <1>2, ReceiveAndDecryptFacts
  <2>. HIDE DEF st, after
  <2>. QED BY <2>1
<1>4. /\ recvStream' = [recvStream EXCEPT ![d] = after]
      /\ UNCHANGED <<suite, sendStream, start, calls, sent>>
      /\ ReceiveResult(st, c, s, Ctx(d)) = "Ok"
             => opened' = [opened EXCEPT ![d][s.plain] = @ + 1]
      /\ ReceiveResult(st, c, s, Ctx(d)) # "Ok" => opened' = opened
    BY DEF Receive
<1>. HIDE DEF after
<1>5. recvStream'[d] = after /\ \A b \in Dir : b # d => recvStream'[b] = recvStream[b]
    BY <1>1, <1>4 DEF TypeOK
<1>6. SentInv' /\ DistinctInv'
  <2>1. \A b \in Dir : Ctx(b)' = Ctx(b)
      BY <1>4 DEF Ctx
  <2>. QED BY <1>1, <1>4, <2>1 DEF SealedInv, SentInv, DistinctInv
<1>7. \A b \in Dir : Used(recvStream[b].window) \subseteq Used(recvStream'[b].window)
    BY <1>3, <1>5
<1>8. recvStream' \in [Dir -> Stream]
    BY <1>1, <1>3, <1>4 DEF TypeOK
<1>9. CASE ReceiveResult(st, c, s, Ctx(d)) # "Ok"
  <2>1. opened' = opened
      BY <1>4, <1>9
  <2>2. TypeOK'
      BY <1>1, <1>4, <1>8, <2>1 DEF TypeOK
  <2>3. OpenedInv'
      BY <1>1, <1>4, <1>7, <2>1 DEF OpenedInv
  <2>. QED BY <1>6, <2>2, <2>3 DEF IInv
<1>10. CASE ReceiveResult(st, c, s, Ctx(d)) = "Ok"
  <2>1. /\ c \notin Used(st.window)
        /\ \E e \in sent[d] : e.sealed = s /\ e.counter = c
      BY <1>1, <1>10, OpenedWasSent DEF SentInv
  <2>2. PICK e \in sent[d] : e.sealed = s /\ e.counter = c
      BY <2>1
  <2>3. opened[d][s.plain] = 0
      BY <1>1, <1>2, <2>1, <2>2 DEF OpenedInv, DistinctInv
  <2>4. opened' = [opened EXCEPT ![d][s.plain] = @ + 1]
      BY <1>4, <1>10
  <2>5. /\ opened' \in [Dir -> [Plaintext -> Nat]]
        /\ opened'[d][s.plain] = 1
        /\ \A b \in Dir : \A p \in Plaintext :
               (b # d \/ p # s.plain) => opened'[b][p] = opened[b][p]
    <3>1. opened \in [Dir -> [Plaintext -> Nat]]
        BY <1>1 DEF TypeOK
    <3>2. opened' = [opened EXCEPT ![d] = [opened[d] EXCEPT ![s.plain] = 1]]
        BY <1>2, <2>3, <2>4, <3>1
    <3>. QED BY <1>2, <3>1, <3>2
  <2>6. TypeOK'
      BY <1>1, <1>4, <1>8, <2>5 DEF TypeOK
  <2>7. ASSUME NEW b \in Dir, NEW p \in Plaintext
        PROVE  \/ opened'[b][p] = 0
               \/ /\ opened'[b][p] = 1
                  /\ \E x \in sent[b] :
                         /\ x.sealed.plain = p
                         /\ x.counter \in Used(recvStream'[b].window)
    <3>1. CASE b = d /\ p = s.plain
        BY <1>3, <1>5, <1>10, <2>2, <2>5, <3>1
    <3>2. CASE b # d \/ p # s.plain
      <4>1. opened'[b][p] = opened[b][p]
          BY <2>5, <3>2
      <4>2. \/ opened[b][p] = 0
            \/ /\ opened[b][p] = 1
               /\ \E x \in sent[b] :
                      x.sealed.plain = p /\ x.counter \in Used(recvStream[b].window)
          BY <1>1 DEF OpenedInv
      <4>. QED BY <1>7, <4>1, <4>2
    <3>. QED BY <3>1, <3>2
  <2>8. OpenedInv'
      BY <1>4, <2>7 DEF OpenedInv
  <2>. QED BY <1>6, <2>6, <2>8 DEF IInv
<1>. QED BY <1>9, <1>10

\* Every step of either device or of the network preserves the invariant.
LEMMA NextIInv == IInv /\ [Next]_vars => IInv'
<1>. SUFFICES ASSUME IInv, [Next]_vars PROVE IInv'
    OBVIOUS
<1>1. CASE UNCHANGED vars
    BY <1>1 DEF IInv, TypeOK, SealedInv, SentInv, DistinctInv, OpenedInv, vars, Ctx
<1>2. ASSUME NEW d \in Dir, Send(d) PROVE IInv'
    BY <1>2, SendStep
<1>3. ASSUME NEW d \in Dir, SendFails(d) PROVE IInv'
    BY <1>3, SendFailsStep
<1>4. ASSUME NEW d \in Dir, Genuine(d) PROVE IInv'
  <2>1. PICK e \in sent[d] : Receive(d, e.counter, e.sealed)
      BY <1>4 DEF Genuine
  <2>2. e.counter \in Counter
      BY DEF IInv, TypeOK, Envelope
  <2>3. Delivered(e.sealed)
      BY DEF Delivered, Network
  <2>. QED BY <2>1, <2>2, <2>3, ReceiveStep
<1>5. ASSUME NEW d \in Dir, Misdelivered(d) PROVE IInv'
  <2>1. PICK c \in Counter, s \in Network : Receive(d, c, s)
      BY <1>5 DEF Misdelivered
  <2>2. Delivered(s)
      BY DEF Delivered
  <2>. QED BY <2>1, <2>2, ReceiveStep
<1>6. ASSUME NEW d \in Dir, Tampered(d) PROVE IInv'
  <2>1. PICK e \in sent[d] : Receive(d, e.counter, Altered(e.sealed))
      BY <1>6 DEF Tampered
  <2>2. e.counter \in Counter
      BY DEF IInv, TypeOK, Envelope
  <2>3. Delivered(Altered(e.sealed))
      BY DEF Delivered, Network
  <2>. QED BY <2>1, <2>2, <2>3, ReceiveStep
<1>. QED BY <1>1, <1>2, <1>3, <1>4, <1>5, <1>6 DEF Next

\* The invariant holds throughout every behaviour of the session.
THEOREM InductiveInvariant == Spec => []IInv
<1>. QED BY InitIInv, NextIInv, PTL DEF Spec

(***************************************************************************)
(* The results.                                                            *)
(***************************************************************************)
\* The state of both devices keeps its type; in particular every counter stays
\* a u64 through exhaustion and through the end of the window range.
THEOREM TypeCorrect == Spec => []TypeOK
<1>1. IInv => TypeOK
    BY DEF IInv
<1>. QED BY <1>1, InductiveInvariant, PTL

\* No plaintext is returned twice by receive_and_decrypt, whatever the network
\* repeats, reorders or relabels.
THEOREM NoReplay == Spec => []AtMostOnce
<1>1. IInv => AtMostOnce
    BY DEF IInv, OpenedInv, AtMostOnce
<1>. QED BY <1>1, InductiveInvariant, PTL

\* A stream returns only what the peer encrypted for it.
THEOREM StreamSeparation == Spec => []OnlyOwnStream
<1>1. IInv => OnlyOwnStream
    BY DEF IInv, OpenedInv, OnlyOwnStream
<1>. QED BY <1>1, InductiveInvariant, PTL

\* No counter of a stream and no message key of the session is used twice, so
\* no derived nonce repeats under one key.
THEOREM NoKeyReuse == Spec => []CountersAndKeysUsedOnce
<1>1. ASSUME IInv,
             NEW d \in Dir, NEW b \in Dir,
             NEW e \in sent[d], NEW f \in sent[b],
             e.sealed.key = f.sealed.key
      PROVE  e = f
  <2>1. Ctx(d) = Ctx(b) /\ e.counter = f.counter
      BY <1>1 DEF IInv, SentInv, SealedInv
  <2>2. d = b
      BY <2>1 DEF Ctx
  <2>. QED BY <1>1, <2>1, <2>2 DEF IInv, DistinctInv
<1>2. IInv => CountersAndKeysUsedOnce
    BY <1>1 DEF IInv, DistinctInv, CountersAndKeysUsedOnce
<1>. QED BY <1>2, InductiveInvariant, PTL

-----------------------------------------------------------------------------
(***************************************************************************)
(* GenuineOpens and ForwardSecrecy.  Both follow from where the chain keys *)
(* are: the key kept at counter n, and the key an envelope with counter n  *)
(* was sealed under, are the initial key of the stream ratcheted over the  *)
(* counters below n, whatever was lost, refused or delivered in between.   *)
(***************************************************************************)

(***************************************************************************)
(* The ratchet over a range of counters.                                   *)
(***************************************************************************)
\* The inputs of the loop `for c in from..to'.
Run(from, to, ctx) == [i \in 1 .. to - from |-> [counter |-> from + i - 1, ctx |-> ctx]]

\* The inputs of a loop are a sequence with one element per counter.
LEMMA RunType ==
    ASSUME NEW from \in Counter, NEW to \in Counter, NEW ctx \in StreamContext,
           from <= to
    PROVE  /\ Run(from, to, ctx) \in Seq(RatchetInput)
           /\ Len(Run(from, to, ctx)) = to - from
           /\ \A i \in 1 .. to - from :
                  Run(from, to, ctx)[i] = [counter |-> from + i - 1, ctx |-> ctx]
<1>. DEFINE n == to - from
<1>1. n \in Nat
    BY CounterFacts
<1>2. \A i \in 1 .. n : [counter |-> from + i - 1, ctx |-> ctx] \in RatchetInput
  <2>. TAKE i \in 1 .. n
  <2>1. from + i - 1 \in Counter
      BY <1>1, CounterFacts
  <2>. QED BY <2>1 DEF RatchetInput
<1>3. Run(from, to, ctx) \in [1 .. n -> RatchetInput]
    BY <1>2 DEF Run
<1>4. Run(from, to, ctx) \in Seq(RatchetInput)
    BY <1>1, <1>3, SeqDef
<1>5. Len(Run(from, to, ctx)) = n
    BY <1>1, <1>3, <1>4, LenProperties
<1>. QED BY <1>4, <1>5 DEF Run

\* Ratcheting appends the inputs of the loop to the derivation of the key.
LEMMA RatchetRangeSteps ==
    ASSUME NEW ck \in ChainKey, NEW from \in Counter, NEW to \in Counter,
           NEW ctx \in StreamContext, from <= to
    PROVE  /\ RatchetRange(ck, from, to, ctx).stream = ck.stream
           /\ RatchetRange(ck, from, to, ctx).steps = ck.steps \o Run(from, to, ctx)
           /\ Len(RatchetRange(ck, from, to, ctx).steps) = Len(ck.steps) + (to - from)
<1>1. ck.steps \in Seq(RatchetInput) /\ Run(from, to, ctx) \in Seq(RatchetInput)
    BY RunType DEF ChainKey
<1>2. /\ RatchetRange(ck, from, to, ctx).stream = ck.stream
      /\ RatchetRange(ck, from, to, ctx).steps = ck.steps \o Run(from, to, ctx)
    BY DEF RatchetRange, ChainKey, Run
<1>3. Len(Run(from, to, ctx)) = to - from
    BY RunType
<1>4. Len(ck.steps \o Run(from, to, ctx)) = Len(ck.steps) + Len(Run(from, to, ctx))
    BY <1>1, ConcatProperties
<1>. QED BY <1>2, <1>3, <1>4

\* Two chain keys with the same stream and the same steps are the same key.
LEMMA SameKey ==
    ASSUME NEW x \in ChainKey, NEW y \in ChainKey,
           x.stream = y.stream, x.steps = y.steps
    PROVE  x = y
BY DEF ChainKey

\* Two loops, one after the other, are one loop: a receiver that ratchets in
\* pieces, as messages arrive, reaches the key of a receiver that does so at once.
LEMMA RatchetRangeComposes ==
    ASSUME NEW ck \in ChainKey, NEW ctx \in StreamContext,
           NEW a \in Counter, NEW b \in Counter, NEW c \in Counter, a <= b, b <= c
    PROVE  RatchetRange(RatchetRange(ck, a, b, ctx), b, c, ctx)
               = RatchetRange(ck, a, c, ctx)
<1>. DEFINE mid == RatchetRange(ck, a, b, ctx)
<1>1. a \in Nat /\ b \in Nat /\ c \in Nat /\ a <= c
    BY CounterFacts
<1>2. mid \in ChainKey
    BY RatchetRangeType
<1>3. /\ RatchetRange(mid, b, c, ctx) \in ChainKey
      /\ RatchetRange(ck, a, c, ctx) \in ChainKey
    BY <1>1, <1>2, RatchetRangeType
<1>4. mid.stream = ck.stream /\ mid.steps = ck.steps \o Run(a, b, ctx)
    BY RatchetRangeSteps
<1>. HIDE DEF mid
<1>5. /\ RatchetRange(mid, b, c, ctx).stream = ck.stream
      /\ RatchetRange(mid, b, c, ctx).steps = (ck.steps \o Run(a, b, ctx)) \o Run(b, c, ctx)
  <2>1. /\ RatchetRange(mid, b, c, ctx).stream = mid.stream
        /\ RatchetRange(mid, b, c, ctx).steps = mid.steps \o Run(b, c, ctx)
      BY <1>2, RatchetRangeSteps
  <2>. QED BY <1>4, <2>1
<1>6. /\ RatchetRange(ck, a, c, ctx).stream = ck.stream
      /\ RatchetRange(ck, a, c, ctx).steps = ck.steps \o Run(a, c, ctx)
    BY <1>1, RatchetRangeSteps
<1>7. /\ ck.steps \in Seq(RatchetInput) /\ Run(a, b, ctx) \in Seq(RatchetInput)
      /\ Run(b, c, ctx) \in Seq(RatchetInput) /\ Run(a, c, ctx) \in Seq(RatchetInput)
      /\ Len(Run(a, b, ctx)) = b - a /\ Len(Run(b, c, ctx)) = c - b
      /\ Len(Run(a, c, ctx)) = c - a
    BY <1>1, RunType DEF ChainKey
<1>8. Run(a, b, ctx) \o Run(b, c, ctx) = Run(a, c, ctx)
  <2>. DEFINE s == Run(a, b, ctx) \o Run(b, c, ctx)
  <2>1. /\ s \in Seq(RatchetInput) /\ Len(s) = c - a
        /\ \A i \in 1 .. c - a :
               s[i] = IF i <= b - a THEN Run(a, b, ctx)[i] ELSE Run(b, c, ctx)[i - (b - a)]
    <3>1. /\ s \in Seq(RatchetInput)
          /\ Len(s) = Len(Run(a, b, ctx)) + Len(Run(b, c, ctx))
          /\ \A i \in 1 .. Len(Run(a, b, ctx)) + Len(Run(b, c, ctx)) :
                 s[i] = IF i <= Len(Run(a, b, ctx)) THEN Run(a, b, ctx)[i]
                        ELSE Run(b, c, ctx)[i - Len(Run(a, b, ctx))]
        BY <1>7, ConcatProperties
    <3>2. Len(Run(a, b, ctx)) + Len(Run(b, c, ctx)) = c - a
        BY <1>1, <1>7
    <3>. HIDE DEF s
    <3>. QED BY <1>7, <3>1, <3>2
  <2>. HIDE DEF s
  <2>2. ASSUME NEW i \in 1 .. c - a PROVE s[i] = Run(a, c, ctx)[i]
    <3>1. Run(a, c, ctx)[i] = [counter |-> a + i - 1, ctx |-> ctx]
        BY <1>1, <2>2, RunType
    <3>2. CASE i <= b - a
      <4>1. i \in 1 .. b - a
          BY <1>1, <3>2
      <4>2. Run(a, b, ctx)[i] = [counter |-> a + i - 1, ctx |-> ctx]
          BY <4>1, RunType
      <4>. QED BY <2>1, <3>1, <3>2, <4>2
    <3>3. CASE ~(i <= b - a)
      <4>1. i - (b - a) \in 1 .. c - b /\ b + (i - (b - a)) - 1 = a + i - 1
          BY <1>1, <3>3
      <4>2. Run(b, c, ctx)[i - (b - a)] = [counter |-> b + (i - (b - a)) - 1, ctx |-> ctx]
          BY <4>1, RunType
      <4>. QED BY <2>1, <3>1, <3>3, <4>1, <4>2
    <3>. QED BY <3>2, <3>3
  <2>3. s = Run(a, c, ctx)
      BY <1>7, <2>1, <2>2, SeqEqual
  <2>. QED BY <2>3 DEF s
<1>9. (ck.steps \o Run(a, b, ctx)) \o Run(b, c, ctx) = ck.steps \o Run(a, c, ctx)
  <2>1. \A x, y, z \in Seq(RatchetInput) : (x \o y) \o z = x \o (y \o z)
      BY ConcatAssociative, SMT
  <2>2. /\ ck.steps \in Seq(RatchetInput) /\ Run(a, b, ctx) \in Seq(RatchetInput)
        /\ Run(b, c, ctx) \in Seq(RatchetInput)
      BY <1>7
  <2>3. (ck.steps \o Run(a, b, ctx)) \o Run(b, c, ctx)
            = ck.steps \o (Run(a, b, ctx) \o Run(b, c, ctx))
      BY <2>1, <2>2, Zenon
  <2>. QED BY <1>8, <2>3
<1>10. RatchetRange(mid, b, c, ctx) = RatchetRange(ck, a, c, ctx)
    BY <1>3, <1>5, <1>6, <1>9, SameKey
<1>. QED BY <1>10 DEF mid

\* A loop over no counters leaves the key as it is.
LEMMA RatchetRangeEmpty ==
    ASSUME NEW ck \in ChainKey, NEW a \in Counter, NEW ctx \in StreamContext
    PROVE  RatchetRange(ck, a, a, ctx) = ck
<1>1. a \in Nat /\ a <= a
    BY CounterFacts
<1>2. Run(a, a, ctx) = << >>
  <2>1. Run(a, a, ctx) \in Seq(RatchetInput) /\ Len(Run(a, a, ctx)) = 0
      BY <1>1, RunType
  <2>. QED BY <2>1, EmptySeq
<1>3. ck.steps \o << >> = ck.steps
    BY ConcatEmptySeq DEF ChainKey
<1>4. RatchetRange(ck, a, a, ctx) \in ChainKey
    BY <1>1, RatchetRangeType
<1>5. /\ RatchetRange(ck, a, a, ctx).stream = ck.stream
      /\ RatchetRange(ck, a, a, ctx).steps = ck.steps \o Run(a, a, ctx)
    BY <1>1, RatchetRangeSteps
<1>. QED BY <1>2, <1>3, <1>4, <1>5, SameKey

\* One ratchet step is a loop over one counter, so a sender stays on the same
\* derivation as its receiver.
LEMMA NextIsRatchetRange ==
    ASSUME NEW ck \in ChainKey, NEW c \in Counter, NEW ctx \in StreamContext,
           c + 1 \in Counter
    PROVE  NextChainKey(ck, c, ctx) = RatchetRange(ck, c, c + 1, ctx)
<1>. DEFINE in == [counter |-> c, ctx |-> ctx]
<1>1. c \in Nat /\ c <= c + 1 /\ (c + 1) - c = 1
    BY CounterFacts
<1>2. in \in RatchetInput /\ ck.steps \in Seq(RatchetInput)
    BY DEF RatchetInput, ChainKey
<1>3. Run(c, c + 1, ctx) = << in >>
  <2>1. /\ Run(c, c + 1, ctx) \in Seq(RatchetInput)
        /\ Len(Run(c, c + 1, ctx)) = (c + 1) - c
        /\ \A i \in 1 .. (c + 1) - c :
               Run(c, c + 1, ctx)[i] = [counter |-> c + i - 1, ctx |-> ctx]
      BY <1>1, RunType
  <2>2. << in >> \in Seq(RatchetInput) /\ Len(<< in >>) = 1 /\ << in >>[1] = in
      BY <1>2
  <2>3. Len(Run(c, c + 1, ctx)) = 1
      BY <1>1, <2>1
  <2>4. Run(c, c + 1, ctx)[1] = in
    <3>1. 1 \in 1 .. (c + 1) - c /\ c + 1 - 1 = c
        BY <1>1
    <3>2. Run(c, c + 1, ctx)[1] = [counter |-> c + 1 - 1, ctx |-> ctx]
        BY <2>1, <3>1, Zenon
    <3>. QED BY <3>1, <3>2
  <2>. QED BY <2>1, <2>2, <2>3, <2>4, SeqEqual
<1>4. Append(ck.steps, in) = ck.steps \o << in >>
  <2>1. /\ Append(ck.steps, in) \in Seq(RatchetInput)
        /\ Len(Append(ck.steps, in)) = Len(ck.steps) + 1
        /\ \A i \in 1 .. Len(ck.steps) + 1 : Append(ck.steps, in)[i] =
               IF i <= Len(ck.steps) THEN ck.steps[i] ELSE in
      BY <1>2
  <2>2. << in >> \in Seq(RatchetInput) /\ Len(<< in >>) = 1 /\ << in >>[1] = in
      BY <1>2
  <2>3. /\ ck.steps \o << in >> \in Seq(RatchetInput)
        /\ Len(ck.steps \o << in >>) = Len(ck.steps) + 1
        /\ \A i \in 1 .. Len(ck.steps) + 1 : (ck.steps \o << in >>)[i] =
               IF i <= Len(ck.steps) THEN ck.steps[i] ELSE << in >>[i - Len(ck.steps)]
      BY <1>2, <2>2, ConcatProperties
  <2>4. Len(ck.steps) \in Nat
      BY <1>2, LenProperties
  <2>5. \A i \in 1 .. Len(ck.steps) + 1 :
            Append(ck.steps, in)[i] = (ck.steps \o << in >>)[i]
      BY <2>1, <2>2, <2>3, <2>4
  <2>. QED BY <2>1, <2>3, <2>5, SeqEqual
<1>5. /\ NextChainKey(ck, c, ctx).stream = ck.stream
      /\ NextChainKey(ck, c, ctx).steps = Append(ck.steps, in)
    BY DEF NextChainKey, ChainKey
<1>6. NextChainKey(ck, c, ctx) \in ChainKey /\ RatchetRange(ck, c, c + 1, ctx) \in ChainKey
    BY <1>1, NextChainKeyType, RatchetRangeType
<1>7. /\ RatchetRange(ck, c, c + 1, ctx).stream = ck.stream
      /\ RatchetRange(ck, c, c + 1, ctx).steps = ck.steps \o << in >>
  <2>1. /\ RatchetRange(ck, c, c + 1, ctx).stream = ck.stream
        /\ RatchetRange(ck, c, c + 1, ctx).steps = ck.steps \o Run(c, c + 1, ctx)
      BY <1>1, RatchetRangeSteps
  <2>. QED BY <1>3, <2>1
<1>. QED BY <1>4, <1>5, <1>6, <1>7, SameKey

(***************************************************************************)
(* The invariant.                                                          *)
(***************************************************************************)
\* The chain key of stream d at counter n.
ChainAt(d, n) == RatchetRange(InitialChainKey(d), start[d], n, Ctx(d))

\* The sender keeps the key at its counter, until the last counter is used up
\* and the key has moved further than the counter can.
SendKeyInv ==
    \A d \in Dir :
        /\ start[d] <= sendStream[d].sendCounter
        /\ \/ sendStream[d].chainKey = ChainAt(d, sendStream[d].sendCounter)
           \/ /\ sendStream[d].sendCounter = MaxCounter
              /\ Len(sendStream[d].chainKey.steps) >= MaxCounter - start[d]

\* The receiver keeps the key at recv_expected.
RecvKeyInv ==
    \A d \in Dir :
        /\ start[d] <= recvStream[d].window.recvExpected
        /\ recvStream[d].chainKey = ChainAt(d, recvStream[d].window.recvExpected)

\* Every envelope was sealed under the key at its counter.
SentKeyInv ==
    \A d \in Dir : \A e \in sent[d] :
        /\ start[d] <= e.counter
        /\ e.sealed.key = MessageKey(ChainAt(d, e.counter), e.counter, Ctx(d))
        /\ suite \in ImplementedSuites

\* A counter is used only by the envelope that was opened under it: nothing
\* forged takes the place of a genuine message.
UsedInv ==
    \A d \in Dir : \A c \in Used(recvStream[d].window) :
        \/ c < start[d]
        \/ \E e \in sent[d] : e.counter = c /\ opened[d][e.sealed.plain] > 0

KeyInv == SendKeyInv /\ RecvKeyInv /\ SentKeyInv /\ UsedInv

(***************************************************************************)
(* Facts about the chain keys of a stream.                                 *)
(***************************************************************************)
\* A chain key on the way from the first counter has a step per counter.
LEMMA ChainAtType ==
    ASSUME TypeOK, NEW d \in Dir, NEW n \in Counter, start[d] <= n
    PROVE  /\ ChainAt(d, n) \in ChainKey
           /\ ChainAt(d, n).stream = d
           /\ Len(ChainAt(d, n).steps) = n - start[d]
<1>1. start[d] \in Counter /\ Ctx(d) \in StreamContext
    BY CtxType, DirectMessageAssumption DEF TypeOK
<1>2. /\ InitialChainKey(d) \in ChainKey /\ InitialChainKey(d).stream = d
      /\ Len(InitialChainKey(d).steps) = 0
    BY EmptySeq DEF InitialChainKey, ChainKey, Dir
<1>3. ChainAt(d, n) \in ChainKey
    BY <1>1, <1>2, RatchetRangeType DEF ChainAt
<1>4. /\ ChainAt(d, n).stream = InitialChainKey(d).stream
      /\ Len(ChainAt(d, n).steps) = Len(InitialChainKey(d).steps) + (n - start[d])
    BY <1>1, <1>2, RatchetRangeSteps DEF ChainAt
<1>5. n \in Nat /\ start[d] \in Nat
    BY <1>1, CounterFacts
<1>. QED BY <1>2, <1>3, <1>4, <1>5

\* Ratcheting from the key at m to n gives the key at n.
LEMMA ChainAtRatchets ==
    ASSUME TypeOK, NEW d \in Dir, NEW m \in Counter, NEW n \in Counter,
           start[d] <= m, m <= n
    PROVE  RatchetRange(ChainAt(d, m), m, n, Ctx(d)) = ChainAt(d, n)
<1>1. start[d] \in Counter /\ Ctx(d) \in StreamContext
    BY CtxType, DirectMessageAssumption DEF TypeOK
<1>2. InitialChainKey(d) \in ChainKey
    BY EmptySeq DEF InitialChainKey, ChainKey, Dir
<1>. QED BY <1>1, <1>2, RatchetRangeComposes DEF ChainAt

\* One step from the key at m gives the key at m + 1.
LEMMA ChainAtNext ==
    ASSUME TypeOK, NEW d \in Dir, NEW m \in Counter, start[d] <= m, m < MaxCounter
    PROVE  NextChainKey(ChainAt(d, m), m, Ctx(d)) = ChainAt(d, m + 1)
<1>1. m \in Nat /\ m + 1 \in Counter /\ m <= m + 1
    BY CounterFacts
<1>2. ChainAt(d, m) \in ChainKey /\ Ctx(d) \in StreamContext
    BY ChainAtType, CtxType DEF TypeOK
<1>3. NextChainKey(ChainAt(d, m), m, Ctx(d))
          = RatchetRange(ChainAt(d, m), m, m + 1, Ctx(d))
    BY <1>1, <1>2, NextIsRatchetRange
<1>. QED BY <1>1, <1>3, ChainAtRatchets

\* At its first counter a stream has its initial key.
LEMMA ChainAtStart ==
    ASSUME TypeOK, NEW d \in Dir
    PROVE  ChainAt(d, start[d]) = InitialChainKey(d)
<1>1. /\ InitialChainKey(d) \in ChainKey /\ start[d] \in Counter
      /\ Ctx(d) \in StreamContext
    BY EmptySeq, CtxType, DirectMessageAssumption
    DEF InitialChainKey, ChainKey, Dir, TypeOK
<1>. QED BY <1>1, RatchetRangeEmpty DEF ChainAt

(***************************************************************************)
(* The invariant is inductive.                                             *)
(***************************************************************************)
\* In the first state every stream has its initial key and no counter is used
\* from its start on.
LEMMA InitKeyInv == Init => KeyInv
<1>. SUFFICES ASSUME Init PROVE KeyInv
    OBVIOUS
<1>1. TypeOK
    BY InitIInv DEF IInv
<1>2. \A d \in Dir : ChainAt(d, start[d]) = InitialChainKey(d)
    BY <1>1, ChainAtStart
<1>3. \A d \in Dir : start[d] \in Nat
    BY <1>1, CounterFacts, DirectMessageAssumption DEF TypeOK
<1>4. SendKeyInv /\ RecvKeyInv
    BY <1>2, <1>3 DEF Init, SendKeyInv, RecvKeyInv, WithCounter, NewWindow
<1>5. SentKeyInv
    BY DEF Init, SentKeyInv
<1>6. UsedInv
    BY <1>3 DEF Init, UsedInv, Used, WithCounter, NewWindow
<1>. QED BY <1>4, <1>5, <1>6 DEF KeyInv

\* Both outcomes of encrypt_and_send move the sending key the same way.
LEMMA SendKeyStep ==
    ASSUME TypeOK, SendKeyInv, NEW d \in Dir,
           sendStream' = [sendStream EXCEPT ![d] = AdvanceSend(@, Ctx(d))],
           UNCHANGED <<suite, start>>
    PROVE  SendKeyInv'
<1>. DEFINE st == sendStream[d]
            after == AdvanceSend(st, Ctx(d))
<1>1. /\ st.chainKey \in ChainKey /\ st.sendCounter \in Counter
      /\ start[d] \in Counter /\ Ctx(d) \in StreamContext
    BY CtxType, DirectMessageAssumption DEF TypeOK, Stream
<1>2. /\ st.sendCounter \in Nat /\ st.sendCounter <= MaxCounter
      /\ start[d] \in Nat /\ MaxCounter \in Nat
    BY <1>1, CounterFacts
<1>3. /\ start[d] <= st.sendCounter
      /\ \/ st.chainKey = ChainAt(d, st.sendCounter)
         \/ /\ st.sendCounter = MaxCounter
            /\ Len(st.chainKey.steps) >= MaxCounter - start[d]
    BY DEF SendKeyInv
<1>4. /\ after.chainKey = NextChainKey(st.chainKey, st.sendCounter, Ctx(d))
      /\ after.sendCounter = IF st.sendCounter < MaxCounter
                             THEN st.sendCounter + 1 ELSE st.sendCounter
    BY DEF AdvanceSend
<1>. HIDE DEF after
<1>5. /\ start[d] <= after.sendCounter
      /\ \/ after.chainKey = ChainAt(d, after.sendCounter)
         \/ /\ after.sendCounter = MaxCounter
            /\ Len(after.chainKey.steps) >= MaxCounter - start[d]
  <2>1. CASE st.sendCounter < MaxCounter
    <3>1. st.chainKey = ChainAt(d, st.sendCounter)
        BY <1>2, <1>3, <2>1
    <3>2. after.chainKey = ChainAt(d, st.sendCounter + 1)
        BY <1>1, <1>3, <1>4, <2>1, <3>1, ChainAtNext
    <3>3. after.sendCounter = st.sendCounter + 1
        BY <1>4, <2>1
    <3>. QED BY <1>2, <1>3, <3>2, <3>3
  <2>2. CASE ~(st.sendCounter < MaxCounter)
    <3>1. after.sendCounter = MaxCounter
        BY <1>2, <1>4, <2>2
    <3>2. Len(st.chainKey.steps) >= MaxCounter - start[d]
      <4>1. CASE st.chainKey = ChainAt(d, st.sendCounter)
        <5>1. Len(st.chainKey.steps) = st.sendCounter - start[d]
            BY <1>1, <1>3, <4>1, ChainAtType
        <5>. QED BY <1>2, <2>2, <5>1
      <4>. QED BY <1>3, <4>1
    <3>3. Len(after.chainKey.steps) = Len(st.chainKey.steps) + 1
        BY <1>1, <1>4 DEF NextChainKey, ChainKey
    <3>4. Len(st.chainKey.steps) \in Nat
        BY <1>1, LenProperties DEF ChainKey
    <3>. QED BY <1>2, <1>3, <3>1, <3>2, <3>3, <3>4
  <2>. QED BY <2>1, <2>2
<1>6. \A b \in Dir : \A n : ChainAt(b, n)' = ChainAt(b, n)
    BY DEF ChainAt, Ctx
<1>7. sendStream'[d] = after /\ \A b \in Dir : b # d => sendStream'[b] = sendStream[b]
    BY DEF TypeOK, after
<1>8. ASSUME NEW b \in Dir
      PROVE  /\ start[b] <= sendStream'[b].sendCounter
             /\ \/ sendStream'[b].chainKey = ChainAt(b, sendStream'[b].sendCounter)
                \/ /\ sendStream'[b].sendCounter = MaxCounter
                   /\ Len(sendStream'[b].chainKey.steps) >= MaxCounter - start[b]
  <2>1. CASE b = d
      BY <1>5, <1>7, <2>1
  <2>2. CASE b # d
      BY <1>7, <2>2 DEF SendKeyInv
  <2>. QED BY <2>1, <2>2
<1>. QED BY <1>6, <1>8 DEF SendKeyInv

\* An envelope is sealed under the key of its counter, and only if the suite
\* can be opened at the other end.
LEMMA SendKeepsSentKeys ==
    ASSUME TypeOK, SendKeyInv, SentKeyInv, NEW d \in Dir, Send(d)
    PROVE  SentKeyInv'
<1>1. PICK new \in Envelope :
          /\ new.counter = sendStream[d].sendCounter
          /\ new.sealed.key = MessageKey(sendStream[d].chainKey, new.counter, Ctx(d))
          /\ sent'[d] = sent[d] \cup {new}
          /\ \A b \in Dir : b # d => sent'[b] = sent[b]
    BY SendAdds
<1>2. /\ sendStream[d].sendCounter < MaxCounter /\ suite \in ImplementedSuites
      /\ UNCHANGED <<suite, start>>
    BY DEF Send, EncryptAndSendResult, AdvanceSendResult, EncryptMessageResult, Ctx
<1>3. sendStream[d].sendCounter \in Nat /\ MaxCounter \in Nat
    BY CounterFacts DEF TypeOK, Stream
<1>4. /\ start[d] <= sendStream[d].sendCounter
      /\ sendStream[d].chainKey = ChainAt(d, sendStream[d].sendCounter)
    BY <1>2, <1>3 DEF SendKeyInv
<1>5. \A b \in Dir : \A n : ChainAt(b, n)' = ChainAt(b, n) /\ Ctx(b)' = Ctx(b)
    BY <1>2 DEF ChainAt, Ctx
<1>6. ASSUME NEW b \in Dir, NEW e \in sent'[b]
      PROVE  /\ start[b] <= e.counter
             /\ e.sealed.key = MessageKey(ChainAt(b, e.counter), e.counter, Ctx(b))
  <2>1. CASE e \in sent[b]
      BY <2>1 DEF SentKeyInv
  <2>2. CASE e \notin sent[b]
    <3>1. b = d /\ e = new
        BY <1>1, <2>2
    <3>. QED BY <1>1, <1>4, <3>1
  <2>. QED BY <2>1, <2>2
<1>. QED BY <1>2, <1>5, <1>6 DEF SentKeyInv

\* A send moves the sending key on, and leaves the receiving side alone.
LEMMA SendKeepsKeys ==
    ASSUME IInv, KeyInv, NEW d \in Dir, Send(d)
    PROVE  KeyInv'
<1>1. TypeOK /\ SendKeyInv /\ RecvKeyInv /\ SentKeyInv /\ UsedInv
    BY DEF IInv, KeyInv
<1>2. /\ sendStream' = [sendStream EXCEPT ![d] = AdvanceSend(@, Ctx(d))]
      /\ UNCHANGED <<suite, recvStream, start, opened>>
    BY DEF Send
<1>3. SendKeyInv' /\ SentKeyInv'
    BY <1>1, <1>2, SendKeyStep, SendKeepsSentKeys
<1>4. \A b \in Dir : \A n : ChainAt(b, n)' = ChainAt(b, n)
    BY <1>2 DEF ChainAt, Ctx
<1>5. RecvKeyInv'
    BY <1>1, <1>2, <1>4 DEF RecvKeyInv
<1>6. \A b \in Dir : sent[b] \subseteq sent'[b]
    BY <1>1 DEF TypeOK, Send
<1>7. UsedInv'
    BY <1>1, <1>2, <1>6 DEF UsedInv
<1>. QED BY <1>3, <1>5, <1>7 DEF KeyInv

\* A send that fails may leave a gap, and moves key and counter together.
LEMMA SendFailsKeepsKeys ==
    ASSUME IInv, KeyInv, NEW d \in Dir, SendFails(d)
    PROVE  KeyInv'
<1>1. TypeOK /\ SendKeyInv /\ RecvKeyInv /\ SentKeyInv /\ UsedInv
    BY DEF IInv, KeyInv
<1>2. /\ sendStream' = [sendStream EXCEPT ![d] = AdvanceSend(@, Ctx(d))]
      /\ UNCHANGED <<suite, recvStream, start, sent, opened>>
    BY DEF SendFails
<1>3. SendKeyInv'
    BY <1>1, <1>2, SendKeyStep
<1>4. \A b \in Dir : \A n : ChainAt(b, n)' = ChainAt(b, n) /\ Ctx(b)' = Ctx(b)
    BY <1>2 DEF ChainAt, Ctx
<1>5. RecvKeyInv' /\ SentKeyInv'
    BY <1>1, <1>2, <1>4 DEF RecvKeyInv, SentKeyInv
<1>6. UsedInv'
    BY <1>1, <1>2 DEF UsedInv
<1>. QED BY <1>3, <1>5, <1>6 DEF KeyInv

\* What the window moves past, the receiving key is ratcheted over; a delivery
\* that does not open leaves both alone.
LEMMA ReceiveKeepsKeys ==
    ASSUME IInv, KeyInv, NEW d \in Dir, NEW c \in Counter, NEW s, Delivered(s),
           Receive(d, c, s)
    PROVE  KeyInv'
<1>. DEFINE st == recvStream[d]
            after == ReceiveAndDecrypt(st, c, s, Ctx(d))
<1>1. TypeOK /\ SentInv /\ SendKeyInv /\ RecvKeyInv /\ SentKeyInv /\ UsedInv
    BY DEF IInv, KeyInv
<1>2. /\ recvStream' = [recvStream EXCEPT ![d] = after]
      /\ UNCHANGED <<suite, sendStream, start, calls, sent>>
      /\ ReceiveResult(st, c, s, Ctx(d)) = "Ok"
             => opened' = [opened EXCEPT ![d][s.plain] = @ + 1]
      /\ ReceiveResult(st, c, s, Ctx(d)) # "Ok" => opened' = opened
    BY DEF Receive
<1>3. ReceiveResult(st, c, s, Ctx(d)) # "Ok" => after = st
    BY DEF ReceiveAndDecrypt
<1>4. ReceiveResult(st, c, s, Ctx(d)) = "Ok" =>
          after = MarkReceived(st, c, Ctx(d)) /\ CanAccept(st.window, c) = "Ok"
    BY DEF ReceiveAndDecrypt, ReceiveResult
<1>. HIDE DEF after
<1>5. recvStream'[d] = after /\ \A b \in Dir : b # d => recvStream'[b] = recvStream[b]
    BY <1>1, <1>2 DEF TypeOK
<1>6. \A b \in Dir : \A n : ChainAt(b, n)' = ChainAt(b, n) /\ Ctx(b)' = Ctx(b)
    BY <1>2 DEF ChainAt, Ctx
<1>7. SendKeyInv' /\ SentKeyInv'
    BY <1>1, <1>2, <1>6 DEF SendKeyInv, SentKeyInv
<1>8. CASE ReceiveResult(st, c, s, Ctx(d)) # "Ok"
  <2>1. recvStream' = recvStream /\ opened' = opened
      BY <1>1, <1>2, <1>3, <1>8 DEF TypeOK
  <2>. QED BY <1>1, <1>2, <1>6, <1>7, <2>1 DEF KeyInv, RecvKeyInv, UsedInv
<1>9. CASE ReceiveResult(st, c, s, Ctx(d)) = "Ok"
  <2>. DEFINE r == st.window.recvExpected
              w == MarkConsumed(st.window, c)
  <2>1. st \in Stream /\ st.window \in Window /\ Ctx(d) \in StreamContext
      BY <1>1, CtxType DEF TypeOK, Stream
  <2>2. /\ w \in Window /\ r <= w.recvExpected
        /\ Used(w) = Used(st.window) \cup {c}
      BY <1>4, <1>9, <2>1, MarkConsumedFacts
  <2>3. /\ after.window = w
        /\ after.chainKey = RatchetRange(st.chainKey, r, w.recvExpected, Ctx(d))
      BY <1>4, <1>9 DEF MarkReceived
  <2>. HIDE DEF w
  <2>4. /\ start[d] <= r /\ st.chainKey = ChainAt(d, r)
        /\ r \in Counter /\ w.recvExpected \in Counter /\ start[d] \in Counter
      BY <1>1, <2>1, <2>2, DirectMessageAssumption DEF RecvKeyInv, Window, TypeOK
  <2>5. start[d] <= w.recvExpected
      BY <2>2, <2>4, CounterFacts
  <2>6. after.chainKey = ChainAt(d, w.recvExpected)
      BY <1>1, <2>2, <2>3, <2>4, ChainAtRatchets
  <2>7. RecvKeyInv'
    <3>1. ASSUME NEW b \in Dir
          PROVE  /\ start[b] <= recvStream'[b].window.recvExpected
                 /\ recvStream'[b].chainKey
                        = ChainAt(b, recvStream'[b].window.recvExpected)
      <4>1. CASE b = d
          BY <1>5, <2>3, <2>5, <2>6, <4>1
      <4>2. CASE b # d
          BY <1>1, <1>5, <4>2 DEF RecvKeyInv
      <4>. QED BY <4>1, <4>2
    <3>. QED BY <1>2, <1>6, <3>1 DEF RecvKeyInv
  <2>8. PICK e \in sent[d] : e.sealed = s /\ e.counter = c
      BY <1>1, <1>9, OpenedWasSent DEF SentInv
  <2>9. /\ opened'[d][s.plain] > 0
        /\ \A b \in Dir : \A q \in Plaintext : opened[b][q] > 0 => opened'[b][q] > 0
    <3>1. s.plain \in Plaintext /\ opened \in [Dir -> [Plaintext -> Nat]]
        BY <1>1, DeliveredPlain DEF TypeOK
    <3>2. opened' = [opened EXCEPT ![d] = [opened[d] EXCEPT ![s.plain] = @ + 1]]
        BY <1>2, <1>9, <3>1
    <3>. QED BY <3>1, <3>2
  <2>10. UsedInv'
    <3>1. ASSUME NEW b \in Dir, NEW x \in Used(recvStream'[b].window)
          PROVE  \/ x < start[b]
                 \/ \E f \in sent[b] : f.counter = x /\ opened'[b][f.sealed.plain] > 0
      <4>1. CASE x \in Used(recvStream[b].window)
        <5>1. \A f \in sent[b] : f.sealed.plain \in Plaintext
            BY <1>1 DEF TypeOK, Envelope, SealedMessage
        <5>. QED BY <1>1, <2>9, <4>1, <5>1 DEF UsedInv
      <4>2. CASE x \notin Used(recvStream[b].window)
        <5>1. b = d /\ x = c
            BY <1>5, <2>2, <2>3, <4>2
        <5>. QED BY <2>8, <2>9, <5>1
      <4>. QED BY <4>1, <4>2
    <3>. QED BY <1>2, <3>1 DEF UsedInv
  <2>. QED BY <1>7, <2>7, <2>10 DEF KeyInv
<1>. QED BY <1>8, <1>9

\* Every step of either device or of the network keeps the keys in step.
LEMMA NextKeyInv == IInv /\ KeyInv /\ [Next]_vars => KeyInv'
<1>. SUFFICES ASSUME IInv, KeyInv, [Next]_vars PROVE KeyInv'
    OBVIOUS
<1>1. CASE UNCHANGED vars
    BY <1>1 DEF KeyInv, SendKeyInv, RecvKeyInv, SentKeyInv, UsedInv, ChainAt, Ctx, vars
<1>2. ASSUME NEW d \in Dir, Send(d) PROVE KeyInv'
    BY <1>2, SendKeepsKeys
<1>3. ASSUME NEW d \in Dir, SendFails(d) PROVE KeyInv'
    BY <1>3, SendFailsKeepsKeys
<1>4. ASSUME NEW d \in Dir, Genuine(d) PROVE KeyInv'
  <2>1. PICK e \in sent[d] : Receive(d, e.counter, e.sealed)
      BY <1>4 DEF Genuine
  <2>2. e.counter \in Counter /\ Delivered(e.sealed)
      BY DEF IInv, TypeOK, Envelope, Delivered, Network
  <2>. QED BY <2>1, <2>2, ReceiveKeepsKeys
<1>5. ASSUME NEW d \in Dir, Misdelivered(d) PROVE KeyInv'
  <2>1. PICK c \in Counter, s \in Network : Receive(d, c, s)
      BY <1>5 DEF Misdelivered
  <2>2. Delivered(s)
      BY DEF Delivered
  <2>. QED BY <2>1, <2>2, ReceiveKeepsKeys
<1>6. ASSUME NEW d \in Dir, Tampered(d) PROVE KeyInv'
  <2>1. PICK e \in sent[d] : Receive(d, e.counter, Altered(e.sealed))
      BY <1>6 DEF Tampered
  <2>2. e.counter \in Counter /\ Delivered(Altered(e.sealed))
      BY DEF IInv, TypeOK, Envelope, Delivered, Network
  <2>. QED BY <2>1, <2>2, ReceiveKeepsKeys
<1>. QED BY <1>1, <1>2, <1>3, <1>4, <1>5, <1>6 DEF Next

\* The keys stay in step throughout every behaviour of the session.
THEOREM KeysInStep == Spec => []KeyInv
<1>1. Init => KeyInv
    BY InitKeyInv
<1>2. IInv /\ KeyInv /\ [Next]_vars => KeyInv'
    BY NextKeyInv
<1>. QED BY <1>1, <1>2, InductiveInvariant, PTL DEF Spec

(***************************************************************************)
(* The results.                                                            *)
(***************************************************************************)
\* While receiving key and window agree, an envelope whose counter lies in the
\* window and was not used opens.
LEMMA UnusedEnvelopeOpens ==
    ASSUME TypeOK, SealedInv, RecvKeyInv, SentKeyInv,
           NEW d \in Dir, NEW e \in sent[d],
           recvStream[d].window.recvExpected <= e.counter,
           e.counter < recvStream[d].window.recvExpected + SkipWindowSize,
           recvStream[d].window.recvExpected + SkipWindowSize <= MaxCounter,
           e.counter \notin Used(recvStream[d].window)
    PROVE  Openable(d, e)
<1>. DEFINE st == recvStream[d]
            r == st.window.recvExpected
            c == e.counter
<1>1. c \in Counter /\ r \in Counter /\ c \in Nat /\ r \in Nat /\ st.window \in Window
    BY CounterFacts DEF TypeOK, Envelope, Stream, Window
<1>2. CanAccept(st.window, c) = "Ok"
    BY <1>1, FreshIsAccepted
<1>3. DeriveChainKeyAt(st, c, Ctx(d)) = ChainAt(d, c)
  <2>1. start[d] <= r /\ st.chainKey = ChainAt(d, r)
      BY DEF RecvKeyInv
  <2>2. CASE c > r
      BY <1>1, <2>1, <2>2, ChainAtRatchets DEF DeriveChainKeyAt
  <2>3. CASE ~(c > r)
    <3>1. c = r
        BY <1>1, <2>3
    <3>. QED BY <2>1, <2>3, <3>1 DEF DeriveChainKeyAt
  <2>. QED BY <2>2, <2>3
<1>4. /\ e.sealed.key = PrepareReceive(st, c, Ctx(d))
      /\ Ctx(d).suite \in ImplementedSuites
      /\ e.sealed.intact /\ e.sealed.aad = ConstructAad(c, Ctx(d))
    BY <1>3 DEF SentKeyInv, SealedInv, PrepareReceive, Ctx
<1>. QED BY <1>2, <1>4 DEF Openable, ReceiveResult, DecryptMessageResult

\* Whatever was lost, reordered, replayed or forged before, an envelope of the
\* stream that lies in the window and was not opened yet opens.
THEOREM GenuineMessagesOpen == Spec => []GenuineOpens
<1>1. ASSUME IInv, KeyInv PROVE GenuineOpens
  <2>. SUFFICES ASSUME NEW d \in Dir, NEW e \in sent[d],
                       recvStream[d].window.recvExpected <= e.counter,
                       e.counter < recvStream[d].window.recvExpected + SkipWindowSize,
                       recvStream[d].window.recvExpected + SkipWindowSize <= MaxCounter,
                       opened[d][e.sealed.plain] = 0
                PROVE  Openable(d, e)
      BY DEF GenuineOpens
  <2>1. /\ TypeOK /\ SealedInv /\ DistinctInv
        /\ RecvKeyInv /\ SentKeyInv /\ UsedInv
      BY <1>1 DEF IInv, KeyInv, SentInv
  <2>2. e.counter \in Nat /\ start[d] \in Nat /\ start[d] <= e.counter
      BY <2>1, CounterFacts, DirectMessageAssumption DEF TypeOK, Envelope, SentKeyInv
  <2>3. e.counter \notin Used(recvStream[d].window)
    <3>1. e.counter \in Used(recvStream[d].window)
              => \E f \in sent[d] : f.counter = e.counter /\ opened[d][f.sealed.plain] > 0
        BY <2>1, <2>2 DEF UsedInv
    <3>2. \A f \in sent[d] : f.counter = e.counter => f = e
        BY <2>1 DEF DistinctInv
    <3>. QED BY <3>1, <3>2
  <2>. QED BY <2>1, <2>3, UnusedEnvelopeOpens
<1>. QED BY <1>1, InductiveInvariant, KeysInStep, PTL

\* A chain key with more steps than the one an envelope was sealed under does
\* not derive the key of the envelope.
LEMMA LaterKeyDerivesNone ==
    ASSUME TypeOK, SentKeyInv, NEW d \in Dir, NEW e \in sent[d],
           NEW ck, Len(ck.steps) \in Nat, Len(ck.steps) > e.counter - start[d]
    PROVE  ~Derives(ck, e.sealed.key)
<1>1. e.counter \in Counter /\ start[d] \in Counter
    BY DirectMessageAssumption DEF TypeOK, Envelope
<1>2. start[d] <= e.counter /\ e.sealed.key.chain = ChainAt(d, e.counter)
  <2>1. e.sealed.key = MessageKey(ChainAt(d, e.counter), e.counter, Ctx(d))
      BY DEF SentKeyInv
  <2>2. MessageKey(ChainAt(d, e.counter), e.counter, Ctx(d)).chain = ChainAt(d, e.counter)
      BY DEF MessageKey
  <2>3. start[d] <= e.counter
      BY DEF SentKeyInv
  <2>. QED BY <2>1, <2>2, <2>3
<1>3. Len(e.sealed.key.chain.steps) = e.counter - start[d]
    BY <1>1, <1>2, ChainAtType
<1>4. e.counter \in Nat /\ start[d] \in Nat
    BY <1>1, CounterFacts
<1>. QED BY <1>3, <1>4 DEF Derives

\* The sending key derives no key of an envelope below the send counter.
LEMMA SentKeysAreGone ==
    ASSUME TypeOK, SendKeyInv, SentKeyInv, NEW d \in Dir, NEW e \in sent[d],
           e.counter < sendStream[d].sendCounter
    PROVE  ~Derives(sendStream[d].chainKey, e.sealed.key)
<1>1. /\ sendStream[d].sendCounter \in Counter /\ start[d] \in Counter
      /\ e.counter \in Nat /\ sendStream[d].sendCounter \in Nat
      /\ start[d] \in Nat /\ MaxCounter \in Nat
    BY CounterFacts, DirectMessageAssumption DEF TypeOK, Envelope, Stream
<1>2. Len(sendStream[d].chainKey.steps) >= sendStream[d].sendCounter - start[d]
  <2>1. CASE sendStream[d].chainKey = ChainAt(d, sendStream[d].sendCounter)
    <3>1. start[d] <= sendStream[d].sendCounter
        BY DEF SendKeyInv
    <3>2. Len(sendStream[d].chainKey.steps) = sendStream[d].sendCounter - start[d]
        BY <1>1, <2>1, <3>1, ChainAtType
    <3>. QED BY <1>1, <3>2
  <2>. QED BY <1>1, <2>1 DEF SendKeyInv
<1>3. Len(sendStream[d].chainKey.steps) \in Nat
    BY LenProperties DEF TypeOK, Stream, ChainKey
<1>4. Len(sendStream[d].chainKey.steps) > e.counter - start[d]
    BY <1>1, <1>2, <1>3
<1>. QED BY <1>3, <1>4, LaterKeyDerivesNone

\* The key a device keeps derives no key it has sent under and none the window
\* has moved past.
THEOREM OldKeysAreGone == Spec => []ForwardSecrecy
<1>1. ASSUME IInv, KeyInv PROVE ForwardSecrecy
  <2>. SUFFICES ASSUME NEW d \in Dir, NEW e \in sent[d]
                PROVE  /\ ~Derives(sendStream[d].chainKey, e.sealed.key)
                       /\ e.counter < recvStream[d].window.recvExpected
                              => ~Derives(recvStream[d].chainKey, e.sealed.key)
      BY DEF ForwardSecrecy
  <2>. DEFINE r == recvStream[d].window.recvExpected
  <2>1. /\ TypeOK /\ SentInv /\ SendKeyInv /\ RecvKeyInv /\ SentKeyInv
      BY <1>1 DEF IInv, KeyInv
  <2>2. ~Derives(sendStream[d].chainKey, e.sealed.key)
      BY <2>1, SentKeysAreGone DEF SentInv
  <2>3. ASSUME e.counter < r PROVE ~Derives(recvStream[d].chainKey, e.sealed.key)
    <3>1. /\ r \in Counter /\ r \in Nat /\ start[d] \in Nat /\ e.counter \in Nat
          /\ start[d] <= r
        BY <2>1, CounterFacts, DirectMessageAssumption
        DEF TypeOK, Envelope, Stream, Window, RecvKeyInv
    <3>2. Len(recvStream[d].chainKey.steps) = r - start[d]
        BY <2>1, <3>1, ChainAtType DEF RecvKeyInv
    <3>3. Len(recvStream[d].chainKey.steps) \in Nat
        BY <3>1, <3>2
    <3>4. Len(recvStream[d].chainKey.steps) > e.counter - start[d]
        BY <2>3, <3>1, <3>2
    <3>. QED BY <2>1, <3>3, <3>4, LaterKeyDerivesNone
  <2>. QED BY <2>2, <2>3
<1>. QED BY <1>1, InductiveInvariant, KeysInStep, PTL

-----------------------------------------------------------------------------
(* A DM session implements AcceptOnce.  The abstract history of accepted    *)
(* counters is, counter by counter, what the receiving windows hold as      *)
(* used; the first gap of the history is recv_expected.                     *)

\* Both windows stand on a gap.
GapInv == \A d \in Dir : OnGap(recvStream[d].window)

\* In the first state nothing is consumed.
LEMMA InitGapInv == Init => GapInv
BY DEF Init, GapInv, OnGap, WithCounter, NewWindow

\* The window of stream d after a delivery that opens, and after any other.
LEMMA ReceiveWindow ==
    ASSUME TypeOK, NEW d \in Dir, NEW c \in Counter, NEW s, Receive(d, c, s)
    PROVE  /\ UNCHANGED start
           /\ ReceiveResult(recvStream[d], c, s, Ctx(d)) # "Ok" =>
                  recvStream' = recvStream
           /\ ReceiveResult(recvStream[d], c, s, Ctx(d)) = "Ok" =>
                  /\ CanAccept(recvStream[d].window, c) = "Ok"
                  /\ recvStream'[d].window = MarkConsumed(recvStream[d].window, c)
           /\ \A b \in Dir : b # d => recvStream'[b] = recvStream[b]
<1>. DEFINE st == recvStream[d]
            after == ReceiveAndDecrypt(st, c, s, Ctx(d))
<1>1. recvStream' = [recvStream EXCEPT ![d] = after] /\ UNCHANGED start
    BY DEF Receive
<1>2. ReceiveResult(st, c, s, Ctx(d)) # "Ok" => after = st
    BY DEF ReceiveAndDecrypt
<1>3. ReceiveResult(st, c, s, Ctx(d)) = "Ok" =>
          /\ CanAccept(st.window, c) = "Ok"
          /\ after.window = MarkConsumed(st.window, c)
    BY DEF ReceiveAndDecrypt, ReceiveResult, MarkReceived
<1>. HIDE DEF after
<1>4. recvStream'[d] = after /\ \A b \in Dir : b # d => recvStream'[b] = recvStream[b]
    BY <1>1 DEF TypeOK
<1>5. after = st => recvStream' = recvStream
    BY <1>1 DEF TypeOK
<1>. QED BY <1>1, <1>2, <1>3, <1>4, <1>5

\* A delivery is a Receive of something the network delivers.
LEMMA Deliveries ==
    ASSUME TypeOK, NEW d \in Dir, Genuine(d) \/ Misdelivered(d) \/ Tampered(d)
    PROVE  \E c \in Counter : \E s : Delivered(s) /\ Receive(d, c, s)
<1>1. \A e \in sent[d] : /\ e.counter \in Counter
                         /\ Delivered(e.sealed) /\ Delivered(Altered(e.sealed))
    BY DEF TypeOK, Envelope, Delivered, Network
<1>2. CASE Genuine(d)
    BY <1>1, <1>2 DEF Genuine
<1>3. CASE Misdelivered(d)
    BY <1>3 DEF Misdelivered, Delivered
<1>4. CASE Tampered(d)
    BY <1>1, <1>4 DEF Tampered
<1>. QED BY <1>2, <1>3, <1>4

\* A step that is no delivery leaves the receiving streams alone.
LEMMA NoDelivery ==
    ASSUME \/ UNCHANGED vars
           \/ \E d \in Dir : Send(d) \/ SendFails(d)
    PROVE  UNCHANGED <<start, recvStream>>
BY DEF vars, Send, SendFails

\* Every step leaves both windows on a gap.
LEMMA NextGapInv == IInv /\ GapInv /\ [Next]_vars => GapInv'
<1>. SUFFICES ASSUME IInv, GapInv, [Next]_vars PROVE GapInv'
    OBVIOUS
<1>1. CASE UNCHANGED vars \/ \E d \in Dir : Send(d) \/ SendFails(d)
    BY <1>1, NoDelivery DEF GapInv
<1>2. ASSUME NEW d \in Dir, Genuine(d) \/ Misdelivered(d) \/ Tampered(d)
      PROVE  GapInv'
  <2>1. TypeOK
      BY DEF IInv
  <2>2. PICK c \in Counter : \E s : Delivered(s) /\ Receive(d, c, s)
      BY <1>2, <2>1, Deliveries
  <2>3. PICK s : Delivered(s) /\ Receive(d, c, s)
      BY <2>2
  <2>4. recvStream[d].window \in Window
      BY <2>1 DEF TypeOK, Stream
  <2>5. CASE ReceiveResult(recvStream[d], c, s, Ctx(d)) = "Ok"
    <3>1. OnGap(MarkConsumed(recvStream[d].window, c))
        BY <2>1, <2>3, <2>4, <2>5, ReceiveWindow, MarkConsumedOnGap DEF GapInv
    <3>. QED BY <2>1, <2>3, <2>5, <3>1, ReceiveWindow DEF GapInv
  <2>6. CASE ReceiveResult(recvStream[d], c, s, Ctx(d)) # "Ok"
      BY <2>1, <2>3, <2>6, ReceiveWindow DEF GapInv
  <2>. QED BY <2>5, <2>6
<1>. QED BY <1>1, <1>2 DEF Next

(***************************************************************************)
(* The refinement mapping.                                                 *)
(***************************************************************************)
RefinementInv == IInv /\ KeyInv /\ GapInv

\* A counter was accepted exactly if the window holds it as used.
AcceptedAt(d, c) == start[d] <= c /\ c \in Used(recvStream[d].window)

\* The plaintexts that were returned are those of the used counters.
LEMMA AcceptancesAreUsed ==
    ASSUME RefinementInv, NEW d \in Dir
    PROVE  Acceptances(d) = [c \in Counter |-> IF AcceptedAt(d, c) THEN 1 ELSE 0]
<1>1. /\ TypeOK /\ DistinctInv /\ OpenedInv /\ SentKeyInv /\ UsedInv
    BY DEF RefinementInv, IInv, KeyInv
<1>2. ASSUME NEW c \in Counter, NEW e \in sent[d], e.counter = c
      PROVE  /\ (CHOOSE f \in sent[d] : f.counter = c) = e
             /\ opened[d][e.sealed.plain] = IF AcceptedAt(d, c) THEN 1 ELSE 0
  <2>1. \A f \in sent[d] : f.counter = c => f = e
      BY <1>1, <1>2 DEF DistinctInv
  <2>2. (CHOOSE f \in sent[d] : f.counter = c) = e
      BY <1>2, <2>1
  <2>3. e.sealed.plain \in Plaintext /\ start[d] <= c
      BY <1>1, <1>2 DEF TypeOK, Envelope, SealedMessage, SentKeyInv
  <2>4. \/ opened[d][e.sealed.plain] = 0
        \/ opened[d][e.sealed.plain] = 1 /\ c \in Used(recvStream[d].window)
    <3>1. \A f \in sent[d] : f.sealed.plain = e.sealed.plain => f = e
        BY <1>1 DEF DistinctInv
    <3>. QED BY <1>1, <1>2, <2>3, <3>1 DEF OpenedInv
  <2>5. c \in Used(recvStream[d].window) => opened[d][e.sealed.plain] > 0
    <3>1. c \in Nat /\ start[d] \in Nat
        BY <1>1, CounterFacts, DirectMessageAssumption DEF TypeOK
    <3>2. SUFFICES ASSUME c \in Used(recvStream[d].window)
                   PROVE  opened[d][e.sealed.plain] > 0
        OBVIOUS
    <3>3. \E f \in sent[d] : f.counter = c /\ opened[d][f.sealed.plain] > 0
        BY <1>1, <2>3, <3>1, <3>2 DEF UsedInv
    <3>. QED BY <2>1, <3>3
  <2>. QED BY <2>2, <2>3, <2>4, <2>5 DEF AcceptedAt
<1>3. ASSUME NEW c \in Counter, ~ \E e \in sent[d] : e.counter = c
      PROVE  ~AcceptedAt(d, c)
  <2>1. c \in Nat /\ start[d] \in Nat
      BY <1>1, CounterFacts, DirectMessageAssumption DEF TypeOK
  <2>. QED BY <1>1, <1>3, <2>1 DEF AcceptedAt, UsedInv
<1>4. ASSUME NEW c \in Counter
      PROVE  (IF \E e \in sent[d] : e.counter = c
              THEN opened[d][(CHOOSE e \in sent[d] : e.counter = c).sealed.plain]
              ELSE 0) = IF AcceptedAt(d, c) THEN 1 ELSE 0
  <2>1. CASE \E e \in sent[d] : e.counter = c
    <3>1. PICK e \in sent[d] : e.counter = c
        BY <2>1
    <3>. QED BY <1>2, <2>1, <3>1
  <2>2. CASE ~ \E e \in sent[d] : e.counter = c
      BY <1>3, <2>2
  <2>. QED BY <2>1, <2>2
<1>. QED BY <1>4 DEF Acceptances

\* The same in the state a step leads to.
LEMMA AcceptancesAreUsedNext ==
    RefinementInv' => (\A d \in Dir :
        Acceptances(d) = [c \in Counter |-> IF AcceptedAt(d, c) THEN 1 ELSE 0])'
<1>1. RefinementInv => \A d \in Dir :
          Acceptances(d) = [c \in Counter |-> IF AcceptedAt(d, c) THEN 1 ELSE 0]
    BY AcceptancesAreUsed
<1>. QED BY <1>1, PTL

Accepted == [d \in Dir |-> Acceptances(d)]

\* The first gap of the history is recv_expected.
LEMMA FirstGapIsRecvExpected ==
    ASSUME RefinementInv, NEW d \in Dir
    PROVE  Promise!FirstGap(d) = recvStream[d].window.recvExpected
<1>. DEFINE r == recvStream[d].window.recvExpected
            IsGap(g) == /\ g >= start[d] /\ Accepted[d][g] = 0
                        /\ \A c \in Counter : (start[d] <= c /\ c < g) => Accepted[d][c] > 0
<1>1. \A c \in Counter : Accepted[d][c] = IF AcceptedAt(d, c) THEN 1 ELSE 0
    BY AcceptancesAreUsed DEF Accepted
<1>2. /\ r \in Counter /\ start[d] \in Counter /\ start[d] <= r
      /\ recvStream[d].window.consumed \subseteq Counter
    BY DirectMessageAssumption
    DEF RefinementInv, IInv, KeyInv, RecvKeyInv, TypeOK, Stream, Window
<1>3. \A c \in Counter : c \in Nat
    BY CounterFacts
<1>4. r \notin Used(recvStream[d].window) /\ \A c \in 0 .. r - 1 : c \in Used(recvStream[d].window)
    BY <1>2, <1>3 DEF RefinementInv, GapInv, OnGap, Used
<1>5. IsGap(r)
  <2>1. Accepted[d][r] = 0
      BY <1>1, <1>2, <1>4 DEF AcceptedAt
  <2>2. \A c \in Counter : (start[d] <= c /\ c < r) => Accepted[d][c] > 0
      BY <1>1, <1>2, <1>3, <1>4 DEF AcceptedAt
  <2>. QED BY <1>2, <1>3, <2>1, <2>2
<1>6. ASSUME NEW g \in Counter, IsGap(g) PROVE g = r
  <2>1. ~(g < r)
      BY <1>2, <1>3, <1>5, <1>6
  <2>2. ~(r < g)
      BY <1>2, <1>3, <1>5, <1>6
  <2>. QED BY <1>2, <1>3, <2>1, <2>2
<1>7. Promise!FirstGap(d) = CHOOSE g \in Counter : IsGap(g)
    BY DEF Promise!FirstGap, Accepted
<1>. HIDE DEF IsGap
<1>. QED BY <1>2, <1>5, <1>6, <1>7

\* The initial states are initial states of AcceptOnce.
LEMMA InitRefines == Init => Promise!Init
<1>. SUFFICES ASSUME Init PROVE Promise!Init
    OBVIOUS
<1>1. start \in [Dir -> Counter]
    BY DirectMessageAssumption DEF Init
<1>2. \A d \in Dir : Acceptances(d) = [c \in Counter |-> 0]
    BY DEF Init, Acceptances
<1>. QED BY <1>1, <1>2 DEF Promise!Init

\* A delivery that opens accepts its counter, once and inside the window.
LEMMA OpeningAccepts ==
    ASSUME RefinementInv, RefinementInv',
           NEW d \in Dir, NEW c \in Counter, NEW s, Delivered(s), Receive(d, c, s),
           ReceiveResult(recvStream[d], c, s, Ctx(d)) = "Ok"
    PROVE  Promise!Accept(d, c)
<1>. DEFINE w == recvStream[d].window
<1>1. TypeOK
    BY DEF RefinementInv, IInv
<1>2. /\ w \in Window /\ CanAccept(w, c) = "Ok"
      /\ recvStream'[d].window = MarkConsumed(w, c)
      /\ \A b \in Dir : b # d => recvStream'[b] = recvStream[b]
      /\ start' = start
    BY <1>1, ReceiveWindow DEF TypeOK, Stream
<1>3. /\ w.recvExpected <= c /\ c < w.recvExpected + SkipWindowSize
      /\ c \notin Used(w)
    BY <1>2, AcceptedIsFresh
<1>4. Used(recvStream'[d].window) = Used(w) \cup {c}
    BY <1>2, MarkConsumedFacts
<1>5. start[d] <= c
  <2>1. start[d] <= w.recvExpected
      BY DEF RefinementInv, KeyInv, RecvKeyInv
  <2>2. start[d] \in Nat /\ w.recvExpected \in Nat /\ c \in Nat
      BY <1>1, <1>2, CounterFacts, DirectMessageAssumption DEF TypeOK, Window
  <2>. QED BY <1>3, <2>1, <2>2
<1>6. \A b \in Dir : Acceptances(b) = [x \in Counter |-> IF AcceptedAt(b, x) THEN 1 ELSE 0]
    BY AcceptancesAreUsed
<1>7. \A b \in Dir : Acceptances(b)' =
          [x \in Counter |-> IF AcceptedAt(b, x)' THEN 1 ELSE 0]
    BY AcceptancesAreUsedNext
<1>8. \A b \in Dir : b # d => Acceptances(b)' = Acceptances(b)
    BY <1>2, <1>6, <1>7 DEF AcceptedAt
<1>9. Acceptances(d)' = [Acceptances(d) EXCEPT ![c] = 1]
  <2>1. \A x \in Counter : AcceptedAt(d, x)' <=> AcceptedAt(d, x) \/ x = c
      BY <1>2, <1>4, <1>5 DEF AcceptedAt
  <2>. QED BY <1>6, <1>7, <2>1
<1>10. Acceptances(d)[c] = 0
    BY <1>3, <1>6 DEF AcceptedAt
<1>11. Accepted' = [Accepted EXCEPT ![d][c] = 1]
    BY <1>8, <1>9 DEF Accepted
<1>12. Accepted[d][c] = 0
    BY <1>10 DEF Accepted
<1>. QED BY <1>2, <1>3, <1>11, <1>12, FirstGapIsRecvExpected DEF Promise!Accept, Accepted

\* Every step is a step of AcceptOnce or leaves its variables alone.
LEMMA StepRefines ==
    ASSUME RefinementInv, RefinementInv', [Next]_vars
    PROVE  [Promise!Next]_<<start, Accepted>>
<1>1. ASSUME UNCHANGED <<start, recvStream>>
      PROVE  UNCHANGED <<start, Accepted>>
  <2>1. \A b \in Dir : Acceptances(b) = [x \in Counter |-> IF AcceptedAt(b, x) THEN 1 ELSE 0]
      BY AcceptancesAreUsed
  <2>2. \A b \in Dir : Acceptances(b)' =
            [x \in Counter |-> IF AcceptedAt(b, x)' THEN 1 ELSE 0]
      BY AcceptancesAreUsedNext
  <2>3. \A b \in Dir : Acceptances(b)' = Acceptances(b)
      BY <1>1, <2>1, <2>2 DEF AcceptedAt
  <2>. QED BY <1>1, <2>3 DEF Accepted
<1>2. CASE UNCHANGED vars \/ \E d \in Dir : Send(d) \/ SendFails(d)
    BY <1>1, <1>2, NoDelivery
<1>3. ASSUME NEW d \in Dir, Genuine(d) \/ Misdelivered(d) \/ Tampered(d)
      PROVE  [Promise!Next]_<<start, Accepted>>
  <2>1. TypeOK
      BY DEF RefinementInv, IInv
  <2>2. PICK c \in Counter : \E s : Delivered(s) /\ Receive(d, c, s)
      BY <1>3, <2>1, Deliveries
  <2>3. PICK s : Delivered(s) /\ Receive(d, c, s)
      BY <2>2
  <2>4. CASE ReceiveResult(recvStream[d], c, s, Ctx(d)) = "Ok"
      BY <2>3, <2>4, OpeningAccepts DEF Promise!Next
  <2>5. CASE ReceiveResult(recvStream[d], c, s, Ctx(d)) # "Ok"
    <3>1. UNCHANGED <<start, recvStream>>
        BY <2>1, <2>3, <2>5, ReceiveWindow
    <3>. QED BY <1>1, <3>1
  <2>. QED BY <2>4, <2>5
<1>. QED BY <1>2, <1>3 DEF Next

\* Whatever the network does, each stream of a session accepts a counter at most
\* once, never below the first gap and never a window or more beyond it.
THEOREM ImplementsAcceptOnce == Spec => KeepsPromise
<1>1. Init /\ GapInv => Promise!Init
    BY InitRefines
<1>2. IInv /\ KeyInv /\ GapInv /\ IInv' /\ KeyInv' /\ GapInv' /\ [Next]_vars
          => [Promise!Next]_<<start, Accepted>>
    BY StepRefines DEF RefinementInv
<1>3. Spec => []GapInv
    BY InitGapInv, NextGapInv, InductiveInvariant, PTL DEF Spec
<1>4. Spec => Promise!Init /\ [][Promise!Next]_<<start, Accepted>>
    BY <1>1, <1>2, <1>3, InitRefines, InductiveInvariant, KeysInStep, PTL DEF Spec
<1>. QED BY <1>4, PTL DEF KeepsPromise, Promise!Spec, Accepted
-----------------------------------------------------------------------------
(***************************************************************************)
(* The session object of the app.  IInv and KeyInv do not hold of it: its  *)
(* receiving window takes no counter in, and an offer that is accepted     *)
(* again takes the responder's send counter back.  What is left of them,   *)
(* with the receiving streams standing where they began, is inductive.     *)
(***************************************************************************)

\* The receiving stream of either device is the one it began with.
StillInv == \A d \in Dir : start[d] = 0 /\ recvStream[d] = NewStream(d)

\* Unless the session was made anew, envelopes lie behind the send counter and
\* have a counter each.
OrderInv ==
    \A d \in Dir : ~Restarted(d) =>
        /\ \A e \in sent[d] : e.counter < sendStream[d].sendCounter
        /\ \A e, f \in sent[d] : e.counter = f.counter => e = f

BridgeInv ==
    /\ BridgeTypeOK /\ StillInv
    /\ SealedInv /\ SendKeyInv /\ SentKeyInv
    /\ OrderInv /\ OnlyOwnStream

\* A new object stands at the first counter, with the initial key of the stream.
LEMMA NewStreamFacts ==
    ASSUME NEW d \in Dir
    PROVE  /\ NewStream(d) \in Stream
           /\ NewStream(d).sendCounter = 0
           /\ NewStream(d).chainKey = InitialChainKey(d)
           /\ NewStream(d).window = [recvExpected |-> 0, consumed |-> {}]
<1>1. InitialChainKey(d) \in ChainKey /\ 0 \in Counter
    BY EmptySeq, CounterFacts DEF InitialChainKey, ChainKey, Dir
<1>. QED BY <1>1 DEF NewStream, WithCounter, NewWindow, Window, Stream

\* Two new objects and nothing sent.
LEMMA InitBridgeInv == BridgeInit => BridgeInv
<1>. SUFFICES ASSUME BridgeInit PROVE BridgeInv
    OBVIOUS
<1>1. IInv /\ KeyInv
    BY InitIInv, InitKeyInv DEF BridgeInit
<1>2. BridgeTypeOK
    BY <1>1 DEF BridgeInit, BridgeTypeOK, IInv
<1>3. StillInv
    BY DEF BridgeInit, Init, StillInv, NewStream
<1>4. OrderInv /\ OnlyOwnStream
    BY DEF BridgeInit, Init, OrderInv, OnlyOwnStream
<1>. QED BY <1>1, <1>2, <1>3, <1>4 DEF BridgeInv, IInv, SentInv, KeyInv

\* An encrypt call uses the counter the stream stands at, whether or not it
\* returns an envelope.
LEMMA EncryptKeepsBridge ==
    ASSUME BridgeInv, NEW d \in Dir, Encrypt(d)
    PROVE  BridgeInv'
<1>1. /\ TypeOK /\ repeated \in BOOLEAN /\ StillInv /\ SealedInv
      /\ SendKeyInv /\ SentKeyInv /\ OrderInv /\ OnlyOwnStream
    BY DEF BridgeInv, BridgeTypeOK
<1>2. /\ sendStream' = [sendStream EXCEPT ![d] = AdvanceSend(@, Ctx(d))]
      /\ UNCHANGED <<suite, recvStream, start, opened, repeated>>
    BY DEF Encrypt, Send, SendFails
<1>3. SendKeyInv' /\ StillInv'
    BY <1>1, <1>2, SendKeyStep DEF StillInv
<1>4. \A b \in Dir : Restarted(b)' = Restarted(b)
    BY <1>2 DEF Restarted
<1>5. \A b \in Dir : \A e \in sent[b] : e.counter \in Nat
    BY <1>1, CounterFacts DEF TypeOK, Envelope
<1>6. CASE Send(d)
  <2>1. PICK new \in Envelope :
            /\ new.counter = sendStream[d].sendCounter
            /\ sent'[d] = sent[d] \cup {new}
            /\ sendStream'[d].sendCounter = sendStream[d].sendCounter + 1
            /\ \A b \in Dir : b # d =>
                   sendStream'[b] = sendStream[b] /\ sent'[b] = sent[b]
            /\ TypeOK'
      BY <1>1, <1>6, SendAdds
  <2>2. SealedInv' /\ SentKeyInv'
      BY <1>1, <1>6, SendKeepsSealed, SendKeepsSentKeys
  <2>3. sendStream[d].sendCounter \in Nat
      BY <1>1, CounterFacts DEF TypeOK, Stream
  <2>4. ASSUME NEW b \in Dir, ~Restarted(b)
        PROVE  /\ \A e \in sent'[b] : e.counter < sendStream'[b].sendCounter
               /\ \A e, f \in sent'[b] : e.counter = f.counter => e = f
    <3>1. /\ \A e \in sent[b] : e.counter < sendStream[b].sendCounter
          /\ \A e, f \in sent[b] : e.counter = f.counter => e = f
        BY <1>1, <2>4 DEF OrderInv
    <3>2. CASE b # d
        BY <2>1, <3>1, <3>2
    <3>3. CASE b = d
      <4>1. \A e \in sent[d] : e.counter # new.counter
          BY <1>5, <2>1, <2>3, <3>1, <3>3
      <4>2. \A e \in sent[d] \cup {new} : e.counter < sendStream[d].sendCounter + 1
          BY <1>5, <2>1, <2>3, <3>1, <3>3
      <4>. QED BY <2>1, <3>1, <3>3, <4>1, <4>2
    <3>. QED BY <3>2, <3>3
  <2>5. OrderInv'
      BY <1>4, <2>4 DEF OrderInv
  <2>6. OnlyOwnStream'
    <3>1. \A b \in Dir : sent[b] \subseteq sent'[b]
        BY <2>1
    <3>. QED BY <1>1, <1>2, <3>1 DEF OnlyOwnStream
  <2>. QED BY <1>1, <1>2, <1>3, <2>1, <2>2, <2>5, <2>6 DEF BridgeInv, BridgeTypeOK
<1>7. CASE SendFails(d)
  <2>1. /\ TypeOK' /\ SealedInv'
        /\ UNCHANGED <<suite, recvStream, start, sent, opened>>
        /\ \A b \in Dir : /\ sendStream[b].sendCounter \in Nat
                          /\ sendStream'[b].sendCounter \in Nat
                          /\ sendStream[b].sendCounter <= sendStream'[b].sendCounter
      BY <1>1, <1>7, SendFailsMoves
  <2>2. OrderInv'
      BY <1>1, <1>4, <1>5, <2>1 DEF OrderInv
  <2>3. SentKeyInv'
    <3>1. \A b \in Dir : \A n : ChainAt(b, n)' = ChainAt(b, n) /\ Ctx(b)' = Ctx(b)
        BY <2>1 DEF ChainAt, Ctx
    <3>. QED BY <1>1, <2>1, <3>1 DEF SentKeyInv
  <2>4. OnlyOwnStream'
      BY <1>1, <2>1 DEF OnlyOwnStream
  <2>. QED BY <1>1, <1>2, <1>3, <2>1, <2>2, <2>3, <2>4 DEF BridgeInv, BridgeTypeOK
<1>. QED BY <1>6, <1>7 DEF Encrypt

\* A decrypt call returns only what the peer has encrypted, and moves nothing.
LEMMA DecryptKeepsBridge ==
    ASSUME BridgeInv, NEW d \in Dir, NEW c \in Counter, NEW s \in Deliverable,
           Decrypt(d, c, s)
    PROVE  BridgeInv'
<1>1. /\ TypeOK /\ SealedInv /\ OnlyOwnStream
    BY DEF BridgeInv, BridgeTypeOK
<1>2. /\ ReceiveResult(recvStream[d], c, s, Ctx(d)) = "Ok"
      /\ opened' = [opened EXCEPT ![d][s.plain] = @ + 1]
      /\ UNCHANGED <<suite, sendStream, recvStream, start, calls, sent, repeated>>
    BY DEF Decrypt
<1>3. Delivered(s)
    BY DEF Deliverable, Delivered
<1>4. PICK e \in sent[d] : e.sealed = s /\ e.counter = c
    BY <1>1, <1>2, <1>3, OpenedWasSent
<1>5. s.plain \in Plaintext
    BY <1>1, <1>3, DeliveredPlain
<1>6. /\ opened' \in [Dir -> [Plaintext -> Nat]]
      /\ \A b \in Dir : \A p \in Plaintext :
             (b # d \/ p # s.plain) => opened'[b][p] = opened[b][p]
  <2>1. opened \in [Dir -> [Plaintext -> Nat]]
      BY <1>1 DEF TypeOK
  <2>2. opened' = [opened EXCEPT ![d] = [opened[d] EXCEPT ![s.plain] = @ + 1]]
      BY <1>2, <1>5, <2>1
  <2>. QED BY <1>5, <2>1, <2>2
<1>7. BridgeTypeOK'
    BY <1>2, <1>6 DEF BridgeInv, BridgeTypeOK, TypeOK
<1>8. OnlyOwnStream'
  <2>. SUFFICES ASSUME NEW b \in Dir, NEW p \in Plaintext, opened'[b][p] > 0
                PROVE  \E x \in sent[b] : x.sealed.plain = p
      BY <1>2 DEF OnlyOwnStream
  <2>1. CASE b = d /\ p = s.plain
      BY <1>4, <2>1
  <2>2. CASE b # d \/ p # s.plain
      BY <1>1, <1>6, <2>2 DEF OnlyOwnStream
  <2>. QED BY <2>1, <2>2
<1>9. \A b \in Dir : /\ \A n : ChainAt(b, n)' = ChainAt(b, n)
                     /\ Ctx(b)' = Ctx(b) /\ Restarted(b)' = Restarted(b)
    BY <1>2 DEF ChainAt, Ctx, Restarted
<1>10. StillInv' /\ OrderInv'
    BY <1>2, <1>9 DEF BridgeInv, StillInv, OrderInv
<1>11. SealedInv' /\ SendKeyInv' /\ SentKeyInv'
    BY <1>2, <1>9 DEF BridgeInv, SealedInv, SendKeyInv, SentKeyInv
<1>. QED BY <1>7, <1>8, <1>10, <1>11 DEF BridgeInv

\* Accepting the offer again takes the sending key back to the start, in step
\* with the counter, and finds the receiving stream where it leaves it.
LEMMA AcceptAgainKeepsBridge ==
    ASSUME BridgeInv, AcceptAgain
    PROVE  BridgeInv'
<1>1. /\ TypeOK /\ StillInv /\ SendKeyInv /\ SentKeyInv /\ OrderInv
    BY DEF BridgeInv, BridgeTypeOK
<1>2. /\ sendStream' = [sendStream EXCEPT !["R2I"] = NewStream("R2I")]
      /\ recvStream' = [recvStream EXCEPT !["I2R"] = NewStream("I2R")]
      /\ repeated' = TRUE
      /\ UNCHANGED <<suite, start, calls, sent, opened>>
    BY DEF AcceptAgain
<1>3. recvStream' = recvStream
    BY <1>1, <1>2 DEF StillInv, TypeOK, Dir, StreamDirection
<1>4. "R2I" \in Dir /\ NewStream("R2I") \in Stream
    BY NewStreamFacts DEF Dir, StreamDirection
<1>5. /\ sendStream' \in [Dir -> Stream]
      /\ sendStream'["R2I"] = NewStream("R2I")
      /\ \A b \in Dir : b # "R2I" => sendStream'[b] = sendStream[b]
    BY <1>1, <1>2, <1>4 DEF TypeOK
<1>6. BridgeTypeOK'
    BY <1>1, <1>2, <1>3, <1>5 DEF BridgeTypeOK, TypeOK
<1>7. \A b \in Dir : (\A n : ChainAt(b, n)' = ChainAt(b, n)) /\ Ctx(b)' = Ctx(b)
    BY <1>2 DEF ChainAt, Ctx
<1>8. SendKeyInv'
  <2>1. /\ start["R2I"] = 0
        /\ NewStream("R2I").sendCounter = 0
        /\ NewStream("R2I").chainKey = ChainAt("R2I", 0)
    <3>1. start["R2I"] = 0 /\ ChainAt("R2I", start["R2I"]) = InitialChainKey("R2I")
        BY <1>1, <1>4, ChainAtStart DEF StillInv
    <3>. QED BY <1>4, <3>1, NewStreamFacts
  <2>2. ASSUME NEW b \in Dir
        PROVE  /\ start[b] <= sendStream'[b].sendCounter
               /\ \/ sendStream'[b].chainKey = ChainAt(b, sendStream'[b].sendCounter)
                  \/ /\ sendStream'[b].sendCounter = MaxCounter
                     /\ Len(sendStream'[b].chainKey.steps) >= MaxCounter - start[b]
    <3>1. CASE b = "R2I"
        BY <1>5, <2>1, <3>1
    <3>2. CASE b # "R2I"
        BY <1>1, <1>5, <3>2 DEF SendKeyInv
    <3>. QED BY <3>1, <3>2
  <2>. QED BY <1>2, <1>7, <2>2 DEF SendKeyInv
<1>9. SentKeyInv' /\ SealedInv'
    BY <1>1, <1>2, <1>7 DEF BridgeInv, SentKeyInv, SealedInv
<1>10. OrderInv'
  <2>1. \A b \in Dir : ~Restarted(b)' => b # "R2I" /\ ~Restarted(b)
      BY <1>2 DEF Restarted
  <2>. QED BY <1>1, <1>2, <1>5, <2>1 DEF OrderInv
<1>11. StillInv' /\ OnlyOwnStream'
    BY <1>1, <1>2, <1>3 DEF BridgeInv, StillInv, OnlyOwnStream
<1>. QED BY <1>6, <1>8, <1>9, <1>10, <1>11 DEF BridgeInv

\* The invariant holds throughout every behaviour of the session object.
THEOREM BridgeInvariant == BridgeSpec => []BridgeInv
<1>1. BridgeInv /\ [BridgeNext]_bridgeVars => BridgeInv'
  <2>. SUFFICES ASSUME BridgeInv, [BridgeNext]_bridgeVars PROVE BridgeInv'
      OBVIOUS
  <2>1. CASE \E d \in Dir : Encrypt(d)
      BY <2>1, EncryptKeepsBridge
  <2>2. CASE \E d \in Dir, c \in Counter, s \in Deliverable : Decrypt(d, c, s)
      BY <2>2, DecryptKeepsBridge
  <2>3. CASE AcceptAgain
      BY <2>3, AcceptAgainKeepsBridge
  <2>4. CASE UNCHANGED bridgeVars
      BY <2>4 DEF bridgeVars, vars, BridgeInv, BridgeTypeOK, TypeOK, StillInv, SealedInv,
                  SendKeyInv, SentKeyInv, OrderInv, OnlyOwnStream, ChainAt, Ctx, Restarted
  <2>. QED BY <2>1, <2>2, <2>3, <2>4 DEF BridgeNext
<1>. QED BY <1>1, InitBridgeInv, PTL DEF BridgeSpec

\* The state of the object keeps its type.
THEOREM BridgeTypeCorrect == BridgeSpec => []BridgeTypeOK
<1>1. BridgeInv => BridgeTypeOK
    BY DEF BridgeInv
<1>. QED BY <1>1, BridgeInvariant, PTL

\* decrypt returns only what the peer encrypted for this stream, although it
\* keeps no record of what it has returned.
THEOREM BridgeStreamSeparation == BridgeSpec => []OnlyOwnStream
<1>1. BridgeInv => OnlyOwnStream
    BY DEF BridgeInv
<1>. QED BY <1>1, BridgeInvariant, PTL

\* With the window standing still, the counters of the first window open for
\* ever and no other ever does.
THEOREM OnlyFirstWindowOpens == BridgeSpec => []FirstWindowOpens
<1>1. ASSUME BridgeInv PROVE FirstWindowOpens
  <2>. SUFFICES ASSUME NEW d \in Dir, NEW e \in sent[d]
                PROVE  Openable(d, e) <=> e.counter < SkipWindowSize
      BY DEF FirstWindowOpens
  <2>1. TypeOK /\ SealedInv /\ SentKeyInv /\ StillInv
      BY <1>1 DEF BridgeInv, BridgeTypeOK
  <2>2. /\ recvStream[d].window = [recvExpected |-> 0, consumed |-> {}]
        /\ recvStream[d].window \in Window
        /\ e.counter \in Counter /\ e.counter \in Nat
        /\ SkipWindowSize \in Nat /\ SkipWindowSize <= MaxCounter
      BY <2>1, NewStreamFacts, CounterFacts, SkipWindowAssumption
      DEF StillInv, TypeOK, Envelope, Stream
  <2>3. ASSUME Openable(d, e) PROVE e.counter < SkipWindowSize
    <3>1. CanAccept(recvStream[d].window, e.counter) = "Ok"
        BY <2>3, OpenedIsAuthentic DEF Openable
    <3>. QED BY <2>2, <3>1, AcceptedIsFresh
  <2>4. ASSUME e.counter < SkipWindowSize PROVE Openable(d, e)
    <3>1. RecvKeyInv
      <4>1. \A b \in Dir : /\ recvStream[b].window.recvExpected = start[b]
                           /\ recvStream[b].chainKey = ChainAt(b, start[b])
                           /\ start[b] = 0
          BY <2>1, NewStreamFacts, ChainAtStart DEF StillInv
      <4>. QED BY <4>1 DEF RecvKeyInv
    <3>2. e.counter \notin Used(recvStream[d].window)
        BY <2>2 DEF Used
    <3>. QED BY <2>1, <2>2, <2>4, <3>1, <3>2, UnusedEnvelopeOpens
  <2>. QED BY <2>3, <2>4
<1>. QED BY <1>1, BridgeInvariant, PTL

\* No message key of the session serves two envelopes, except of the responder
\* when it has accepted the offer again.
THEOREM NoKeyReuseUnlessRepeated == BridgeSpec => []KeysUsedOnceUnlessRepeated
<1>1. ASSUME BridgeInv PROVE KeysUsedOnceUnlessRepeated
  <2>. SUFFICES ASSUME NEW d \in Dir, NEW b \in Dir,
                       NEW e \in sent[d], NEW f \in sent[b],
                       e.sealed.key = f.sealed.key
                PROVE  e = f \/ (Restarted(d) /\ d = b)
      BY DEF KeysUsedOnceUnlessRepeated
  <2>1. Ctx(d) = Ctx(b) /\ e.counter = f.counter
      BY <1>1 DEF BridgeInv, SealedInv
  <2>2. d = b
      BY <2>1 DEF Ctx
  <2>. QED BY <1>1, <2>1, <2>2 DEF BridgeInv, OrderInv
<1>. QED BY <1>1, BridgeInvariant, PTL

\* The sending key of the object derives no key it has encrypted under, with the
\* same exception.
THEOREM SenderForgetsKeys == BridgeSpec => []SenderForgets
<1>1. ASSUME BridgeInv PROVE SenderForgets
  <2>. SUFFICES ASSUME NEW d \in Dir, NEW e \in sent[d], ~Restarted(d)
                PROVE  ~Derives(sendStream[d].chainKey, e.sealed.key)
      BY DEF SenderForgets
  <2>1. TypeOK /\ SendKeyInv /\ SentKeyInv
      BY <1>1 DEF BridgeInv, BridgeTypeOK
  <2>2. e.counter < sendStream[d].sendCounter
      BY <1>1 DEF BridgeInv, OrderInv
  <2>. QED BY <2>1, <2>2, SentKeysAreGone
<1>. QED BY <1>1, BridgeInvariant, PTL
=============================================================================
