-------------------------- MODULE SkipWindowBitmap --------------------------
(***************************************************************************)
(* rust/c6p-sessions/src/replay.rs at the level of its bitmap: an array of *)
(* machine words, each word the set of its one-bits, with the word-aligned *)
(* and the bit-aligned shift of slide_bitmap.  The module is checked       *)
(* against the set-valued SkipWindow and against AcceptOnce.               *)
(***************************************************************************)
EXTENDS SkipWindow

CONSTANTS
    WordBits,   \* bits of a word, 64 in the code
    Words,      \* BITMAP_SIZE, 32 in the code
    Starts      \* the counters a window is created at (new, with_expected)

ASSUME BitmapAssumption ==
    /\ WordBits \in Nat \ {0} /\ Words \in Nat \ {0}
    /\ SkipWindowSize = Words * WordBits
    /\ Starts \subseteq Counter

VARIABLES
    recvExpected,   \* SkipWindow.recv_expected
    bits,           \* SkipWindow.consumed, one set of one-bits per word
    start,          \* history: the counter the window was created at
    accepted        \* history: how often each counter was marked consumed

vars == <<recvExpected, bits, start, accepted>>

Word == SUBSET (0 .. WordBits - 1)
NoBits == [i \in 0 .. Words - 1 |-> {}]

(***************************************************************************)
(* Word and bitmap operations.                                             *)
(***************************************************************************)
ShiftRight(w, k) == {b - k : b \in {x \in w : x >= k}}

\* A release build masks the shift amount: << 64 on a u64 shifts by 0.
ShiftLeft(w, k) ==
    LET n == k % WordBits IN {b + n : b \in {x \in w : x + n < WordBits}}

BitSet(bm, offset) == offset % WordBits \in bm[offset \div WordBits]

SetBit(bm, offset) ==
    [bm EXCEPT ![offset \div WordBits] = @ \cup {offset % WordBits}]

\* A plausible slip: the separate loop for word-aligned shifts is dropped, so
\* that a shift by whole words also ORs in the next word, shifted by 64 - 0.
SlideUnaligned(bm, shift) ==
    LET skip    == shift \div WordBits
        n       == shift % WordBits
        word(i) == IF i < Words THEN bm[i] ELSE {}
    IN  IF shift >= SkipWindowSize THEN NoBits
        ELSE [i \in 0 .. Words - 1 |->
                 ShiftRight(word(i + skip), n)
                     \cup ShiftLeft(word(i + skip + 1), WordBits - n)]

\* A plausible slip: the bits that cross a word boundary are lost.
SlideWithinWords(bm, shift) ==
    LET skip    == shift \div WordBits
        word(i) == IF i < Words THEN bm[i] ELSE {}
    IN  [i \in 0 .. Words - 1 |-> ShiftRight(word(i + skip), shift % WordBits)]

SlideBitmap(bm, shift) ==
    LET skip    == shift \div WordBits
        n       == shift % WordBits
        word(i) == IF i < Words THEN bm[i] ELSE {}
    IN  CASE shift >= SkipWindowSize -> NoBits
          [] shift < SkipWindowSize /\ n = 0 ->
                [i \in 0 .. Words - 1 |-> word(i + skip)]
          [] shift < SkipWindowSize /\ n # 0 ->
                [i \in 0 .. Words - 1 |->
                    ShiftRight(word(i + skip), n)
                        \cup ShiftLeft(word(i + skip + 1), WordBits - n)]

\* The length of the run of one-bits at offset 0.
AdvanceCount(bm) ==
    CHOOSE n \in 0 .. SkipWindowSize :
        /\ n = SkipWindowSize \/ ~BitSet(bm, n)
        /\ \A o \in 0 .. n - 1 : BitSet(bm, o)

\* A plausible slip: the bound is computed in a wider integer, so that the end
\* of the u64 range is no limit any more.
EdgeWide == recvExpected + SkipWindowSize

\* A plausible slip: the window ends one counter early.
EdgeShort == Wrap64(recvExpected + SkipWindowSize - 1)

Edge == Wrap64(recvExpected + SkipWindowSize)

\* A plausible slip: a consumed counter inside the window is let through.
VerdictRangeOnly(c) ==
    CASE c < recvExpected                      -> "ReplayDetected"
      [] c >= recvExpected /\ c < Edge         -> "Ok"
      [] c >= recvExpected /\ c >= Edge        -> "SkipWindowOverflow"

Verdict(c) ==
    CASE c < recvExpected -> "ReplayDetected"
      [] c >= recvExpected /\ c < Edge ->
            IF BitSet(bits, c - recvExpected) THEN "ReplayDetected" ELSE "Ok"
      [] c >= recvExpected /\ c >= Edge -> "SkipWindowOverflow"

(***************************************************************************)
(* The state machine: can_accept followed by mark_consumed, as every       *)
(* receiver calls them; a refused counter changes nothing.                 *)
(***************************************************************************)
Init ==
    /\ start \in Starts
    /\ recvExpected = start
    /\ bits = NoBits
    /\ accepted = [c \in Counter |-> 0]

Consume(c) ==
    LET marked == SetBit(bits, c - recvExpected)
        count  == AdvanceCount(marked)
    IN  /\ Verdict(c) = "Ok"
        /\ accepted' = [accepted EXCEPT ![c] = @ + 1]
        /\ IF c = recvExpected
           THEN /\ recvExpected' = recvExpected + count
                /\ bits' = SlideBitmap(marked, count)
           ELSE /\ bits' = marked
                /\ UNCHANGED recvExpected
        /\ UNCHANGED start

Refuse(c) == Verdict(c) # "Ok" /\ UNCHANGED vars

Next == \E c \in Counter : Consume(c) \/ Refuse(c)

Spec == Init /\ [][Next]_vars

(***************************************************************************)
(* Properties.                                                             *)
(***************************************************************************)
\* Every word stays a word of WordBits bits and recv_expected stays a u64
\* (the `expect' of advance_window cannot fire).
TypeOK ==
    /\ recvExpected \in Counter
    /\ bits \in [0 .. Words - 1 -> Word]
    /\ start \in Starts
    /\ accepted \in [Counter -> Nat]

Accepted == {c \in Counter : accepted[c] > 0}

\* After any number of slides the bitmap is the history: bit o is set exactly
\* when counter recv_expected + o was accepted, everything between the start
\* and recv_expected was accepted, and recv_expected itself was not, so a run
\* of consumed counters never stays at the front of the window.
BitmapIsHistory ==
    /\ \A o \in 0 .. SkipWindowSize - 1 :
           BitSet(bits, o) <=> recvExpected + o \in Accepted
    /\ \A c \in start .. recvExpected - 1 : c \in Accepted
    /\ recvExpected \notin Accepted

\* Wherever the window does not reach the end of the u64 range, a counter is
\* accepted exactly when it lies in [recv_expected, recv_expected + window)
\* and was never accepted before (doc comment of can_accept and its test
\* test_window_edge); in the last window of the range nothing is accepted at
\* all.  Other documents let one more counter in: see HeaderRule.
AcceptsExactlyTheWindow ==
    \A c \in Counter :
        Verdict(c) = "Ok" <=>
            /\ recvExpected + SkipWindowSize <= MaxCounter
            /\ recvExpected <= c
            /\ c < recvExpected + SkipWindowSize
            /\ c \notin Accepted

\* The bitmap read as the value of module SkipWindow.
AsWindow ==
    [recvExpected |-> recvExpected,
     consumed     |-> {recvExpected + o : o \in
                          {x \in 0 .. SkipWindowSize - 1 : BitSet(bits, x)}}]

\* Every step of the bitmap computes what MarkConsumed says of the set, so the
\* modules that embed SkipWindow model this code.
ComputesMarkConsumed ==
    [][\E c \in Counter : AsWindow' = MarkConsumed(AsWindow, c)]_vars

\* The bitmap keeps the promise of AcceptOnce for its one stream.
TheStream == {"stream"}
Promise == INSTANCE AcceptOnce
               WITH Streams <- TheStream,
                    start <- [s \in TheStream |-> start],
                    accepted <- [s \in TheStream |-> accepted],
                    WindowSize <- SkipWindowSize, CounterSpace <- Counter

KeepsPromise == Promise!Spec

\* The rule of the header of replay.rs, line 20, of sections 3.2, 3.3 and 5.1
\* of c6p-replay-and-skip-window.md, of the nonce policy and of the state
\* machine of a DM: the counter exactly one window ahead of recv_expected is
\* still inside, unless it was consumed.
HeaderRule ==
    \A c \in Counter :
        /\ recvExpected < c
        /\ c <= recvExpected + SkipWindowSize
        /\ c \notin Accepted
        => Verdict(c) = "Ok"
=============================================================================
