----------------------------- MODULE SkipWindow -----------------------------
(***************************************************************************)
(* The skip-window of rust/c6p-sessions/src/replay.rs as a value: the next *)
(* expected counter and the set of counters beyond it that were consumed   *)
(* out of order.  StreamState embeds this value; SkipWindowBitmap shows    *)
(* that the 32 x u64 bitmap of the code computes exactly these operators.  *)
(*                                                                         *)
(* Counters are u64.  `recv_expected + SKIP_WINDOW_DM_V1' is an unchecked  *)
(* u64 addition, which wraps in a release build: Wrap64 is that addition.  *)
(***************************************************************************)
EXTENDS Integers

CONSTANTS
    SkipWindowSize,   \* SKIP_WINDOW_DM_V1, 2048 in the code
    MaxCounter        \* u64::MAX

ASSUME SkipWindowAssumption ==
    /\ SkipWindowSize \in Nat \ {0}
    /\ MaxCounter \in Nat
    /\ SkipWindowSize <= MaxCounter

Counter == 0 .. MaxCounter

Wrap64(n) == IF n > MaxCounter THEN n - (MaxCounter + 1) ELSE n

\* `consumed' holds the counters whose bit is set in the bitmap.
Window == [recvExpected : Counter, consumed : SUBSET Counter]

NewWindow(start) == [recvExpected |-> start, consumed |-> {}]

\* The exclusive upper bound the code compares counters with.
UpperEdge(w) == Wrap64(w.recvExpected + SkipWindowSize)

IsConsumed(w, c) == c >= w.recvExpected /\ c < UpperEdge(w) /\ c \in w.consumed

Verdicts == {"Ok", "ReplayDetected", "SkipWindowOverflow"}

CanAccept(w, c) ==
    CASE c < w.recvExpected                        -> "ReplayDetected"
      [] c >= w.recvExpected /\ c < UpperEdge(w)   ->
            IF IsConsumed(w, c) THEN "ReplayDetected" ELSE "Ok"
      [] c >= w.recvExpected /\ c >= UpperEdge(w)  -> "SkipWindowOverflow"

\* The first counter from r on, at most a whole window further, that is not in S.
FirstUnconsumed(S, r) ==
    CHOOSE g \in r .. r + SkipWindowSize :
        /\ g = r + SkipWindowSize \/ g \notin S
        /\ \A c \in r .. g - 1 : c \in S

\* A plausible slip: the window moves by one even when later counters of the
\* run were already consumed out of order.
AdvanceByOne(w) ==
    [recvExpected |-> w.recvExpected + 1,
     consumed     |-> {c \in w.consumed : c > w.recvExpected}]

\* A plausible slip: the bits are cleared instead of moved, so that what was
\* consumed ahead of the run may come again.
AdvanceClears(w) ==
    [recvExpected |-> FirstUnconsumed(w.consumed, w.recvExpected), consumed |-> {}]

\* Moves recv_expected over the contiguous run of consumed counters it stands
\* on and drops the bits the window leaves behind.
AdvanceWindow(w) ==
    LET g == FirstUnconsumed(w.consumed, w.recvExpected)
    IN  [recvExpected |-> g, consumed |-> {c \in w.consumed : c >= g}]

\* mark_consumed repeats the checks of can_accept; a counter that fails them
\* leaves the window as it is.
MarkConsumed(w, c) ==
    LET marked == [w EXCEPT !.consumed = @ \cup {c}]
    IN  IF CanAccept(w, c) # "Ok" THEN w
        ELSE IF c = w.recvExpected THEN AdvanceWindow(marked)
        ELSE marked
=============================================================================
