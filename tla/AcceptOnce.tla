----------------------------- MODULE AcceptOnce -----------------------------
(***************************************************************************)
(* What replay protection promises for the streams of a session, without   *)
(* any mention of windows, bitmaps or keys: on each stream a counter is    *)
(* accepted at most once, never below the first gap, and never a whole     *)
(* window or more beyond it, as can_accept of replay.rs has it (HeaderRule *)
(* of SkipWindowBitmap is about documents that allow one counter more).    *)
(* SkipWindowBitmap and DirectMessage are shown to implement this          *)
(* specification.                                                          *)
(***************************************************************************)
EXTENDS Integers

CONSTANTS
    Streams,
    WindowSize,     \* how far beyond the first gap a counter may be accepted
    CounterSpace    \* all counters

VARIABLES
    start,      \* the first counter of each stream
    accepted    \* how often each counter was accepted on each stream

\* The least counter of stream s that has not been accepted yet.
FirstGap(s) ==
    CHOOSE g \in CounterSpace :
        /\ g >= start[s] /\ accepted[s][g] = 0
        /\ \A c \in CounterSpace : (start[s] <= c /\ c < g) => accepted[s][c] > 0

Accept(s, c) ==
    /\ accepted[s][c] = 0
    /\ accepted' = [accepted EXCEPT ![s][c] = 1]
    /\ FirstGap(s) <= c
    /\ c < FirstGap(s) + WindowSize
    /\ UNCHANGED start

Init ==
    /\ start \in [Streams -> CounterSpace]
    /\ accepted = [s \in Streams |-> [c \in CounterSpace |-> 0]]

Next == \E s \in Streams, c \in CounterSpace : Accept(s, c)

Spec == Init /\ [][Next]_<<start, accepted>>
=============================================================================
