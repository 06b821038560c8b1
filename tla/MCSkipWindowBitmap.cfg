\* W = 9 in three words of three bits: shifts within a word, across a word
\* boundary, by whole words and of the whole window all happen.  The counters
\* reach the last window of the range, where recv_expected + W wraps.
CONSTANTS
    WordBits = 3
    Words = 3
    SkipWindowSize = 9
    MaxCounter = 24
    Starts = {0, 14}
SPECIFICATION Spec
INVARIANTS
    TypeOK
    BitmapIsHistory
    AcceptsExactlyTheWindow
PROPERTIES
    ComputesMarkConsumed
    KeepsPromise
