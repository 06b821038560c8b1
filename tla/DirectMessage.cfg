\* Window 3 over the counters 0 to 6: five envelopes per direction are more
\* than a window, and a stream that starts at 3 meets the end of the range.
CONSTANTS
    SkipWindowSize = 3
    MaxCounter = 6
    Starts = {0, 3}
    MaxCalls = 5
SPECIFICATION FairSpec
INVARIANTS
    TypeOK
    AtMostOnce
    OnlyOwnStream
    CountersAndKeysUsedOnce
    GenuineOpens
    ForwardSecrecy
PROPERTIES
    KeepsPromise
    EverythingOpens
\* The applications stop calling encrypt after MaxCalls.
CHECK_DEADLOCK FALSE
