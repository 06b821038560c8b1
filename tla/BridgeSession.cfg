\* Window 2 over the counters 0 to 3: four envelopes per direction run through
\* the window and into the exhausted counter, and the offer may be repeated
\* before, between and after them.
CONSTANTS
    SkipWindowSize = 2
    MaxCounter = 3
    Starts = {0}
    MaxCalls = 4
    MaxReturns = 2
SPECIFICATION BridgeSpec
INVARIANTS
    FirstWindowOpens
    KeysUsedOnceUnlessRepeated
    SenderForgets
\* The applications stop calling encrypt after MaxCalls.
CHECK_DEADLOCK FALSE
