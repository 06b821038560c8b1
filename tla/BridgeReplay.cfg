\* One message is enough to deliver it twice.
CONSTANTS
    SkipWindowSize = 3
    MaxCounter = 7
    Starts = {0}
    MaxCalls = 2
    MaxReturns = 2
SPECIFICATION BridgeSpec
INVARIANT
    ReplayProtection
CHECK_DEADLOCK FALSE
