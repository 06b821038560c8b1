\* A send that fails because the counter is exhausted or the negotiated suite
\* is not implemented.
CONSTANTS
    SkipWindowSize = 3
    MaxCounter = 7
    Starts = {0, 7}
    MaxCalls = 2
SPECIFICATION Spec
PROPERTY
    FailedSendKeepsState
CHECK_DEADLOCK FALSE
