\* The bound of the header comment against the bound of the code.
CONSTANTS
    WordBits = 2
    Words = 2
    SkipWindowSize = 4
    MaxCounter = 15
    Starts = {0}
SPECIFICATION Spec
INVARIANT
    HeaderRule
