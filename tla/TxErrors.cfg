SPECIFICATION ErrSpec
CONSTANTS
    MaxCalls = 4
    MaxDepth = 3
    MaxLines = 7
INVARIANTS
    NeverAnotherError
    OwnErrorIsReported
CHECK_DEADLOCK FALSE
