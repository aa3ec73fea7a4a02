SPECIFICATION Spec
CONSTANTS
    ResponseCap = 1
    MaxChunks = 3
    MaxFrames = 4
    MaxGets = 3
CHECK_DEADLOCK FALSE
INVARIANT
    OkOnlyWhenDropped
