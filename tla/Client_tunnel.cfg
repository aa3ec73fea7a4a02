SPECIFICATION FairSpec
CONSTANTS
    ResponseCap = 1
    MaxChunks = 3
    MaxFrames = 4
    MaxGets = 3
CHECK_DEADLOCK FALSE
INVARIANTS
    TypeOK
    WritesSerial
    NoChunkLost
    ReadsInOrder
    EofOnlyOnFailure
    OkOnlyWhenClosed
PROPERTIES
    ShutdownDrains
