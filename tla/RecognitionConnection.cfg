SPECIFICATION FairSpec
CONSTANTS
    MaxFeeds = 2
    MaxResponses = 2
INVARIANTS
    TypeOK
    OneWriteSideOp
    OneRead
    AudioConserved
    FinishOnce
    OneLateCallback
PROPERTIES
    NoWriteAfterWritesDone
    KeepsContract
    ImplementsStream
    ErrorReported
    Drains
\* A connection whose operations have drained stops for good.
CHECK_DEADLOCK FALSE
