SPECIFICATION FairSpec
CONSTANTS
    FileChunks = 3
    MaxResponses = 2
INVARIANTS
    OneOpPerDirection
PROPERTIES
    NothingAfterLostWrite
    ImplementsStream
    CallDrains
\* The program ends.
CHECK_DEADLOCK FALSE
