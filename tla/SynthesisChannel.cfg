SPECIFICATION FairSpec
CONSTANTS
    MaxSpeaks = 1
    MaxOther = 1
    MaxChunks = 2
    ChunkLengths = {1, 3}
    FrameLength = 2
    QueueBound = 4
    StopAllowed = TRUE
INVARIANTS
    CompleteMeansPlayed
    NoWildPointer
    OutcomeMeansIdle
PROPERTIES
    EverySpeakCompletes
\* The session ends when the channel is destroyed.
CHECK_DEADLOCK FALSE
