SPECIFICATION Spec
CONSTANTS
    MaxSpeaks = 2
    MaxOther = 1
    MaxChunks = 2
    ChunkLengths = {1, 3}
    FrameLength = 2
    QueueBound = 1
    StopAllowed = FALSE
INVARIANTS
    CompleteMeansPlayed
\* The session ends when the channel is destroyed.
CHECK_DEADLOCK FALSE
