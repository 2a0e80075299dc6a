SPECIFICATION Spec
CONSTANTS
    MaxSpeaks = 2
    MaxOther = 1
    MaxChunks = 1
    ChunkLengths = {1, 3}
    FrameLength = 2
    QueueBound = 3
    StopAllowed = TRUE
INVARIANTS
    AudioInOrder
    SilencedByLeftoverStop
\* The session ends when the channel is destroyed.
CHECK_DEADLOCK FALSE
