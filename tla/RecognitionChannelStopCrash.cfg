SPECIFICATION Spec
CONSTANTS
    MaxRequests = 1
    MaxOther = 1
    MaxPartials = 3
    MaxFrames = 0
    FeedThreshold = 2
    StopAllowed = TRUE
    MaxDisturbed = 1
INVARIANTS
    StopIsAnswered
\* The session ends when the channel is destroyed.
CHECK_DEADLOCK FALSE
