SPECIFICATION FairSpec
CONSTANTS
    MaxRequests = 2
    MaxOther = 1
    MaxPartials = 0
    MaxFrames = 0
    FeedThreshold = 2
    StopAllowed = TRUE
    MaxDisturbed = 1
INVARIANTS
    HarmIsExplained
PROPERTIES
    EveryRecognizeCompletes
\* The session ends when the channel is destroyed.
CHECK_DEADLOCK FALSE
