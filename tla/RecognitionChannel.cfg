SPECIFICATION Spec
CONSTANTS
    MaxRequests = 2
    MaxOther = 0
    MaxPartials = 1
    MaxFrames = 3
    FeedThreshold = 2
    StopAllowed = FALSE
    MaxDisturbed = 1
INVARIANTS
    AnnouncedOnce
    CompletedIsQuiet
    StaleAudioBounded
    NoWildPointer
\* The session ends when the channel is destroyed.
CHECK_DEADLOCK FALSE
