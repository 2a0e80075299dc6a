SPECIFICATION FairSpec
CONSTANTS
    MaxMessages = 4
INVARIANTS
    FileIsAudio
    DestroyedIsUnused
PROPERTIES
    MainReturns
\* The program ends.
CHECK_DEADLOCK FALSE
