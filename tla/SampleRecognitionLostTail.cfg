SPECIFICATION Spec
CONSTANTS
    FileChunks = 2
    MaxResponses = 1
INVARIANTS
    AllAudioSent
\* The program ends.
CHECK_DEADLOCK FALSE
