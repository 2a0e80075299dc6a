SPECIFICATION FairSpec
CONSTANTS
    Creators = {c1}
    Tools = {t1, t2}
    InputChunks = 2
    ResultChunks = 2
INVARIANTS
    OutcomeIsTrue
    OldFileKept
PROPERTIES
    ProgramsEnd
\* The programs end.
CHECK_DEADLOCK FALSE
