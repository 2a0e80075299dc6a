SPECIFICATION FairEngineSpec
CONSTANTS
    Readers = {r1, r2}
    Channels = {ch1, ch2}
    Lifetimes = {0, 1, 3}
    RetryDelay = 2
    SignBit = 4
INVARIANTS
    MutualExclusion
    TokenOutlivesCalls
    FreshToken
PROPERTIES
    EveryTokenReturned
    DestroyReturns
\* The engine is destroyed in the end, or an exception terminates the process.
CHECK_DEADLOCK FALSE
