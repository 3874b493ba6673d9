SPECIFICATION SystemSpec
CONSTANTS
    Sessions = {s1}
    NoSession = NoSession
    Lifetimes <- ZeroOnly
    Callbacks = {FALSE}
    Storage = {TRUE}
    MaxAttempts = 1
    MaxFailures = 0
    MaxUnheard = 1
    MaxConcurrent = 1
    MaxChunks = 0
    MaxFaults = 1
    MaxRestarts = 1
    MaxLosses = 1
    MaxTimeouts = 1
INVARIANTS
    RevokedIsStopping
    AgreeAtRest
PROPERTIES
    ImplementsLedger
CHECK_DEADLOCK FALSE
