SPECIFICATION FairSystemSpec
CONSTANTS
    Sessions = {s1}
    NoSession = NoSession
    Lifetimes <- ZeroAndPositive
    Callbacks = {FALSE}
    Storage = {FALSE}
    MaxAttempts = 1
    MaxFailures = 0
    MaxUnheard = 0
    MaxConcurrent = 1
    MaxChunks = 0
    MaxFaults = 0
    MaxRestarts = 1
    MaxLosses = 1
    MaxTimeouts = 1
INVARIANTS
    AgreeAtRest
PROPERTIES
    DeadlineSettles
    SentSettles
CHECK_DEADLOCK FALSE
