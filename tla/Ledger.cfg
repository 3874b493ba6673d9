SPECIFICATION FairLedgerSpec
CONSTANTS
    Sessions = {s1}
    NoSession = NoSession
    Lifetimes <- ZeroAndPositive
    Callbacks = {TRUE, FALSE}
    Storage = {TRUE, FALSE}
    MaxAttempts = 2
    MaxFailures = 2
    MaxUnheard = 2
INVARIANTS
    RevokedOnlyIfFinished
    LedgerInv
PROPERTIES
    KeepsContract
    OnlyRequestsRestamp
    DecidedIsTried
    CallbackIsSettled
