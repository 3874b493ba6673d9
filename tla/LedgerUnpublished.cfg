SPECIFICATION LedgerSpec
CONSTANTS
    Sessions = {s1}
    NoSession = NoSession
    Lifetimes <- ZeroAndPositive
    Callbacks = {TRUE}
    Storage = {FALSE}
    MaxAttempts = 2
    MaxFailures = 0
    MaxUnheard = 1
PROPERTIES
    UnpublishedIsEnqueued
