SPECIFICATION FairGraphSpec
CONSTANTS
    s1 = s1
    Messages <- Three
    Sessions = {s1}
    NoSession = NoSession
    Names = {h1, h2}
    FirstName = h1
    SessionOf <- OneSession
    KindChoices <- Stories
    BatchSize = 2
    MaxLen = 2
    IsolateAfter = 2
    FastRetries = 1
    MaxFailures = 1
INVARIANTS
    GraphTypeOK
    CountedOnce
    AcknowledgedIsDone
    TotalComplete
    SubgraphsComplete
    EndIsLast
PROPERTIES
    StoredInOrder
    ImplementsLog
    EntriesAreSettled
