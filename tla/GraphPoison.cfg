SPECIFICATION FairGraphSpec
CONSTANTS
    s1 = s1
    Messages <- Three
    Sessions = {s1}
    NoSession = NoSession
    Names = {h1}
    FirstName = h1
    SessionOf <- OneSession
    KindChoices <- Poison
    BatchSize = 2
    MaxLen = 3
    IsolateAfter = 3
    FastRetries = 1
    MaxFailures = 0
PROPERTY
    PoisonIsDropped
