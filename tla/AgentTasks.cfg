SPECIFICATION FairAgentSpec
CONSTANTS
    Requests = {r1}
    Agents = {a1, a2}
    NoAgent = NoAgent
    Slots = 1
    MaxCalls = 2
    MaxFailures = 2
INVARIANTS
    AgentTypeOK
    NothingLost
    WithdrawnStops
    EventsAllHeard
PROPERTIES
    NothingStays
    EntriesEnd
CHECK_DEADLOCK FALSE
