SPECIFICATION ScheduleSpec
CONSTANTS
    Nodes = {n1}
    Editors = {e1}
    NoEditor = NoEditor
    NoJob = NoJob
    Configs <- EachKind
    Horizon = 1
    MaxEvents = 2
CONSTRAINT FewOnTheWay
INVARIANTS
    CapHolds
    OnceRunsOnce
    JobsFollow
CHECK_DEADLOCK FALSE
