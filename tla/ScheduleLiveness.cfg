SPECIFICATION FairScheduleSpec
CONSTANTS
    Nodes = {n1}
    Editors = {e1}
    NoEditor = NoEditor
    NoJob = NoJob
    Configs <- EachKind
    Horizon = 1
    MaxEvents = 1
INVARIANTS
    ScheduleInv
PROPERTIES
    SwitchedOff
CHECK_DEADLOCK FALSE
