SPECIFICATION ScheduleSpec
CONSTANTS
    Nodes = {n1}
    Editors = {e1}
    NoEditor = NoEditor
    NoJob = NoJob
    Configs <- OnceOrForever
    Horizon = 1
    MaxEvents = 2
INVARIANTS
    ReconcileReplaces
CHECK_DEADLOCK FALSE
