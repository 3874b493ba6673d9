SPECIFICATION CrewSpec
CONSTANTS
    Sessions = {s1, s2}
    NoSession = NoSession
    MaxConcurrent = 1
    MaxChunks = 1
    MaxFaults = 1
    MaxRestarts = 1
SYMMETRY Symmetry
INVARIANTS
    StillStoppable
    SlotsConserved
    OverBudgetNeverEnds
    LastWordIsTerminal
    CrewInv
PROPERTIES
    VariablesBeforeEnd
