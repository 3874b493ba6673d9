SPECIFICATION FairCrewSpec
CONSTANTS
    Sessions = {s1, s2}
    NoSession = NoSession
    MaxConcurrent = 1
    MaxChunks = 0
    MaxFaults = 1
    MaxRestarts = 0
PROPERTIES
    AcceptedIsAnswered
