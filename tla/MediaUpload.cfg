SPECIFICATION Spec
CONSTANTS
    ChunkCount = 2
    MaxSessions = 2
    MaxChallenges = 2
    IsImage = FALSE
    Threads = {t1, t2}
    Callers = {p1}
    Pumps = {p1}
    Nobody = Nobody
    MaxFaults = 1
INVARIANTS
    
    FinalizedHasFile
    SentHasCard
PROPERTIES
    AttemptSucceeds
CHECK_DEADLOCK FALSE
