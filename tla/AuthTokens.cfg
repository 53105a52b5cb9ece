\* One session, two connections, two request_ids, three token pairs.
SPECIFICATION Spec
CONSTANTS
    Sessions = {s1}
    Conns = {c1, c2}
    Requests = {r1, r2}
    None = None
    MaxGen = 3
SYMMETRY ConnSymmetry
INVARIANTS
    TypeOK
    HistoryComplete
    
PROPERTIES
    RevokedIsFinal
    NoSelfRevocation
CHECK_DEADLOCK FALSE
