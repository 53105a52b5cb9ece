\* Both scenarios, every message transmitted up to twice.
SPECIFICATION Spec
CONSTANTS
    a = a
    b = b
    a1 = a1
    b1 = b1
    b2 = b2
    m1 = m1
    m2 = m2
    None = None
    Users = {a, b}
    Conns = {a1, b1, b2}
    Msgs = {m1, m2}
    MediaMsgs = {m2}
    From <- FromOf
    To <- ToOf
    Home <- HomeOf
    Unfriend = {{a, b}}
    MaxQueue = 1
    MaxSends = 2
    MaxRestarts = 1
INVARIANTS
    TypeOK
    SeqDense
    OnlineReachable
PROPERTIES
    RowsAreFinal
CONSTRAINT Scenario
CHECK_DEADLOCK FALSE
