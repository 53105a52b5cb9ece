\* Two commands, the page and another reader sharing one connection, two openings, one fault.
SPECIFICATION FairSpec
CONSTANTS
    Cmds = {1, 2}
    Readers = {"page", "search"}
    Page = "page"
    MaxDbs = 2
    QueueCap = 1
    PoolSize = 1
    MaxFaults = 1
    Capacity = 2
INVARIANTS
    TypeOK
    UseWhileOpen
    OneWriter
    TruthfulAnswer
PROPERTIES
    NothingHangs
    PageCatchesUp
CHECK_DEADLOCK FALSE
