\* One command and two login events.
SPECIFICATION Spec
CONSTANTS
    Cmds = {1}
    Readers = {"page"}
    Page = "page"
    MaxDbs = 2
    QueueCap = 1
    PoolSize = 1
    MaxFaults = 0
    Capacity = 1
PROPERTY ReconnectKeepsKernel
CHECK_DEADLOCK FALSE
