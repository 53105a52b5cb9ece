\* One message, every answer of the server, retry times before, at and after the lease, one
\* answer under way while another is handled, one fault of any kind.
SPECIFICATION FairSpec
CONSTANTS
    N = 1
    Lease = 1
    Limit = 1
    Backoffs = {1, 2}
    Results = {"SUCC", "FAIL", "REFUSED", "SERVER_ERROR"}
    MaxAnswers = 1
    MaxFaults = 1
INVARIANTS
    NothingLost
    StatusMatches
PROPERTIES
    SettledStays
    BackoffKept
    AlarmBringsRetry
CHECK_DEADLOCK FALSE
