SPECIFICATION ConnectionFairSpec
CONSTANTS
    MaxConns = 2
    MaxEvents = 3
INVARIANTS ConnectionTypeOK InStep RefusedOnlyIfIntruded
PROPERTY CloseReported
\* The model stops when the bounds are spent, or with std::terminate.
CHECK_DEADLOCK FALSE
