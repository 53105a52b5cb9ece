\* Storing and signing work.
SPECIFICATION Spec
CONSTANTS
    Worlds <- Best
    MaxGen = 4
INVARIANTS
    NeverStuck
CHECK_DEADLOCK FALSE
