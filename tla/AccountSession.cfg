\* Four authentication operations on every platform.
SPECIFICATION Spec
CONSTANTS
    Worlds <- Platforms
    MaxGen = 4
INVARIANTS
    AuthenticatedIsBound
    KickedHasNothing
PROPERTIES
    KickedIsFinal
    OutStaysOut
CHECK_DEADLOCK FALSE
