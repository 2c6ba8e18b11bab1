CONSTANTS
    Agents = {1, 2}
    Conns = {1, 2, 3, 4}
    Calls <- Crossing
    None = None
    InitAllowed <- Everyone
    Keyless = {}
    CanTimeout = TRUE
    Faults = {}
    MaxFaults = 0
    CanStop = {2}
SPECIFICATION Spec
INVARIANTS RegisteredHasSession
PROPERTIES ConnectReturns PendingResolved StopTerminates
CHECK_DEADLOCK FALSE
