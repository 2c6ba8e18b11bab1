CONSTANTS
    Agents = {1, 2}
    Conns = {1, 2, 3, 4}
    Calls <- Crossing
    None = None
    InitAllowed <- Everyone
    Keyless = {}
    CanTimeout = FALSE
    Faults = {}
    MaxFaults = 0
    CanStop = {}
SPECIFICATION Spec
PROPERTIES ConnectLinks
CHECK_DEADLOCK FALSE
