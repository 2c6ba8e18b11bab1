SPECIFICATION Spec
CONSTANTS
    NRelays = 1
    Events = {e1}
    MaxConns = 4
    MaxFaults = 2
    maxRelayFailures = 3
    Window = 0
    Retention = 0
    MaxTime = 0
PROPERTIES CloseReturns RelayReadAgain
CHECK_DEADLOCK FALSE
