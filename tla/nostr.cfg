SPECIFICATION Spec
CONSTANTS
    NRelays = 2
    Events = {e1}
    MaxConns = 3
    MaxFaults = 1
    maxRelayFailures = 3
    Window = 1
    Retention = 1
    MaxTime = 2
INVARIANTS TypeOK ClosedQuiet DeliveredOnce OneReader
CHECK_DEADLOCK FALSE
