CONSTANTS
    Agents = {1, 2}
    Conns = {1, 2, 3, 4}
    Calls <- Crossing
    None = None
    InitAllowed <- OneSided
    Keyless = {1}
    CanTimeout = TRUE
    Faults = {"transport", "answer", "dtls", "send", "session", "loss", "link", "revoke"}
    MaxFaults = 1
    CanStop = {}
SPECIFICATION Spec
INVARIANTS TypeOK PendingNotRegistered NilMeansRegistered GateRespected
CHECK_DEADLOCK FALSE
