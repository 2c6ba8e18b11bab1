CONSTANTS
    Chunks = 2
    AckInterval = 1
    CanTimeout = TRUE
    Wirings = {TRUE, FALSE}
    Faults = {"distrust", "forge", "send", "channel", "io", "early", "key", "cancel", "slow"}
    MaxFaults = 1
SPECIFICATION Spec
INVARIANTS TypeOK DoneMeansWhole AuthBeforeData AckedReceived
PROPERTIES TransfersEnd MutexReleased
CHECK_DEADLOCK FALSE
