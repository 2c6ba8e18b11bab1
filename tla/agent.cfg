SPECIFICATION Spec
CONSTANTS
    a = a
    b = b
    Agents = {a, b}
    Calls <- MCCalls
    Rekeys <- MCRekeys
    Strangers = {b}
    Absent = {"d1", "d2"}
    MaxNotes = 4
    MaxCachePerDest = 2
    MaxCacheGlobal = 3
    RekeyAfter = 2
    MaxFaults = 1
    MayTimeOut = TRUE
    Keyed = TRUE
    Misreads = TRUE
CHECK_DEADLOCK FALSE
INVARIANTS
    TypeOK
    PendingExact
    AnswerIsOwn
    CacheBounded
PROPERTIES
    RequestReturns
