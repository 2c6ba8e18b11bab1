SPECIFICATION Spec
CONSTANTS
    a = a
    b = b
    Agents = {a, b}
    Calls <- MCCalls
    Rekeys <- MCNoRekeys
    Strangers = {}
    Absent = {"d1", "d2"}
    MaxNotes = 0
    MaxCachePerDest = 2
    MaxCacheGlobal = 3
    RekeyAfter = 2
    MaxFaults = 0
    MayTimeOut = FALSE
    Keyed = FALSE
    Misreads = FALSE
CHECK_DEADLOCK FALSE
PROPERTIES
    RequestHandled
