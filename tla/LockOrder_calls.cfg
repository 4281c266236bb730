CONSTANTS
    Callers = {"a", "b"}
    Loaders = {"x"}
    MaxCalls = 4
    MaxInits = 1
    Environment = {}
SPECIFICATION Spec
INVARIANTS
    NobodyWaitsInACircle
    StoppedThreadsHoldNoNeededLock
PROPERTIES
    CallsReturn
CHECK_DEADLOCK FALSE
