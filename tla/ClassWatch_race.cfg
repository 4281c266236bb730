SPECIFICATION FairSpec
CONSTANTS
    w1 = w1
    w2 = w2
    none = none
    Watches = {w1, w2}
    Names <- MCNames
    Keys <- SameName
    NoKey = none
    FaultSets <- MCFaultSets
INVARIANTS
    NoClassMissed
    ReadyNamesTheMethod
    EventsOnWhileUnresolved
PROPERTIES
    CapturedGetsResolved
    ReadyIsStable
