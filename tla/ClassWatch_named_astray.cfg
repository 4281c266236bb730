SPECIFICATION Spec
CONSTANTS
    w1 = w1
    w2 = w2
    none = none
    Watches = {w1, w2}
    Names <- MCNames
    Keys <- TwoNames
    NoKey = none
    FaultSets = {{}}
INVARIANTS
    NamedWatchFindsItsClass
