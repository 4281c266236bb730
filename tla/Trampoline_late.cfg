SPECIFICATION FairSpec
CONSTANTS
    Callers = {c1, c2, c3}
    Kinds = {"V", "Z", "B", "C", "S", "I", "J", "F", "D", "L", "["}
    Faults = {}
INVARIANTS
    LateCallReturnsZero
PROPERTIES
    DetourDrains
CHECK_DEADLOCK FALSE
