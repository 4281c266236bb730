SPECIFICATION Spec
CONSTANTS
    m1 = m1
    m2 = m2
    m3 = m3
    A = A
    B = B
    Threads = {t1}
    NoThread = NoThread
    Classes = {A}
    NoClass = NoClass
    Methods = {m1, m2}
    ClassOf <- MCClassOf
    Fns = {f1}
    Offsets = {0}
    CodeOffsets = {0}
    Unhookable = {}
    SuspendGrants = {TRUE}
    Versions = {}
    Faults = {"capture", "memory", "redefine", "page", "init", "flag", "lookup"}
    MaxPages = 3
    MaxSerial = 3
INVARIANTS
    ArmedExactlyWhileTracked
    LiveMatchesRegistry
    FailedCallChangesNothing
    UnloadIsSafe
    FlagRestored
