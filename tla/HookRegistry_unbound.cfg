SPECIFICATION FairSpec
CONSTANTS
    m1 = m1
    m2 = m2
    m3 = m3
    A = A
    B = B
    Threads = {t1}
    NoThread = NoThread
    Classes = {A}
    NoClass = NoClass
    Methods = {m1, m2}
    ClassOf <- MCClassOf
    Fns = {f1}
    Offsets = {0}
    CodeOffsets = {0}
    Unhookable = {}
    SuspendGrants = {TRUE}
    Versions = {1}
    Faults = {"callbacks", "suspend", "redefine", "register", "original"}
    MaxPages = 3
    MaxSerial = 3
INVARIANTS
    FailedCallKeepsHooks
PROPERTIES
    EveryCallReturns
