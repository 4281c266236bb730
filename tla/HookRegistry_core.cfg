SPECIFICATION Spec
CONSTANTS
    m1 = m1
    m2 = m2
    m3 = m3
    A = A
    B = B
    Threads = {t1, t2}
    NoThread = NoThread
    Classes = {A, B}
    NoClass = NoClass
    Methods = {m1, m2, m3}
    ClassOf <- MCClassOf
    Fns = {f1}
    Offsets = {0, 1}
    CodeOffsets = {0}
    Unhookable = {}
    SuspendGrants = {TRUE, FALSE}
    Versions = {}
    Faults = {"disarm"}
    MaxPages = 3
    MaxSerial = 3
INVARIANTS
    BodyRunsInitialized
    RebuildHasItsBytes
    OneDetourPerMethod
    NoUnboundWhileRunning
    InstallOrderKept
PROPERTIES
    ImplementsHookTable
