CONSTANTS
    MaxCount = 50
    MaxEdits = 3
    MaxParameters = 4
    MaxDescriptor = 43
    LongNames = {"Vast"}
    Classes <- MCClasses
    Calls <- MCCalls
    Faults = {"copy", "append", "load", "store"}
SPECIFICATION Spec
INVARIANTS
    BodiesStayWithTheirMethods
    InsertedCodeVerifies
PROPERTIES
    FailedEditKeepsTheClass
    OldIndicesKeepTheirMeaning
CHECK_DEADLOCK FALSE
