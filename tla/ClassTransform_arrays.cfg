CONSTANTS
    MaxCount = 60
    MaxEdits = 2
    MaxParameters = 4
    MaxDescriptor = 43
    LongNames = {"Vast"}
    Classes <- MCArrayClasses
    Calls <- MCArrayCalls
    Faults = {}
SPECIFICATION Spec
INVARIANT InsertedCodeVerifies
CHECK_DEADLOCK FALSE
