SPECIFICATION Spec
CONSTANTS
    Bodies <- MCBodies
    HookLists <- MCHookLists
    MaxU2 = 31
INVARIANTS
    SameControlFlow
    SpansKept
    FramesAtTargets
    CallsWhereInstalled
    ReadsBack
