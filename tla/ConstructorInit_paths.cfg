CONSTANTS
    Bodies <- MCBodies
    AllocFails = TRUE
    PathBound = 24
SPECIFICATION Spec
INVARIANTS
    QueueHoldsTheMarked
    AgreesWithPaths
    FoundIsReal
    EndsInAFixedPoint
