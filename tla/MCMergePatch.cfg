CONSTANTS
    Inputs <- MCInputs
    InitialCap = 1
SPECIFICATION Spec
INVARIANTS
    MergesAsRFC7396
    DepthBoundsTheResult
    StackInBounds
CHECK_DEADLOCK FALSE
