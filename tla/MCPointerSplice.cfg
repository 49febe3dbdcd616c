CONSTANTS
    Calls <- MCCalls
    Keys <- MCKeys
    Nodes <- MCNodes
    MaxSegments = 3
    BadKeys <- MCBadKeys
    Sane <- MCSane
    Faults = {"stack", "size"}
SPECIFICATION Spec
INVARIANTS
    PlanSettlesTheTarget
    RedecodesAtDepth
    LayoutMatchesNesting
PROPERTY AnswersAsPromised
CHECK_DEADLOCK FALSE
