CONSTANTS
    Walks <- MCWalks
    IntBits = 8
    TMP = 3
    BUF = 4
    BadKeys <- MCBadKeys
    Sane <- MCSane
    NulKeys = {"N"}
    NumericKeys = {"1"}
    StackFaults = TRUE
SPECIFICATION Spec
INVARIANTS
    NothingLeaks
    DecodesExactly
    
CHECK_DEADLOCK FALSE
