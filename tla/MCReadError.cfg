CONSTANTS
    Reads <- MCReads
    WordSize = 3
SPECIFICATION CallSpec
INVARIANTS
    AcceptsExactly
    
CHECK_DEADLOCK FALSE
