CONSTANTS
    Jobs <- MCJobs
    THRESHOLD = 3
    ALWAYS = 6
    NONASCII = 12
    CHUNK = 4
    WORD = 2
    SHARE = 3
    ZSTR_MAX_LEN = 46
SPECIFICATION EmitSpec
INVARIANTS
    StaysInCapacity
    WritesTheString
    HexesExactly
CHECK_DEADLOCK FALSE
