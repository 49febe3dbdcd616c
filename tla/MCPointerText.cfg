CONSTANTS
    Chars <- MCChars
    Pointers <- MCPointers
    DepthLimits = {0, 2}
    SegmentLimit = 3
    MaxDigits = 3
    SizeMax = 255
SPECIFICATION ParseSpec
INVARIANTS
    WritesInBounds
    ParsesThePointer
    IndexIsTheNumeral
CHECK_DEADLOCK FALSE
