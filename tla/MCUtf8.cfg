CONSTANTS
    Texts <- MCTexts
    WordSize = 2
SPECIFICATION Spec
INVARIANTS
    ValidatorsAgree
    SanitizesExactly
CHECK_DEADLOCK FALSE
