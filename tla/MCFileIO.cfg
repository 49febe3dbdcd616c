SPECIFICATION Spec
CONSTANT MaxBytes = 6
INVARIANTS
  ClosedExactlyOnce
  InOrder
  SuccessIsWhole
  NothingSwallowed
PROPERTY
  Terminates
