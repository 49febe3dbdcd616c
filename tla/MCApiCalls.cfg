SPECIFICATION Spec
CONSTANTS
  ReadErrs <- MCReadErrs
  EncodeErrs = {"INF"}
  WalkErrs = {"DEPTH"}
  SpliceErrs = {"DEPTH"}
  Fibers = {main, f1}
  MaxFrames = 2
SYMMETRY FiberSymmetry
INVARIANTS
  ReportsOwnOutcome
  ThrowModePreserves
  ThrowsOwnCode
  OffsetMatchesCode
