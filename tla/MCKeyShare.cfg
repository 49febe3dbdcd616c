SPECIFICATION Spec
CONSTANTS
  Keys <- MCKeys
  LongKeys <- MCLong
  NumericKeys <- MCNumeric
  Hash <- MCHash
  SLOTS = 8
  KEY_CAP = 3
  PROBES = 2
  MISS_MARGIN = 0
  Addrs = {a1, a2}
  NULL = NULL
  MaxNest = 2
  MaxMembers = 5
INVARIANTS
  NoDeadFrame
  UsedIsOccupied
  OneStringPerKey
  RefcountsBalance
PROPERTIES
  ResidentKeysAreShared
