SPECIFICATION Spec
CONSTANTS
  Key <- FirstKeys
  IntMin <- MinInt16
  IntMax <- MaxInt16
  SSTSize = 3
  TupleSize = 1
  FPInterval = 1
  BFNumTuples = 3
  BitsPerElement = 8
  Bit <- MCBits
  Hash <- MCHash
  StringSlots = {"own", "shared"}
  HeapKeys = {}
  MaxBuffer = 0
  MaxRunsScanned = 1
INVARIANT NothingMissed
CHECK_DEADLOCK FALSE
