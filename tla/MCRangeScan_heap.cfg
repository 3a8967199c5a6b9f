SPECIFICATION Spec
CONSTANTS
  Key <- FirstKeys
  IntMin <- MinInt16
  IntMax <- MaxInt16
  SSTSize = 3
  TupleSize = 1
  FPInterval = 2
  BFNumTuples = 3
  BitsPerElement = 8
  Bit <- MCBits
  Hash <- MCHash
  StringSlots = {"own"}
  HeapKeys = {1, 2, 3}
  MaxBuffer = 0
  MaxRunsScanned = 1
INVARIANT FoundWasStored
CHECK_DEADLOCK FALSE
