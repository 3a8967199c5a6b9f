SPECIFICATION FairSpec
CONSTANTS
  Key <- LastKeys
  IntMin <- MinInt16
  IntMax <- MaxInt16
  SSTSize = 3
  TupleSize = 1
  FPInterval = 2
  BFNumTuples = 3
  BitsPerElement = 3
  Bit <- MCBits
  Hash <- MCHash
  StringSlots = {"own"}
  HeapKeys = {32765, 32766}
  MaxBuffer = 2
  MaxRunsScanned = 2
INVARIANTS TypeOK FoundIsNewest HolesInSearchRange NothingMissed JunkHidesNothingNewer StopsWhenAllFound
PROPERTY FindsAllInTheEnd
CHECK_DEADLOCK FALSE
