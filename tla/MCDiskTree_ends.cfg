SPECIFICATION Spec
CONSTANTS
  INT_MIN = INT_MIN
  TERMINATION = INT_MIN
  Zero = 0
  Word <- MCWord
  MAX_TUPLE_VALUES_CNTS = 2
  Key <- TwoKeys
  IntMin <- MinInt16
  IntMax <- MaxInt16
  PutValue <- TwoFullValues
  BufCap = 2
  MaxRuns = 2
  MaxLevels = 2
  SSTSize = 2
  TupleSize = 1
  FPInterval = 1
  BFNumTuples = 2
  BitsPerElement = 3
  Bit <- MCBits
  Hash <- MCHash
  StringSlots = {"shared"}
  HeapSlots <- OneSlot
  UnlinkWorks = {TRUE, FALSE}
  Ends = {"close", "kill", "kill in flush"}
VIEW Kept
INVARIANT FilesAreWhole
PROPERTIES NothingDropped StoresAsLSMTree
