SPECIFICATION Spec
CONSTANTS
  INT_MIN = INT_MIN
  TERMINATION = INT_MIN
  Zero = 0
  Word <- MCWord
  MAX_TUPLE_VALUES_CNTS = 2
  Key <- ThreeKeys
  IntMin <- MinInt16
  IntMax <- MaxInt16
  PutValue <- FullValues
  BufCap = 1
  MaxRuns = 2
  MaxLevels = 2
  SSTSize = 1
  TupleSize = 1
  FPInterval = 1
  BFNumTuples = 1
  BitsPerElement = 3
  Bit <- MCBits
  Hash <- MCHash
  StringSlots = {"own"}
  HeapSlots = {}
  UnlinkWorks = {TRUE, FALSE}
  Ends = {}
PROPERTY NoFileLeftBehind
