SPECIFICATION Spec
CONSTANTS
  INT_MIN = INT_MIN
  TERMINATION = INT_MIN
  Zero = 0
  Word <- MCWord
  MAX_TUPLE_VALUES_CNTS = 3
  Key = {1, 2}
  PutValue <- MarkedValue
  BufCap = 2
  MaxRuns = 2
  MaxLevels = 3
INVARIANTS TypeOK CopiesFromClients
PROPERTIES EveryFlushCountedOnce ImplementsKVStore
VIEW Kept
