SPECIFICATION Spec
CONSTANTS
  INT_MIN = INT_MIN
  TERMINATION = INT_MIN
  Zero = 0
  Word <- MCWord
  MAX_TUPLE_VALUES_CNTS = 2
  Key = {1, 2}
  PutValue <- ShortValue
  BufCap = 1
  MaxRuns = 2
  MaxLevels = 2
INVARIANT ScanReturnsPutValues
