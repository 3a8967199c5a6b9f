SPECIFICATION Spec
CONSTANTS
  Key = {1, 2, 3}
  Items = {x, y}
  MaxTuples = 6
INVARIANTS RunIsStrictlyAscending RunKeepsLeftmost
CHECK_DEADLOCK FALSE
