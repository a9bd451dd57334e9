SPECIFICATION Spec
CONSTANTS
  Kinds = {"chat"}
  Calls = {1, 2, 3}
  Large = {2}
  History = 1
  Budget = 6
  MaxRows = 6
  MaxRuns = 3
  MaxLuck = 2
INVARIANTS RequestStays
CHECK_DEADLOCK FALSE
