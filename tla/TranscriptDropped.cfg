SPECIFICATION Spec
CONSTANTS
  Kinds = {"leader"}
  Calls = {1, 2, 3}
  Large = {2}
  History = 1
  Budget = 6
  MaxRows = 4
  MaxRuns = 3
  MaxLuck = 2
INVARIANTS DroppedIsTold
CHECK_DEADLOCK FALSE
