SPECIFICATION FairSpec
CONSTANTS
  Paths = {d1}
  Default = d1
  Code = code
  NoPlan = NoPlan
  NoChange = NoChange
  NoSource = NoSource
  MaxInputs = 0
  MaxLuck = 1
INVARIANTS PlanKept
CHECK_DEADLOCK FALSE
