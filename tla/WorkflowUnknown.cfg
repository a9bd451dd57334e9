SPECIFICATION FairSpec
CONSTANTS
  Nodes = {"make", "check", "report"}
  Needs <- MCNeeds
  Writers = {"make"}
  Checks = {"check"}
  Reviews = {"check"}
  Reports = {"report"}
  People = {"a", "b"}
  Crew = {"a", "b"}
  MaxRev = 0
  MaxUser = 0
  MaxInputs = 1
  MaxTries = 2
  MaxPlans = 2
  MaxTrouble = 1
PROPERTY UnknownIsRaised
CHECK_DEADLOCK FALSE
