SPECIFICATION FairSpec
CONSTANTS
  NoQ = NoQ
  NoWait = NoWait
  MaxUser = 0
  MaxTries = 2
  MaxLuck = 2
PROPERTIES QuestionServed
CHECK_DEADLOCK FALSE
