SPECIFICATION FairSpec
CONSTANTS
  Texts <- AllTexts
  Criteria <- AllCriteria
  Timeout = 1
  MaxWire = 1
  MaxCycles = 2
  MaxTests = 2
INVARIANTS IInv StalePassExplained JudgesOwnBoot LoginNotMissed
PROPERTIES ValidationEnds
CHECK_DEADLOCK FALSE
