SPECIFICATION FairSpec
CONSTANTS
  Kinds <- AllControllers
  MaxCalls = 3
  MaxPolls = 2
  Faults <- AllFaults
INVARIANTS IInv HistoryTellsAnswer
PROPERTIES Promise CallsReturnOrHang
CHECK_DEADLOCK FALSE
