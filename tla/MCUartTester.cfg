SPECIFICATION FairSpec
CONSTANTS
  Last = 3
  Matches <- SomeCommands
  PromptMatches = {}
  PrintkMatches <- FourDigits
  MaxWire = 1
INVARIANTS IInv CleanStart ForeignAnswerExplained SuccessExplained
INVARIANTS MismatchExplained
PROPERTIES TestEnds
CHECK_DEADLOCK FALSE
