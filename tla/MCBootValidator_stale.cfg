SPECIFICATION Spec
CONSTANTS
  Texts <- ShippedTexts
  Criteria <- ShippedCriteria
  Timeout = 1
  MaxWire = 1
  MaxCycles = 2
  MaxTests = 2
INVARIANTS CompletionAwaited
CHECK_DEADLOCK FALSE
