SPECIFICATION MCSpec
CONSTANTS
  Configs <- AllConfigs
  Faults <- AllFaults
  Kinds = {"smart_plug", "manual"}
  PowerFaults = {"no_reply", "slow", "eof"}
INVARIANTS PoweredIInv GreenRun BoardLeftOnByCleanup ProvisionedIsPowered
INVARIANTS WrongImageExplained FailureExplained
PROPERTIES ImplementsRun Terminates
CHECK_DEADLOCK FALSE
