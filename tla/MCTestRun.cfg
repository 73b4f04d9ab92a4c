SPECIFICATION Spec
CONSTANTS
  Configs <- UsualConfig
  Faults <- NoFaults
INVARIANTS ResultsTraceToBuild
CHECK_DEADLOCK FALSE
