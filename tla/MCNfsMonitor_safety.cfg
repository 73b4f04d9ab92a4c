SPECIFICATION Spec
CONSTANTS
  Manifests = {m1, m2}
  MaxClock = 3
  MaxWrites = 2
  Faults <- AllFaults
SYMMETRY Symmetry
INVARIANTS NoUnexplainedReplay IInv
PROPERTIES MissedOnlyInWindow
