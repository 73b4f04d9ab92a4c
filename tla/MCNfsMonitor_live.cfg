SPECIFICATION FairSpec
CONSTANTS
  Manifests = {m1, m2}
  MaxClock = 3
  MaxWrites = 2
  Faults <- RecoverableFaults
PROPERTIES PublishedIsBuilt KeepsPolling
