SPECIFICATION MCSpec
CONSTANTS
  MaxEntries = 3
  MaxCopies = 2
  Results = {r1}
  MaxRecords = 1
  Custom = {c1}
  Instances = {host, pytest}
  Job = job
  KeyLabels = {"session_id"}
  KeyValues = {session, unknown}
INVARIANTS IInv AcceptedIsAccounted DuplicatesExplained HeldInOrder
INVARIANTS RecordsFit PushedStays
PROPERTIES ImplementsFeed
CHECK_DEADLOCK FALSE
