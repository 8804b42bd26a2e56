SPECIFICATION Spec
CONSTANTS
  StateFiles <- MCStateFiles
  LocalAddrs = {"a", "b", "c", "d"}
  Slots = 2
  TelSlots = 2
  RunIds = {1}
  MaxRuns = 2
  MaxEdits = 1
  MaxPackets = 2
  MaxFaults = 2
INVARIANTS
  FileHoldsItsRun DamageIsContained RecordsReadAlike TestDataIsHeard CheckedStateSetsUp
PROPERTIES
  NothingOverwritten
CHECK_DEADLOCK FALSE
