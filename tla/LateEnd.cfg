CONSTANTS
  MaxRuns = 2
  MaxId = 3
  MaxSessions = 1
  Faults <- Lossy
SPECIFICATION Spec
INVARIANTS
  RowNamesItsRun
