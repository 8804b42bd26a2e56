CONSTANTS
  MaxRuns = 2
  MaxId = 3
  MaxSessions = 1
  Faults <- InGoodTime
SPECIFICATION Spec
INVARIANTS
  RowNamesItsRun
  RowTimesItsRun
  BusyServerLocksGui
PROPERTIES
  EndedRunGetsRow
  ControlsComeBack
