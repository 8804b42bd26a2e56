CONSTANTS
  MaxRuns = 2
  MaxId = 2
  MaxSessions = 2
  Faults <- Everything
SPECIFICATION Spec
INVARIANTS
  NumbersDistinct
  PreviewIsFresh
