CONSTANTS
  MaxRuns = 2
  MaxId = 3
  MaxSessions = 1
  Faults <- CrashOnly
SPECIFICATION Spec
PROPERTIES
  ControlsComeBack
