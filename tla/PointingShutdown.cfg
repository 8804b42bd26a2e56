CONSTANTS
  MaxStarts = 1
  MaxPointings = 1
  MaximumQueueChecks = 2
  MaxCalls = 2
  MaxPending = 1
  Thresholds <- MCThresholds
  Default <- MCDefault
  Stored <- MCStored
  LegacyLines <- MCLegacyLines
  Skies = {}
SPECIFICATION Spec
CHECK_DEADLOCK FALSE
PROPERTIES
  ShutdownNeverFrozen
