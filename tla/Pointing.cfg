CONSTANTS
  MaxStarts = 2
  MaxPointings = 2
  MaximumQueueChecks = 2
  MaxCalls = 3
  MaxPending = 2
  Thresholds <- MCThresholds
  Default <- MCDefault
  Stored <- MCStored
  LegacyLines <- MCLegacyLines
  Skies <- MCSkies
SPECIFICATION Spec
CHECK_DEADLOCK FALSE
INVARIANTS
  NoLooseThread
  StoppedStaysStopped
  QueueHoldsNewest
  DrawnWithDisplay
  PanelsNameTheirStars
PROPERTIES
  SilenceIsReported
  StopEndsSubprocess
