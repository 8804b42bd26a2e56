CONSTANTS
  MaxRuns = 2
  MaxEntries = 3
  IPs <- MCIPs
  SystemStates <- MCStates
SPECIFICATION Spec
INVARIANTS
  TypeOK
  OneRunAtATime
  WriterHoldsFile
  QuietWhenReported
  EndsUnaided
PROPERTIES
  EndComesCloser
  ImplementsSession
  RunEnds
