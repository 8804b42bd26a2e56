CONSTANTS
  Good <- TwoMachines
  Addresses <- EveryAddress
  Blocks <- Firewalls
  MaxMishaps = 2
  Down = Down
  Closed = Closed
SPECIFICATION Spec
INVARIANT
  CheckedMachinesTalk
