SPECIFICATION FleetFairSpec
CONSTANTS
  Total = 3
  MaxWorkers = 2
  Cap = 1
  Callers = {c1}
INVARIANTS
  EndIsTrue
PROPERTIES
  CanceledEnds
  CallsReturn
CHECK_DEADLOCK FALSE
