SPECIFICATION FairSpec
CONSTANTS
  None = None
  Boot = Boot
  Callers = {c1, c2}
  Workers = {w1, w2}
  MaxCalls = 3
  MaxBoots = 2
  MaxFaults = 1
INVARIANTS
  OneWorker
  PolicyMatchesWorker
  RecoveryIsExact
PROPERTIES
  LaunchIsOnRecord
  ShutdownReturns
CHECK_DEADLOCK FALSE
