SPECIFICATION FairSpec
CONSTANTS
  None = None
  Empty = Empty
  MaxDaemons = 2
  Commands = {c1}
INVARIANTS
  OneDaemon
  ReloadMeetsService
PROPERTIES
  StopsAreTrue
  DaemonEnds
CHECK_DEADLOCK FALSE
