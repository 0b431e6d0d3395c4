SPECIFICATION FairSpec
CHECK_DEADLOCK FALSE
CONSTANTS
  Orchestrator = Orchestrator
  Worker = Worker
  Handlers = {h1}
  Observers = {s1}
  Cap = 1
  MeshCap = 2
  MaxCalls = 2
INVARIANTS
  AcceptedArrives
  StreamTellsVerdict
  ObserverIsOpen
PROPERTIES
  TeamEnds
