SPECIFICATION FairSpec
CONSTANTS
  None = None
  Processes = {p1, p2}
  MaxPrompts = 2
  Legacy = TRUE
INVARIANTS
  WorkIsMarked
  FilesAgree
PROPERTIES
  ImplementsQueue
  CancellationHolds
  CancelWorks
