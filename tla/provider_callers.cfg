SPECIFICATION Spec
CONSTANTS
  a1 = a1
  a2 = a2
  None = None
  Operations = {o1}
  Aliases = {a1, a2}
  Versions = {v1}
  Callers = {c1, c2}
  Requests <- AnySave
  Legacy = {}
  CleanupWorkers = 1
  CleanupBatch = 1
SYMMETRY Symmetry
INVARIANTS
  SavesAreExclusive
  MemoryFollowsTables
