SPECIFICATION LiveSpec
CONSTANTS
  a1 = a1
  a2 = a2
  None = None
  Operations = {o1}
  Aliases = {a1}
  Versions = {v1}
  Callers = {c1}
  Requests <- CredentialSave
  Legacy = {}
  CleanupWorkers = 1
  CleanupBatch = 1
PROPERTIES
  WorkEnds
  QueuedNameSettles
