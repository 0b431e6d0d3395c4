SPECIFICATION Spec
CONSTANTS
  a1 = a1
  a2 = a2
  None = None
  Operations = {o1, o2}
  Aliases = {a1}
  Versions = {v1, v2}
  Callers = {c1}
  Requests <- CredentialSave
  Legacy = {a1}
  CleanupWorkers = 1
  CleanupBatch = 2
SYMMETRY Symmetry
INVARIANTS
  CredentialAvailable
PROPERTIES
  SecretsStayTracked
  KeepsPromise
