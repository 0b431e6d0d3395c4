SPECIFICATION FairSpec
CONSTANTS
  None = None
  Jobs = {j1}
  Handlers = {h1, h2}
  Loops = {l1, l2, l3}
INVARIANTS
  ActiveRuns
PROPERTIES
  EndsAreFinal
  CloseReturns
