SPECIFICATION FairSpec
CONSTANTS
  m1 = m1
  Summary = Summary
  Turns = {t1, t2}
  Callers = {t1}
  Answers = {a1, a2}
  Old <- OneMessage
  Preserve = 1
INVARIANTS
  ConsentDecides
PROPERTIES
  CompactionKeeps
  TurnsReturn
CHECK_DEADLOCK FALSE
