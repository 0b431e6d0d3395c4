SPECIFICATION LocksFairSpec
CONSTANTS
  Nobody = Nobody
  Aliases = {a1}
  Callers = {c1, c2}
INVARIANTS
  NoDeadlock
PROPERTIES
  AllReturn
