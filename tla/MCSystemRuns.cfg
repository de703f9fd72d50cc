\* Two requests under one id, one wait, two invokes, a node that connects twice.
CONSTANTS
  None = None
  Nobody = Nobody
  r1 = r1
  r2 = r2
  i1 = i1
  i2 = i2
  Requests = {r1, r2}
  Waiters = {w}
  Invokes = {i1, i2}
  MaxConnections = 2
SPECIFICATION Spec
SYMMETRY Symmetry
INVARIANTS
  TypeOK
  EveryoneHearsTheDecision
  RunsOnlyAsApproved
  NobodyIsForgotten
CHECK_DEADLOCK FALSE
