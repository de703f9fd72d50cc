SPECIFICATION Spec
CONSTANTS
  c1 = c1
  c2 = c2
  Calls <- MCTwo
  Buffer = 2
  MaxChunks = 2
INVARIANTS
  NeverCrashes
CHECK_DEADLOCK FALSE
