\* Three changes by two processes; one fault (a kill, an exit, a lock taken away, one too old) and one rotation.
CONSTANTS
  None = None
  p1 = p1
  p2 = p2
  c1 = c1
  c2 = c2
  c3 = c3
  Processes = {p1, p2}
  Claims = {c1, c2, c3}
  MaxFaults = 1
  Kinds = {"update", "touch", "save"}
  MaxRotations = 1
SPECIFICATION Spec
SYMMETRY Symmetry
INVARIANTS
  OneHolderButForKnownCauses
  LockFileHasOwner
  ChangesKeptButForKnownCauses
PROPERTY ImplementsStoreService
CHECK_DEADLOCK FALSE
