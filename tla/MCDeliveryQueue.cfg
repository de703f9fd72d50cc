SPECIFICATION Spec
CONSTANTS
  MaxDelivery = 1
  Payloads = 2
  BestEffort <- MCNone
  OnError <- MCNone
  Scans = {s1, s2}
  MaxRetries = 3
  MaxCrashes = 2
SYMMETRY MCSymmetry
INVARIANTS
  TypeOK
  KeptUntilSentOrBestEffort
PROPERTIES
  AckedNotReplayed
CHECK_DEADLOCK FALSE
