SPECIFICATION FairSpec
CONSTANTS
  daily = daily
  hourly = hourly
  once = once
  Jobs <- MCRecurring
  OneShot <- MCNone
  DeleteAfterRun <- MCNone
  Deaf <- MCNone
  Initial <- MCDaily
  Stuck = 1
  MaxImmediate = 1
  Concurrency = 1
  MaxServices = 2
  MaxTime = 3
  MaxManual = 0
  MaxEdits = 1
  MaxFaults = 0
  MaxLeft = 0
  MaxZombies = 0
INVARIANTS
  MarkersHaveOwners
PROPERTIES
  DueJobsRun
CHECK_DEADLOCK FALSE
