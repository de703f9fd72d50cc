SPECIFICATION Spec
CONSTANTS
  daily = daily
  hourly = hourly
  once = once
  Jobs <- MCJobs
  OneShot <- MCOneShot
  DeleteAfterRun <- MCOneShot
  Deaf <- MCJobs
  Initial <- MCJobs
  Stuck = 1
  MaxImmediate = 1
  Concurrency = 1
  MaxServices = 1
  MaxTime = 2
  MaxManual = 1
  MaxEdits = 1
  MaxFaults = 1
  MaxLeft = 1
  MaxZombies = 0
INVARIANTS
  TypeOK
  OneRunAtATime
PROPERTIES
  EditsSurvive
CHECK_DEADLOCK FALSE
