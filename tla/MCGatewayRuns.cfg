SPECIFICATION FairSpec
CONSTANTS
  Runs <- MCRuns
  CronRuns <- MCCronRuns
  Sessions <- MCSessions
  SessionOf <- MCSessionOf
  LaneArg <- MCLaneArg
  MainConcurrency = 1
  MaxRestarts = 1
INVARIANTS
  TypeOK
  OverlapOnlyAfterTimeout
  UpMeansOpenAndLocked
  RegistryKnowsNewest
PROPERTIES
  ClosesAfterTurns
  EveryRunIsAnswered
  ShutdownEnds
CHECK_DEADLOCK FALSE
