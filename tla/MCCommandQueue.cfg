SPECIFICATION FairSpec
CONSTANTS
  Lanes <- MCLanes
  Calls <- MCCalls
  LaneOf <- MCLaneOf
  ConcurrencyArgs <- MCConcurrencyArgs
  MaxGeneration = 2
INVARIANTS
  TypeOK
  NoStrandedWork
  SlotsExact
PROPERTIES
  DrainedIsHonest
  EveryCallSettles
  ImplementsLaneService
CHECK_DEADLOCK FALSE
