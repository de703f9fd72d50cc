SPECIFICATION FairSpec
CONSTANTS
  Deliveries <- MCDeliveries
  MessageOf <- MCDistinct
  RouteOf <- MCRouteOf
  Settings <- MCSettings
  Slots <- MCSlots
  MayClear = FALSE
  ForeignRuns = FALSE
  MaxFailures = 1
PROPERTIES
  AcceptedWithinCap
  QueuedGetsTurnOrKnownCause
CHECK_DEADLOCK FALSE
