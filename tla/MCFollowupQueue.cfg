SPECIFICATION Spec
CONSTANTS
  Deliveries <- MCDeliveries
  MessageOf <- MCMessageOf
  RouteOf <- MCRouteOf
  Settings <- MCThree
  Slots <- MCSlots
  MayClear = TRUE
  ForeignRuns = TRUE
  MaxFailures = 1
INVARIANTS
  TypeOK
  ForgottenOnlyByKnownCauses
  DrainedByOne
PROPERTIES
  FinalFates
CHECK_DEADLOCK FALSE
