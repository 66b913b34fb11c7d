SPECIFICATION Spec
CONSTANTS
  Definitions <- AnyDefinition
  MaxSessions = 2
  MaxRows = 1
  MaxBacklog = 1
INVARIANTS SessionReachable OutputRecorded CloseExact TimersOwned
CHECK_DEADLOCK FALSE
