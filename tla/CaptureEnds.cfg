SPECIFICATION FairSpec
CONSTANTS
  Definitions <- TimedOnly
  MaxSessions = 1
  MaxRows = 1
  MaxBacklog = 1
PROPERTIES SessionEnds
CHECK_DEADLOCK FALSE
