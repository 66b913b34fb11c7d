SPECIFICATION FairSpec
CONSTANTS
  Session = {s1, s2}
  NoSession = NoSession
  MaxSessions = 2
  MaxBytes = 4
  Size <- SizeByKind
  MaxRows = 1
  MaxQueue = 1
  MaxCalls = 2
  MaxCrash = 1
PROPERTIES DeliveryComes
