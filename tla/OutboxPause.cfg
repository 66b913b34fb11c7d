SPECIFICATION Spec
CONSTANTS
  Session = {s1, s2}
  NoSession = NoSession
  MaxSessions = 2
  MaxBytes = 6
  Size <- SizeByKind
  MaxRows = 0
  MaxQueue = 1
  MaxCalls = 2
  MaxCrash = 0
PROPERTY PausedUntilRecovery
