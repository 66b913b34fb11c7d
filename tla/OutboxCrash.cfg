SPECIFICATION Spec
CONSTANTS
  Session = {s1, s2}
  NoSession = NoSession
  MaxSessions = 2
  MaxBytes = 5
  Size <- SizeByKind
  MaxRows = 1
  MaxQueue = 2
  MaxCalls = 2
  MaxCrash = 2
SYMMETRY Symmetry
INVARIANTS EvidenceRetained FlushComes
PROPERTIES ForgetsOnlyDelivered KeepsLedger
