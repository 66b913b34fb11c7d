SPECIFICATION Spec
CONSTANTS
  Call = {c1, c2, c3, c4}
  Sql = {k1}
  NoSql = NoSql
  Owner = {lookup}
  Lookup = {lookup}
  NoOwner = NoOwner
  Traffic = {"interactive", "latest-recovery", "background"}
  MaxConcurrent = 1
  MaxQueued = 2
SYMMETRY Symmetry
INVARIANTS SlotsExact WaitingBounded OneRead CancelIsOwn JoinedNotDelayed
