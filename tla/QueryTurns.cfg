SPECIFICATION FairSpec
CONSTANTS
  Call = {c1, c2, c3}
  Sql = {k1, k2, k3}
  NoSql = NoSql
  Owner = {}
  Lookup = {}
  NoOwner = NoOwner
  Traffic = {"interactive", "latest-recovery"}
  MaxConcurrent = 1
  MaxQueued = 2
PROPERTIES ForegroundAdmitted
