SPECIFICATION Spec
CONSTANTS
  r1 = r1
  r2 = r2
  k1 = k1
  k2 = k2
  x = x
  y = y
  s1 = s1
  old = old
  new = new
  Request = {r1, r2}
  MaxSegments = 2
  Token = {k1, k2}
  Bearer <- MCBearer
  CacheMs = 2
  ProbeTimeout = 2
  QuietMs = 1
  MaxChecks = 1
  MaxEntries = 1
  MaxBindings = 2
  CacheTtl = 1
  StaleIfError = 1
  FetchTimeout = 1
  Topic = {x, y}
  MappingOf <- MCMappingOf
  Ttl = 5
  Cooldown = 2
  LoadTimeout = 1
  Table = {old, new}
  Signal = {x, y}
  Selector = {s1}
  BindingsOf <- MCBindingsOf
  MaxTime = 2
  Config <- MCConfig
  TopicsOf <- MCTopicsOf
  Allowed = {x, y}
  Configured = new
  Concurrency = 1
INVARIANTS AnswerComplete EntityValueBound
PROPERTIES AdmittedRecently PlanRecent MappingRecent HistoryAnswered
CHECK_DEADLOCK FALSE
