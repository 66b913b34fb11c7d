SPECIFICATION Spec
CONSTANTS
  t1 = t1
  t2 = t2
  t3 = t3
  r1 = r1
  r2 = r2
  Topic = {t1, t2, t3}
  Request = {r1, r2}
  Seed = seed
  Config <- MCConfig
  Concurrency = 1
  MaxWaiters = 1
  MaxFailures = 1
  MaxCursors = 2
  Cooldown = 1
INVARIANTS AuthorityKept WaitersExact TurnKept
PROPERTIES QuietAfterFailure SeedQuiet Answered
