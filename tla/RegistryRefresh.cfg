SPECIFICATION FairSpec
CONSTANTS
  MaxStale = 1
  MaxClock = 1
  MaxVersion = 2
  MaxGeneration = 2
  Slot = {1, 2}
INVARIANTS OneInterval
PROPERTIES HealthyMeansUsable Recovers ShowsController
