SPECIFICATION TriggerSpec
CONSTANTS
  Topic = {"a", "b"}
  Number = {0, 1}
  Word <- Words
  Definitions <- Triggers
  StaleTtl = 1
  MaxWallClock = 2
PROPERTIES FiresOnRise RiseFires CooldownKept
