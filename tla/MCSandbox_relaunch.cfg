SPECIFICATION FairSpec
CONSTANTS
  Devices = {d1}
  AlwaysOn = {d1}
  Scheduled = {}
  Workers = {w1}
  Sweeper = sweeper
  None = None
  Managed = TRUE
  MaxCrashes = 1
PROPERTIES AlwaysOnRelaunched
