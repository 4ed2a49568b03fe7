SPECIFICATION UpdatesSpec
CONSTANTS
  NoUpdate = NoUpdate
  MaxVersion = 3
  HealthTimeout = 1
  ManifestLife = 3
  Helper = {h1}
  MaxTime = 2
  MaxStops = 1
PROPERTY FinishedIsFinal
CHECK_DEADLOCK FALSE
