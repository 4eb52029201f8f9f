SPECIFICATION Spec
CONSTANTS
  b1 = b1
  b2 = b2
  Restorers = {1}
  Backups <- Stored
  Schemas <- OneAndTwo
  MostSchemas = 2
  Setups <- GzipOnly
  MaxOpen = 1
  MaxRuns = 1
  MaxCrashes = 0
INVARIANTS RestoresWanted
CHECK_DEADLOCK FALSE
