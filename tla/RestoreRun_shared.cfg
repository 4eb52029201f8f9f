SPECIFICATION Spec
CONSTANTS
  b1 = b1
  b2 = b2
  Restorers = {1, 2}
  Backups <- Stored
  Schemas <- OneAndTwo
  MostSchemas = 2
  Setups <- GzipOnly
  MaxOpen = 9
  MaxRuns = 2
  MaxCrashes = 0
INVARIANTS RestoresWanted
CHECK_DEADLOCK FALSE
