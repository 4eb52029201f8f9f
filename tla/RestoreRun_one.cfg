SPECIFICATION Spec
CONSTANTS
  b1 = b1
  b2 = b2
  Restorers = {1}
  Backups <- Stored
  Schemas <- OneAndTwo
  MostSchemas = 2
  Setups <- GzipOrScp
  MaxOpen = 9
  MaxRuns = 3
  MaxCrashes = 2
INVARIANTS RestoresWanted WholeOrNothing OkLeavesNothing
CHECK_DEADLOCK FALSE
