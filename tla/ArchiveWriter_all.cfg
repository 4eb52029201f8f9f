SPECIFICATION ArchiveSpec
CONSTANTS
  Setups <- GzipOrNoFault
  Pieces = 4
INVARIANTS OkMeansWhole
PROPERTIES FailsForCause
CHECK_DEADLOCK FALSE
