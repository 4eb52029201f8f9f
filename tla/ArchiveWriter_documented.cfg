SPECIFICATION ArchiveSpec
CONSTANTS
  Setups <- SealedToDiskOrAge
  Pieces = 3
INVARIANTS OkMeansWhole
PROPERTIES FailsForCause
CHECK_DEADLOCK FALSE
