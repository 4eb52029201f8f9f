SPECIFICATION FairSpec
CONSTANTS
  Dumps <- AllKinds
  HeadLen = 2
  MaxAllowedPacket = 8
  Routines = TRUE
  Faults = {"refused", "unreadable", "interrupted", "lost"}
  WriterFails = TRUE
INVARIANTS RowsConserved OneUserOfTx OkLosesOnlyUnasked PackedFull
PROPERTIES Termination
