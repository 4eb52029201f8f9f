SPECIFICATION Spec
CONSTANTS
  Dumps <- Unusual
  HeadLen = 2
  MaxAllowedPacket = 8
  Routines = TRUE
  Faults = {"refused", "interrupted"}
  WriterFails = FALSE
INVARIANTS FitsPacket OthersListed NoCrash OkMeansComplete
