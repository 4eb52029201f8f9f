SPECIFICATION FairSpec
CONSTANTS
  Dumps <- RawFew
  HeadLen = 2
  MaxAllowedPacket = 4
  Routines = TRUE
  Faults = {}
  WriterFails = TRUE
PROPERTIES NoGoroutineLeft DumpReturns
