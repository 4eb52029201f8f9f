SPECIFICATION Spec
CONSTANTS
  b1 = b1
  b2 = b2
  b3 = b3
  b4 = b4
  readme = readme
  p = p
  q = q
  TicksPerHour = 2
  IsBackup <- BackupFiles
  Pruners <- OnePruner
  NumTargets = 1
  Files <- FourFiles
  Stamp <- Hourly
  Zone <- West
  Retention <- TwoHours
  PageSize <- AllAtOnce
  ByName <- OldestFirst
  InitStores <- SomeStores
  ClockAtStart = 4
  MaxClock = 8
PROPERTIES YoungKept
