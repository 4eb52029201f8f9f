SPECIFICATION FairSpec
CONSTANTS
  b1 = b1
  b2 = b2
  b3 = b3
  b4 = b4
  readme = readme
  p = p
  q = q
  TicksPerHour = 2
  IsBackup <- BackupFiles
  Pruners <- TwoPruners
  NumTargets = 1
  Files <- FiveFiles
  Stamp <- Hourly
  Zone <- Utc
  Retention <- TwoHours
  PageSize <- AllAtOnce
  ByName <- OldestFirst
  InitStores <- SomeStores
  ClockAtStart = 3
  MaxClock = 7
INVARIANTS OkMeansPruned
PROPERTIES YoungKept
