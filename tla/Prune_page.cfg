SPECIFICATION Spec
CONSTANTS
  b1 = b1
  b2 = b2
  b3 = b3
  b4 = b4
  readme = readme
  p = p
  q = q
  TicksPerHour = 2
  IsBackup <- BackupFiles
  Pruners <- OnePruner
  NumTargets = 2
  Files <- FourFiles
  Stamp <- Hourly
  Zone <- Utc
  Retention <- KeepOne
  PageSize <- TwoAtOnce
  ByName <- OldestFirst
  InitStores <- TwoEach
  ClockAtStart = 4
  MaxClock = 4
INVARIANTS OkMeansPrunedEverywhere
