SPECIFICATION FairSpec
CONSTANTS
  b1 = b1
  b2 = b2
  b3 = b3
  b4 = b4
  other = other
  x = x
  y = y
  z = z
  Self = Self
  Others <- OnePruner
  Databases <- Three
  Include <- All
  Exclude <- WithoutZ
  Retained <- BothWays
  ListingLost = FALSE
  EndLost = FALSE
  TicksPerHour = 2
  NumTargets = 2
  Names <- ThreeRuns
  Stamp <- Hourly
  Zone <- Utc
  Retention <- KeepOne
  Atomic <- FirstTarget
INVARIANTS OkMeansEverywhere TidyUnlessKilled
PROPERTIES PruneLast CompleteKept RunEnds
