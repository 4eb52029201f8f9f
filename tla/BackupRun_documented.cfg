SPECIFICATION Spec
CONSTANTS
  b1 = b1
  b2 = b2
  b3 = b3
  b4 = b4
  other = other
  x = x
  y = y
  z = z
  Self = Self
  Others <- Nobody
  Databases <- Three
  Include <- All
  Exclude <- WithoutZ
  Retained <- Always
  ListingLost = TRUE
  EndLost = TRUE
  TicksPerHour = 2
  NumTargets = 1
  Names <- ThreeRuns
  Stamp <- Hourly
  Zone <- Utc
  Retention <- KeepTwo
  Atomic <- NoTarget
INVARIANTS NoDatabaseMissed OkMeansEverywhere PrunedFirst
