SPECIFICATION Spec
CONSTANTS
  b1 = b1
  b2 = b2
  b3 = b3
  b4 = b4
  other = other
  x = x
  y = y
  z = z
  Self = Self
  Others <- Nobody
  Databases <- Three
  Include <- All
  Exclude <- WithoutZ
  Retained <- Always
  ListingLost = FALSE
  EndLost = FALSE
  TicksPerHour = 2
  NumTargets = 1
  Names <- FourRuns
  Stamp <- Hourly
  Zone <- Utc
  Retention <- KeepTwo
  Atomic <- NoTarget
PROPERTIES CompleteKeptEverywhere
