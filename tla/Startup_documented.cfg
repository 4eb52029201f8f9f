SPECIFICATION FairSpec
CONSTANTS
  MaxGiven = 2
  Settings <- Documented
  Chains <- AnyChain
INVARIANTS UsesFinal FileSetsAll TargetsAsDocumented EnvOfPrune ScheduleOfFlags FileKeySuffices NoCrash
