SPECIFICATION FairSpec
CONSTANTS
  MaxGiven = 2
  Settings <- ByGroups
  Chains <- AnyChain
INVARIANTS Precedence FileFillsIn EncryptedIfAsked
PROPERTIES StartEnds
