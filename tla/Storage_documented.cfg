SPECIFICATION CallSpec
CONSTANTS
  Protocols = {"smb", "s3", "scp"}
  Dir <- Backups
  Home <- LoginDir
  Ids = {1}
  OtherPlaces <- WithSibling
  Restored = {"smb"}
  Extends <- StartsWith
  KeysPerPage = 1000
  MaxPushes = 2
  UrlPort = ""
  SshPort = ""
  ClientClosesSsh = TRUE
INVARIANTS PushedBelowUrl PullGetsPushed HoldsNothingOfScp DialsAsDocumented
PROPERTIES RemovesOnlyOwn
