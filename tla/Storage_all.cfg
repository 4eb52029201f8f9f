SPECIFICATION CallSpec
CONSTANTS
  Protocols = {"file", "smb", "s3", "scp"}
  Dir <- Backups
  Home <- Backups
  Ids = {1, 2}
  OtherPlaces <- Alone
  Restored = {"file", "s3", "scp"}
  Extends <- StartsWith
  KeysPerPage = 2
  MaxPushes = 3
  UrlPort = "2222"
  SshPort = ""
  ClientClosesSsh = FALSE
INVARIANTS PushedIsListed PullGetsPushed HoldsNothing
PROPERTIES RemovesWhatItListed RemovesOnlyOwn
