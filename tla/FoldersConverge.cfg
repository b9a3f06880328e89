SPECIFICATION FairSpec
CONSTANTS
  Peers = {p1, p2}
  NoState = NoState
  NumPaths = 2
  NumContents = 2
  Digest <- FolderNumber
  Editors = {p1, p2}
  UserMayDelete = FALSE
  QuietEdits = TRUE
  MayWipe = FALSE
  PersistMayFail = TRUE
  FetchMayFail = TRUE
  MaxEdits = 2
  MaxVersions = 5
  MaxTorrents = 2
  MaxEpoch = 1
  MaxCrashes = 0
PROPERTY VersionsConverge
CHECK_DEADLOCK FALSE
