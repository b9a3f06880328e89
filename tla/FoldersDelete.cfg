SPECIFICATION FairSpec
CONSTANTS
  Peers = {p1, p2}
  NoState = NoState
  NumPaths = 2
  NumContents = 1
  Digest <- FolderNumber
  Editors = {p1}
  UserMayDelete = TRUE
  QuietEdits = TRUE
  MayWipe = FALSE
  PersistMayFail = FALSE
  FetchMayFail = FALSE
  MaxEdits = 3
  MaxVersions = 5
  MaxTorrents = 0
  MaxEpoch = 1
  MaxCrashes = 0
PROPERTY VersionsConverge
CHECK_DEADLOCK FALSE
