SPECIFICATION Spec
CONSTANTS
  Peers = {p1, p2}
  NoState = NoState
  NumPaths = 1
  NumContents = 2
  Digest <- FolderNumber
  Editors = {p1, p2}
  UserMayDelete = FALSE
  QuietEdits = TRUE
  MayWipe = FALSE
  PersistMayFail = FALSE
  FetchMayFail = FALSE
  MaxEdits = 3
  MaxVersions = 4
  MaxTorrents = 0
  MaxEpoch = 1
  MaxCrashes = 0
INVARIANT ChangesAreNoticed
CHECK_DEADLOCK FALSE
