SPECIFICATION Spec
CONSTANTS
  Peers = {p1, p2}
  NoState = NoState
  NumPaths = 2
  NumContents = 2
  Digest <- FolderNumber
  Editors = {p1, p2}
  UserMayDelete = TRUE
  QuietEdits = FALSE
  MayWipe = TRUE
  PersistMayFail = FALSE
  FetchMayFail = FALSE
  MaxEdits = 2
  MaxVersions = 2
  MaxTorrents = 0
  MaxEpoch = 2
  MaxCrashes = 1
SYMMETRY PeerSymmetry
INVARIANTS TypeOK 
PROPERTY ImplementsVersionSync
CHECK_DEADLOCK FALSE
