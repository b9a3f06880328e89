SPECIFICATION FairSpec
CONSTANTS
  Peers = {p1, p2}
  NoState = NoState
  VHashes = {1, 2}
  Stamps = {1, 2, 3}
  Synced = TRUE
  MayWipe = FALSE
  PersistMayFail = TRUE
  MaxVersions = 4
  MaxCrashes = 2
INVARIANTS
  TypeOK
  EqualClocksSameVersion
  HeldVersionIsLatestKnown
  CountersNameVersions
  IndInv
PROPERTY Converges
CHECK_DEADLOCK FALSE
