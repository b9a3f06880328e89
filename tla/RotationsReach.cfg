SPECIFICATION FairSpec
CONSTANTS
  c = c
  m1 = m1
  m2 = m2
  m3 = m3
  m4 = m4
  Peers = {c, m1, m2, m3, m4}
  Creator = c
  Founders = {m1}
  Absent = {m2, m3, m4}
  CoOwners = {}
  HandRotators = {}
  BufferCap = 1
  MaxKeys = 4
  MaxCrashes = 1
  MaxErrors = 1
INVARIANT TypeOK
PROPERTY KeysReachMembers
CHECK_DEADLOCK FALSE
