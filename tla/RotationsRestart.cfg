SPECIFICATION Spec
CONSTANTS
  c = c
  m1 = m1
  m2 = m2
  m3 = m3
  m4 = m4
  Peers = {c, m1, m2, m3}
  Creator = c
  Founders = {m1, m2}
  Absent = {}
  CoOwners = {}
  HandRotators = {c}
  BufferCap = 1
  MaxKeys = 3
  MaxCrashes = 1
  MaxErrors = 1
SYMMETRY MemberSymmetry
INVARIANTS
  KeyringsAgree
  RevokedGetNoNewKeys
  RevocationRotates
  KeyInv
CHECK_DEADLOCK FALSE
