SPECIFICATION FairSpec
CONSTANTS
  c = c
  m1 = m1
  m2 = m2
  m3 = m3
  Peers = {c, m1, m2, m3}
  Creator = c
  CoOwners = {m1}
  Leeches = {m3}
  Askers = {c, m1}
  DirectWhen = {FALSE}
  MaxOps = 4
  MaxCrashes = 1
INVARIANTS
  TypeOK
  LogsLoad
  MembersFollowLog
PROPERTIES
  LogsConverge
  ImplementsAuthSets
CHECK_DEADLOCK FALSE
