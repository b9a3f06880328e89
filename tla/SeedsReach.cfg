SPECIFICATION FairSpec
CONSTANTS
  s1 = s1
  s2 = s2
  l1 = l1
  Seeds = {s1, s2}
  Leeches = {l1}
  NumPaths = 2
  NumContents = 2
  Versions <- MCVersions
  MaxEdits = 1
  MaxFaults = 2
INVARIANTS
  TypeOK
  CompletedIsWhole
PROPERTIES
  LeechCompletes
  CommandsAnswered
CHECK_DEADLOCK FALSE
