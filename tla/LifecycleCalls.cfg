SPECIFICATION Spec
CONSTANTS
  s1 = s1
  s2 = s2
  c1 = c1
  c2 = c2
  c3 = c3
  c4 = c4
  Shares = {s1}
  Calls = {c1, c2, c3}
  Installed = {}
  Kinds = {"add", "join", "command", "remove"}
  Overlap = FALSE
  BadTickets = TRUE
  DirectWhen = {FALSE}
  Dbus = TRUE
  ChannelCap = 1
  MaxTasks = 6
  MaxStops = 2
INVARIANTS
  TypeOK
  OneTaskPerShare
  SharesOnDisk
  TasksCanBeStopped
  EndsBeforeItsFiles
  JoinedSharesHaveTheirKeys
SYMMETRY CallSymmetry
CHECK_DEADLOCK FALSE
