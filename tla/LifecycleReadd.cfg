SPECIFICATION Spec
CONSTANTS
  s1 = s1
  s2 = s2
  c1 = c1
  c2 = c2
  c3 = c3
  c4 = c4
  Shares = {s1}
  Calls = {c1, c2}
  Installed = {}
  Kinds = {"add", "remove"}
  Overlap = TRUE
  BadTickets = FALSE
  DirectWhen = {FALSE}
  Dbus = TRUE
  ChannelCap = 1
  MaxTasks = 4
  MaxStops = 0
INVARIANT OneTaskPerShare
CHECK_DEADLOCK FALSE
