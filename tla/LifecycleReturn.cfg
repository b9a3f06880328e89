SPECIFICATION FairSpec
CONSTANTS
  s1 = s1
  s2 = s2
  c1 = c1
  c2 = c2
  c3 = c3
  c4 = c4
  Shares = {s1}
  Calls = {c1, c2}
  Installed = {s1}
  Kinds = {"add", "join", "command", "remove"}
  Overlap = FALSE
  BadTickets = FALSE
  DirectWhen = {}
  Dbus = TRUE
  ChannelCap = 1
  MaxTasks = 4
  MaxStops = 1
PROPERTY CallsReturn
CHECK_DEADLOCK FALSE
