SPECIFICATION FairSpec
CONSTANTS
  p = p
  s1 = s1
  Primary = p
  Others = {s1}
  All = All
  Client = Client
  CONTROL_MODE_CHANNEL_CAPACITY = 1
  MaxConns = 2
  Mishaps = {"detach"}
  MaxMishaps = 1
  MaxChanges = 1
  MaxFocuses = 1
  MaxReconciles = 0
CHECK_DEADLOCK FALSE
PROPERTIES ExitEnds
