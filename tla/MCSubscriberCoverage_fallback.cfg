SPECIFICATION CoverageFairSpec
CONSTANTS
  OtherSessions <- MCOtherSessions
  Starts <- MCStarts
  MAX_CONTROL_MODE_SUBSCRIBERS = 2
  MonitorInterval = 1
  FallbackInterval = 1
  ActiveInterval = 3
  SelfHealInterval = 7
  DisableReconcile = TRUE
  MaxCoverageFaults = 1
  MaxEvents = 1
INVARIANTS FallbackIsFast
