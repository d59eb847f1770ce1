SPECIFICATION MCSpec
CONSTANTS
  a = a
  b = b
  Consumers = {a, b}
  Silents = {s1}
  Settings <- MCSettings
  Nobody = Nobody
  MAX_PENDING_HANDSHAKES = 1
  MAX_BUSY_REFUSAL_THREADS = 1
  MAX_SUBSCRIBERS = 1
  MaxFaults = 2
  OtherSessions <- MCOtherSessions
  Starts <- MCStarts
  MAX_CONTROL_MODE_SUBSCRIBERS = 2
  MonitorInterval = 1
  FallbackInterval = 1
  ActiveInterval = 3
  SelfHealInterval = 7
  DisableReconcile = TRUE
  MaxCoverageFaults = 2
  MaxEvents = 1
CHECK_DEADLOCK FALSE
INVARIANTS StopIsNotUndone OneStartPerOutage NeverStarved ListedInTime
PROPERTIES ConsumersSettle CoverageIsRegained
