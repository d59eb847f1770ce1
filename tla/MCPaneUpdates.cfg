SPECIFICATION MCSpec
CONSTANTS
  Panes <- MCPanes
  Windows <- MCWindows
  Sessions <- MCSessions
  HomeWindow <- MCHomeWindow
  HomeSession <- MCHomeSession
  Candidates <- MCCandidates
  MaxOps = 3
  MaxFocus = 3
  MaxFails = 1
  p1 = p1
  p2 = p2
  Polled = {p1, p2}
  Mixes <- TitledAndNot
  TTL = 1
  SETTLE = 2
  RECONCILE = 3
  MaxFailures = 1
INVARIANTS QuietIsCurrent FocusOrderIsHonest WrongStatusesHeal
PROPERTIES EventsAreHonoured
CHECK_DEADLOCK FALSE
