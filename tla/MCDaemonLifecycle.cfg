CONSTANTS
  d1 = d1
  d2 = d2
  l1 = l1
  l2 = l2
  NoDaemon = NoDaemon
  NoLauncher = NoLauncher
  Daemons = {d1, d2}
  Foreground = {}
  OldDaemons = {}
  Launchers = {l1, l2}
  Stoppers = {s1}
  MaxCrashes = 1
  MaxInterrupts = 0
SPECIFICATION MCSpec
CHECK_DEADLOCK FALSE
PROPERTIES SpawnsOnlyWhenNeeded NobodyIsLeftBehind
