CONSTANTS
  d1 = d1
  d2 = d2
  d3 = d3
  NoDaemon = NoDaemon
  NoLauncher = NoLauncher
  Daemons = {d1, d2, d3}
  Foreground = {d1, d2}
  OldDaemons = {d2}
  Launchers = {l1}
  Stoppers = {s1}
  MaxCrashes = 1
  MaxInterrupts = 1
  Resolvers = {r1, r2}
  i1 = i1
  i2 = i2
  Threads = {t1, t2}
  Panes = {p1}
  Ttys = {tty1}
  OwnTty = tty1
  Installs = {i1, i2}
  PathInstall = i1
  WellKnown <- MCWellKnown
  Versions <- MCVersions
  Pins = {i1}
  PathTmux = PathTmux
  NoInstall = NoInstall
  NoTty = NoTty
  NoThread = NoThread
  MaxCalls = 2
  MaxMoves = 1
  MaxTurns = 1
  Timeout = 1
  ProbeTimeout = 2
  LIVE_CHILD_EXIT_GRACE = 1
  Profiles <- MCProfiles
  Messages <- MCMessages
  MaxChunks = 1
  MaxEvents = 2
  MaxPanics = 2
SPECIFICATION MCSpec
SYMMETRY Alike
CHECK_DEADLOCK FALSE
INVARIANTS OneNamedListener StoppedIsGone OneSocketForAll TmuxAnswersAreTrue OneShotsAreSound TerminalIsGivenBack
