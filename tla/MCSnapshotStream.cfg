CONSTANTS
  Clients = {c1}
  p1 = p1
  p2 = p2
  Absent = Absent
  NoFrame = NoFrame
  Panes <- MCPanes
  Materials = {1, 2, 4}
  Volatiles = {0,2,3}
  Snapshots <- SizedSnapshots
  MAX_SUBSCRIBERS = 1
  WireCap = 1
  MaxSeq = 3
  MaxStalls = 2
  DAEMON_FRAME_MAX_BYTES = 7
  FULL_FRAME_BOUND_SLACK = 1
  FullSize <- MCFullSize
  DiffSize <- MCDiffSize
  OmittedGrowth <- MCOmittedGrowth
SPECIFICATION FairSpec
INVARIANTS AlwaysBootstrappable
PROPERTIES ImplementsFeed CatchesUp ConnectionsEnd
