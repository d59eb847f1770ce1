SPECIFICATION MCSpec
CONSTANTS
  Panes <- MCPanes
  Keys <- MCKeys
  Heights <- MCHeights
  Places <- MCPlaces
  Texts <- MCTexts
  GroupBys <- MCGroupBys
  Recency <- MCRecency
  Hints <- MCHints
  MaxQuery = 1
  MaxUpdates = 2
  MaxPresses = 3
  Dirs <- MCDirs
  PanePlaces <- MCPanePlaces
  Common <- MCCommon
  WORKSPACE_CACHE_TTL = 2
  MaxTreeChanges = 1
CHECK_DEADLOCK FALSE
INVARIANTS ScreenIsTrue AnswersAreRecent
PROPERTIES HandIsSteady
