CONSTANTS
    LocalId = local
    a = a
    b = b
    h1 = h1
    h2 = h2
    NoHost = NoHost
    None = None
    SshIds <- MCSshIds
    Hosts <- MCHosts
    Runners = {r1}
    Starts <- MCStarts
    Folders <- MCFolders
    RowPanes = {1, 2, 3}
    Matching = {2}
    Ranked = {2, 3}
    Frames <- MCFrames
    MaxClicks = 2
    MaxFrames = 2
    MaxUpsets = 1
SPECIFICATION MCSpec
CHECK_DEADLOCK FALSE
INVARIANTS StorageIsTrueAndShown RowsAreLive
PROPERTIES EditsSurviveTheDock PicksSurvive
