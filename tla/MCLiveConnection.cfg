SPECIFICATION FairSpec
CONSTANTS
  local = local
  box = box
  Sources <- MCSources
  MaxEpoch = 3
  LIVE_PICKER_FENCE_CAP = 1
  MaxUserActions = 3
  MaxFaults = 1
  MaxFlips = 1
  MaxTrouble = 3
  MaxQueue = 1
CHECK_DEADLOCK FALSE
INVARIANTS WorkersMatchFibers RowsBelongToTheSource
PROPERTIES ConnectionsSettle
