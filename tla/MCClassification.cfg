CONSTANTS
  Programs <- AllNames
  LeftTitles <- Left
  Program <- AllPrograms
  MaxOlder = 2
SPECIFICATION MCSpec
CHECK_DEADLOCK FALSE
INVARIANTS NeverIdleWhileBusy WaitingIsSeen ListingsAreOfThePane
PROPERTIES RecordsRestOnEvidence
