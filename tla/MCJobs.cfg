CONSTANTS
  JobIds = {j1, j2}
  MaxCrashes = 1
  MaxLost = 1
SPECIFICATION FairSpec
INVARIANTS
  AdriftHasCause
  ActiveJobVisible
PROPERTIES
  LedgerKept
  CancelTakesEffect
CHECK_DEADLOCK FALSE
