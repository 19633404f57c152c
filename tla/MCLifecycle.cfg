CONSTANTS
  Slots = {s1}
  MaxRequests = 3
  MaxRestarts = 1
SPECIFICATION FairSpec
INVARIANTS
  NoOrphanUnit
  NoStaleClaim
PROPERTIES
  StoppedStays
  ObserverLeavesStopped
  DeadlineWorks
CHECK_DEADLOCK FALSE
