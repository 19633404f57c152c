CONSTANTS
  Slots = {s1, s2}
  MaxRequests = 2
  MaxRestarts = 0
SPECIFICATION Spec
INVARIANTS
  NoOrphanUnit
CHECK_DEADLOCK FALSE
