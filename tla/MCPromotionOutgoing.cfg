CONSTANTS
  Instances = {a, b}
  Promotions = {p1, p2}
  MaxWorld = 0
  MaxCrashes = 0
SPECIFICATION Spec
INVARIANTS
  OutgoingStopsFirst
CHECK_DEADLOCK FALSE
