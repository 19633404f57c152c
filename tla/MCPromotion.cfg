CONSTANTS
  Instances = {a, b}
  Promotions = {p1, p2, p3}
  MaxWorld = 1
  MaxCrashes = 1
SPECIFICATION Spec
INVARIANTS
  ActiveIsPointer
  RollbackGoesBack
  PendingHasCause
SYMMETRY Symmetric
CHECK_DEADLOCK FALSE
