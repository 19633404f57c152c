CONSTANTS
  Requests = {r1, r2, r3}
  Clients = {c1}
  Instances = {i1, i2}
  Limits = {0, 1}
  Rpm = 2
  Window = 1
  MaxClock = 3
  Keys = {k1}
  Admins = {a1, a2}
  KeyLimits = {low}
  MaxCalls = 2
  MaxKeyEdits = 3
  MaxLapses = 1
SPECIFICATION GatewaySpec
INVARIANTS
  CountExact
  RateHolds
  RetryHonest
  BooksInv
SYMMETRY GatewaySymmetry
CHECK_DEADLOCK FALSE
