CONSTANTS
  Requests = {r1, r2, r3}
  Clients = {c1}
  Instances = {i1}
  Limits = {0, 1}
  Rpm = 0
  Window = 2
  MaxClock = 0
SPECIFICATION Spec
INVARIANTS
  SlotsReturned
SYMMETRY GatewaySymmetry
CHECK_DEADLOCK FALSE
