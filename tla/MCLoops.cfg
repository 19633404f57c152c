CONSTANTS
  MaxAttempts = 2
  Retry = 1
  MaxJobs = 2
  MaxEdges = 2
  MaxRequests = 2
  MaxBoots = 1
  Days = 3
  Minutes = 3
  Schedules = {s1, s2}
  UnitDeadAfter = 1
  UnhealthyAfter = 2
  StartDeadline = 1
  CrashLoop = 1
  MaxClock = 3
  MaxRestarts = 1
  MaxReboots = 1
  MaxRowJobs = 1
  Sustain <- SustainTicks
  MaxTicks = 4
  MaxAlerts = 3
  MaxLapses = 1
  MaxServed = 4
SPECIFICATION LoopsSpec
INVARIANTS
  AttemptsBounded
  WindowsInv
  ReconcileInv
  AlertsInv
  UsageInv
PROPERTIES
  WithinWindow
  SettledStays
  DemotionSustained
  DeadlineSurvives
CHECK_DEADLOCK FALSE
