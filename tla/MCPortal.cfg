CONSTANTS
  x1 = x1
  x2 = x2
  NumInstances = 2
  Aliases = {a}
  MaxStarts = 2
  MaxChanges = 1
  Slots = {x1, x2}
  Hosts = {h, w}
  Editors = {x1, x2}
  MaxPort = 3
  Reserved = {2}
  TlsPort = 3
  MaxPortEdits = 3
  Users = {u}
  Jtis = {t}
  Revokers = {x1, x2}
  Lifetime = 2
  MaxTime = 2
  MaxSetBacks = 1
  MaxBoots = 1
  Callbacks = {x1, x2}
  KeyTtl = 2
  MaxStale = 3
  RefreshGap = 2
  MaxSignKeys = 2
  MaxMoment = 7
  EvalJobs = {x1, x2}
  MaxRuns = 2
  MaxPrompts = 2
  MaxFaults = 1
  Ids = {i1}
  Retention = 1
  MaxWrites = 3
  MaxBundles = 2
SPECIFICATION PortalSpec
INVARIANTS
  NamesInv
  PortsInv
  SessionsInv
  SignInInv
  EvalsInv
  BackupInv
PROPERTIES
  RestoredWhole
SYMMETRY PortalSymmetry
CHECK_DEADLOCK FALSE
