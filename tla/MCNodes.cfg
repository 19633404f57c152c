CONSTANTS
  x1 = x1
  x2 = x2
  MaxNodes = 2
  MaxAdds = 3
  Workers = {w}
  FileTasks = {x1, x2}
  MaxOps = 2
  MaxRows = 1
  MaxCuts = 1
  Lifetimes = {3, 4}
  MaxKeys = 2
  MaxTick = 5
  MaxEvents = 2
  SshOps = {x1, x2}
  MaxClients = 3
  MaxLinks = 3
  MaxEdits = 2
  NumNodes = 2
  Images = {"old", "new"}
  ClusterJobs = {"job"}
  Early = {"hosts"}
  MaxJobs = 2
  NoImage = "none"
SPECIFICATION NodesSpec
INVARIANTS
  SamplerInv
  FilesInv
  CertsInv
  SshInv
  ClusterInv
SYMMETRY NodesSymmetry
CHECK_DEADLOCK FALSE
