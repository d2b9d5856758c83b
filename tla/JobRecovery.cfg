\* One job, with or without --requeue, on two machines that crash, fall silent
\* and lose messages; and the other parts, each for itself.
CONSTANTS
  j1 = j1
  n1 = n1
  n2 = n2
  Jobs = {j1}
  Nodes = {n1, n2}
  NoNode = NoNode
  UserJobs = {}
  CancelJobs = {}
  HoldJobs = {j1}
  AdminNodes = {}
  OwnerNodes = {}
  Outcomes = {"COMPLETED"}
  MaxAttempts = 2
  MaxFaults = 2
  Daemons = {"d1", "d2", "d3"}
  Roots = {"r1", "r2"}
  Ports = {"p", "q"}
  Default = "r1"
  None = "none"
  MaxKills = 1
  Paths = {"a", "b", "l"}
  Beside = {"c"}
  Links = {"l"}
  IndexCap = 1
  MaxWrites = 2
  MaxCommands = 1
  MaxBreaks = 1
SPECIFICATION RecoverySpec
INVARIANTS
  TypeOK
  Accounted
  AtMostOnce
  
  ReclaimSparesLive
  RestTypeOK
  CommandsArrive
  FilesKept
SYMMETRY SymmetricNodes
CHECK_DEADLOCK FALSE
