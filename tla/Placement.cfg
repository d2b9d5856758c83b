\* A record without a process is resolved, on a machine that may die at any point;
\* and the passes over a queue of three jobs.
CONSTANTS
  j1 = j1
  n1 = n1
  Jobs = {j1}
  Nodes = {n1}
  NoNode = NoNode
  UserJobs = {}
  CancelJobs = {j1}
  HoldJobs = {}
  AdminNodes = {}
  OwnerNodes = {}
  Outcomes = {"COMPLETED"}
  MaxAttempts = 2
  MaxFaults = 2
  Kinds <- MCKinds
  NodeOrder <- MCNodes
  Cap <- MCCap
  Users <- MCUsers
  Specs <- MCSpecs
  Default <- MCDefault
  Override <- MCOverride
  ClusterLimits <- MCLimits
  Depth = 1
  MaxJobs = 3
  MaxTime = 2
  MaxFlips = 1
  Clients = {"x", "y"}
  Commands <- MCCommands
  StageNames <- MCStages
  Pipelines <- MCPipelines
  Tasks = 2
  Limit = 3
  MaxBreaks = 1
SPECIFICATION PlacementSpec
INVARIANTS
  PlacementTypeOK
  CapacityKept
  
  
PROPERTIES
  RecordConverges
  GangsAreWhole
  
  HeadKeepsItsPlace
CHECK_DEADLOCK FALSE
