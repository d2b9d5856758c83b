\* One job on one machine, with its user, an admin and the owner doing what they
\* may; and the tools and the software of a machine.
CONSTANTS
  j1 = j1
  n1 = n1
  Jobs = {j1}
  Nodes = {n1}
  NoNode = NoNode
  UserJobs = {j1}
  CancelJobs = {j1}
  HoldJobs = {}
  AdminNodes = {n1}
  OwnerNodes = {n1}
  Outcomes = {"COMPLETED"}
  MaxAttempts = 2
  MaxFaults = 1
  Installers = {"s1", "s2"}
  MaxInstalls = 3
  MaxUpgrades = 2
  MaxDeaths = 1
  Trees <- MCTrees
  Packages <- MCPackages
  Provides <- MCProvides
  MaxChanges = 2
SPECIFICATION OperatorsSpec
INVARIANTS
  ToolsFound
PROPERTIES
  ResultStands
CHECK_DEADLOCK FALSE
