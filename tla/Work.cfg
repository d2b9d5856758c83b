\* A gang on two machines: every interleaving of its ranks' reports, with its
\* user, an owner and one fault; and the other parts, each for itself.
CONSTANTS
  n1 = n1
  n2 = n2
  Nodes = {n1, n2}
  OwnerNodes = {n2}
  Outcomes = {"COMPLETED", "FAILED", "TIMEOUT"}
  Severe = {"OUT_OF_MEMORY", "TIMEOUT"}
  UserCancels = TRUE
  UserRequeues = TRUE
  FabricFails = TRUE
  MaxPlacements = 1
  MaxFaults = 1
  People = {"ann", "bob"}
  Nobody = "nobody"
  Cost <- MCCost
  Waiting <- MCWaiting
  Policies <- MCPolicies
  SharesAt <- MCShares
  Length = 1
  MaxAge = 2
  TTL = 2
  MaxChanges = 1
  Kids = {"script", "child"}
  Limit = 1
SPECIFICATION WorkSpec
INVARIANTS
  WorkTypeOK
  
  StandingsAreRecent
PROPERTIES
  
  GangRecorded
  EveryoneGetsATurn
  StaysConfined
CHECK_DEADLOCK FALSE
