\* A gang on two machines, one of which has an owner.  No fault, no user.
CONSTANTS
  n1 = n1
  n2 = n2
  Nodes = {n1, n2}
  OwnerNodes = {n2}
  Outcomes = {"COMPLETED", "FAILED"}
  Severe = {"OUT_OF_MEMORY", "TIMEOUT"}
  UserCancels = FALSE
  UserRequeues = FALSE
  FabricFails = FALSE
  MaxPlacements = 1
  MaxFaults = 0
SPECIFICATION Spec
INVARIANT WholeOrNothing
CHECK_DEADLOCK FALSE
