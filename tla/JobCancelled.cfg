\* A cancel whose kill was in a lost response.
CONSTANTS
  j1 = j1
  n1 = n1
  Jobs = {j1}
  Nodes = {n1}
  NoNode = NoNode
  UserJobs = {}
  CancelJobs = {j1}
  HoldJobs = {}
  AdminNodes = {}
  OwnerNodes = {}
  Outcomes = {"COMPLETED"}
  MaxAttempts = 2
  MaxFaults = 1
SPECIFICATION Spec
INVARIANT CancelReaches
