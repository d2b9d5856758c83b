\* A refusal resent after its response was lost.
CONSTANTS
  j1 = j1
  n1 = n1
  n2 = n2
  Jobs = {j1}
  Nodes = {n1, n2}
  NoNode = NoNode
  UserJobs = {}
  CancelJobs = {}
  HoldJobs = {}
  AdminNodes = {}
  OwnerNodes = {n1}
  Outcomes = {"COMPLETED"}
  MaxAttempts = 3
  MaxFaults = 1
SPECIFICATION Spec
INVARIANT OneMachine
