\* A running job its user requeues.
CONSTANTS
  j1 = j1
  n1 = n1
  Jobs = {j1}
  Nodes = {n1}
  NoNode = NoNode
  UserJobs = {j1}
  CancelJobs = {}
  HoldJobs = {}
  AdminNodes = {}
  OwnerNodes = {}
  Outcomes = {"COMPLETED"}
  MaxAttempts = 2
  MaxFaults = 0
SPECIFICATION Spec
INVARIANT CancelledOnlyByUser
