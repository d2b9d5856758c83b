\* A drained node that never comes back.
CONSTANTS
  j1 = j1
  n1 = n1
  Jobs = {j1}
  Nodes = {n1}
  NoNode = NoNode
  UserJobs = {}
  CancelJobs = {}
  HoldJobs = {}
  AdminNodes = {n1}
  OwnerNodes = {}
  Outcomes = {"COMPLETED"}
  MaxAttempts = 1
  MaxFaults = 1
SPECIFICATION FairSpec
PROPERTY RecordConverges
