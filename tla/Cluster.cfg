CONSTANTS
  Machines = {"n1"}
  Tokens = {"t1", "t2"}
  MaxAdmin = 2
  MaxOwner = 2
  MaxMishaps = 1
  Jobs = {"j1", "j2"}
  Containers = {"j2"}
  Signals = {"input", "battery"}
  Days = 3
  DayLen = 3
  MaxEdits = 3
  Policies <- MCPolicies
  Users = {"ann"}
  Keys = {"k1"}
  Codes = {"c1", "c2"}
  Sessions = {"s1"}
  NoKey = "nokey"
  Nobody = "nobody"
  MaxRequests = 4
  MaxCrashes = 1
  Services = {"web"}
  SvcJobs = {"s1", "s2", "s3"}
  NoJob = "nojob"
  MaxWait = 1
  MaxCalls = 3
  MaxCuts = 1
  Places = {"a", "b"}
  Here = "here"
  Behind = {"b"}
  MaxTransfers = 1
  MaxVersions = 1
  MaxLost = 1
  MaxRestarts = 1
  Runners = {"a"}
  MaxOutput = 1
  MaxResizes = 1
  MaxFaults = 1
  Tasks = {"j1"}
  MaxRuns = 2
  Logins = {"w1"}
  MaxStarts = 2
  MaxTrouble = 1
  Files = {"qos", "priority", "cluster", "node"}
  Admins = {"x", "y"}
  MaxOrders = 2
  MaxSpoils = 1
SPECIFICATION FairSpec
INVARIANTS
  ClusterTypeOK
  
  
  DecidesForTheOwner
  SignOutHolds
  
  SettingsStand
PROPERTIES
  RemovalHolds
  
  RevokedSessionsEnd
  ServiceComesBack
  MoveArrivesFirst
  ListingSettles
  
  MachineTidy
CHECK_DEADLOCK FALSE
