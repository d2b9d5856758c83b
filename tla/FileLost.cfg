\* Two transfers between two machines, and a restart of the controller.
CONSTANTS
  Places = {"a", "b"}
  Here = "here"
  Behind = {}
  MaxTransfers = 2
  MaxVersions = 1
  MaxLost = 0
  MaxRestarts = 1
SPECIFICATION TransfersSpec
PROPERTY MoveNeverLosesTheFile
CHECK_DEADLOCK FALSE
