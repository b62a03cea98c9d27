SPECIFICATION Spec
CONSTANTS
  Nodes = {1}
  MaxRestarts = 0
INVARIANT ShutdownReleases
CHECK_DEADLOCK FALSE
