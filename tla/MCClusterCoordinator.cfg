SPECIFICATION FairSpec
CONSTANTS
  Nodes = {1, 2}
  MaxRestarts = 1
INVARIANT TypeOK
PROPERTIES
  SteppedDownForGood
  ElectionProgress
CHECK_DEADLOCK FALSE
