SPECIFICATION Spec
CONSTANTS
  Clusters = {"us-east-1", "eu-west-1"}
  NoRow = NoRow
  Tagging = {"origin"}
  Prefixes <- MCPrefixes
  MaxWrites = 2
INVARIANT
  NoEcho
CHECK_DEADLOCK FALSE
