SPECIFICATION Spec
CONSTANTS
  Registrants = {"r1"}
  Fields = {"id", "name"}
  Types = {"integer", "string"}
  Modes = {"Backward", "Forward", "Full"}
  MaxSaves = 2
INVARIANT ReadsAsDocumented
CHECK_DEADLOCK FALSE
