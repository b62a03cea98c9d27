SPECIFICATION FairSpec
CONSTANTS
  Loaders = {l1, l2}
  Executors = {x1, x2}
  Plugins = {p1, p2}
  Modules = {"passthrough", "negative_length"}
  NoPlugin = NoPlugin
  MaxLoads = 3
  MaxRuns = 2
  Holders = {h1, h2}
  Materials = {m1, m2}
  InitialKey = m1
  NoKey = NoKey
  MaxVersion = 3
  Encoders = {e1, e2, e3}
  Subjects = {s1, s2}
  FirstId = 254
  NoId = NoId
  PayloadSize = 2
  MaxFrames = 4
  Clusters = {"us-1", "us-10", "eu-1"}
  Tagging = {"applier", "origin"}
  Prefixes <- MCPrefixes
  NoRow = NoRow
  MaxWrites = 2
  Registrants = {"r1"}
  Fields = {"id", "name"}
  Types = {"integer", "float", "other"}
  Modes = {"None", "Backward", "Forward", "Full"}
  MaxSaves = 3
  Tasks = {"pg", "cass"}
  MaxAttempts = 5
  InitialDelay = 4
  Multiplier = 2
  MaxDelay = 40
  Jitter = {3, 4, 5}
  HeartbeatInterval = 80
  Gaps = {40, 80}
INVARIANTS
  InFlightUndisturbed
  LaterReloadWins
  KeyOfItsVersion
  FramesDecode
  IdsBounded
  Converged
  LoopsDieOut
  EvolutionSafe
  LeaseSurvivesStartup
PROPERTIES
  RefinesRegistry
  StartReturns
CHECK_DEADLOCK FALSE
