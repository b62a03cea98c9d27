------------------------------ MODULE MCLibrary ------------------------------
(***************************************************************************)
(* Six components that share no state with one another or with the engine, *)
(* so that a property of one holds in all of them together if it holds in  *)
(* it alone: each behaviour exercises one of them, picked at the start.    *)
(***************************************************************************)
EXTENDS Naturals, FiniteSets

CONSTANTS
  Loaders, Executors, Plugins, Modules, NoPlugin, MaxLoads, MaxRuns,
  Holders, Materials, InitialKey, NoKey, MaxVersion,
  Encoders, Subjects, FirstId, NoId, PayloadSize, MaxFrames,
  Clusters, NoRow, Tagging, Prefixes, MaxWrites,
  Registrants, Fields, Types, Modes, MaxSaves,
  Tasks, MaxAttempts, InitialDelay, Multiplier, MaxDelay, Jitter, HeartbeatInterval, Gaps

ASSUME KeyAssumption ==
  InitialKey \in Materials /\ NoKey \notin Materials /\ MaxVersion \in Nat \ {0}

ASSUME IdAssumption ==
  /\ FirstId \in Nat /\ PayloadSize \in Nat
  /\ NoId \notin Nat /\ NoId \notin Subjects
  /\ IsFiniteSet(Encoders)

ASSUME RegionAssumption ==
  /\ MaxWrites \in Nat /\ NoRow \notin [origin : Clusters, timestamp : Nat]
  /\ Tagging \subseteq {"applier", "origin"}
  /\ Prefixes \in [Clusters -> SUBSET Clusters]
  /\ \A c \in Clusters : c \in Prefixes[c]

ASSUME StartupAssumption ==
  /\ MaxAttempts \in Nat \ {0}
  /\ InitialDelay \in Nat /\ Multiplier \in Nat /\ MaxDelay \in Nat
  /\ Jitter \subseteq Nat /\ HeartbeatInterval \in Nat /\ Gaps \subseteq Nat

VARIABLES
  part,
  plugins, loading, running, returned, loads, runs, outcome,
  current_version, keys, fetching, used,
  next_schema_id, schema_cache, missed, owner, frames,
  row, changes, forwarded, wire, arrived,
  store, pending, saved,
  phase, attempt, delay, left, silence, lease

P == INSTANCE WasmPluginRegistry
K == INSTANCE KmsProvider
C == INSTANCE ConfluentRegistry
R == INSTANCE RegionSync
S == INSTANCE SchemaRegistry
T == INSTANCE StreamStartup
LOCAL FSE == INSTANCE FiniteSetsExt

(***************************************************************************)
(* The schedule of a start: D holds the delay after each number of         *)
(* failures, before jitter; B the longest that the sleeps up to there can  *)
(* take in all.  The constants of the code keep it within the lapse.       *)
(***************************************************************************)
Attempts == 0..MaxAttempts
Final == MaxAttempts - 1

Schedule(D, B) ==
  /\ D \in [Attempts -> Nat] /\ B \in [Attempts -> Nat]
  /\ D[0] = InitialDelay /\ B[0] = 0
  /\ \A i \in 0..Final : D[i + 1] = T!Lesser(D[i] * Multiplier, MaxDelay)
  /\ \A i \in 0..Final, j \in Jitter : B[i] + (D[i] * j) \div 4 <= B[i + 1]

DelayAfter[i \in Attempts] ==
  IF i = 0 THEN InitialDelay ELSE T!Lesser(DelayAfter[i - 1] * Multiplier, MaxDelay)

SleepsUpTo[i \in Attempts] ==
  IF i = 0 THEN 0
  ELSE SleepsUpTo[i - 1] + FSE!Max({(DelayAfter[i - 1] * j) \div 4 : j \in Jitter})

ASSUME ScheduleAssumption ==
  /\ Schedule(DelayAfter, SleepsUpTo)
  /\ \A i \in 0..Final : SleepsUpTo[i] <= T!Lapse

pluginVars  == <<plugins, loading, running, returned, loads, runs, outcome>>
keyVars     == <<current_version, keys, fetching, used>>
idVars      == <<next_schema_id, schema_cache, missed, owner, frames>>
regionVars  == <<row, changes, forwarded, wire, arrived>>
schemaVars  == <<store, pending, saved>>
startupVars == <<phase, attempt, delay, left, silence, lease>>
vars == <<part, pluginVars, keyVars, idVars, regionVars, schemaVars, startupVars>>

\* The ids of the clusters of the run: one begins with another's.
MCPrefixes == [c \in Clusters |-> IF c = "us-10" THEN {"us-1", "us-10"} ELSE {c}]

Init ==
  /\ part \in {"plugins", "keys", "ids", "regions", "schemas", "startup"}
  /\ P!Init /\ K!Init /\ C!Init /\ R!Init /\ S!Init /\ T!Init

PluginStep == part = "plugins" /\ P!Next
  /\ UNCHANGED <<part, keyVars, idVars, regionVars, schemaVars, startupVars>>
KeyStep == part = "keys" /\ K!Next
  /\ UNCHANGED <<part, pluginVars, idVars, regionVars, schemaVars, startupVars>>
IdStep == part = "ids" /\ C!Next
  /\ UNCHANGED <<part, pluginVars, keyVars, regionVars, schemaVars, startupVars>>
RegionStep == part = "regions" /\ R!Next
  /\ UNCHANGED <<part, pluginVars, keyVars, idVars, schemaVars, startupVars>>
SchemaStep == part = "schemas" /\ S!Next
  /\ UNCHANGED <<part, pluginVars, keyVars, idVars, regionVars, startupVars>>
StartupStep == part = "startup" /\ T!Next
  /\ UNCHANGED <<part, pluginVars, keyVars, idVars, regionVars, schemaVars>>

Next == PluginStep \/ KeyStep \/ IdStep \/ RegionStep \/ SchemaStep \/ StartupStep

\* Sleeps end and an awake task is polled.
Fairness ==
  /\ WF_startupVars(part = "startup" /\ T!Pass)
  /\ \A t \in Tasks : WF_startupVars(part = "startup" /\ T!Start(t))

FairSpec == Init /\ [][Next]_vars /\ Fairness

\* What is checked of each component, stated and explained in its module.
InFlightUndisturbed == P!InFlightUndisturbed
LaterReloadWins == P!LaterReloadWins
KeyOfItsVersion == K!KeyOfItsVersion
FramesDecode == C!FramesDecode
IdsBounded == C!IdsBounded
RefinesRegistry == C!RefinesRegistry
Converged == R!Converged
LoopsDieOut == R!LoopsDieOut
EvolutionSafe == S!EvolutionSafe
LeaseSurvivesStartup == T!LeaseSurvivesStartup
StartReturns == part = "startup" => T!StartReturns
=============================================================================
