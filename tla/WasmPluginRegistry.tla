------------------------- MODULE WasmPluginRegistry -------------------------
(***************************************************************************)
(* src/src/transform/registry.rs and the WasmTransformer it keeps          *)
(* (src/src/transform/mod.rs): plugins are compiled outside the lock and   *)
(* swapped in under its write guard, and a transform runs under a read     *)
(* guard from the lookup to its end, however it ends.                      *)
(*                                                                         *)
(* register_plugin and hot_reload_plugin do the same to the map.  Nothing  *)
(* disables a plugin, so the branch for a disabled one is left out, and so *)
(* are calls that change nothing: a module that does not compile, a plugin *)
(* that is not registered.                                                 *)
(***************************************************************************)
EXTENDS Naturals

CONSTANTS
  Loaders,     \* threads that register or reload
  Executors,   \* threads that call execute_transform
  Plugins,     \* plugin names
  Modules,     \* compiled modules in use, a subset of DOMAIN Transform
  NoPlugin,
  MaxLoads,    \* bound: loads
  MaxRuns      \* bound: transforms

VARIABLES
  plugins,     \* name -> NoPlugin, or metadata and engine
  loading,     \* loader -> NoPlugin, or what it compiled and has to insert
  running,     \* executor -> NoPlugin, or what it looked up
  returned,    \* name -> the loads that have returned
  loads,       \* loads begun; the clock of loaded_at
  runs,        \* transforms begun
  outcome      \* executor -> how its last transform ended

pluginVars == <<plugins, loading, running, returned, loads, runs, outcome>>

\* WasmTransformer::transform by what the module does.  alloc, transform or
\* memory may be missing; the guest may trap or return a pointer or a length
\* outside its memory; its answer may be no event.  A negative length becomes
\* a buffer no allocator gives, and the call unwinds.
Transform ==
  [passthrough |-> "event", no_export |-> "error", trap |-> "error",
   out_of_bounds |-> "error", not_json |-> "error", negative_length |-> "panic"]

Init ==
  /\ plugins = [n \in Plugins |-> NoPlugin]
  /\ loading = [l \in Loaders |-> NoPlugin]
  /\ running = [x \in Executors |-> NoPlugin]
  /\ returned = [n \in Plugins |-> {}]
  /\ loads = 0
  /\ runs = 0
  /\ outcome = [x \in Executors |-> "none"]

\* register_plugin or hot_reload_plugin: the module compiles and its metadata
\* is made.  `after` is history: the loads that had returned at the call.
Compile(l, n, m) ==
  /\ loading[l] = NoPlugin /\ loads < MaxLoads
  /\ loads' = loads + 1
  /\ loading' = [loading EXCEPT ![l] = [name |-> n, module |-> m, loaded_at |-> loads',
                                        after |-> {q.loaded_at : q \in returned[n]}]]
  /\ UNCHANGED <<plugins, running, returned, runs, outcome>>

\* Mutant: swapped without the write lock.
InsertUnlocked(l) ==
  /\ loading[l] # NoPlugin
  /\ plugins' = [plugins EXCEPT ![loading[l].name] = loading[l]]
  /\ returned' = [returned EXCEPT ![loading[l].name] = @ \cup {loading[l]}]
  /\ loading' = [loading EXCEPT ![l] = NoPlugin]
  /\ UNCHANGED <<running, loads, runs, outcome>>

\* Mutant: an entry that is there is kept.
InsertIfAbsent(l) ==
  /\ loading[l] # NoPlugin /\ \A x \in Executors : running[x] = NoPlugin
  /\ plugins' = [plugins EXCEPT ![loading[l].name] = IF @ = NoPlugin THEN loading[l] ELSE @]
  /\ returned' = [returned EXCEPT ![loading[l].name] = @ \cup {loading[l]}]
  /\ loading' = [loading EXCEPT ![l] = NoPlugin]
  /\ UNCHANGED <<running, loads, runs, outcome>>

\* The write lock is there, which no reader holds: the entry is replaced.
Insert(l) ==
  /\ loading[l] # NoPlugin /\ \A x \in Executors : running[x] = NoPlugin
  /\ plugins' = [plugins EXCEPT ![loading[l].name] = loading[l]]
  /\ returned' = [returned EXCEPT ![loading[l].name] = @ \cup {loading[l]}]
  /\ loading' = [loading EXCEPT ![l] = NoPlugin]
  /\ UNCHANGED <<running, loads, runs, outcome>>

\* execute_transform: the plugin is looked up and the read guard kept.
Execute(x, n) ==
  /\ running[x] = NoPlugin /\ plugins[n] # NoPlugin /\ runs < MaxRuns
  /\ running' = [running EXCEPT ![x] = plugins[n]]
  /\ runs' = runs + 1
  /\ UNCHANGED <<plugins, loading, returned, loads, outcome>>

\* The transform ends and the guard is dropped, also when it unwinds.
Finish(x) ==
  /\ running[x] # NoPlugin
  /\ outcome' = [outcome EXCEPT ![x] = Transform[plugins[running[x].name].module]]
  /\ running' = [running EXCEPT ![x] = NoPlugin]
  /\ UNCHANGED <<plugins, loading, returned, loads, runs>>

Next ==
  \/ \E l \in Loaders : Insert(l) \/ \E n \in Plugins, m \in Modules : Compile(l, n, m)
  \/ \E x \in Executors : Finish(x) \/ \E n \in Plugins : Execute(x, n)

Spec == Init /\ [][Next]_pluginVars

-----------------------------------------------------------------------------
\* "Atomically hot-reloads an active WASM plugin version without dropping
\* in-flight streams": a transform in flight runs to its end on the plugin it
\* looked up.
InFlightUndisturbed ==
  \A x \in Executors : running[x] # NoPlugin => plugins[running[x].name] = running[x]

\* A reload that was called after another one had returned is not undone by
\* it, although modules are compiled outside the lock: no load that completed
\* came after the registered one.
LaterReloadWins ==
  \A n \in Plugins : plugins[n] # NoPlugin =>
    \A q \in returned[n] : plugins[n].loaded_at \notin q.after
=============================================================================
