--------------------------- MODULE LibraryProofs ----------------------------
(***************************************************************************)
(* Theorems about the components of MCLibrary, for every number of         *)
(* threads, plugins, keys, subjects and clusters.  Each rests on an        *)
(* inductive invariant of its component; StepOf carries it to the union.   *)
(***************************************************************************)
EXTENDS MCLibrary, SequenceTheorems, FiniteSetTheorems, TLAPS

\* A step of the union is a step of each component or leaves it alone.
LEMMA StepOf ==
  ASSUME [Next]_vars
  PROVE  /\ [P!Next]_pluginVars /\ [K!Next]_keyVars
         /\ [C!Next]_idVars /\ [R!Next]_regionVars /\ [S!Next]_schemaVars
         /\ [T!Next]_startupVars
  BY DEF Next, vars, pluginVars, keyVars, idVars, regionVars, schemaVars, startupVars,
         PluginStep, KeyStep, IdStep, RegionStep, SchemaStep, StartupStep

-----------------------------------------------------------------------------
\* Keys of versions up to the current one are there and are never replaced, and
\* what a holder has read of the version is not ahead of them.
KeyInv ==
  /\ current_version \in 1..MaxVersion
  /\ keys \in [1..MaxVersion -> Materials \cup {NoKey}]
  /\ fetching \in [Holders -> 0..current_version]
  /\ \A v \in 1..current_version : keys[v] # NoKey
  /\ \A p \in used : p[1] \in 1..current_version /\ keys[p[1]] = p[2]

\* new inserts the first key under version 1.
LEMMA KeyInit == K!Init => KeyInv
  BY KeyAssumption DEF K!Init, KeyInv

\* rotate_key only adds a version, so what was read before stays right.
LEMMA KeyNext == ASSUME KeyInv, [K!Next]_keyVars PROVE KeyInv'
<1>1. ASSUME NEW h \in Holders, K!ReadVersion(h) PROVE KeyInv'
  BY <1>1 DEF KeyInv, K!ReadVersion
<1>2. ASSUME NEW h \in Holders, K!ReadKey(h) PROVE KeyInv'
  BY <1>2 DEF KeyInv, K!ReadKey
<1>3. ASSUME NEW m \in Materials, K!RotateKey(m) PROVE KeyInv'
  BY <1>3, KeyAssumption DEF KeyInv, K!RotateKey
<1>4. CASE UNCHANGED keyVars
  BY <1>4 DEF KeyInv, keyVars
<1> QED
  BY <1>1, <1>2, <1>3, <1>4 DEF K!Next

\* get_active_key returns the key of the version it returns, whatever
\* rotate_key does between its two reads and afterwards.
THEOREM KeysFit == FairSpec => []KeyOfItsVersion
<1>1. Init => KeyInv
  BY KeyInit DEF Init
<1>2. KeyInv /\ [Next]_vars => KeyInv'
  BY StepOf, KeyNext
<1>3. KeyInv => KeyOfItsVersion
  BY DEF KeyInv, KeyOfItsVersion, K!KeyOfItsVersion
<1> QED
  BY <1>1, <1>2, <1>3, PTL DEF FairSpec

-----------------------------------------------------------------------------
\* A plugin is registered under its own name, and one that is running is the
\* registered one.
RunInv ==
  /\ DOMAIN plugins = Plugins
  /\ DOMAIN loading = Loaders
  /\ DOMAIN running = Executors
  /\ \A n \in Plugins : plugins[n] # NoPlugin => plugins[n].name = n
  /\ \A l \in Loaders : loading[l] # NoPlugin => loading[l].name \in Plugins
  /\ \A x \in Executors : running[x] # NoPlugin =>
       running[x].name \in Plugins /\ plugins[running[x].name] = running[x]

\* The registry starts empty.
LEMMA RunInit == P!Init => RunInv
  BY DEF P!Init, RunInv

\* The write lock of an insert waits for every transform in flight.
LEMMA RunNext == ASSUME RunInv, [P!Next]_pluginVars PROVE RunInv'
<1>1. ASSUME NEW l \in Loaders, NEW n \in Plugins, NEW m \in Modules, P!Compile(l, n, m)
      PROVE  RunInv'
  BY <1>1 DEF RunInv, P!Compile
<1>2. ASSUME NEW l \in Loaders, P!Insert(l) PROVE RunInv'
  BY <1>2 DEF RunInv, P!Insert
<1>3. ASSUME NEW x \in Executors, NEW n \in Plugins, P!Execute(x, n) PROVE RunInv'
  BY <1>3 DEF RunInv, P!Execute
<1>4. ASSUME NEW x \in Executors, P!Finish(x) PROVE RunInv'
  BY <1>4 DEF RunInv, P!Finish
<1>5. CASE UNCHANGED pluginVars
  BY <1>5 DEF RunInv, pluginVars
<1> QED
  BY <1>1, <1>2, <1>3, <1>4, <1>5 DEF P!Next

\* A hot reload never takes the plugin from under a transform in flight.
THEOREM ReloadsDoNotDisturb == FairSpec => []InFlightUndisturbed
<1>1. Init => RunInv
  BY RunInit DEF Init
<1>2. RunInv /\ [Next]_vars => RunInv'
  BY StepOf, RunNext
<1>3. RunInv => InFlightUndisturbed
  BY DEF RunInv, InFlightUndisturbed, P!InFlightUndisturbed
<1> QED
  BY <1>1, <1>2, <1>3, PTL DEF FairSpec

-----------------------------------------------------------------------------
\* The loads of plugin n that have returned.
Loaded(n) == {q.loaded_at : q \in returned[n]}

\* What a load knows of: loads of its plugin that had returned before it began.
KnowsPast(q, n) == q.loaded_at \in 1..loads /\ q.after \subseteq Loaded(n)

\* A load under way has a number of its own, which no load can know of yet.
ReloadInv ==
  /\ loads \in Nat
  /\ DOMAIN returned = Plugins
  /\ \A l \in Loaders : loading[l] # NoPlugin =>
       /\ KnowsPast(loading[l], loading[l].name)
       /\ \A n \in Plugins : loading[l].loaded_at \notin Loaded(n)
       /\ \A k \in Loaders \ {l} : loading[k] # NoPlugin =>
            loading[k].loaded_at # loading[l].loaded_at
  /\ \A n \in Plugins : \A q \in returned[n] : KnowsPast(q, n)
  /\ P!LaterReloadWins

\* No load has returned yet.
LEMMA ReloadInit == P!Init => ReloadInv
  BY DEF P!Init, ReloadInv, P!LaterReloadWins

\* A compilation takes a fresh number and notes which loads have returned.
LEMMA CompileKeepsOrder ==
  ASSUME RunInv, ReloadInv, NEW l \in Loaders, NEW n \in Plugins, NEW m \in Modules,
         P!Compile(l, n, m)
  PROVE  ReloadInv'
<1>1. /\ loads \in Nat /\ loads' = loads + 1
      /\ UNCHANGED <<plugins, returned>>
      /\ \A k \in Loaders \ {l} : loading'[k] = loading[k]
      /\ loading'[l] = [name |-> n, module |-> m, loaded_at |-> loads + 1, after |-> Loaded(n)]
  BY DEF RunInv, ReloadInv, P!Compile, Loaded
<1>2. \A p \in Plugins : Loaded(p)' = Loaded(p)
  BY <1>1 DEF Loaded
<1>3. \A p \in Plugins : \A q \in returned[p] : KnowsPast(q, p) /\ KnowsPast(q, p)'
  BY <1>1, <1>2 DEF ReloadInv, KnowsPast
<1>4. \A p \in Plugins : loads + 1 \notin Loaded(p)
  BY <1>1, <1>3 DEF Loaded, KnowsPast
<1>5. \A k \in Loaders \ {l} : loading[k] # NoPlugin =>
        /\ KnowsPast(loading[k], loading[k].name)'
        /\ loading[k].loaded_at \in 1..loads
  <2> SUFFICES ASSUME NEW k \in Loaders \ {l}, loading[k] # NoPlugin
               PROVE  /\ KnowsPast(loading[k], loading[k].name)'
                      /\ loading[k].loaded_at \in 1..loads
    OBVIOUS
  <2>1. KnowsPast(loading[k], loading[k].name) /\ loading[k].name \in Plugins
    BY DEF ReloadInv, RunInv
  <2> QED
    BY <1>1, <1>2, <2>1 DEF KnowsPast
<1>6. KnowsPast(loading[l], loading[l].name)'
  BY <1>1, <1>2 DEF KnowsPast
<1>7. P!LaterReloadWins'
  BY <1>1 DEF ReloadInv, P!LaterReloadWins
<1>8. \A k \in Loaders : loading'[k] # NoPlugin =>
        /\ \A p \in Plugins : loading'[k].loaded_at \notin Loaded(p)'
        /\ \A j \in Loaders \ {k} : loading'[j] # NoPlugin =>
             loading'[j].loaded_at # loading'[k].loaded_at
  BY <1>1, <1>2, <1>4, <1>5 DEF ReloadInv
<1> QED
  BY <1>1, <1>3, <1>5, <1>6, <1>7, <1>8 DEF ReloadInv

\* The load that is inserted is known to no load that returned before it.
LEMMA InsertKeepsOrder ==
  ASSUME RunInv, ReloadInv, NEW l \in Loaders, P!Insert(l)
  PROVE  ReloadInv'
<1>0. PICK n \in Plugins : n = loading[l].name
  BY DEF RunInv, P!Insert
<1>1. /\ loading[l] # NoPlugin /\ loads' = loads
      /\ \A k \in Loaders \ {l} : loading'[k] = loading[k]
      /\ loading'[l] = NoPlugin
      /\ DOMAIN returned' = Plugins
      /\ \A p \in Plugins \ {n} : returned'[p] = returned[p] /\ plugins'[p] = plugins[p]
      /\ returned'[n] = returned[n] \cup {loading[l]} /\ plugins'[n] = loading[l]
  BY <1>0 DEF RunInv, ReloadInv, P!Insert
<1>2. /\ \A p \in Plugins \ {n} : Loaded(p)' = Loaded(p)
      /\ Loaded(n)' = Loaded(n) \cup {loading[l].loaded_at}
  BY <1>1 DEF Loaded
<1>3. \A p \in Plugins : Loaded(p) \subseteq Loaded(p)'
  BY <1>2
<1>4. KnowsPast(loading[l], n) /\ loading[l].loaded_at \notin Loaded(n)
  BY <1>0, <1>1 DEF ReloadInv
<1>5. \A p \in Plugins : \A q \in returned'[p] : KnowsPast(q, p)'
  BY <1>1, <1>3, <1>4 DEF ReloadInv, KnowsPast
<1>6. \A q \in returned'[n] : loading[l].loaded_at \notin q.after
  BY <1>1, <1>4 DEF ReloadInv, KnowsPast
<1>7. P!LaterReloadWins'
  BY <1>1, <1>6 DEF ReloadInv, P!LaterReloadWins
<1>8. ASSUME NEW k \in Loaders, loading'[k] # NoPlugin
      PROVE  /\ KnowsPast(loading[k], loading[k].name)'
             /\ \A p \in Plugins : loading'[k].loaded_at \notin Loaded(p)'
             /\ \A j \in Loaders \ {k} : loading'[j] # NoPlugin =>
                  loading'[j].loaded_at # loading'[k].loaded_at
  <2>1. k # l /\ loading[k] # NoPlugin /\ loading'[k] = loading[k]
    BY <1>1, <1>8
  <2>2. KnowsPast(loading[k], loading[k].name) /\ loading[k].name \in Plugins
    BY <2>1 DEF ReloadInv, RunInv
  <2>3. KnowsPast(loading[k], loading[k].name)'
    BY <1>1, <1>3, <2>1, <2>2 DEF KnowsPast
  <2>4. \A p \in Plugins : loading[k].loaded_at \notin Loaded(p)'
    BY <1>1, <1>2, <2>1 DEF ReloadInv
  <2>5. \A j \in Loaders \ {k} : loading'[j] # NoPlugin =>
          loading'[j].loaded_at # loading'[k].loaded_at
    BY <1>1, <2>1 DEF ReloadInv
  <2> QED
    BY <2>1, <2>3, <2>4, <2>5
<1>9. loads' \in Nat
  BY <1>1 DEF ReloadInv
<1> QED
  BY <1>1, <1>5, <1>7, <1>8, <1>9 DEF ReloadInv

\* Transforms leave the order of loads alone.
LEMMA ReloadNext == ASSUME RunInv, ReloadInv, [P!Next]_pluginVars PROVE ReloadInv'
<1>1. ASSUME UNCHANGED <<plugins, loading, returned, loads>> PROVE ReloadInv'
  BY <1>1 DEF ReloadInv, KnowsPast, Loaded, P!LaterReloadWins
<1>2. ASSUME NEW x \in Executors, NEW n \in Plugins, P!Execute(x, n) PROVE ReloadInv'
  BY <1>1, <1>2 DEF P!Execute
<1>3. ASSUME NEW x \in Executors, P!Finish(x) PROVE ReloadInv'
  BY <1>1, <1>3 DEF P!Finish
<1>4. CASE UNCHANGED pluginVars
  BY <1>1, <1>4 DEF pluginVars
<1> QED
  BY <1>2, <1>3, <1>4, CompileKeepsOrder, InsertKeepsOrder DEF P!Next

\* A reload called after another had returned is never undone by it, although
\* modules are compiled before the lock is taken.
THEOREM ReloadsInOrder == FairSpec => []LaterReloadWins
<1>1. Init => RunInv /\ ReloadInv
  BY RunInit, ReloadInit DEF Init
<1>2. RunInv /\ ReloadInv /\ [Next]_vars => (RunInv /\ ReloadInv)'
  BY StepOf, RunNext, ReloadNext
<1>3. ReloadInv => LaterReloadWins
  BY DEF ReloadInv, LaterReloadWins
<1> QED
  BY <1>1, <1>2, <1>3, PTL DEF FairSpec

-----------------------------------------------------------------------------
\* Ids are given out in sequence.
IdInv ==
  /\ owner \in Seq(Subjects)
  /\ next_schema_id = FirstId + Len(owner)
  /\ missed \in [Encoders -> Subjects \cup {NoId}]

\* No id is given at first.
LEMMA IdInit == C!Init => IdInv
  BY IdAssumption DEF C!Init, IdInv

\* Only an assignment gives an id, and takes the counter with it.
LEMMA IdNext == ASSUME IdInv, [C!Next]_idVars PROVE IdInv'
<1>1. ASSUME NEW c \in Encoders, C!Assign(c) PROVE IdInv'
  BY <1>1, IdAssumption DEF IdInv, C!Assign
<1>2. ASSUME NEW c \in Encoders, NEW s \in Subjects, C!Hit(c, s) PROVE IdInv'
  BY <1>2 DEF IdInv, C!Hit
<1>3. ASSUME NEW c \in Encoders, NEW s \in Subjects, C!Miss(c, s) PROVE IdInv'
  BY <1>3 DEF IdInv, C!Miss
<1>4. CASE UNCHANGED idVars
  BY <1>4 DEF IdInv, idVars
<1> QED
  BY <1>1, <1>2, <1>3, <1>4 DEF C!Next

\* A registration, raced or not, gives the next id to one subject; encoding an
\* event under a known id changes nothing a reader sees.
LEMMA IdStepGives ==
  ASSUME IdInv, [C!Next]_idVars
  PROVE  [C!Registry!Next]_<<owner, schema_cache>>
<1>1. ASSUME NEW c \in Encoders, C!Assign(c) PROVE C!Registry!Next
  <2>1. missed[c] \in Subjects
    BY <1>1 DEF IdInv, C!Assign
  <2>2. C!Registry!Give(missed[c])
    BY <1>1 DEF IdInv, C!Assign, C!Registry!Give
  <2> QED
    BY <2>1, <2>2 DEF C!Registry!Next
<1>2. ASSUME NEW c \in Encoders, NEW s \in Subjects, C!Hit(c, s) \/ C!Miss(c, s)
      PROVE  UNCHANGED <<owner, schema_cache>>
  BY <1>2 DEF C!Hit, C!Miss
<1>3. CASE UNCHANGED idVars
  BY <1>3 DEF idVars
<1> QED
  BY <1>1, <1>2, <1>3 DEF C!Next

\* The Confluent registry implements the abstract one: threads that miss a
\* subject together cost ids, but no id is given twice and no subject goes back
\* to an older id.
THEOREM RegistryImplements == FairSpec => RefinesRegistry
<1>1. Init => IdInv /\ C!Registry!Init
  BY IdInit DEF Init, C!Init, C!Registry!Init
<1>2. IdInv /\ [Next]_vars => IdInv'
  BY StepOf, IdNext
<1>3. IdInv /\ [Next]_vars => [C!Registry!Next]_<<owner, schema_cache>>
  BY StepOf, IdStepGives
<1> QED
  BY <1>1, <1>2, <1>3, PTL DEF FairSpec, RefinesRegistry, C!RefinesRegistry, C!Registry!Spec

-----------------------------------------------------------------------------
(***************************************************************************)
(* How many ids a subject gets.                                            *)
(***************************************************************************)
Given(s) == {i \in DOMAIN owner : owner[i] = s}
Missers(s) == {c \in Encoders : missed[c] = s}

\* Every id a subject has or is about to get is paid for by a thread of its own:
\* once it has one it is in the cache and no thread misses it any more.
SubjectInv(s) ==
  /\ schema_cache[s] = NoId => Given(s) = {}
  /\ Cardinality(Given(s)) + Cardinality(Missers(s)) <= Cardinality(Encoders)

CountInv ==
  /\ schema_cache \in [Subjects -> Nat \cup {NoId}]
  /\ \A s \in Subjects : SubjectInv(s)

\* Both sets are finite.
LEMMA SubjectSets ==
  ASSUME IdInv, NEW s \in Subjects
  PROVE  /\ IsFiniteSet(Given(s)) /\ Cardinality(Given(s)) \in Nat
         /\ IsFiniteSet(Missers(s)) /\ Cardinality(Missers(s)) \in Nat
         /\ Cardinality(Missers(s)) <= Cardinality(Encoders)
         /\ Cardinality(Encoders) \in Nat
<1>1. IsFiniteSet(DOMAIN owner)
  <2>1. DOMAIN owner = 1..Len(owner) /\ Len(owner) \in Nat
    BY DEF IdInv
  <2> QED
    BY <2>1, FS_Interval
<1>2. Given(s) \subseteq DOMAIN owner /\ Missers(s) \subseteq Encoders
  BY DEF Given, Missers
<1> QED
  BY <1>1, <1>2, IdAssumption, FS_Subset, FS_CardinalityType

\* No id is given and no thread has missed anything.
LEMMA CountInit == ASSUME C!Init PROVE CountInv
<1>1. schema_cache \in [Subjects -> Nat \cup {NoId}]
  BY DEF C!Init
<1>2. ASSUME NEW s \in Subjects PROVE SubjectInv(s)
  <2>1. Given(s) = {} /\ Missers(s) = {}
    BY IdAssumption DEF C!Init, Given, Missers
  <2>2. Cardinality(Encoders) \in Nat
    BY IdAssumption, FS_CardinalityType
  <2> QED
    BY <2>1, <2>2, FS_EmptySet DEF SubjectInv
<1> QED
  BY <1>1, <1>2 DEF CountInv

\* An assignment turns a thread that missed the subject into an id of it.
LEMMA CountAssign ==
  ASSUME IdInv, CountInv, NEW c \in Encoders, C!Assign(c)
  PROVE  CountInv'
<1>1. PICK u \in Subjects : u = missed[c]
  BY DEF IdInv, C!Assign
<1>2. PICK n \in Nat : n = Len(owner)
  BY DEF IdInv
<1>3. /\ owner' = Append(owner, u) /\ missed' = [missed EXCEPT ![c] = NoId]
      /\ schema_cache' = [schema_cache EXCEPT ![u] = next_schema_id]
      /\ next_schema_id \in Nat
  BY <1>1, <1>2, IdAssumption DEF C!Assign, IdInv
<1>4. /\ DOMAIN owner = 1..n /\ DOMAIN owner' = 1..(n + 1)
      /\ \A i \in 1..n : owner'[i] = owner[i]
      /\ owner'[n + 1] = u
  BY <1>1, <1>2, <1>3, AppendProperties DEF IdInv
<1>5. ASSUME NEW s \in Subjects PROVE SubjectInv(s)'
  <2>1. CASE s = u
    <3>1. Given(s)' = Given(s) \cup {n + 1}
      BY <1>2, <1>4, <2>1 DEF Given
    <3>2. n + 1 \notin Given(s)
      BY <1>2, <1>4 DEF Given
    <3>3. Cardinality(Given(s)') = Cardinality(Given(s)) + 1
      BY <3>1, <3>2, SubjectSets, FS_AddElement
    <3>4. Missers(s)' = Missers(s) \ {c} /\ c \in Missers(s)
      BY <1>1, <1>3, <2>1, IdAssumption DEF Missers, IdInv
    <3>5. Cardinality(Missers(s)') = Cardinality(Missers(s)) - 1
      BY <3>4, SubjectSets, FS_RemoveElement
    <3>6. Cardinality(Given(s)) + Cardinality(Missers(s)) <= Cardinality(Encoders)
      BY DEF CountInv, SubjectInv
    <3>7. Cardinality(Given(s)') + Cardinality(Missers(s)') <= Cardinality(Encoders)
      BY <3>3, <3>5, <3>6, SubjectSets
    <3>8. schema_cache'[s] # NoId
      BY <1>3, <2>1, IdAssumption DEF CountInv
    <3> QED
      BY <3>7, <3>8 DEF SubjectInv
  <2>2. CASE s # u
    <3>1. Given(s)' = Given(s)
      BY <1>2, <1>4, <2>2 DEF Given
    <3>2. Missers(s)' = Missers(s)
      BY <1>1, <1>3, <2>2, IdAssumption DEF Missers, IdInv
    <3>3. schema_cache'[s] = schema_cache[s]
      BY <1>3, <2>2 DEF CountInv
    <3> QED
      BY <3>1, <3>2, <3>3 DEF CountInv, SubjectInv
  <2> QED
    BY <2>1, <2>2
<1>6. schema_cache' \in [Subjects -> Nat \cup {NoId}]
  BY <1>3 DEF CountInv
<1> QED
  BY <1>5, <1>6 DEF CountInv

\* A thread misses a subject only while it has no id.
LEMMA CountMiss ==
  ASSUME IdInv, IdInv', CountInv, NEW c \in Encoders, NEW u \in Subjects, C!Miss(c, u)
  PROVE  CountInv'
<1>1. /\ missed[c] = NoId /\ schema_cache[u] = NoId
      /\ missed' = [missed EXCEPT ![c] = u]
      /\ UNCHANGED <<schema_cache, owner>>
  BY DEF C!Miss
<1>2. \A s \in Subjects : Given(s)' = Given(s)
  BY <1>1 DEF Given
<1>3. ASSUME NEW s \in Subjects PROVE SubjectInv(s)'
  <2>1. CASE s = u
    <3>1. Given(s) = {}
      BY <1>1, <2>1 DEF CountInv, SubjectInv
    <3>2. Cardinality(Given(s)') = 0
      BY <1>2, <3>1, FS_EmptySet
    <3>3. Missers(s)' \subseteq Encoders
      BY DEF Missers
    <3>4. Cardinality(Missers(s)') <= Cardinality(Encoders)
          /\ Cardinality(Missers(s)') \in Nat
      BY <3>3, IdAssumption, FS_Subset, FS_CardinalityType
    <3> QED
      BY <1>2, <3>1, <3>2, <3>4, SubjectSets DEF SubjectInv
  <2>2. CASE s # u
    <3>1. Missers(s)' = Missers(s)
      BY <1>1, <2>2, IdAssumption DEF Missers, IdInv
    <3> QED
      BY <1>1, <1>2, <3>1 DEF CountInv, SubjectInv
  <2> QED
    BY <2>1, <2>2
<1> QED
  BY <1>1, <1>3 DEF CountInv

\* Nothing else touches the account.
LEMMA CountNext == ASSUME IdInv, CountInv, [C!Next]_idVars PROVE CountInv'
<1>1. ASSUME NEW c \in Encoders, NEW s \in Subjects, C!Hit(c, s) PROVE CountInv'
  BY <1>1 DEF C!Hit, CountInv, SubjectInv, Given, Missers
<1>2. CASE UNCHANGED idVars
  BY <1>2 DEF idVars, CountInv, SubjectInv, Given, Missers
<1> QED
  BY <1>1, <1>2, CountAssign, CountMiss, IdNext DEF C!Next

\* Cardinality is the same operator wherever it comes from.
LEMMA SameCardinality == \A X : C!Cardinality(X) = Cardinality(X)
  BY Zenon DEF C!Cardinality, Cardinality

\* However threads race in register_schema, a subject gets no more ids than
\* there are threads.
THEOREM RaceIsBounded == FairSpec => []IdsBounded
<1>1. Init => IdInv /\ CountInv
  BY IdInit, CountInit DEF Init
<1>2. IdInv /\ CountInv /\ [Next]_vars => (IdInv /\ CountInv)'
  BY StepOf, IdNext, CountNext
<1>3. IdInv /\ CountInv => IdsBounded
  <2> SUFFICES ASSUME IdInv, CountInv, NEW s \in Subjects
               PROVE  Cardinality(Given(s)) <= Cardinality(Encoders)
    BY SameCardinality DEF IdsBounded, C!IdsBounded, Given
  <2>1. Cardinality(Given(s)) + Cardinality(Missers(s)) <= Cardinality(Encoders)
    BY DEF CountInv, SubjectInv
  <2> QED
    BY <2>1, SubjectSets
<1> QED
  BY <1>1, <1>2, <1>3, PTL DEF FairSpec

-----------------------------------------------------------------------------
(***************************************************************************)
(* The wire format.                                                        *)
(***************************************************************************)
\* Every frame carries an id its subject owns, and so does the cache.
FrameOf(f) == \E id \in Nat, s \in Subjects : f = <<C!Encode(id), s>> /\ C!Owns(s, id)

FrameInv ==
  /\ schema_cache \in [Subjects -> Nat \cup {NoId}]
  /\ \A s \in Subjects : schema_cache[s] # NoId => C!Owns(s, schema_cache[s])
  /\ frames \in Seq(Seq(Nat) \X Subjects)
  /\ \A i \in DOMAIN frames : FrameOf(frames[i])

\* Four bytes hold an id: to_be_bytes loses nothing.
LEMMA BytesCarryId ==
  ASSUME NEW id \in Nat
  PROVE  /\ C!ToBytes(id) \in Seq(Nat) /\ Len(C!ToBytes(id)) = 4
         /\ C!ToBytes(id)[1] * 16777216 + C!ToBytes(id)[2] * 65536
              + C!ToBytes(id)[3] * 256 + C!ToBytes(id)[4] = id
<1>1. PICK a \in Nat : a = id \div 16777216
  OBVIOUS
<1>2. PICK b \in Nat : b = (id \div 65536) % 256
  OBVIOUS
<1>3. PICK c \in Nat : c = (id \div 256) % 256
  OBVIOUS
<1>4. PICK d \in Nat : d = id % 256
  OBVIOUS
<1>5. C!ToBytes(id) = <<a, b, c, d>>
  BY <1>1, <1>2, <1>3, <1>4 DEF C!ToBytes
<1>6. a * 16777216 + b * 65536 + c * 256 + d = id
  BY <1>1, <1>2, <1>3, <1>4
<1> QED
  BY <1>5, <1>6

\* r is a with b behind it.
Joins(r, a, n, b, m) ==
  /\ r \in Seq(Nat) /\ Len(r) = n + m
  /\ \A k \in 1..n : r[k] = a[k]
  /\ \A k \in 1..m : r[k + n] = b[k]

\* What stands where in two sequences of bytes put together.
LEMMA Joined ==
  ASSUME NEW a \in Seq(Nat), NEW b \in Seq(Nat), NEW n \in Nat, NEW m \in Nat,
         Len(a) = n, Len(b) = m
  PROVE  Joins(a \o b, a, n, b, m)
<1>1. a \o b \in Seq(Nat) /\ Len(a \o b) = n + m
  BY ConcatProperties
<1>2. \A k \in 1..(n + m) : (a \o b)[k] = IF k <= n THEN a[k] ELSE b[k - n]
  BY ConcatProperties
<1>3. ASSUME NEW k \in 1..n PROVE (a \o b)[k] = a[k]
  BY <1>2
<1>4. ASSUME NEW k \in 1..m PROVE (a \o b)[k + n] = b[k]
  <2>1. k + n \in 1..(n + m) /\ ~(k + n <= n) /\ k + n - n = k
    OBVIOUS
  <2> QED
    BY <1>2, <2>1
<1> QED
  BY <1>1, <1>3, <1>4 DEF Joins

\* A frame: its header byte, the id's bytes, then the payload.
LEMMA FrameShape ==
  ASSUME NEW id \in Nat
  PROVE  /\ C!Encode(id) \in Seq(Nat) /\ Len(C!Encode(id)) = 5 + PayloadSize
         /\ C!Encode(id)[1] = 0
         /\ \A k \in 1..4 : C!Encode(id)[k + 1] = C!ToBytes(id)[k]
         /\ \A k \in 1..PayloadSize : C!Encode(id)[k + 5] = 123
<1>1. C!Payload \in Seq(Nat) /\ Len(C!Payload) = PayloadSize
      /\ \A k \in 1..PayloadSize : C!Payload[k] = 123
  BY IdAssumption DEF C!Payload
<1>2. PICK b \in Seq(Nat) : b = C!ToBytes(id) /\ Len(b) = 4
  BY BytesCarryId
<1>3. PICK p \in Seq(Nat) : p = C!Payload
  BY <1>1
<1>4. PICK h \in Seq(Nat) : h = <<0>> /\ Len(h) = 1 /\ h[1] = 0
  <2>1. <<0>> \in Seq(Nat) /\ Len(<<0>>) = 1 /\ <<0>>[1] = 0
    OBVIOUS
  <2> QED
    BY ONLY <2>1, Zenon
<1>5. PICK q : q = h \o b /\ Joins(q, h, 1, b, 4)
  <2>1. 1 \in Nat /\ 4 \in Nat
    OBVIOUS
  <2> QED
    BY ONLY <1>2, <1>4, <2>1, Joined, Zenon
<1>6. q \in Seq(Nat) /\ Len(q) = 5 /\ q[1] = 0 /\ \A k \in 1..4 : q[k + 1] = b[k]
  BY ONLY <1>4, <1>5 DEF Joins
<1>7. PICK r : r = q \o p /\ Joins(r, q, 5, p, PayloadSize)
  <2>1. 5 \in Nat /\ PayloadSize \in Nat /\ Len(p) = PayloadSize
    BY <1>1, <1>3, IdAssumption
  <2> QED
    BY ONLY <1>3, <1>6, <2>1, Joined, Zenon
<1>8. r = C!Encode(id)
  <2>1. C!Encode(id) = <<0>> \o C!ToBytes(id) \o C!Payload
    BY Zenon DEF C!Encode
  <2> QED
    BY ONLY <1>2, <1>3, <1>4, <1>5, <1>7, <2>1, Zenon
<1>9. PICK n \in Nat : n = PayloadSize
  BY IdAssumption
<1>10. /\ r \in Seq(Nat) /\ Len(r) = 5 + n /\ r[1] = 0
       /\ \A k \in 1..4 : r[k + 1] = b[k]
       /\ \A k \in 1..n : r[k + 5] = 123
  <2>1. /\ r \in Seq(Nat) /\ Len(r) = 5 + n
        /\ \A k \in 1..5 : r[k] = q[k]
        /\ \A k \in 1..n : r[k + 5] = p[k]
    BY ONLY <1>7, <1>9, Zenon DEF Joins
  <2>2. \A k \in 1..4 : k + 1 \in 1..5
    OBVIOUS
  <2>3. \A k \in 1..n : p[k] = 123
    BY <1>1, <1>3, <1>9
  <2>4. r[1] = 0
    <3>1. 1 \in 1..5
      OBVIOUS
    <3> QED
      BY ONLY <1>6, <2>1, <3>1, Zenon
  <2>5. ASSUME NEW k \in 1..4 PROVE r[k + 1] = b[k]
    <3>1. k + 1 \in 1..5
      BY <2>2
    <3>2. r[k + 1] = q[k + 1]
      BY ONLY <2>1, <3>1, Zenon
    <3>3. q[k + 1] = b[k]
      BY <1>6
    <3> QED
      BY <3>2, <3>3
  <2>6. ASSUME NEW k \in 1..n PROVE r[k + 5] = 123
    <3>1. r[k + 5] = p[k]
      BY <2>1, Zenon
    <3>2. p[k] = 123
      BY <2>3, Zenon
    <3> QED
      BY <3>1, <3>2
  <2> QED
    BY ONLY <2>1, <2>4, <2>5, <2>6, Zenon
<1> QED
  BY ONLY <1>2, <1>8, <1>9, <1>10, Zenon

\* u is what r holds from place a on, l bytes of it.
Slice(u, r, a, l) ==
  /\ u \in Seq(Nat) /\ Len(u) = l
  /\ \A k \in 1..l : u[k] = r[a + k - 1]

\* What stands where in a part of a sequence of bytes.
LEMMA Sliced ==
  ASSUME NEW r \in Seq(Nat), NEW a \in Nat \ {0}, NEW n \in Nat, NEW l \in Nat,
         l = n - a + 1, n <= Len(r)
  PROVE  Slice(SubSeq(r, a, n), r, a, l)
<1>1. \A i \in a..n : r[i] \in Nat
  <2>1. ASSUME NEW i \in a..n PROVE r[i] \in Nat
    <3>1. i \in 1..Len(r)
      OBVIOUS
    <3> QED
      BY <3>1, ElementOfSeq
  <2> QED
    BY <2>1
<1>2. /\ SubSeq(r, a, n) \in Seq(Nat)
      /\ Len(SubSeq(r, a, n)) = IF a <= n THEN n - a + 1 ELSE 0
      /\ \A i \in 1..(n - a + 1) : SubSeq(r, a, n)[i] = r[a + i - 1]
  BY <1>1, SubSeqProperties
<1>3. (IF a <= n THEN n - a + 1 ELSE 0) = l
  OBVIOUS
<1> QED
  BY ONLY <1>2, <1>3, l = n - a + 1, Zenon DEF Slice

\* The payload is its length and nothing else.
LEMMA PayloadShape ==
  /\ C!Payload \in Seq(Nat) /\ Len(C!Payload) = PayloadSize
  /\ \A k \in 1..PayloadSize : C!Payload[k] = 123
  BY IdAssumption DEF C!Payload

\* What is left of a frame that was cut short does not parse, and the whole of
\* it parses to the id it was made of.
LEMMA DecodeFrame ==
  ASSUME NEW id \in Nat, NEW r, r = C!Encode(id),
         NEW n \in 0..(5 + PayloadSize), NEW u, u = SubSeq(r, 1, n)
  PROVE  /\ n < 5 + PayloadSize => C!Decode(u) = NoId
         /\ n = 5 + PayloadSize => C!Decode(u) = id
<1>1. PICK m \in Nat : m = PayloadSize
  BY IdAssumption
<1>2. /\ r \in Seq(Nat) /\ Len(r) = 5 + m /\ r[1] = 0
      /\ \A k \in 1..4 : r[k + 1] = C!ToBytes(id)[k]
      /\ \A k \in 1..m : r[k + 5] = 123
  BY <1>1, FrameShape, ZenonT(30)
<1>3. n \in Nat /\ n <= Len(r) /\ n <= 5 + m
  BY <1>1, <1>2
<1>4. Slice(u, r, 1, n)
  <2>1. n = n - 1 + 1 /\ 1 \in Nat \ {0}
    BY <1>3
  <2> QED
    BY <1>2, <1>3, <2>1, Sliced, Zenon
<1>5. u \in Seq(Nat) /\ Len(u) = n /\ \A k \in 1..n : u[k] = r[k]
  <2>1. \A k \in 1..n : 1 + k - 1 = k
    BY <1>3
  <2> QED
    BY <1>4, <2>1 DEF Slice
<1>6. CASE n < 5
  <2>1. ~(Len(u) >= 5)
    BY <1>3, <1>5, <1>6
  <2>2. C!Decode(u) = NoId
    BY <2>1, SMT DEF C!Decode
  <2> QED
    BY <1>1, <1>6, <2>2
<1>7. ASSUME NEW v, v = SubSeq(u, 6, Len(u)), n >= 5
      PROVE  Slice(v, u, 6, n - 5)
  <2>1. n - 5 \in Nat /\ n - 5 = n - 6 + 1 /\ 6 \in Nat \ {0} /\ n <= Len(u)
    BY <1>3, <1>5, <1>7
  <2> QED
    BY <1>3, <1>5, <1>7, <2>1, Sliced, Zenon
<1>8. CASE n >= 5 /\ n < 5 + m
  <2>1. PICK v : v = SubSeq(u, 6, Len(u))
    OBVIOUS
  <2>2. Len(v) = n - 5
    BY <1>7, <1>8, <2>1 DEF Slice
  <2>3. v # C!Payload
    BY <1>1, <1>3, <1>8, <2>2, PayloadShape
  <2>4. C!Decode(u) = NoId
    BY <2>1, <2>3, SMT DEF C!Decode
  <2> QED
    BY <1>1, <1>8, <2>4
<1>9. CASE n = 5 + m
  <2>1. PICK v : v = SubSeq(u, 6, Len(u))
    OBVIOUS
  <2>2. v \in Seq(Nat) /\ Len(v) = m /\ \A k \in 1..m : v[k] = u[6 + k - 1]
    <3>1. n - 5 = m /\ n >= 5
      BY <1>9
    <3> QED
      BY <1>7, <2>1, <3>1, Zenon DEF Slice
  <2>3. ASSUME NEW k \in 1..m PROVE v[k] = C!Payload[k]
    <3>1. k + 5 \in 1..n /\ 6 + k - 1 = k + 5
      BY <1>9
    <3>2. v[k] = r[k + 5]
      BY <1>5, <2>2, <3>1
    <3> QED
      BY <1>1, <1>2, <3>2, PayloadShape
  <2>4. v = C!Payload
    BY <1>1, <2>2, <2>3, PayloadShape, SeqEqual
  <2>5. u[1] = 0 /\ Len(u) >= 5
    BY <1>2, <1>5, <1>9
  <2>6. u[2] = C!ToBytes(id)[1] /\ u[3] = C!ToBytes(id)[2]
        /\ u[4] = C!ToBytes(id)[3] /\ u[5] = C!ToBytes(id)[4]
    <3>1. 2 \in 1..n /\ 3 \in 1..n /\ 4 \in 1..n /\ 5 \in 1..n
      BY <1>9
    <3>2. r[2] = C!ToBytes(id)[1] /\ r[3] = C!ToBytes(id)[2]
          /\ r[4] = C!ToBytes(id)[3] /\ r[5] = C!ToBytes(id)[4]
      BY <1>2
    <3> QED
      BY <1>5, <3>1, <3>2
  <2>7. u[2] * 16777216 + u[3] * 65536 + u[4] * 256 + u[5] = id
    <3>1. PICK b \in Seq(Nat) : b = C!ToBytes(id) /\ Len(b) = 4
      BY BytesCarryId, SMT
    <3>2. b[1] * 16777216 + b[2] * 65536 + b[3] * 256 + b[4] = id
      BY <3>1, BytesCarryId, SMT
    <3>3. u[2] = b[1] /\ u[3] = b[2] /\ u[4] = b[3] /\ u[5] = b[4]
      BY <2>6, <3>1
    <3>4. b[1] \in Nat /\ b[2] \in Nat /\ b[3] \in Nat /\ b[4] \in Nat
      <4>1. \A k \in 1..4 : b[k] \in Nat
        BY <3>1, ElementOfSeq, Zenon
      <4> QED
        BY <4>1
    <3> QED
      BY ONLY <3>2, <3>3, <3>4, SMT
  <2>8. C!Decode(u) = id
    BY <2>1, <2>4, <2>5, <2>7, SMT DEF C!Decode
  <2> QED
    BY <1>1, <1>9, <2>8
<1> QED
  BY <1>3, <1>6, <1>8, <1>9

\* An id once owned stays owned.
LEMMA OwnedStays ==
  ASSUME IdInv, NEW u \in Subjects, owner' = Append(owner, u),
         NEW n \in Nat, n = Len(owner)
  PROVE  /\ \A s, id : C!Owns(s, id) => C!Owns(s, id)'
         /\ C!Owns(u, FirstId + n)'
<1>1. /\ DOMAIN owner = 1..n /\ DOMAIN owner' = 1..(n + 1)
      /\ \A i \in 1..n : owner'[i] = owner[i]
      /\ owner'[n + 1] = u
  BY AppendProperties DEF IdInv
<1>2. ASSUME NEW s, NEW id, C!Owns(s, id) PROVE C!Owns(s, id)'
  <2>1. PICK k \in 1..n : k = id - FirstId + 1 /\ owner[k] = s
    BY <1>1, <1>2 DEF C!Owns
  <2>2. k \in 1..(n + 1) /\ owner'[k] = s
    BY <1>1, <2>1
  <2> QED
    BY <1>1, <2>1, <2>2 DEF C!Owns
<1>3. C!Owns(u, FirstId + n)'
  <2>1. FirstId + n - FirstId + 1 = n + 1 /\ n + 1 \in 1..(n + 1)
    BY IdAssumption
  <2>2. n + 1 \in DOMAIN owner' /\ owner'[n + 1] = u
    BY <1>1, <2>1
  <2>3. PICK k : k = FirstId + n
    OBVIOUS
  <2>4. C!Owns(u, k)'
    BY IdAssumption, <2>2, <2>3 DEF C!Owns
  <2> QED
    BY <2>3, <2>4, Zenon
<1> QED
  BY <1>2, <1>3, Zenon

\* A new frame of an id its subject owns joins the others.
LEMMA FrameAppended ==
  ASSUME FrameInv, NEW id \in Nat, NEW s \in Subjects,
         frames' = Append(frames, <<C!Encode(id), s>>),
         C!Owns(s, id)', \A t, j : C!Owns(t, j) => C!Owns(t, j)'
  PROVE  /\ frames' \in Seq(Seq(Nat) \X Subjects)
         /\ \A i \in DOMAIN frames' : FrameOf(frames[i])'
<1>1. PICK f \in Seq(Nat) \X Subjects : f = <<C!Encode(id), s>>
  <2>1. C!Encode(id) \in Seq(Nat)
    BY FrameShape
  <2> QED
    BY <2>1
<1>2. PICK F : F = Seq(Nat) \X Subjects
  OBVIOUS
<1>3. frames \in Seq(F) /\ f \in F /\ frames' = Append(frames, f)
  BY <1>1, <1>2 DEF FrameInv
<1>4. PICK n \in Nat : n = Len(frames) /\ DOMAIN frames = 1..n
  BY <1>3
<1>5. /\ frames' \in Seq(F) /\ DOMAIN frames' = 1..(n + 1)
      /\ \A i \in 1..n : frames'[i] = frames[i]
      /\ frames'[n + 1] = f
  BY ONLY <1>3, <1>4, AppendProperties
<1>6. ASSUME NEW i \in 1..n PROVE FrameOf(frames[i])'
  <2>1. PICK j \in Nat, t \in Subjects : frames[i] = <<C!Encode(j), t>> /\ C!Owns(t, j)
    BY <1>4 DEF FrameInv, FrameOf
  <2>2. frames'[i] = <<C!Encode(j), t>> /\ C!Owns(t, j)'
    BY <1>5, <2>1
  <2> QED
    BY <2>2, Zenon DEF FrameOf
<1>7. FrameOf(frames[n + 1])'
  BY <1>1, <1>5, Zenon DEF FrameOf
<1>8. ASSUME NEW i \in DOMAIN frames' PROVE FrameOf(frames[i])'
  <2>1. i \in 1..n \/ i = n + 1
    BY <1>5
  <2> QED
    BY <1>6, <1>7, <2>1, Zenon
<1> QED
  BY <1>2, <1>5, <1>8, Zenon

\* The three steps of an encoder.
LEMMA FrameNext == ASSUME IdInv, FrameInv, [C!Next]_idVars PROVE FrameInv'
<1>1. ASSUME NEW c \in Encoders, C!Assign(c) PROVE FrameInv'
  <2>1. PICK u \in Subjects : u = missed[c]
    BY <1>1 DEF IdInv, C!Assign
  <2>2. PICK n \in Nat : n = Len(owner)
    BY DEF IdInv
  <2>3. PICK id \in Nat : id = FirstId + n
    BY IdAssumption
  <2>4. /\ owner' = Append(owner, u)
        /\ schema_cache' = [schema_cache EXCEPT ![u] = id]
        /\ frames' = Append(frames, <<C!Encode(id), u>>)
    <3>1. next_schema_id = id
      BY <2>2, <2>3 DEF IdInv
    <3> QED
      BY <1>1, <2>1, <3>1, Zenon DEF C!Assign
  <2>5. /\ \A s, j : C!Owns(s, j) => C!Owns(s, j)'
        /\ C!Owns(u, id)'
    BY <2>2, <2>3, <2>4, OwnedStays
  <2>6. frames' \in Seq(Seq(Nat) \X Subjects) /\ \A i \in DOMAIN frames' : FrameOf(frames[i])'
    BY <2>4, <2>5, FrameAppended, Zenon
  <2>7. schema_cache' \in [Subjects -> Nat \cup {NoId}]
        /\ schema_cache'[u] = id
        /\ \A s \in Subjects : s # u => schema_cache'[s] = schema_cache[s]
    BY <2>4 DEF FrameInv
  <2>8. ASSUME NEW s \in Subjects, schema_cache'[s] # NoId
        PROVE  C!Owns(s, schema_cache[s])'
    <3>1. PICK j : j = schema_cache'[s]
      OBVIOUS
    <3>2. C!Owns(s, j)'
      <4>1. CASE s = u
        BY <2>5, <2>7, <3>1, <4>1
      <4>2. CASE s # u
        BY <2>5, <2>7, <2>8, <3>1, <4>2 DEF FrameInv
      <4> QED
        BY <4>1, <4>2
    <3> QED
      BY <3>1, <3>2 DEF C!Owns
  <2> QED
    BY <2>6, <2>7, <2>8 DEF FrameInv
<1>2. ASSUME NEW c \in Encoders, NEW u \in Subjects, C!Hit(c, u) PROVE FrameInv'
  <2>1. PICK id \in Nat : id = schema_cache[u] /\ C!Owns(u, id)
    BY <1>2 DEF C!Hit, FrameInv
  <2>2. UNCHANGED <<schema_cache, owner>> /\ frames' = Append(frames, <<C!Encode(id), u>>)
    BY <1>2, <2>1, Zenon DEF C!Hit
  <2>3. \A s, j : C!Owns(s, j) => C!Owns(s, j)'
    BY <2>2 DEF C!Owns
  <2>4. frames' \in Seq(Seq(Nat) \X Subjects) /\ \A i \in DOMAIN frames' : FrameOf(frames[i])'
    BY <2>1, <2>2, <2>3, FrameAppended, Zenon
  <2>5. \A s \in Subjects : schema_cache'[s] # NoId => C!Owns(s, schema_cache[s])'
    BY <2>2 DEF FrameInv, C!Owns
  <2> QED
    BY <2>2, <2>4, <2>5 DEF FrameInv
<1>3. CASE UNCHANGED <<schema_cache, owner, frames>>
  BY <1>3 DEF FrameInv, FrameOf, C!Owns
<1>4. ASSUME NEW c \in Encoders, NEW u \in Subjects, C!Miss(c, u)
      PROVE  UNCHANGED <<schema_cache, owner, frames>>
  BY <1>4 DEF C!Miss
<1> QED
  BY <1>1, <1>2, <1>3, <1>4 DEF C!Next, idVars

\* A frame decodes to an id that belongs to its event's own subject, whichever
\* threads raced to register it, and a frame that was cut short is refused.
THEOREM FramesCarryIds == FairSpec => []FramesDecode
<1>1. Init => IdInv /\ FrameInv
  <2>1. Init => FrameInv
    BY DEF Init, C!Init, FrameInv
  <2> QED
    BY <2>1, IdInit DEF Init
<1>2. IdInv /\ FrameInv /\ [Next]_vars => (IdInv /\ FrameInv)'
  BY StepOf, IdNext, FrameNext
<1>3. FrameInv => FramesDecode
  <2> SUFFICES ASSUME FrameInv, NEW i \in DOMAIN frames,
                      NEW n \in 0..Len(frames[i][1])
               PROVE  LET id == C!Decode(SubSeq(frames[i][1], 1, n))
                      IN  IF n < Len(frames[i][1]) THEN id = NoId
                          ELSE id # NoId /\ C!Owns(frames[i][2], id)
    BY Zenon DEF FramesDecode, C!FramesDecode
  <2>1. PICK j \in Nat, s \in Subjects : frames[i] = <<C!Encode(j), s>> /\ C!Owns(s, j)
    BY DEF FrameInv, FrameOf
  <2>2. PICK r : r = C!Encode(j)
    OBVIOUS
  <2>3. frames[i][1] = r /\ frames[i][2] = s
    BY <2>1, <2>2
  <2>4. PICK u : u = SubSeq(r, 1, n)
    OBVIOUS
  <2>5. Len(r) = 5 + PayloadSize /\ PayloadSize \in Nat
    BY <2>2, FrameShape, IdAssumption
  <2>6. /\ n < Len(r) => C!Decode(u) = NoId
        /\ n = Len(r) => C!Decode(u) = j
    BY <2>2, <2>3, <2>4, <2>5, DecodeFrame, ZenonT(30)
  <2>7. n < Len(r) \/ n = Len(r)
    BY <2>3, <2>5
  <2>8. j # NoId
    BY IdAssumption
  <2>9. IF n < Len(r) THEN C!Decode(u) = NoId ELSE C!Decode(u) # NoId /\ C!Owns(s, C!Decode(u))
    BY <2>1, <2>6, <2>7, <2>8, Zenon
  <2> QED
    BY <2>3, <2>4, <2>9, Zenon
<1> QED
  BY <1>1, <1>2, <1>3, PTL DEF FairSpec

-----------------------------------------------------------------------------
(***************************************************************************)
(* Schema evolution, over any number of schemas registered in turn.        *)
(***************************************************************************)
\* What check_compatibility passes under Backward is read by the old schema,
\* under Forward by the new one.
LEMMA CompatibleReads ==
  ASSUME NEW a, NEW b, NEW mode \in {"Backward", "Forward", "Full"},
         S!Compatible(a, b, mode)
  PROVE  /\ mode \in {"Backward", "Full"} => S!Readable(b, a)
         /\ mode \in {"Forward", "Full"} => S!Readable(a, b)
<1>1. /\ a # S!Malformed /\ b # S!Malformed
      /\ \A f \in S!Has(a) \cap S!Has(b) : a[f] = b[f]
      /\ mode \in {"Backward", "Full"} => S!Has(a) \subseteq S!Has(b)
      /\ mode \in {"Forward", "Full"} => S!Has(b) \subseteq S!Has(a)
  BY DEF S!Compatible
<1>2. <<a>>[1] = a /\ <<b>>[1] = b /\ <<a>> # <<>> /\ <<b>> # <<>>
  OBVIOUS
<1>3. ASSUME NEW x, NEW y, x # S!Malformed, y # S!Malformed,
             <<x>>[1] = x, <<y>>[1] = y, <<x>> # <<>>, <<y>> # <<>>,
             S!Has(y) \subseteq S!Has(x),
             \A f \in S!Has(x) \cap S!Has(y) : x[f] = y[f]
      PROVE  S!Readable(x, y)
  <2> SUFFICES ASSUME NEW op \in {"Create", "Update", "Delete", "Commit"},
                      NEW p \in S!Payloads \cup {<<>>},
                      S!Validates(<<x>>, op, p)
               PROVE  S!Validates(<<y>>, op, p)
    BY DEF S!Readable
  <2>1. op \in {"Create", "Update"} =>
          /\ p # <<>>
          /\ \A f \in S!Has(x) : p[f] \in S!Accepts[x[f]]
    BY <1>3, Zenon DEF S!Validates
  <2>2. op \in {"Create", "Update"} =>
          \A f \in S!Has(y) : p[f] \in S!Accepts[y[f]]
    BY <1>3, <2>1, Zenon
  <2> QED
    BY <1>3, <2>1, <2>2, Zenon DEF S!Validates
<1>4. \A f \in S!Has(b) \cap S!Has(a) : b[f] = a[f]
  BY <1>1
<1> QED
  BY <1>1, <1>2, <1>3, <1>4

\* What every event is read by is read by what reads all of that.
LEMMA ReadableTrans ==
  ASSUME NEW a, NEW b, NEW c, S!Readable(a, b), S!Readable(b, c)
  PROVE  S!Readable(a, c)
  BY DEF S!Readable

\* What the last call saved is what the store holds, and a call that passed its
\* check passed it against that: with one registrant, nothing is saved between.
SchemaInv ==
  /\ saved \in Seq((S!Schemas \cup {S!Malformed}) \X Modes)
  /\ pending \in [Registrants -> {<<>>} \cup ((S!Schemas \cup {S!Malformed}) \X Modes)]
  /\ saved # <<>> => store = <<saved[Len(saved)][1]>>
  /\ \A r \in Registrants : pending[r] # <<>> /\ saved # <<>> =>
       S!Compatible(saved[Len(saved)][1], pending[r][1], pending[r][2])

Checked == {"Backward", "Forward", "Full"}

\* EvolutionSafe for one mode and two places of a sequence of saved schemas.
Reads(q, mode, i, j) ==
  (\A k \in (i + 1)..j : q[k][2] = mode) =>
    /\ mode \in {"Backward", "Full"} => S!Readable(q[j][1], q[i][1])
    /\ mode \in {"Forward", "Full"} => S!Readable(q[i][1], q[j][1])

Evolved(q) == \A i, j \in DOMAIN q : i < j => \A mode \in Checked : Reads(q, mode, i, j)

\* EvolutionSafe says that of all the schemas saved.
LEMMA EvolvedIs == EvolutionSafe <=> Evolved(saved)
<1>1. ASSUME NEW i, NEW j
      PROVE  /\ Reads(saved, "Backward", i, j)
                  <=> (S!Under("Backward", i, j) => S!Readable(saved[j][1], saved[i][1]))
             /\ Reads(saved, "Forward", i, j)
                  <=> (S!Under("Forward", i, j) => S!Readable(saved[i][1], saved[j][1]))
             /\ Reads(saved, "Full", i, j)
                  <=> (S!Under("Full", i, j) => /\ S!Readable(saved[i][1], saved[j][1])
                                                /\ S!Readable(saved[j][1], saved[i][1]))
  BY DEF Reads, S!Under
<1> QED
  BY <1>1 DEF Evolved, Checked, EvolutionSafe, S!EvolutionSafe

\* One more schema that is compatible with the last one keeps it so.
LEMMA EvolvedGrows ==
  ASSUME NEW Pairs, NEW q \in Seq(Pairs), NEW e \in Pairs, Evolved(q),
         q # <<>> => S!Compatible(q[Len(q)][1], e[1], e[2])
  PROVE  Evolved(Append(q, e))
<1>1. PICK n \in Nat : n = Len(q) /\ DOMAIN q = 1..n
  OBVIOUS
<1>2. PICK t : t = Append(q, e)
  OBVIOUS
<1>3. /\ DOMAIN t = 1..(n + 1) /\ t[n + 1] = e
      /\ \A k \in 1..n : t[k] = q[k]
  BY <1>1, <1>2, AppendProperties
<1> SUFFICES ASSUME NEW i \in 1..(n + 1), NEW j \in 1..(n + 1), i < j,
                    NEW mode \in Checked,
                    \A k \in (i + 1)..j : t[k][2] = mode
             PROVE  /\ mode \in {"Backward", "Full"} => S!Readable(t[j][1], t[i][1])
                    /\ mode \in {"Forward", "Full"} => S!Readable(t[i][1], t[j][1])
  BY <1>2, <1>3 DEF Evolved, Reads
<1>4. i \in 1..n /\ t[i] = q[i]
  BY <1>1, <1>3
<1>5. ASSUME NEW m \in 1..n, i < m, m <= j
      PROVE  /\ mode \in {"Backward", "Full"} => S!Readable(q[m][1], q[i][1])
             /\ mode \in {"Forward", "Full"} => S!Readable(q[i][1], q[m][1])
  <2>1. ASSUME NEW k \in (i + 1)..m PROVE q[k][2] = mode
    <3>1. k \in (i + 1)..j /\ k \in 1..n
      BY <1>1, <1>5
    <3> QED
      BY <1>3, <3>1
  <2>2. Reads(q, mode, i, m)
    BY <1>1, <1>4, <1>5 DEF Evolved
  <2> QED
    BY <2>1, <2>2 DEF Reads
<1>6. CASE j \in 1..n
  <2>1. t[j] = q[j] /\ j <= j
    BY <1>3, <1>6
  <2> QED
    BY <1>4, <1>5, <1>6, <2>1
<1>7. CASE j = n + 1
  <2>1. t[j] = e /\ e[2] = mode
    <3>1. n + 1 \in (i + 1)..j
      BY <1>1, <1>4, <1>7
    <3> QED
      BY <1>3, <1>7, <3>1
  <2>2. n \in 1..n /\ q # <<>>
    BY <1>1, <1>4
  <2>3. /\ mode \in {"Backward", "Full"} => S!Readable(e[1], q[n][1])
        /\ mode \in {"Forward", "Full"} => S!Readable(q[n][1], e[1])
    <3>1. S!Compatible(q[n][1], e[1], mode)
      BY <1>1, <2>1, <2>2
    <3> QED
      BY <3>1, CompatibleReads DEF Checked
  <2>4. CASE i = n
    BY <1>4, <2>1, <2>3, <2>4
  <2>5. CASE i < n
    <3>1. n <= j
      BY <1>7
    <3>2. /\ mode \in {"Backward", "Full"} => S!Readable(q[n][1], q[i][1])
          /\ mode \in {"Forward", "Full"} => S!Readable(q[i][1], q[n][1])
      BY <1>5, <2>2, <2>5, <3>1
    <3> QED
      BY <1>4, <2>1, <2>3, <3>2, ReadableTrans
  <2> QED
    BY <1>4, <2>4, <2>5
<1> QED
  BY <1>6, <1>7

\* The only registrant saves what it checked against the last schema saved.
LEMMA SchemaSave ==
  ASSUME \A r, x \in Registrants : r = x,
         SchemaInv, Evolved(saved), NEW r \in Registrants, S!Save(r)
  PROVE  SchemaInv' /\ Evolved(saved')
<1>1. PICK Pairs : Pairs = (S!Schemas \cup {S!Malformed}) \X Modes
  OBVIOUS
<1>2. PICK e \in Pairs : e = pending[r]
  BY <1>1 DEF SchemaInv, S!Save
<1>3. /\ saved \in Seq(Pairs) /\ saved' = Append(saved, e)
      /\ store' = <<e[1]>> /\ pending' = [pending EXCEPT ![r] = <<>>]
  BY <1>1, <1>2, Zenon DEF SchemaInv, S!Save
<1>4. saved # <<>> => S!Compatible(saved[Len(saved)][1], e[1], e[2])
  BY <1>2 DEF SchemaInv, S!Save
<1>5. Evolved(saved')
  BY <1>3, <1>4, EvolvedGrows, Zenon
<1>6. saved' \in Seq(Pairs) /\ saved' # <<>> /\ saved'[Len(saved')] = e
  BY ONLY <1>3, AppendProperties
<1>7. \A x \in Registrants : pending'[x] = <<>>
  BY <1>3 DEF SchemaInv
<1>8. pending' \in [Registrants -> {<<>>} \cup Pairs]
  BY <1>1, <1>3 DEF SchemaInv
<1>9. SchemaInv'
  BY <1>1, <1>3, <1>6, <1>7, <1>8 DEF SchemaInv, S!Schemas, S!Malformed
<1> QED
  BY <1>5, <1>9

\* A check saves nothing.
LEMMA SchemaCheck ==
  ASSUME SchemaInv, NEW r \in Registrants, NEW new \in S!Schemas \cup {S!Malformed},
         NEW mode \in Modes, S!Check(r, new, mode)
  PROVE  SchemaInv' /\ saved' = saved
<1>1. PICK Pairs : Pairs = (S!Schemas \cup {S!Malformed}) \X Modes
  OBVIOUS
<1>2. PICK e \in Pairs : e = <<new, mode>> /\ e[1] = new /\ e[2] = mode
  <2>1. <<new, mode>> \in Pairs
    BY <1>1, Zenon
  <2>2. <<new, mode>>[1] = new /\ <<new, mode>>[2] = mode
    OBVIOUS
  <2> QED
    BY <2>1, <2>2, Zenon
<1>3. /\ saved' = saved /\ store' = store
      /\ pending' = [pending EXCEPT ![r] = e]
      /\ store # <<>> => S!Compatible(store[1], e[1], e[2])
  BY <1>2, Zenon DEF S!Check
<1>4. saved # <<>> => store # <<>> /\ store[1] = saved[Len(saved)][1]
  <2>1. PICK x : x = saved[Len(saved)][1]
    OBVIOUS
  <2>2. <<x>> # <<>> /\ <<x>>[1] = x
    OBVIOUS
  <2> QED
    BY <2>1, <2>2, Zenon DEF SchemaInv
<1>5. pending' \in [Registrants -> {<<>>} \cup Pairs]
      /\ pending'[r] = e /\ \A x \in Registrants : x # r => pending'[x] = pending[x]
  BY <1>1, <1>2, <1>3 DEF SchemaInv
<1>6. ASSUME NEW x \in Registrants, pending'[x] # <<>>, saved' # <<>>
      PROVE  S!Compatible(saved[Len(saved)][1], pending[x][1], pending[x][2])'
  <2>1. S!Compatible(saved[Len(saved)][1], pending'[x][1], pending'[x][2])
    <3>1. CASE x = r
      BY <1>3, <1>4, <1>5, <1>6, <3>1, Zenon
    <3>2. CASE x # r
      BY <1>3, <1>5, <1>6, <3>2, Zenon DEF SchemaInv
    <3> QED
      BY <3>1, <3>2
  <2> QED
    BY <1>3, <2>1 DEF S!Compatible, S!Has
<1> QED
  BY <1>1, <1>3, <1>5, <1>6 DEF SchemaInv, S!Schemas, S!Malformed

\* Under one registrant the schemas saved evolve as its modes promise, for any
\* number of them: what check_compatibility compares from one schema to the
\* next holds between every two whose steps between were in one mode.
THEOREM SchemasEvolve ==
  ASSUME \A r, x \in Registrants : r = x
  PROVE  FairSpec => []EvolutionSafe
<1> DEFINE Inv == SchemaInv /\ EvolutionSafe
<1>1. Init => Inv
  <2> SUFFICES ASSUME Init PROVE Inv
    OBVIOUS
  <2>1. saved = <<>> /\ pending = [r \in Registrants |-> <<>>]
    BY DEF Init, S!Init
  <2>2. SchemaInv
    BY <2>1 DEF SchemaInv
  <2>3. Evolved(saved)
    BY <2>1 DEF Evolved
  <2> QED
    BY <2>2, <2>3, EvolvedIs
<1>2. Inv /\ [Next]_vars => Inv'
  <2> SUFFICES ASSUME SchemaInv, EvolutionSafe, [S!Next]_schemaVars PROVE Inv'
    BY StepOf
  <2>1. Evolved(saved)
    BY EvolvedIs
  <2>2. SchemaInv' /\ Evolved(saved')
    <3>1. ASSUME NEW r \in Registrants, S!Save(r) PROVE SchemaInv' /\ Evolved(saved')
      BY <2>1, <3>1, SchemaSave
    <3>2. ASSUME NEW r \in Registrants, NEW new \in S!Schemas \cup {S!Malformed},
                 NEW mode \in Modes, S!Check(r, new, mode)
          PROVE  SchemaInv' /\ Evolved(saved')
      BY <2>1, <3>2, SchemaCheck
    <3>3. CASE UNCHANGED schemaVars
      BY <2>1, <3>3 DEF schemaVars, SchemaInv, S!Schemas, S!Malformed, S!Compatible, S!Has
    <3> QED
      BY <3>1, <3>2, <3>3 DEF S!Next
  <2>3. (EvolutionSafe <=> Evolved(saved))'
    BY EvolvedIs, PTL
  <2> QED
    BY <2>2, <2>3
<1>3. Inv => EvolutionSafe
  OBVIOUS
<1> QED
  BY <1>1, <1>2, <1>3, PTL DEF FairSpec

-----------------------------------------------------------------------------
(***************************************************************************)
(* The start of the streams beside the lease.                              *)
(***************************************************************************)
StartTypes ==
  /\ phase \in [Tasks -> {"connecting", "sleeping", "streaming", "ended"}]
  /\ attempt \in [Tasks -> Nat] /\ delay \in [Tasks -> Nat] /\ left \in [Tasks -> Nat]
  /\ silence \in Nat /\ lease \in BOOLEAN

\* A task that is starting has been silent no longer than its sleeps so far, the
\* rest of the one it is in included.
OnSchedule(t, D, B) ==
  T!Starting(t) =>
    /\ attempt[t] \in 0..Final /\ delay[t] = D[attempt[t]]
    /\ phase[t] = "connecting" => silence <= B[attempt[t]]
    /\ phase[t] = "sleeping" => silence + left[t] <= B[attempt[t]]

StartInv(D, B) ==
  StartTypes /\ LeaseSurvivesStartup /\ \A t \in Tasks : OnSchedule(t, D, B)

\* The longest the sleeps can take is a number.
LEMMA BoundType ==
  ASSUME NEW D, NEW B, Schedule(D, B)
  PROVE  \A i \in 0..Final : B[i] \in Nat
<1>1. \A i \in 0..Final : i \in Attempts
  BY StartupAssumption DEF Final, Attempts
<1> QED
  BY <1>1 DEF Schedule

\* Steps of one task leave the others on schedule.
LEMMA OtherTasks ==
  ASSUME NEW D, NEW B, StartInv(D, B), NEW t \in Tasks,
         NEW f, NEW a \in Nat, NEW d \in Nat, NEW l \in Nat,
         f \in {"connecting", "sleeping", "streaming", "ended"},
         phase' = [phase EXCEPT ![t] = f], attempt' = [attempt EXCEPT ![t] = a],
         delay' = [delay EXCEPT ![t] = d], left' = [left EXCEPT ![t] = l],
         UNCHANGED <<silence, lease>>, T!Starting(t)' => T!Starting(t),
         T!Starting(t)' => /\ a \in 0..Final /\ d = D[a]
                           /\ f = "connecting" => silence <= B[a]
                           /\ f = "sleeping" => silence + l <= B[a]
  PROVE  StartInv(D, B)'
<1>1. StartTypes'
  BY DEF StartInv, StartTypes
<1>2. ASSUME NEW u \in Tasks
      PROVE  /\ T!Starting(u)' => T!Starting(u)
             /\ OnSchedule(u, D, B)'
  <2>1. CASE u = t
    <3>1. phase'[u] = f /\ attempt'[u] = a /\ delay'[u] = d /\ left'[u] = l
      BY <2>1 DEF StartInv, StartTypes
    <3> QED
      BY <2>1, <3>1 DEF OnSchedule, T!Starting
  <2>2. CASE u # t
    <3>1. /\ phase'[u] = phase[u] /\ attempt'[u] = attempt[u]
          /\ delay'[u] = delay[u] /\ left'[u] = left[u]
      BY <2>2 DEF StartInv, StartTypes
    <3>2. OnSchedule(u, D, B)
      BY DEF StartInv
    <3> QED
      BY <3>1, <3>2 DEF OnSchedule, T!Starting
  <2> QED
    BY <2>1, <2>2
<1>3. LeaseSurvivesStartup'
  BY <1>2 DEF StartInv, LeaseSurvivesStartup, T!LeaseSurvivesStartup
<1> QED
  BY <1>1, <1>2, <1>3 DEF StartInv

\* The retries themselves.
LEMMA StartKeeps ==
  ASSUME NEW D, NEW B, Schedule(D, B), StartInv(D, B), NEW t \in Tasks, T!Start(t)
  PROVE  StartInv(D, B)'
<1>1. /\ phase[t] \in {"connecting", "sleeping", "streaming", "ended"}
      /\ attempt[t] \in Nat /\ delay[t] \in Nat /\ left[t] \in Nat /\ silence \in Nat
      /\ OnSchedule(t, D, B)
      /\ attempt = [attempt EXCEPT ![t] = attempt[t]]
      /\ delay = [delay EXCEPT ![t] = delay[t]]
      /\ left = [left EXCEPT ![t] = left[t]]
  BY DEF StartInv, StartTypes
<1>2. /\ MaxAttempts \in Nat \ {0} /\ Final \in Nat /\ Jitter \subseteq Nat
      /\ Multiplier \in Nat /\ MaxDelay \in Nat
  BY StartupAssumption DEF Final
<1>3. attempt[t] + 1 \in Nat
  BY <1>1
<1>4. CASE T!Connect(t)
  <2>1. /\ phase' = [phase EXCEPT ![t] = "streaming"]
        /\ attempt' = [attempt EXCEPT ![t] = attempt[t] + 1]
        /\ UNCHANGED <<delay, left, silence, lease>>
    BY <1>4 DEF T!Connect, T!Goto, T!Count
  <2>2. ~T!Starting(t)'
    BY <2>1 DEF T!Starting, StartInv, StartTypes
  <2> QED
    BY <1>1, <1>3, <2>1, <2>2, OtherTasks
<1>5. CASE T!GiveUp(t)
  <2>1. /\ phase' = [phase EXCEPT ![t] = "ended"]
        /\ attempt' = [attempt EXCEPT ![t] = attempt[t] + 1]
        /\ UNCHANGED <<delay, left, silence, lease>>
    BY <1>5 DEF T!GiveUp, T!Goto, T!Count
  <2>2. ~T!Starting(t)'
    BY <2>1 DEF T!Starting, StartInv, StartTypes
  <2> QED
    BY <1>1, <1>3, <2>1, <2>2, OtherTasks
<1>6. CASE T!Wake(t)
  <2>1. /\ phase' = [phase EXCEPT ![t] = "connecting"] /\ phase[t] = "sleeping"
        /\ left[t] = 0 /\ UNCHANGED <<attempt, delay, left, silence, lease>>
    BY <1>6 DEF T!Wake, T!Goto
  <2>2. /\ T!Starting(t) /\ attempt[t] \in 0..Final /\ delay[t] = D[attempt[t]]
        /\ silence <= B[attempt[t]]
    BY <1>1, <2>1 DEF OnSchedule, T!Starting
  <2>3. PICK a \in Nat, d \in Nat : a = attempt[t] /\ d = delay[t]
    BY <1>1
  <2>4. /\ attempt' = [attempt EXCEPT ![t] = a] /\ delay' = [delay EXCEPT ![t] = d]
        /\ left' = [left EXCEPT ![t] = 0] /\ UNCHANGED <<silence, lease>>
    BY <1>1, <2>1, <2>3
  <2>5. a \in 0..Final /\ d = D[a] /\ silence <= B[a]
    BY <2>2, <2>3
  <2>6. PICK f \in {"connecting", "sleeping", "streaming", "ended"} : f = "connecting"
    OBVIOUS
  <2>7. phase' = [phase EXCEPT ![t] = f] /\ f # "sleeping" /\ 0 \in Nat
    BY <2>1, <2>6
  <2> QED
    BY ONLY StartInv(D, B), t \in Tasks, <2>2, <2>3, <2>4, <2>5, <2>6, <2>7, OtherTasks, Zenon
<1>7. ASSUME NEW j \in Jitter, T!Fail(t, j) PROVE StartInv(D, B)'
  <2>1. PICK a \in 0..Final : a = attempt[t] /\ delay[t] = D[a] /\ silence <= B[a]
    BY <1>1, <1>7 DEF T!Fail, T!Goto, OnSchedule, T!Starting
  <2>2. PICK l \in Nat : l = (delay[t] * j) \div 4
    <3>1. delay[t] * j \in Nat
      BY <1>1, <1>2
    <3> QED
      BY <3>1
  <2>3. PICK d \in Nat : d = T!Lesser(delay[t] * Multiplier, MaxDelay)
    BY <1>1, <1>2 DEF T!Lesser
  <2>4. /\ phase' = [phase EXCEPT ![t] = "sleeping"] /\ phase[t] = "connecting"
        /\ attempt' = [attempt EXCEPT ![t] = a + 1] /\ a + 1 < MaxAttempts
        /\ left' = [left EXCEPT ![t] = l] /\ delay' = [delay EXCEPT ![t] = d]
        /\ UNCHANGED <<silence, lease>>
    BY <1>7, <2>1, <2>2, <2>3 DEF T!Fail, T!Goto, T!Count
  <2>5. a + 1 \in 0..Final /\ a + 1 \in Nat /\ a + 1 \in Attempts /\ a \in Attempts
    BY <1>2, <2>1, <2>4 DEF Final, Attempts
  <2>6. d = D[a + 1] /\ B[a] + l <= B[a + 1] /\ B[a] \in Nat /\ B[a + 1] \in Nat
    BY <2>1, <2>2, <2>3, <2>5 DEF Schedule
  <2>7. silence + l <= B[a + 1]
    BY <1>1, <2>1, <2>6
  <2>8. T!Starting(t)
    BY <2>4 DEF T!Starting
  <2> QED
    BY <2>4, <2>5, <2>6, <2>7, <2>8, OtherTasks
<1> QED
  BY <1>4, <1>5, <1>6, <1>7 DEF T!Start

\* The streams and the lease.
LEMMA StreamKeeps ==
  ASSUME NEW D, NEW B, Schedule(D, B), StartInv(D, B), NEW t \in Tasks,
         T!RecordHeartbeat(t) \/ T!StreamEnds(t)
  PROVE  StartInv(D, B)'
<1>1. CASE T!StreamEnds(t)
  <2>1. /\ phase' = [phase EXCEPT ![t] = "ended"]
        /\ UNCHANGED <<attempt, delay, left, silence, lease>>
    BY <1>1 DEF T!StreamEnds, T!Goto
  <2>2. ~T!Starting(t)'
    BY <2>1 DEF T!Starting, StartInv, StartTypes
  <2>3. /\ attempt[t] \in Nat /\ delay[t] \in Nat /\ left[t] \in Nat
        /\ attempt = [attempt EXCEPT ![t] = attempt[t]]
        /\ delay = [delay EXCEPT ![t] = delay[t]]
        /\ left = [left EXCEPT ![t] = left[t]]
    BY DEF StartInv, StartTypes
  <2> QED
    BY <2>1, <2>2, <2>3, OtherTasks
<1>2. CASE T!RecordHeartbeat(t)
  <2>1. silence' = 0 /\ UNCHANGED <<phase, attempt, delay, left, lease>>
    BY <1>2 DEF T!RecordHeartbeat, T!task
  <2>2. ASSUME NEW u \in Tasks PROVE OnSchedule(u, D, B)'
    <3>1. /\ OnSchedule(u, D, B) /\ left[u] \in Nat /\ silence \in Nat
          /\ attempt[u] \in 0..Final => B[attempt[u]] \in Nat
      BY BoundType DEF StartInv, StartTypes
    <3> QED
      BY <2>1, <3>1 DEF OnSchedule, T!Starting
  <2>3. StartTypes' /\ LeaseSurvivesStartup'
    BY <2>1 DEF StartInv, StartTypes, LeaseSurvivesStartup, T!LeaseSurvivesStartup,
                T!Starting
  <2> QED
    BY <2>2, <2>3 DEF StartInv
<1> QED
  BY <1>1, <1>2

\* Time passes for all tasks alike.
LEMMA AdvanceKeeps ==
  ASSUME NEW D, NEW B, Schedule(D, B), StartInv(D, B), NEW d \in Nat, T!Advance(d)
  PROVE  StartInv(D, B)'
<1>1. /\ \A t \in Tasks : phase[t] = "sleeping" => d <= left[t]
      /\ \A t \in Tasks : phase[t] # "connecting"
      /\ left' = [t \in Tasks |-> IF phase[t] = "sleeping" THEN left[t] - d ELSE left[t]]
      /\ silence' = T!Lesser(silence + d, T!Lapse + 1)
      /\ UNCHANGED <<phase, attempt, delay, lease>>
  BY DEF T!Advance
<1>2. T!Lapse + 1 \in Nat /\ silence \in Nat
  BY StartupAssumption DEF StartInv, StartTypes, T!Lapse
<1>3. silence' \in Nat /\ silence' <= silence + d
  BY <1>1, <1>2 DEF T!Lesser
<1>4. left' \in [Tasks -> Nat]
  BY <1>1 DEF StartInv, StartTypes
<1>5. ASSUME NEW u \in Tasks PROVE OnSchedule(u, D, B)'
  <2>1. /\ OnSchedule(u, D, B) /\ left[u] \in Nat
        /\ attempt[u] \in 0..Final => B[attempt[u]] \in Nat
    BY BoundType DEF StartInv, StartTypes
  <2>2. phase[u] = "sleeping" => left'[u] = left[u] - d
    BY <1>1
  <2>3. PICK n \in Nat : n = silence' /\ n <= silence + d
    BY <1>3
  <2>4. ASSUME phase[u] = "sleeping", attempt[u] \in 0..Final,
               silence + left[u] <= B[attempt[u]]
        PROVE  n + left'[u] <= B[attempt[u]]
    BY <1>1, <1>2, <2>1, <2>2, <2>3, <2>4
  <2> QED
    BY <1>1, <2>1, <2>3, <2>4 DEF OnSchedule, T!Starting
<1>6. StartTypes' /\ LeaseSurvivesStartup'
  BY <1>1, <1>3, <1>4 DEF StartInv, StartTypes, LeaseSurvivesStartup,
                          T!LeaseSurvivesStartup, T!Starting
<1> QED
  BY <1>5, <1>6 DEF StartInv

\* A lease is claimed only after the heartbeats have lapsed.
LEMMA ClaimKeeps ==
  ASSUME NEW D, NEW B, Schedule(D, B), \A i \in 0..Final : B[i] <= T!Lapse,
         StartInv(D, B), T!CheckAndClaimLease
  PROVE  StartInv(D, B)'
<1>1. /\ lease' = (lease \/ silence > T!Lapse)
      /\ UNCHANGED <<phase, attempt, delay, left, silence>>
  BY DEF T!CheckAndClaimLease, T!task
<1>2. T!Lapse \in Nat /\ silence \in Nat
  BY StartupAssumption DEF StartInv, StartTypes, T!Lapse
<1>3. ASSUME NEW t \in Tasks, T!Starting(t) PROVE silence <= T!Lapse
  <2>1. /\ OnSchedule(t, D, B) /\ left[t] \in Nat
        /\ attempt[t] \in 0..Final
    BY <1>3 DEF StartInv, StartTypes, OnSchedule
  <2>2. B[attempt[t]] \in Nat /\ B[attempt[t]] <= T!Lapse
    BY <2>1, StartupAssumption, SMTT(30) DEF Schedule, Final, Attempts
  <2>3. silence <= B[attempt[t]]
    BY <1>2, <1>3, <2>1, <2>2 DEF OnSchedule, T!Starting
  <2> QED
    BY <1>2, <2>2, <2>3
<1>4. LeaseSurvivesStartup'
  <2> SUFFICES ASSUME lease', NEW t \in Tasks, T!Starting(t) PROVE FALSE
    BY <1>1 DEF LeaseSurvivesStartup, T!LeaseSurvivesStartup, T!Starting
  <2>1. silence <= T!Lapse
    BY <1>3
  <2>2. lease
    <3>1. ~(silence > T!Lapse)
      BY <1>2, <2>1
    <3> QED
      BY <1>1, <3>1, Zenon
  <2> QED
    BY <2>2 DEF StartInv, LeaseSurvivesStartup, T!LeaseSurvivesStartup
<1>5. lease' \in BOOLEAN
  BY <1>1
<1>6. StartTypes' /\ \A t \in Tasks : OnSchedule(t, D, B)'
  BY <1>1, <1>5 DEF StartInv, StartTypes, OnSchedule, T!Starting
<1> QED
  BY <1>4, <1>6 DEF StartInv

\* With delays whose sum, jitter included, stays within the time after which
\* heartbeats have lapsed, as those of the code do (ScheduleAssumption),
\* check_and_claim_lease never claims the lease while a stream is still
\* starting, however the retries of the tasks, their heartbeats and the checks
\* interleave.
THEOREM StartupKeepsLease == FairSpec => []LeaseSurvivesStartup
<1> DEFINE D == DelayAfter  B == SleepsUpTo
<1>0. Schedule(D, B) /\ \A i \in 0..Final : B[i] <= T!Lapse
  BY ScheduleAssumption
<1> HIDE DEF D, B
<1>1. Init => StartInv(D, B)
  <2> SUFFICES ASSUME T!Init PROVE StartInv(D, B)
    BY DEF Init
  <2>1. StartTypes /\ LeaseSurvivesStartup
    BY StartupAssumption DEF T!Init, StartTypes, LeaseSurvivesStartup,
                             T!LeaseSurvivesStartup
  <2>2. ASSUME NEW t \in Tasks PROVE OnSchedule(t, D, B)
    BY <1>0, StartupAssumption DEF T!Init, OnSchedule, Schedule, Final
  <2> QED
    BY <2>1, <2>2 DEF StartInv
<1>2. StartInv(D, B) /\ [Next]_vars => StartInv(D, B)'
  <2> SUFFICES ASSUME StartInv(D, B), [T!Next]_startupVars PROVE StartInv(D, B)'
    BY StepOf
  <2>1. ASSUME T!Pass PROVE StartInv(D, B)'
    <3>1. PICK d \in Gaps \cup {left[t] : t \in Tasks} : T!Advance(d)
      BY <2>1 DEF T!Pass
    <3>2. d \in Nat
      BY <3>1, StartupAssumption DEF StartInv, StartTypes
    <3> QED
      BY <1>0, <3>1, <3>2, AdvanceKeeps
  <2>2. CASE UNCHANGED startupVars
    BY <2>2 DEF startupVars, StartInv, StartTypes, OnSchedule, LeaseSurvivesStartup,
                T!LeaseSurvivesStartup, T!Starting
  <2> QED
    BY <1>0, <2>1, <2>2, StartKeeps, StreamKeeps, ClaimKeeps DEF T!Next
<1>3. StartInv(D, B) => LeaseSurvivesStartup
  BY DEF StartInv
<1> QED
  BY <1>1, <1>2, <1>3, PTL DEF FairSpec

-----------------------------------------------------------------------------
(***************************************************************************)
(* Cross-region sync, for every number of clusters and writes: no change   *)
(* travels in a loop if the cluster that applied it is the one its tag     *)
(* names, and whichever it names, clusters agree once the network is quiet *)
(* and no change is applied twice.  The last two need an invariant that    *)
(* follows a change from the log it was written to: what clients wrote and *)
(* was handled is on the wire, and neither a log nor a message that        *)
(* arrived holds a change newer than the row.                              *)
(***************************************************************************)

Stamped == [origin : Clusters, timestamp : Nat]
Entries == [change : Stamped, tagged : SUBSET Clusters]
Messages == [from : Clusters, to : Clusters, change : Stamped]

RegionTypes ==
  /\ row \in [Clusters -> Stamped \cup {NoRow}]
  /\ changes \in [Clusters -> Seq(Entries)]
  /\ forwarded \in [Clusters -> Nat]
  /\ \A c \in Clusters : forwarded[c] <= Len(changes[c])
  /\ wire \subseteq Messages
  /\ arrived \subseteq wire

\* Entry i of c's log is there, and was written by a client of c.
Local(c, i) == i \in 1..Len(changes[c]) /\ changes[c][i].tagged = {}

\* What an entry appended to a log does.
Appends(c, e) ==
  /\ \A d \in Clusters \ {c} : changes'[d] = changes[d]
  /\ Len(changes'[c]) = Len(changes[c]) + 1
  /\ \A i \in 1..Len(changes[c]) : changes'[c][i] = changes[c][i]
  /\ changes'[c][Len(changes[c]) + 1] = e

\* Log keeps the type of the logs and appends its entry.
LEMMA LogAppends ==
  ASSUME RegionTypes, NEW c \in Clusters, NEW ch \in Stamped, NEW b \in SUBSET Clusters,
         R!Log(c, ch, b)
  PROVE  /\ changes' \in [Clusters -> Seq(Entries)]
         /\ Appends(c, [change |-> ch, tagged |-> b])
<1> DEFINE e == [change |-> ch, tagged |-> b]
<1>1. e \in Entries
  BY DEF Entries
<1>2. changes' = [changes EXCEPT ![c] = Append(@, e)]
  BY DEF R!Log
<1>3. changes \in [Clusters -> Seq(Entries)]
  BY DEF RegionTypes
<1>4. changes[c] \in Seq(Entries)
  BY <1>3
<1> HIDE DEF e
<1>5. changes'[c] = Append(changes[c], e) /\ \A d \in Clusters \ {c} : changes'[d] = changes[d]
  BY <1>2, <1>3
<1>6. changes' \in [Clusters -> Seq(Entries)]
  BY <1>1, <1>2, <1>3
<1>7. Appends(c, e)
  BY <1>1, <1>4, <1>5 DEF Appends
<1> QED
  BY <1>6, <1>7 DEF e

\* The row of a cluster beats a change.
Beats(c, ch) == row[c] # NoRow /\ row[c].timestamp >= ch.timestamp

\* What the two actions that change rows do to them and to the logs.
LEMMA WriteStep ==
  ASSUME RegionTypes, NEW c \in Clusters, NEW t \in 1..MaxWrites, R!Write(c, t)
  PROVE  /\ RegionTypes'
         /\ R!Change(c, t) \in Stamped
         /\ Appends(c, [change |-> R!Change(c, t), tagged |-> {}])
         /\ row' = [row EXCEPT ![c] = R!Change(c, t)]
         /\ UNCHANGED <<forwarded, wire, arrived>>
<1>1. R!Change(c, t) \in Stamped
  BY RegionAssumption DEF R!Change, Stamped
<1>2. R!Log(c, R!Change(c, t), {})
  BY DEF R!Write
<1>3. /\ changes' \in [Clusters -> Seq(Entries)]
      /\ Appends(c, [change |-> R!Change(c, t), tagged |-> {}])
  BY <1>1, <1>2, LogAppends
<1>4. row' = [row EXCEPT ![c] = R!Change(c, t)] /\ UNCHANGED <<forwarded, wire, arrived>>
  BY DEF R!Write
<1>5. row' \in [Clusters -> Stamped \cup {NoRow}]
  BY <1>1, <1>4 DEF RegionTypes
<1>6. \A d \in Clusters : forwarded'[d] <= Len(changes'[d])
  <2>1. \A d \in Clusters : /\ Len(changes[d]) \in Nat /\ forwarded[d] \in Nat
                            /\ forwarded[d] <= Len(changes[d])
    BY DEF RegionTypes
  <2>2. forwarded' = forwarded
    BY <1>4
  <2>3. forwarded'[c] <= Len(changes'[c])
    BY <1>3, <2>1, <2>2 DEF Appends
  <2>4. \A d \in Clusters \ {c} : forwarded'[d] <= Len(changes'[d])
    BY <1>3, <2>1, <2>2 DEF Appends
  <2> QED
    BY <2>3, <2>4
<1> QED
  BY <1>1, <1>3, <1>4, <1>5, <1>6 DEF RegionTypes

\* A forward sends the next entry to all peers if its tag does not name this
\* cluster, so always if a client of it wrote the entry.
LEMMA ForwardStep ==
  ASSUME RegionTypes, NEW c \in Clusters, R!Forward(c)
  PROVE  /\ RegionTypes'
         /\ forwarded[c] + 1 \in 1..Len(changes[c])
         /\ forwarded' = [forwarded EXCEPT ![c] = @ + 1]
         /\ wire \subseteq wire'
         /\ Local(c, forwarded[c] + 1) => \A p \in Clusters \ {c} :
              [from |-> c, to |-> p, change |-> changes[c][forwarded[c] + 1].change] \in wire'
         /\ \A m \in wire' \ wire :
              /\ c \notin changes[c][forwarded[c] + 1].tagged
              /\ m.from = c /\ m.change = changes[c][forwarded[c] + 1].change
         /\ UNCHANGED <<row, changes, arrived>>
<1> DEFINE e == changes[c][forwarded[c] + 1]
<1>1. /\ Len(changes[c]) \in Nat /\ forwarded[c] \in Nat /\ forwarded[c] < Len(changes[c])
      /\ forwarded' = [forwarded EXCEPT ![c] = @ + 1]
      /\ wire' = wire \cup {[from |-> c, to |-> p, change |-> e.change] :
                              p \in {p \in Clusters \ {c} : c \notin e.tagged}}
      /\ UNCHANGED <<row, changes, arrived>>
  BY DEF RegionTypes, R!Forward, R!ShouldForward
<1>2. forwarded[c] + 1 \in 1..Len(changes[c])
  BY <1>1
<1>3. e \in Entries
  BY <1>2 DEF RegionTypes
<1>4. wire' \subseteq Messages
  BY <1>1, <1>3 DEF RegionTypes, Messages, Entries
<1>5. RegionTypes'
  BY <1>1, <1>2, <1>4 DEF RegionTypes
<1>6. Local(c, forwarded[c] + 1) => c \notin e.tagged
  BY DEF Local
<1> QED
  BY <1>1, <1>2, <1>5, <1>6

\* After a delivery the row beats the message: it did before, or the change is
\* newer than the row, is applied, and is logged under a tag that is not empty.
LEMMA DeliverStep ==
  ASSUME RegionTypes, NEW m \in wire, NEW how \in Tagging, R!Deliver(m, how)
  PROVE  /\ RegionTypes'
         /\ m.to \in Clusters /\ m.change \in Stamped
         /\ Beats(m.to, m.change)'
         /\ \/ /\ row[m.to] # NoRow => row[m.to].timestamp < m.change.timestamp
               /\ row' = [row EXCEPT ![m.to] = m.change]
               /\ \E b \in SUBSET Clusters :
                    /\ b # {} /\ (how = "applier" => m.to \in b)
                    /\ Appends(m.to, [change |-> m.change, tagged |-> b])
            \/ UNCHANGED <<row, changes>>
         /\ arrived' = arrived \cup {m}
         /\ UNCHANGED <<forwarded, wire>>
<1>1. m.to \in Clusters /\ m.change \in Stamped /\ m.change.timestamp \in Nat
  BY DEF RegionTypes, Messages, Stamped
<1>2. row[m.to] # NoRow => row[m.to] \in Stamped /\ row[m.to].timestamp \in Nat
  BY <1>1 DEF RegionTypes, Stamped
<1>3. arrived' = arrived \cup {m} /\ UNCHANGED <<forwarded, wire>>
  BY DEF R!Deliver
<1>4. CASE row[m.to] # NoRow /\ row[m.to].timestamp >= m.change.timestamp
  <2>1. UNCHANGED <<row, changes>>
    BY <1>4 DEF R!Deliver, R!Resolve
  <2>2. RegionTypes'
    BY <1>3, <2>1 DEF RegionTypes
  <2> QED
    BY <1>1, <1>3, <1>4, <2>1, <2>2 DEF Beats
<1>5. CASE row[m.to] = NoRow \/ ~(row[m.to].timestamp >= m.change.timestamp)
  <2>1. PICK b : b = Prefixes[R!NamedBy(how, m)]
    OBVIOUS
  <2>2. R!NamedBy(how, m) \in Clusters /\ (how = "applier" => R!NamedBy(how, m) = m.to)
    BY <1>1 DEF R!NamedBy, Stamped
  <2>3. b \in SUBSET Clusters /\ R!NamedBy(how, m) \in b
    BY <2>1, <2>2, RegionAssumption
  <2>4. row' = [row EXCEPT ![m.to] = m.change] /\ R!Log(m.to, m.change, b)
    BY <1>5, <2>1 DEF R!Deliver, R!Resolve
  <2>5. /\ changes' \in [Clusters -> Seq(Entries)]
        /\ Appends(m.to, [change |-> m.change, tagged |-> b])
    BY <1>1, <2>3, <2>4, LogAppends
  <2>6. row'[m.to] = m.change /\ row' \in [Clusters -> Stamped \cup {NoRow}]
    BY <1>1, <2>4 DEF RegionTypes
  <2>7. \A d \in Clusters : /\ Len(changes[d]) \in Nat /\ forwarded[d] \in Nat
                            /\ forwarded[d] <= Len(changes[d]) /\ forwarded'[d] = forwarded[d]
    BY <1>3 DEF RegionTypes
  <2>8. forwarded'[m.to] <= Len(changes'[m.to])
    BY <1>1, <2>5, <2>7 DEF Appends
  <2>9. \A d \in Clusters \ {m.to} : forwarded'[d] <= Len(changes'[d])
    BY <2>5, <2>7 DEF Appends
  <2>10. RegionTypes'
    BY <1>3, <2>5, <2>6, <2>8, <2>9 DEF RegionTypes
  <2>11. m.change # NoRow
    BY <1>1, RegionAssumption DEF Stamped
  <2>12. row[m.to] # NoRow => row[m.to].timestamp < m.change.timestamp
    BY <1>1, <1>2, <1>5
  <2>13. Beats(m.to, m.change)'
    BY <1>1, <2>6, <2>11 DEF Beats
  <2>14. b # {} /\ (how = "applier" => m.to \in b)
    BY <2>2, <2>3
  <2> QED
    BY <1>1, <1>3, <2>3, <2>4, <2>5, <2>10, <2>12, <2>13, <2>14
<1> QED
  BY <1>4, <1>5

-----------------------------------------------------------------------------
\* Logs and network start empty.
LEMMA RegionInit == R!Init => RegionTypes
  BY DEF R!Init, RegionTypes

\* Any step of a region: one of the three above, or a stutter.
LEMMA RegionCases ==
  ASSUME [R!Next]_regionVars
  PROVE  \/ \E c \in Clusters, t \in 1..MaxWrites : R!Write(c, t)
         \/ \E c \in Clusters : R!Forward(c)
         \/ \E m \in wire, how \in Tagging : R!Deliver(m, how)
         \/ UNCHANGED regionVars
  BY DEF R!Next

\* Every step keeps the types.
LEMMA RegionNext ==
  ASSUME RegionTypes, [R!Next]_regionVars
  PROVE  RegionTypes'
<1>1. CASE UNCHANGED regionVars
  BY <1>1 DEF regionVars, RegionTypes
<1> QED
  BY <1>1, WriteStep, ForwardStep, DeliverStep, RegionCases

\* Each entry of a log that is not tagged with its cluster was written there.
OwnUnlessTagged ==
  \A c \in Clusters : \A i \in 1..Len(changes[c]) :
    c \in changes[c][i].tagged \/ changes[c][i].change.origin = c

\* It is kept when an entry is appended.
LEMMA OwnStays ==
  ASSUME RegionTypes, OwnUnlessTagged, NEW c \in Clusters, NEW e, Appends(c, e),
         c \in e.tagged \/ e.change.origin = c
  PROVE  OwnUnlessTagged'
<1>1. PICK n \in Nat : n = Len(changes[c]) /\ Len(changes'[c]) = n + 1
  BY DEF RegionTypes, Appends
<1>2. \A i \in 1..(n + 1) : i \in 1..n \/ i = n + 1
  OBVIOUS
<1>3. \A i \in 1..n : c \in changes'[c][i].tagged \/ changes'[c][i].change.origin = c
  BY <1>1 DEF Appends, OwnUnlessTagged
<1>4. c \in changes'[c][n + 1].tagged \/ changes'[c][n + 1].change.origin = c
  BY <1>1 DEF Appends
<1>5. \A i \in 1..Len(changes'[c]) : c \in changes'[c][i].tagged \/ changes'[c][i].change.origin = c
  BY <1>1, <1>2, <1>3, <1>4, Zenon
<1>6. \A d \in Clusters \ {c} : \A i \in 1..Len(changes'[d]) :
        d \in changes'[d][i].tagged \/ changes'[d][i].change.origin = d
  BY DEF Appends, OwnUnlessTagged
<1> QED
  BY <1>5, <1>6 DEF OwnUnlessTagged

\* should_forward keeps entries that were applied here from the wire, when
\* their tag names this cluster.
LEMMA EchoNext ==
  ASSUME RegionTypes, OwnUnlessTagged, R!NoEcho, [R!Next]_regionVars, Tagging \subseteq {"applier"}
  PROVE  OwnUnlessTagged' /\ R!NoEcho'
<1>1. ASSUME NEW c \in Clusters, NEW t \in 1..MaxWrites, R!Write(c, t)
      PROVE  OwnUnlessTagged' /\ R!NoEcho'
  <2>1. R!NoEcho'
    BY <1>1, WriteStep DEF R!NoEcho
  <2>2. PICK e : e = [change |-> R!Change(c, t), tagged |-> {}]
    OBVIOUS
  <2>3. Appends(c, e) /\ e.change.origin = c
    BY <1>1, <2>2, WriteStep DEF R!Change
  <2> QED
    BY <2>1, <2>3, OwnStays
<1>2. ASSUME NEW c \in Clusters, R!Forward(c)
      PROVE  OwnUnlessTagged' /\ R!NoEcho'
  <2>1. R!NoEcho'
    BY <1>2, ForwardStep DEF OwnUnlessTagged, R!NoEcho
  <2> QED
    BY <1>2, <2>1, ForwardStep DEF OwnUnlessTagged
<1>3. ASSUME NEW m \in wire, NEW how \in Tagging, R!Deliver(m, how)
      PROVE  OwnUnlessTagged' /\ R!NoEcho'
  <2>1. R!NoEcho'
    BY <1>3, DeliverStep DEF R!NoEcho
  <2>2. CASE UNCHANGED <<row, changes>>
    BY <2>1, <2>2 DEF OwnUnlessTagged
  <2>3. ASSUME NEW b \in SUBSET Clusters, how = "applier" => m.to \in b,
               Appends(m.to, [change |-> m.change, tagged |-> b])
        PROVE  OwnUnlessTagged'
    <3>1. PICK e : e = [change |-> m.change, tagged |-> b]
      OBVIOUS
    <3>2. Appends(m.to, e) /\ m.to \in e.tagged /\ m.to \in Clusters
      BY <1>3, <2>3, <3>1, DeliverStep
    <3> QED
      BY <3>2, OwnStays
  <2> QED
    BY <1>3, <2>1, <2>2, <2>3, DeliverStep
<1>4. CASE UNCHANGED regionVars
  BY <1>4 DEF regionVars, OwnUnlessTagged, R!NoEcho
<1> QED
  BY <1>1, <1>2, <1>3, <1>4, RegionCases

\* With the tag that the test writes, which names the cluster that applied the
\* change, a change crosses the network only from the cluster it was made in,
\* also when one cluster's id begins with another's.
THEOREM NoLoops == Tagging \subseteq {"applier"} => (FairSpec => []R!NoEcho)
<1> SUFFICES ASSUME Tagging \subseteq {"applier"} PROVE FairSpec => []R!NoEcho
  OBVIOUS
<1> DEFINE I == RegionTypes /\ OwnUnlessTagged /\ R!NoEcho
<1>1. Init => I
  <2>1. R!Init => OwnUnlessTagged /\ R!NoEcho
    BY DEF R!Init, OwnUnlessTagged, R!NoEcho
  <2> QED
    BY <2>1, RegionInit DEF Init
<1>2. I /\ [Next]_vars => I'
  BY StepOf, RegionNext, EchoNext
<1>3. I => R!NoEcho
  OBVIOUS
<1> QED
  BY <1>1, <1>2, <1>3, PTL DEF FairSpec

-----------------------------------------------------------------------------
\* Some client wrote the change.
Written(ch) ==
  \E c \in Clusters : \E i \in 1..Len(changes[c]) : Local(c, i) /\ changes[c][i].change = ch

\* Nothing is made up on the way: rows, logs and messages hold written changes.
Known ==
  /\ \A c \in Clusters : row[c] # NoRow => Written(row[c])
  /\ \A m \in wire : Written(m.change)
  /\ \A c \in Clusters : \A i \in 1..Len(changes[c]) : Written(changes[c][i].change)

\* A timestamp belongs to one written change.
Distinct ==
  \A a, b \in Stamped : Written(a) /\ Written(b) /\ a.timestamp = b.timestamp => a = b

\* Rows are as new as everything their cluster has seen.
LogNewest ==
  \A c \in Clusters : \A i \in 1..Len(changes[c]) : Beats(c, changes[c][i].change)

Newest == LogNewest /\ \A m \in arrived : Beats(m.to, m.change)

\* What was forwarded is on the wire for every peer.
Sent ==
  \A c \in Clusters : \A i \in 1..forwarded[c] : Local(c, i) =>
    \A p \in Clusters \ {c} : [from |-> c, to |-> p, change |-> changes[c][i].change] \in wire

ConvInv == Known /\ Distinct /\ Newest /\ Sent

\* Logs only grow, by one entry at a time.
LEMMA LogGrows ==
  ASSUME RegionTypes, NEW c \in Clusters, NEW e, Appends(c, e)
  PROVE  /\ \A d \in Clusters : \A i \in 1..Len(changes[d]) :
              /\ i \in 1..Len(changes'[d]) /\ changes'[d][i] = changes[d][i]
              /\ Local(d, i) <=> Local(d, i)'
         /\ \A d \in Clusters : \A i \in 1..Len(changes'[d]) :
              \/ i \in 1..Len(changes[d])
              \/ d = c /\ i = Len(changes[c]) + 1 /\ changes'[d][i] = e
         /\ Len(changes[c]) + 1 \in 1..Len(changes'[c])
         /\ changes'[c][Len(changes[c]) + 1] = e
<1>1. \A d \in Clusters : Len(changes[d]) \in Nat
  BY DEF RegionTypes
<1>2. \A i \in 1..Len(changes[c]) :
        /\ i \in 1..Len(changes'[c]) /\ changes'[c][i] = changes[c][i]
        /\ Local(c, i) <=> Local(c, i)'
  BY <1>1 DEF Appends, Local
<1>3. \A d \in Clusters \ {c} : \A i \in 1..Len(changes[d]) :
        /\ i \in 1..Len(changes'[d]) /\ changes'[d][i] = changes[d][i]
        /\ Local(d, i) <=> Local(d, i)'
  BY DEF Appends, Local
<1>4. \A i \in 1..Len(changes'[c]) :
        i \in 1..Len(changes[c]) \/ (i = Len(changes[c]) + 1 /\ changes'[c][i] = e)
  BY <1>1 DEF Appends
<1>5. Len(changes[c]) + 1 \in 1..Len(changes'[c]) /\ changes'[c][Len(changes[c]) + 1] = e
  BY <1>1 DEF Appends
<1>6. \A d \in Clusters \ {c} : Len(changes'[d]) = Len(changes[d])
  BY DEF Appends
<1> QED
  BY <1>2, <1>3, <1>4, <1>5, <1>6

\* Only an entry written by a client adds a written change.
LEMMA WrittenStays ==
  ASSUME RegionTypes, NEW c \in Clusters, NEW e, Appends(c, e), NEW ch
  PROVE  /\ Written(ch) => Written(ch)'
         /\ e.tagged = {} => Written(e.change)'
         /\ Written(ch)' => Written(ch) \/ (e.tagged = {} /\ ch = e.change)
<1>1. Written(ch) => Written(ch)'
  BY LogGrows DEF Written
<1>2. e.tagged = {} => Written(e.change)'
  BY LogGrows DEF Written, Local
<1>3. Written(ch)' => Written(ch) \/ (e.tagged = {} /\ ch = e.change)
  <2> SUFFICES ASSUME NEW d \in Clusters, NEW i \in 1..Len(changes'[d]), Local(d, i)',
                      changes'[d][i].change = ch
               PROVE  Written(ch) \/ (e.tagged = {} /\ ch = e.change)
    BY DEF Written
  <2>1. CASE i \in 1..Len(changes[d])
    BY <2>1, LogGrows DEF Written
  <2>2. CASE d = c /\ i = Len(changes[c]) + 1 /\ changes'[d][i] = e
    BY <2>2 DEF Local
  <2> QED
    BY <2>1, <2>2, LogGrows
<1> QED
  BY <1>1, <1>2, <1>3

\* What is written depends on the logs alone.
LEMMA WrittenSame ==
  ASSUME UNCHANGED changes, Known
  PROVE  /\ \A x : Written(x)' <=> Written(x)
         /\ (\A c \in Clusters : \A i \in 1..Len(changes[c]) : Written(changes[c][i].change))'
<1>1. \A x : Written(x)' <=> Written(x)
  BY DEF Written, Local
<1>2. ASSUME NEW c \in Clusters, NEW i \in 1..Len(changes'[c])
      PROVE  Written(changes[c][i].change)'
  <2>1. PICK x : x = changes[c][i].change
    OBVIOUS
  <2>2. Written(x)'
    BY <1>1, <1>2, <2>1 DEF Known
  <2> QED
    BY <2>1, <2>2 DEF Written
<1> QED
  BY <1>1, <1>2

\* Rows only get newer.
LEMMA RowGrows ==
  ASSUME RegionTypes, NEW c \in Clusters, NEW ch \in Stamped,
         row' = [row EXCEPT ![c] = ch],
         row[c] # NoRow => ch.timestamp >= row[c].timestamp
  PROVE  /\ \A d \in Clusters, x \in Stamped : Beats(d, x) => Beats(d, x)'
         /\ Beats(c, ch)'
         /\ \A d \in Clusters \ {c} : row'[d] = row[d]
         /\ row'[c] = ch
<1>1. row'[c] = ch /\ \A d \in Clusters \ {c} : row'[d] = row[d]
  BY DEF RegionTypes
<1>2. ch # NoRow /\ ch.timestamp \in Nat
  BY RegionAssumption DEF Stamped
<1>3. row[c] # NoRow => row[c].timestamp \in Nat
  BY DEF RegionTypes, Stamped
<1>4. \A x \in Stamped : x.timestamp \in Nat
  BY DEF Stamped
<1>5. \A x \in Stamped : Beats(c, x) => Beats(c, x)'
  BY <1>1, <1>2, <1>3, <1>4 DEF Beats
<1>6. \A d \in Clusters \ {c}, x \in Stamped : Beats(d, x) => Beats(d, x)'
  BY <1>1 DEF Beats
<1>7. Beats(c, ch)'
  BY <1>1, <1>2 DEF Beats
<1> QED
  BY <1>1, <1>5, <1>6, <1>7

\* What a step that appends one entry and renews one row keeps of Known and
\* Newest: the two actions that do so differ only in where the change is from.
LEMMA KnownGrows ==
  ASSUME RegionTypes, ConvInv, NEW c \in Clusters, NEW ch \in Stamped, NEW b \in SUBSET Clusters,
         Appends(c, [change |-> ch, tagged |-> b]),
         row' = [row EXCEPT ![c] = ch],
         row[c] # NoRow => ch.timestamp >= row[c].timestamp,
         b # {} => Written(ch),
         UNCHANGED wire
  PROVE  Known' /\ LogNewest'
<1> DEFINE e == [change |-> ch, tagged |-> b]
<1>1. e.change = ch /\ e.tagged = b
  OBVIOUS
<1>2. Appends(c, e)
  OBVIOUS
<1> HIDE DEF e
<1>3. Written(ch)'
  BY <1>1, <1>2, WrittenStays
<1>4. \A x : Written(x) => Written(x)'
  BY <1>2, WrittenStays
<1>5. ASSUME NEW d \in Clusters, row'[d] # NoRow
      PROVE  Written(row[d])'
  <2>1. PICK x : x = row'[d]
    OBVIOUS
  <2>2. Written(x)'
    BY <1>3, <1>4, <1>5, <2>1, RowGrows DEF ConvInv, Known
  <2> QED
    BY <2>1, <2>2 DEF Written
<1>6. ASSUME NEW m \in wire'
      PROVE  Written(m.change)'
  BY <1>4 DEF ConvInv, Known
<1>7. ASSUME NEW d \in Clusters, NEW i \in 1..Len(changes'[d])
      PROVE  (Written(changes[d][i].change) /\ Beats(d, changes[d][i].change))'
  <2>1. CASE i \in 1..Len(changes[d])
    <3>1. changes'[d][i] = changes[d][i]
      BY <1>2, <2>1, LogGrows
    <3>2. PICK x \in Stamped : x = changes[d][i].change
      <4>1. changes[d][i] \in Entries
        BY <2>1 DEF RegionTypes
      <4> QED
        BY <4>1 DEF Entries
    <3>3. Written(x) /\ Beats(d, x)
      BY <2>1, <3>2 DEF ConvInv, Known, Newest, LogNewest
    <3>4. Written(x)' /\ Beats(d, x)'
      BY <1>4, <3>3, RowGrows
    <3> QED
      BY <3>1, <3>2, <3>4 DEF Written, Beats
  <2>2. CASE d = c /\ i = Len(changes[c]) + 1 /\ changes'[d][i] = e
    <3>1. Written(ch)' /\ Beats(d, ch)'
      BY <1>3, <2>2, RowGrows
    <3> QED
      BY <1>1, <2>2, <3>1 DEF Written, Beats
  <2> QED
    BY <1>2, <2>1, <2>2, LogGrows
<1> QED
  BY <1>5, <1>6, <1>7 DEF Known, LogNewest

\* Entries that were forwarded stay where they are when a log grows.
LEMMA SentStays ==
  ASSUME RegionTypes, Sent, NEW c \in Clusters, NEW e, Appends(c, e), UNCHANGED <<forwarded, wire>>
  PROVE  Sent'
<1> SUFFICES ASSUME NEW d \in Clusters, NEW i \in 1..forwarded[d], Local(d, i)',
                    NEW p \in Clusters \ {d}
             PROVE  [from |-> d, to |-> p, change |-> changes'[d][i].change] \in wire
  BY DEF Sent
<1>1. forwarded[d] \in Nat /\ Len(changes[d]) \in Nat /\ forwarded[d] <= Len(changes[d])
  BY DEF RegionTypes
<1>2. i \in 1..Len(changes[d])
  BY <1>1
<1>3. changes'[d][i] = changes[d][i] /\ Local(d, i)
  BY <1>2, LogGrows
<1> QED
  BY <1>3 DEF Sent

\* There is nothing to agree on yet.
LEMMA ConvInit == R!Init => ConvInv
<1> SUFFICES ASSUME R!Init PROVE ConvInv
  OBVIOUS
<1>1. \A c \in Clusters : changes[c] = <<>> /\ row[c] = NoRow /\ forwarded[c] = 0
  BY DEF R!Init
<1>2. \A c \in Clusters : 1..Len(changes[c]) = {} /\ 1..forwarded[c] = {}
  BY <1>1
<1>3. wire = {} /\ arrived = {}
  BY DEF R!Init
<1>4. Known /\ Distinct /\ LogNewest /\ Sent
  BY <1>1, <1>2, <1>3 DEF Known, Distinct, LogNewest, Sent, Written
<1> QED
  BY <1>3, <1>4 DEF ConvInv, Newest

\* A write: its timestamp is in no log yet, so it stays distinct.
LEMMA ConvWrite ==
  ASSUME RegionTypes, ConvInv, NEW c \in Clusters, NEW t \in 1..MaxWrites, R!Write(c, t)
  PROVE  ConvInv'
<1> DEFINE ch == R!Change(c, t)
           e == [change |-> ch, tagged |-> {}]
<1>1. ch \in Stamped /\ ch.timestamp = t /\ e.change = ch /\ e.tagged = {}
  BY WriteStep DEF R!Change
<1>2. Appends(c, e) /\ row' = [row EXCEPT ![c] = ch] /\ UNCHANGED <<forwarded, wire, arrived>>
  BY WriteStep
<1>3. row[c] # NoRow => t >= row[c].timestamp
  <2>1. row[c] # NoRow => row[c].timestamp < t /\ row[c].timestamp \in Nat
    BY DEF R!Write, RegionTypes, Stamped
  <2> QED
    BY <2>1, RegionAssumption
<1>4. \A d \in Clusters : \A i \in 1..Len(changes[d]) : changes[d][i].change.timestamp # t
  <2>1. \A d \in Clusters : DOMAIN changes[d] = 1..Len(changes[d])
    BY DEF RegionTypes
  <2> QED
    BY <2>1 DEF R!Write
<1>5. \A x : Written(x) => x.timestamp # t
  BY <1>4 DEF Written
<1> HIDE DEF ch
<1>6. Known' /\ LogNewest'
  BY <1>1, <1>2, <1>3, KnownGrows
<1>7. Distinct'
  <2> SUFFICES ASSUME NEW a \in Stamped, NEW b \in Stamped, Written(a)', Written(b)',
                      a.timestamp = b.timestamp
               PROVE  a = b
    BY DEF Distinct
  <2> HIDE DEF e
  <2>1. (Written(a) \/ a = ch) /\ (Written(b) \/ b = ch)
    BY <1>1, <1>2, WrittenStays
  <2> QED
    BY <1>1, <1>5, <2>1 DEF ConvInv, Distinct
<1>8. \A m \in arrived' : Beats(m.to, m.change)'
  <2>1. \A d \in Clusters, x \in Stamped : Beats(d, x) => Beats(d, x)'
    BY <1>1, <1>2, <1>3, RowGrows
  <2>2. \A m \in arrived : m.to \in Clusters /\ m.change \in Stamped
    BY DEF RegionTypes, Messages
  <2> QED
    BY <1>2, <2>1, <2>2 DEF ConvInv, Newest
<1>9. Sent'
  <2> HIDE DEF e
  <2> QED
    BY <1>2, SentStays DEF ConvInv
<1> QED
  BY <1>6, <1>7, <1>8, <1>9 DEF ConvInv, Newest

\* A forward: what it sends was written, and is sent to every peer.
LEMMA ConvForward ==
  ASSUME RegionTypes, ConvInv, NEW c \in Clusters, R!Forward(c)
  PROVE  ConvInv'
<1>1. UNCHANGED <<row, changes, arrived>>
  BY ForwardStep
<1>2. \A x : Written(x)' <=> Written(x)
  BY <1>1, WrittenSame DEF ConvInv
<1>3. Distinct' /\ Newest'
  BY <1>1, <1>2 DEF ConvInv, Distinct, Newest, LogNewest, Beats
<1>4. \A m \in wire' : Written(m.change)'
  <2> SUFFICES ASSUME NEW m \in wire' PROVE Written(m.change)
    BY <1>2
  <2>1. CASE m \in wire
    BY <2>1 DEF ConvInv, Known
  <2>2. CASE m \in wire' \ wire
    BY <2>2, ForwardStep DEF ConvInv, Known
  <2> QED
    BY <2>1, <2>2
<1>5. Known'
  <2>1. ASSUME NEW d \in Clusters, row'[d] # NoRow PROVE Written(row[d])'
    <3>1. PICK x : x = row[d]
      OBVIOUS
    <3>2. Written(x)'
      BY <1>1, <1>2, <2>1, <3>1 DEF ConvInv, Known
    <3> QED
      BY <1>1, <3>1, <3>2 DEF Written
  <2>2. (\A d \in Clusters : \A i \in 1..Len(changes[d]) : Written(changes[d][i].change))'
    BY <1>1, WrittenSame DEF ConvInv
  <2> QED
    BY <1>4, <2>1, <2>2 DEF Known
<1>6. Sent'
  <2> SUFFICES ASSUME NEW d \in Clusters, NEW i \in 1..forwarded'[d], Local(d, i),
                      NEW p \in Clusters \ {d}
               PROVE  [from |-> d, to |-> p, change |-> changes[d][i].change] \in wire'
    BY <1>1 DEF Sent, Local
  <2>1. forwarded[d] \in Nat /\ forwarded' = [forwarded EXCEPT ![c] = @ + 1] /\ wire \subseteq wire'
    BY ForwardStep DEF RegionTypes
  <2>2. i \in 1..forwarded[d] \/ (d = c /\ i = forwarded[c] + 1)
    BY <2>1 DEF RegionTypes
  <2>3. CASE i \in 1..forwarded[d]
    BY <2>1, <2>3 DEF ConvInv, Sent
  <2>4. CASE d = c /\ i = forwarded[c] + 1
    BY <2>4, ForwardStep
  <2> QED
    BY <2>2, <2>3, <2>4
<1> QED
  BY <1>3, <1>5, <1>6 DEF ConvInv

\* A delivery: the row that results is as new as the message and as the row
\* before it, and was written somewhere.
LEMMA ConvDeliver ==
  ASSUME RegionTypes, ConvInv, NEW m \in wire, NEW how \in Tagging, R!Deliver(m, how)
  PROVE  ConvInv'
<1>1. /\ m.to \in Clusters /\ m.change \in Stamped /\ Beats(m.to, m.change)'
      /\ m.change.timestamp \in Nat
      /\ arrived' = arrived \cup {m} /\ UNCHANGED <<forwarded, wire>>
  BY DeliverStep DEF Stamped
<1>2. \A n \in arrived : n.to \in Clusters /\ n.change \in Stamped
  BY DEF RegionTypes, Messages
<1>3. Written(m.change)
  BY DEF ConvInv, Known
<1>4. ASSUME NEW b \in SUBSET Clusters, b # {},
             Appends(m.to, [change |-> m.change, tagged |-> b]),
             row' = [row EXCEPT ![m.to] = m.change],
             row[m.to] # NoRow => row[m.to].timestamp < m.change.timestamp
      PROVE  ConvInv'
  <2> DEFINE e == [change |-> m.change, tagged |-> b]
  <2>1. row[m.to] # NoRow => m.change.timestamp >= row[m.to].timestamp
    <3>1. row[m.to] # NoRow => row[m.to].timestamp \in Nat
      BY <1>1 DEF RegionTypes, Stamped
    <3> QED
      BY <1>1, <1>4, <3>1
  <2>2. Known' /\ LogNewest'
    BY <1>1, <1>3, <1>4, <2>1, KnownGrows
  <2>3. \A d \in Clusters, x \in Stamped : Beats(d, x) => Beats(d, x)'
    BY <1>1, <1>4, <2>1, RowGrows
  <2>4. \A n \in arrived' : Beats(n.to, n.change)'
    BY <1>1, <1>2, <2>3 DEF ConvInv, Newest
  <2>5. e.tagged # {} /\ Appends(m.to, e)
    BY <1>4
  <2> HIDE DEF e
  <2>6. \A x : Written(x)' => Written(x)
    BY <1>1, <2>5, WrittenStays
  <2>7. Distinct'
    BY <2>6 DEF ConvInv, Distinct
  <2>8. Sent'
    BY <1>1, <2>5, SentStays DEF ConvInv
  <2> QED
    BY <2>2, <2>4, <2>7, <2>8 DEF ConvInv, Newest
<1>5. CASE UNCHANGED <<row, changes>>
  <2>1. \A x : Written(x)' <=> Written(x)
    BY <1>5, WrittenSame DEF ConvInv
  <2>2. ASSUME NEW d \in Clusters, row'[d] # NoRow PROVE Written(row[d])'
    <3>1. PICK x : x = row[d]
      OBVIOUS
    <3>2. Written(x)'
      BY <1>5, <2>1, <2>2, <3>1 DEF ConvInv, Known
    <3> QED
      BY <1>5, <3>1, <3>2 DEF Written
  <2>3. Known'
    <3>1. \A n \in wire' : Written(n.change)'
      BY <1>1, <2>1 DEF ConvInv, Known
    <3>2. (\A d \in Clusters : \A i \in 1..Len(changes[d]) : Written(changes[d][i].change))'
      BY <1>5, WrittenSame DEF ConvInv
    <3> QED
      BY <2>2, <3>1, <3>2 DEF Known
  <2>4. LogNewest'
    BY <1>5 DEF ConvInv, Newest, LogNewest, Beats
  <2>5. \A n \in arrived' : Beats(n.to, n.change)'
    BY <1>1, <1>5 DEF ConvInv, Newest, Beats
  <2>6. Distinct' /\ Sent'
    BY <1>1, <1>5, <2>1 DEF ConvInv, Distinct, Sent, Local
  <2> QED
    BY <2>3, <2>4, <2>5, <2>6 DEF ConvInv, Newest
<1> QED
  BY <1>4, <1>5, DeliverStep

\* The invariant is kept by every step.
LEMMA ConvNext ==
  ASSUME RegionTypes, ConvInv, [R!Next]_regionVars
  PROVE  ConvInv'
<1>1. CASE UNCHANGED regionVars
  <2>1. UNCHANGED <<row, changes, forwarded, wire, arrived>>
    BY <1>1 DEF regionVars
  <2>2. \A x : Written(x)' <=> Written(x)
    BY <2>1, WrittenSame DEF ConvInv
  <2>3. Known'
    <3>1. ASSUME NEW d \in Clusters, row'[d] # NoRow PROVE Written(row[d])'
      <4>1. PICK x : x = row[d]
        OBVIOUS
      <4>2. Written(x)'
        BY <2>1, <2>2, <3>1, <4>1 DEF ConvInv, Known
      <4> QED
        BY <2>1, <4>1, <4>2 DEF Written
    <3>2. \A n \in wire' : Written(n.change)'
      BY <2>1, <2>2 DEF ConvInv, Known
    <3>3. (\A d \in Clusters : \A i \in 1..Len(changes[d]) : Written(changes[d][i].change))'
      BY <2>1, WrittenSame DEF ConvInv
    <3> QED
      BY <3>1, <3>2, <3>3 DEF Known
  <2>4. Distinct' /\ Sent'
    BY <2>1, <2>2 DEF ConvInv, Distinct, Sent, Local
  <2>5. Newest'
    BY <2>1 DEF ConvInv, Newest, LogNewest, Beats
  <2> QED
    BY <2>3, <2>4, <2>5 DEF ConvInv
<1> QED
  BY <1>1, ConvWrite, ConvForward, ConvDeliver, RegionCases

\* When nothing is under way, every cluster's row beats every written change:
\* its own are in its log, and the others' have arrived.
LEMMA QuietBeats ==
  ASSUME RegionTypes, ConvInv, R!Quiet, NEW d \in Clusters, NEW ch, Written(ch)
  PROVE  Beats(d, ch)
<1>1. PICK c \in Clusters : \E i \in 1..Len(changes[c]) : Local(c, i) /\ changes[c][i].change = ch
  BY DEF Written
<1>2. PICK i \in 1..Len(changes[c]) : Local(c, i) /\ changes[c][i].change = ch
  BY <1>1
<1>3. CASE c = d
  BY <1>2, <1>3 DEF ConvInv, Newest, LogNewest
<1>4. CASE c # d
  <2>1. i \in 1..forwarded[c]
    BY <1>2 DEF R!Quiet
  <2>2. [from |-> c, to |-> d, change |-> ch] \in arrived
    BY <1>2, <1>4, <2>1 DEF ConvInv, Sent, R!Quiet
  <2> QED
    BY <2>2 DEF ConvInv, Newest
<1> QED
  BY <1>3, <1>4

\* Rows that beat one another have one timestamp, and so are one change.
LEMMA ConvergedHolds ==
  ASSUME RegionTypes, ConvInv
  PROVE  Converged
<1> SUFFICES ASSUME R!Quiet, NEW c \in Clusters, NEW d \in Clusters PROVE row[c] = row[d]
  BY DEF Converged, R!Converged
<1>1. \A a, b \in Clusters : row[a] # NoRow => Beats(b, row[a])
  BY QuietBeats DEF ConvInv, Known
<1>2. CASE row[c] = NoRow \/ row[d] = NoRow
  BY <1>1, <1>2 DEF Beats
<1>3. CASE row[c] # NoRow /\ row[d] # NoRow
  <2>1. /\ row[c] \in Stamped /\ row[d] \in Stamped
        /\ row[c].timestamp \in Nat /\ row[d].timestamp \in Nat
    BY <1>3 DEF RegionTypes, Stamped
  <2>2. row[c].timestamp = row[d].timestamp
    BY <1>1, <1>3, <2>1 DEF Beats
  <2> QED
    BY <1>3, <2>1, <2>2 DEF ConvInv, Known, Distinct
<1> QED
  BY <1>2, <1>3

\* Last write wins everywhere: with every change forwarded and every message
\* delivered, in any order and any number of times, all rows are the same.
THEOREM Convergence == FairSpec => []Converged
<1>1. Init => RegionTypes /\ ConvInv
  BY RegionInit, ConvInit DEF Init
<1>2. RegionTypes /\ ConvInv /\ [Next]_vars => (RegionTypes /\ ConvInv)'
  BY StepOf, RegionNext, ConvNext
<1>3. RegionTypes /\ ConvInv => Converged
  BY ConvergedHolds
<1> QED
  BY <1>1, <1>2, <1>3, PTL DEF FairSpec

-----------------------------------------------------------------------------
\* A log holds newer and newer changes.
Rising ==
  \A c \in Clusters : \A i, j \in 1..Len(changes[c]) :
    i < j => changes[c][i].change.timestamp < changes[c][j].change.timestamp

\* An entry that is newer than the row is newer than all of the log.
LEMMA RisingGrows ==
  ASSUME RegionTypes, LogNewest, Rising, NEW c \in Clusters, NEW e, Appends(c, e),
         e.change \in Stamped, row[c] # NoRow => row[c].timestamp < e.change.timestamp
  PROVE  Rising'
<1> SUFFICES ASSUME NEW d \in Clusters, NEW i \in 1..Len(changes'[d]), NEW j \in 1..Len(changes'[d]),
                    i < j
             PROVE  changes'[d][i].change.timestamp < changes'[d][j].change.timestamp
  BY DEF Rising
<1>1. Len(changes[d]) \in Nat /\ i \in Nat /\ j \in Nat
  BY DEF RegionTypes
<1>2. CASE j \in 1..Len(changes[d])
  <2>1. i \in 1..Len(changes[d])
    BY <1>1, <1>2
  <2>2. changes'[d][i] = changes[d][i] /\ changes'[d][j] = changes[d][j]
    BY <1>2, <2>1, LogGrows
  <2> QED
    BY <1>2, <2>1, <2>2 DEF Rising
<1>3. CASE d = c /\ j = Len(changes[c]) + 1 /\ changes'[d][j] = e
  <2>1. i \in 1..Len(changes[c])
    BY <1>1, <1>3
  <2>2. changes'[d][i] = changes[c][i]
    BY <1>3, <2>1, LogGrows
  <2>3. changes[c][i] \in Entries
    BY <2>1 DEF RegionTypes
  <2>4. PICK x \in Stamped : x = changes[c][i].change
    BY <2>3 DEF Entries
  <2>5. row[c] # NoRow /\ row[c].timestamp >= x.timestamp
    BY <2>1, <2>4 DEF LogNewest, Beats
  <2>6. row[c].timestamp \in Nat /\ x.timestamp \in Nat /\ e.change.timestamp \in Nat
    BY <2>5 DEF RegionTypes, Stamped
  <2>7. x.timestamp < e.change.timestamp
    BY <2>5, <2>6
  <2> QED
    BY <1>3, <2>2, <2>4, <2>7
<1> QED
  BY <1>2, <1>3, LogGrows

\* Whoever writes or applies a change finds an older row, or none.
LEMMA RisingNext ==
  ASSUME RegionTypes, ConvInv, Rising, [R!Next]_regionVars
  PROVE  Rising'
<1>1. LogNewest
  BY DEF ConvInv, Newest
<1>2. ASSUME NEW c \in Clusters, NEW t \in 1..MaxWrites, R!Write(c, t) PROVE Rising'
  <2>1. PICK e : e = [change |-> R!Change(c, t), tagged |-> {}]
    OBVIOUS
  <2>2. Appends(c, e) /\ e.change \in Stamped
    BY <1>2, <2>1, WriteStep
  <2>3. row[c] # NoRow => row[c].timestamp < e.change.timestamp
    BY <1>2, <2>1 DEF R!Write, R!Change
  <2> QED
    BY <1>1, <2>2, <2>3, RisingGrows
<1>3. ASSUME NEW c \in Clusters, R!Forward(c) PROVE Rising'
  BY <1>3, ForwardStep DEF Rising
<1>4. ASSUME NEW m \in wire, NEW how \in Tagging, R!Deliver(m, how) PROVE Rising'
  <2>1. CASE UNCHANGED <<row, changes>>
    BY <2>1 DEF Rising
  <2>2. ASSUME NEW b \in SUBSET Clusters, Appends(m.to, [change |-> m.change, tagged |-> b]),
               row[m.to] # NoRow => row[m.to].timestamp < m.change.timestamp
        PROVE  Rising'
    <3>1. PICK e : e = [change |-> m.change, tagged |-> b]
      OBVIOUS
    <3>2. Appends(m.to, e) /\ m.to \in Clusters /\ e.change = m.change /\ e.change \in Stamped
      BY <1>4, <2>2, <3>1, DeliverStep
    <3> QED
      BY <1>1, <2>2, <3>2, RisingGrows
  <2> QED
    BY <1>4, <2>1, <2>2, DeliverStep
<1>5. CASE UNCHANGED regionVars
  BY <1>5 DEF regionVars, Rising
<1> QED
  BY <1>2, <1>3, <1>4, <1>5, RegionCases

\* Two places of a rising log do not hold one change.
LEMMA RisingOnce ==
  ASSUME RegionTypes, Rising
  PROVE  LoopsDieOut
<1> SUFFICES ASSUME NEW c \in Clusters, NEW i \in 1..Len(changes[c]), NEW j \in 1..Len(changes[c]),
                    changes[c][i].change = changes[c][j].change
             PROVE  i = j
  <2>1. \A c \in Clusters : DOMAIN changes[c] = 1..Len(changes[c])
    BY DEF RegionTypes
  <2> QED
    BY <2>1 DEF LoopsDieOut, R!LoopsDieOut
<1>1. changes[c][i] \in Entries /\ changes[c][j] \in Entries
  BY DEF RegionTypes
<1>2. changes[c][i].change.timestamp \in Nat
  BY <1>1 DEF Entries, Stamped
<1>3. ~(i < j) /\ ~(j < i)
  BY <1>2 DEF Rising
<1> QED
  BY <1>3

\* Whichever cluster the tag of an applied change names, copies and echoes of it
\* are not applied again: no log ever holds a change twice.
THEOREM AppliedOnce == FairSpec => []LoopsDieOut
<1> DEFINE I == RegionTypes /\ ConvInv /\ Rising
<1>1. Init => I
  <2>1. R!Init => Rising
    BY DEF R!Init, Rising
  <2> QED
    BY <2>1, RegionInit, ConvInit DEF Init
<1>2. I /\ [Next]_vars => I'
  BY StepOf, RegionNext, ConvNext, RisingNext
<1>3. I => LoopsDieOut
  BY RisingOnce
<1> QED
  BY <1>1, <1>2, <1>3, PTL DEF FairSpec
=============================================================================
