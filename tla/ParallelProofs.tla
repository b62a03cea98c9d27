--------------------------- MODULE ParallelProofs ---------------------------
(***************************************************************************)
(* Proofs about the parallel snapshotter, for every table, chunk size,     *)
(* number of workers, calls and panics.  The invariant relates the loop of *)
(* `new` to the chunks it has pushed (Cut), the owner's phase to its       *)
(* workers (Crew), the workers to the chunks they hold (Holding) and the   *)
(* number of chunks in progress to the workers and the panics (Tally).     *)
(***************************************************************************)
EXTENDS ParallelSnapshotter, SequenceTheorems, FiniteSetTheorems, TLAPS

Status == {"Pending", "InProgress", "Completed"}
Chunk == [min_key : Nat, max_key : Nat, status : Status]

InChunk(i, k) == chunks[i].min_key <= k /\ k <= chunks[i].max_key

\* The chunks pushed so far: none empty, none too long, every key below the
\* loop's min_key in exactly one of them.
Cut ==
  /\ \A i \in DOMAIN chunks :
       /\ 1 <= chunks[i].min_key /\ chunks[i].min_key <= chunks[i].max_key
       /\ chunks[i].max_key < min_key
       /\ chunks[i].max_key - chunks[i].min_key < chunk_size
  /\ \A k \in Nat : 1 <= k /\ k < min_key => \E i \in DOMAIN chunks : InChunk(i, k)
  /\ \A i, j \in DOMAIN chunks, k \in Nat : InChunk(i, k) /\ InChunk(j, k) => i = j
  /\ phase # "new" => min_key = total_rows + 1

\* The workers of each phase of the owner.  A worker that ended found no chunk
\* pending, and none is pending after that.
Crew ==
  /\ phase = "new" => progress = <<>>
  /\ \A w \in Workers :
       /\ phase = "new" => worker[w] = "off"
       /\ phase # "joining" => worker[w] \in {"off", "ended", "panicked"}
       /\ phase = "joining" \/ progress # <<>> => worker[w] # "off"
       /\ worker[w] = "ended" => Pending = {}
       /\ worker[w] = "panicked" => panics > 0

\* A worker that works holds a chunk in progress that no other worker holds.
Holding ==
  \A w \in Workers : worker[w] = "working" =>
    /\ holds[w] \in DOMAIN chunks
    /\ chunks[holds[w]].status = "InProgress"

InProgress == {i \in DOMAIN chunks : chunks[i].status = "InProgress"}
Working == {w \in Workers : worker[w] = "working"}

\* A chunk in progress is held by a worker or was abandoned by a panic.
Tally == Cardinality(InProgress) = panics + Cardinality(Working)

\* What was saved never says more than the chunks do.
Saved ==
  progress # <<>> =>
    /\ progress[2] = Len(chunks)
    /\ progress[1] <= Cardinality(Completed)
    /\ panics = 0 /\ Workers # {} => progress[1] = Len(chunks)
    /\ phase = "idle" /\ ~stale => progress[1] = Cardinality(Completed)

ParallelInv ==
  TypeOK /\ Cut /\ Crew /\ Holding /\ ClaimedOnce /\ Tally /\ Saved

(***************************************************************************)
(* Facts about the vector of chunks.                                       *)
(***************************************************************************)
\* The indices of the chunks are an interval; sets of them are finite.
LEMMA ChunkFacts ==
  ASSUME TypeOK
  PROVE  /\ chunks \in Seq(Chunk) /\ Len(chunks) \in Nat
         /\ DOMAIN chunks = 1..Len(chunks)
         /\ \A i \in DOMAIN chunks : /\ chunks[i] \in Chunk
                                     /\ chunks[i].min_key \in Nat
                                     /\ chunks[i].max_key \in Nat
                                     /\ chunks[i].status \in Status
         /\ IsFiniteSet(DOMAIN chunks) /\ Cardinality(DOMAIN chunks) = Len(chunks)
<1>1. chunks \in Seq(Chunk)
  BY DEF TypeOK, Chunk, Status
<1>2. Len(chunks) \in Nat /\ DOMAIN chunks = 1..Len(chunks)
  BY <1>1
<1>3. \A i \in DOMAIN chunks : chunks[i] \in Chunk
  BY <1>1, <1>2
<1>4. ASSUME NEW n \in Nat PROVE IsFiniteSet(1..n) /\ Cardinality(1..n) = n
  <2>1. 1 \in Int /\ n \in Int
    OBVIOUS
  <2>2. IsFiniteSet(1..n) /\ Cardinality(1..n) = IF 1 > n THEN 0 ELSE n - 1 + 1
    BY <2>1, FS_Interval
  <2> QED
    BY <2>2
<1> QED
  BY <1>1, <1>2, <1>3, <1>4 DEF Chunk

\* A set of indices is finite, and its size is a number.
LEMMA IndexSets ==
  ASSUME TypeOK, NEW S, S \subseteq DOMAIN chunks
  PROVE  IsFiniteSet(S) /\ Cardinality(S) \in Nat
BY ChunkFacts, FS_Subset, FS_CardinalityType

\* So is a set of workers.
LEMMA WorkerSets ==
  ASSUME NEW S, S \subseteq Workers
  PROVE  IsFiniteSet(S) /\ Cardinality(S) \in Nat
BY WorkersAssumption, FS_Subset, FS_CardinalityType

\* Marking a chunk changes its status and nothing else.
LEMMA Marking ==
  ASSUME TypeOK, NEW i \in DOMAIN chunks, NEW s \in Status,
         chunks' = [chunks EXCEPT ![i].status = s]
  PROVE  /\ chunks' \in Seq(Chunk)
         /\ Len(chunks') = Len(chunks) /\ DOMAIN chunks' = DOMAIN chunks
         /\ \A j \in DOMAIN chunks : /\ chunks'[j].min_key = chunks[j].min_key
                                     /\ chunks'[j].max_key = chunks[j].max_key
                                     /\ j # i => chunks'[j].status = chunks[j].status
         /\ chunks'[i].status = s
<1> DEFINE c == [chunks[i] EXCEPT !.status = s]
<1>1. c \in Chunk
  BY ChunkFacts DEF Chunk
<1>2. chunks' = [chunks EXCEPT ![i] = c]
  OBVIOUS
<1>3. c.min_key = chunks[i].min_key /\ c.max_key = chunks[i].max_key /\ c.status = s
  BY ChunkFacts DEF Chunk
<1>4. chunks \in Seq(Chunk) /\ i \in 1..Len(chunks)
  BY ChunkFacts
<1> HIDE DEF c
<1>5. /\ chunks' \in Seq(Chunk) /\ Len(chunks') = Len(chunks)
      /\ \A j \in 1..Len(chunks) : chunks'[j] = IF j = i THEN c ELSE chunks[j]
  BY <1>1, <1>2, <1>4, ExceptSeq
<1>6. DOMAIN chunks' = DOMAIN chunks
  BY <1>2
<1> QED
  BY <1>3, <1>4, <1>5, <1>6, ChunkFacts

\* A claim counter changes alone.
LEMMA Counting ==
  ASSUME TypeOK, NEW i \in DOMAIN chunks, claims' = [claims EXCEPT ![i] = @ + 1]
  PROVE  /\ claims' \in Seq(Nat) /\ Len(claims') = Len(claims)
         /\ \A j \in DOMAIN chunks : claims'[j] = IF j = i THEN claims[i] + 1
                                                           ELSE claims[j]
<1>1. claims \in Seq(Nat) /\ Len(claims) = Len(chunks)
  BY DEF TypeOK
<1>2. i \in 1..Len(claims) /\ DOMAIN chunks = 1..Len(claims)
  BY <1>1, ChunkFacts
<1>3. claims[i] + 1 \in Nat
  BY <1>1, <1>2
<1> DEFINE e == claims[i] + 1
<1>4. claims' = [claims EXCEPT ![i] = e]
  OBVIOUS
<1> HIDE DEF e
<1>5. e \in Nat
  BY <1>3 DEF e
<1>6. /\ claims' \in Seq(Nat) /\ Len(claims') = Len(claims)
      /\ \A j \in 1..Len(claims) : claims'[j] = IF j = i THEN e ELSE claims[j]
  BY <1>1, <1>2, <1>4, <1>5, ExceptSeq
<1> QED
  BY <1>2, <1>6 DEF e

\* Steps that only mark chunks keep the cut.
LEMMA CutKept ==
  ASSUME TypeOK, Cut,
         DOMAIN chunks' = DOMAIN chunks,
         \A j \in DOMAIN chunks : /\ chunks'[j].min_key = chunks[j].min_key
                                  /\ chunks'[j].max_key = chunks[j].max_key,
         min_key' = min_key,
         phase' # "new" => phase # "new" \/ min_key = total_rows + 1
  PROVE  Cut'
<1>1. \A i \in DOMAIN chunks, k \in Nat : InChunk(i, k)' <=> InChunk(i, k)
  BY DEF InChunk
<1>2. \A k \in Nat : 1 <= k /\ k < min_key' => \E i \in DOMAIN chunks' : InChunk(i, k)'
  BY <1>1 DEF Cut
<1>3. \A i, j \in DOMAIN chunks', k \in Nat : InChunk(i, k)' /\ InChunk(j, k)' => i = j
  BY <1>1 DEF Cut
<1>4. \A i \in DOMAIN chunks' :
       /\ 1 <= chunks'[i].min_key /\ chunks'[i].min_key <= chunks'[i].max_key
       /\ chunks'[i].max_key < min_key'
       /\ chunks'[i].max_key - chunks'[i].min_key < chunk_size
  BY DEF Cut
<1>5. phase' # "new" => min_key' = total_rows + 1
  BY DEF Cut
<1> QED
  BY <1>2, <1>3, <1>4, <1>5 DEF Cut

\* Chunks only get completed, so that what was saved stays true.
LEMMA SavedKept ==
  ASSUME TypeOK, Saved, DOMAIN chunks' = DOMAIN chunks, Len(chunks') = Len(chunks),
         progress' = progress,
         Completed \subseteq Completed', panics' = 0 => panics = 0,
         phase' = "idle" /\ ~stale' => phase = "idle" /\ ~stale /\ Completed' = Completed
  PROVE  Saved'
<1> SUFFICES ASSUME progress # <<>> PROVE Saved'
  BY DEF Saved
<1>1. IsFiniteSet(Completed) /\ Cardinality(Completed) \in Nat
  BY IndexSets DEF Completed
<1>2. IsFiniteSet(Completed') /\ Cardinality(Completed') \in Nat
  <2>1. IsFiniteSet(DOMAIN chunks')
    BY ChunkFacts
  <2>2. Completed' \subseteq DOMAIN chunks'
    BY DEF Completed
  <2> QED
    BY <2>1, <2>2, FS_Subset, FS_CardinalityType
<1>3. Cardinality(Completed) <= Cardinality(Completed')
  BY <1>2, FS_Subset
<1>4. progress[1] \in Nat
  BY DEF TypeOK
<1>5. progress'[1] <= Cardinality(Completed')
  BY <1>1, <1>2, <1>3, <1>4 DEF Saved
<1> QED
  BY <1>5 DEF Saved

(***************************************************************************)
(* The steps of the owner.                                                 *)
(***************************************************************************)
\* The invariant holds of an empty snapshotter.
LEMMA ParallelInit == Init => ParallelInv
<1> SUFFICES ASSUME Init PROVE ParallelInv
  OBVIOUS
<1>1. TypeOK
  <2>1. stale \in BOOLEAN
    BY DEF Init
  <2> QED
    BY <2>1, ChunkAssumption DEF Init, TypeOK
<1>2. Cut
  BY DEF Init, Cut
<1>3. Crew /\ Holding /\ ClaimedOnce /\ Saved
  BY DEF Init, Crew, Holding, ClaimedOnce, Saved
<1>4. InProgress = {} /\ Working = {}
  BY DEF Init, InProgress, Working
<1>5. Tally
  BY <1>4, FS_EmptySet DEF Tally, Init
<1> QED
  BY <1>1, <1>2, <1>3, <1>5 DEF ParallelInv

\* Pushing a chunk: it takes the keys from min_key on.
LEMMA PushStep ==
  ASSUME ParallelInv, PushChunk
  PROVE  ParallelInv'
<1> DEFINE m == Least(min_key + chunk_size - 1, total_rows)
           c == [min_key |-> min_key, max_key |-> m, status |-> "Pending"]
<1>0. PICK n : n = Len(chunks) + 1
  OBVIOUS
<1>1. /\ TypeOK /\ phase = "new" /\ min_key <= total_rows
      /\ chunks' = Append(chunks, c) /\ min_key' = m + 1 /\ claims' = Append(claims, 0)
      /\ UNCHANGED <<phase, worker, holds, progress, stale, calls, panics>>
  BY DEF ParallelInv, PushChunk
<1>2. min_key \in Nat /\ 1 <= min_key /\ total_rows \in Nat /\ chunk_size \in Nat
      /\ chunk_size >= 1
  BY <1>1, ChunkAssumption DEF TypeOK
<1>3. m \in Nat /\ min_key <= m /\ m <= total_rows /\ m - min_key < chunk_size
  BY <1>1, <1>2 DEF Least
<1>4. c \in Chunk /\ c.min_key = min_key /\ c.max_key = m /\ c.status = "Pending"
  BY <1>2, <1>3 DEF Chunk, Status
<1> HIDE DEF m, c
<1>5. /\ chunks' \in Seq(Chunk) /\ Len(chunks') = n
      /\ \A i \in 1..Len(chunks) : chunks'[i] = chunks[i]
      /\ chunks'[n] = c
  BY <1>0, <1>1, <1>4, ChunkFacts, AppendProperties
<1>6. Len(chunks) \in Nat /\ DOMAIN chunks = 1..Len(chunks)
      /\ DOMAIN chunks' = 1..n
      /\ n \notin DOMAIN chunks
  BY <1>0, <1>1, <1>5, ChunkFacts
<1>7. DOMAIN chunks' = DOMAIN chunks \cup {n}
  BY <1>0, <1>6
<1>8. /\ claims' \in Seq(Nat) /\ Len(claims') = n
      /\ \A i \in DOMAIN chunks : claims'[i] = claims[i]
      /\ claims'[n] = 0
  <2>1. claims \in Seq(Nat) /\ Len(claims) = Len(chunks)
    BY <1>1 DEF TypeOK
  <2>2. /\ Append(claims, 0) \in Seq(Nat) /\ Len(Append(claims, 0)) = Len(claims) + 1
        /\ \A i \in 1..Len(claims) : Append(claims, 0)[i] = claims[i]
        /\ Append(claims, 0)[Len(claims) + 1] = 0
    BY <2>1, AppendProperties
  <2> QED
    BY <1>0, <1>1, <1>6, <2>1, <2>2
<1>9. \A i \in DOMAIN chunks : chunks'[i] = chunks[i]
  BY <1>5, <1>6
<1>10. TypeOK'
  BY <1>1, <1>2, <1>3, <1>5, <1>8 DEF TypeOK, Chunk, Status
<1>11. Cut'
  <2>1. \A i \in DOMAIN chunks, k \in Nat : InChunk(i, k)' <=> InChunk(i, k)
    BY <1>9 DEF InChunk
  <2>2. \A k \in Nat : InChunk(n, k)' <=> min_key <= k /\ k <= m
    BY <1>4, <1>5 DEF InChunk
  <2>3. Cut
    BY DEF ParallelInv
  <2>4. ASSUME NEW i \in DOMAIN chunks'
        PROVE  /\ 1 <= chunks'[i].min_key /\ chunks'[i].min_key <= chunks'[i].max_key
               /\ chunks'[i].max_key < min_key'
               /\ chunks'[i].max_key - chunks'[i].min_key < chunk_size
    <3>1. CASE i = n
      BY <3>1, <1>1, <1>2, <1>3, <1>4, <1>5
    <3>2. CASE i \in DOMAIN chunks
      <4>1. /\ chunks[i].max_key \in Nat /\ chunks[i].min_key \in Nat
            /\ 1 <= chunks[i].min_key /\ chunks[i].min_key <= chunks[i].max_key
            /\ chunks[i].max_key < min_key
            /\ chunks[i].max_key - chunks[i].min_key < chunk_size
        BY <1>1, <2>3, <3>2, ChunkFacts DEF Cut
      <4> QED
        BY <1>1, <1>2, <1>3, <1>9, <3>2, <4>1
    <3> QED
      BY <1>7, <3>1, <3>2
  <2>5. ASSUME NEW k \in Nat, 1 <= k, k < min_key'
        PROVE  \E i \in DOMAIN chunks' : InChunk(i, k)'
    <3>1. CASE k < min_key
      BY <1>7, <2>1, <2>3, <2>5, <3>1 DEF Cut
    <3>2. CASE ~(k < min_key)
      <4>1. InChunk(n, k)'
        BY <1>1, <1>2, <1>3, <2>2, <2>5, <3>2
      <4> QED
        BY <1>7, <4>1
    <3> QED
      BY <3>1, <3>2
  <2>6. ASSUME NEW i \in DOMAIN chunks, NEW k \in Nat, InChunk(i, k)
        PROVE  ~InChunk(n, k)'
    <3>1. chunks[i].max_key \in Nat /\ chunks[i].max_key < min_key /\ k <= chunks[i].max_key
      BY <1>1, <2>3, <2>6, ChunkFacts DEF Cut, InChunk
    <3> QED
      BY <1>2, <2>2, <3>1
  <2>7. \A i, j \in DOMAIN chunks', k \in Nat : InChunk(i, k)' /\ InChunk(j, k)' => i = j
    BY <1>7, <2>1, <2>3, <2>6 DEF Cut
  <2> QED
    BY <1>1, <2>4, <2>5, <2>7 DEF Cut
<1>12. Crew' /\ Holding' /\ Saved'
  <2>1. \A w \in Workers : worker[w] = "off"
    BY <1>1 DEF ParallelInv, Crew
  <2> QED
    BY <1>1, <2>1 DEF ParallelInv, Crew, Holding, Saved
<1>13. ClaimedOnce'
  <2>1. \A w \in Workers : worker'[w] # "working"
    BY <1>1 DEF ParallelInv, Crew
  <2>2. \A i \in DOMAIN chunks : claims[i] = IF chunks[i].status = "Pending" THEN 0 ELSE 1
    BY DEF ParallelInv, ClaimedOnce
  <2>3. \A i \in DOMAIN chunks' : claims'[i] = IF chunks'[i].status = "Pending" THEN 0 ELSE 1
    BY <1>4, <1>5, <1>7, <1>8, <1>9, <2>2
  <2> QED
    BY <2>1, <2>3 DEF ClaimedOnce
<1>14. Tally'
  <2>1. InProgress' = InProgress
    BY <1>4, <1>5, <1>7, <1>9 DEF InProgress
  <2>2. Working' = Working
    BY <1>1 DEF Working
  <2> QED
    BY <1>1, <2>1, <2>2 DEF ParallelInv, Tally
<1> QED
  BY <1>10, <1>11, <1>12, <1>13, <1>14 DEF ParallelInv

\* The end of `new`.
LEMMA BuiltStep ==
  ASSUME ParallelInv, Built
  PROVE  ParallelInv'
<1>1. /\ TypeOK /\ phase = "new" /\ min_key > total_rows /\ phase' = "idle"
      /\ UNCHANGED <<chunks, min_key, worker, holds, claims, progress, stale, calls, panics>>
  BY DEF ParallelInv, Built
<1>2. TypeOK'
  BY <1>1 DEF TypeOK
<1>3. min_key = total_rows + 1
  BY <1>1, ChunkAssumption DEF TypeOK
<1>4. Cut'
  BY <1>1, <1>3, CutKept DEF ParallelInv
<1>5. Crew' /\ Saved'
  <2>1. progress' = <<>>
    BY <1>1 DEF ParallelInv, Crew
  <2> QED
    BY <1>1, <2>1 DEF ParallelInv, Crew, Saved, Pending
<1>6. Holding' /\ ClaimedOnce'
  BY <1>1 DEF ParallelInv, Holding, ClaimedOnce
<1>7. Tally'
  BY <1>1 DEF ParallelInv, Tally, InProgress, Working
<1> QED
  BY <1>2, <1>4, <1>5, <1>6, <1>7 DEF ParallelInv

\* A call of process_chunks starts with no worker at work.
LEMMA SpawnStep ==
  ASSUME ParallelInv, Spawn
  PROVE  ParallelInv'
<1>1. /\ TypeOK /\ phase = "idle" /\ phase' = "joining" /\ calls' = calls + 1
      /\ worker' = [w \in Workers |-> "looking"]
      /\ UNCHANGED <<chunks, min_key, holds, claims, progress, stale, panics>>
  BY DEF ParallelInv, Spawn
<1>2. TypeOK'
  BY <1>1 DEF TypeOK
<1>3. Cut'
  BY <1>1, CutKept DEF ParallelInv
<1>4. Crew' /\ Saved' /\ Holding'
  <2>1. Completed' = Completed
    BY <1>1 DEF Completed
  <2>2. Saved'
    BY <1>1, <1>2, <2>1, SavedKept DEF ParallelInv
  <2> QED
    BY <1>1, <2>2 DEF Crew, Holding
<1>5. ClaimedOnce'
  BY <1>1 DEF ParallelInv, ClaimedOnce
<1>6. Working' = {} /\ Working = {}
  BY <1>1 DEF ParallelInv, Crew, Working
<1>7. Tally'
  BY <1>1, <1>6 DEF ParallelInv, Tally, InProgress
<1> QED
  BY <1>2, <1>3, <1>4, <1>5, <1>7 DEF ParallelInv

\* Workers that ended without a panic have left nothing undone.
LEMMA AllDone ==
  ASSUME ParallelInv, Joined, panics = 0, Workers # {}
  PROVE  Cardinality(Completed) = Len(chunks)
<1>1. TypeOK /\ \A w \in Workers : worker[w] = "ended"
  BY DEF ParallelInv, Crew, Joined
<1>2. Pending = {}
  BY <1>1 DEF ParallelInv, Crew
<1>3. Working = {}
  BY <1>1 DEF Working
<1>4. Cardinality(InProgress) = 0
  BY <1>3, FS_EmptySet DEF ParallelInv, Tally
<1>5. InProgress = {}
  <2>1. IsFiniteSet(InProgress)
    BY <1>1, IndexSets DEF InProgress
  <2> QED
    BY <1>4, <2>1, FS_EmptySet
<1>6. Completed = DOMAIN chunks
  BY <1>1, <1>2, <1>5, ChunkFacts DEF Completed, Pending, InProgress, Status
<1> QED
  BY <1>1, <1>6, ChunkFacts

\* The end of a call whose workers have been joined: what was saved before is
\* still true, and what is saved now is what the chunks say.
LEMMA SaveStep ==
  ASSUME ParallelInv, SaveProgress \/ SaveFails
  PROVE  ParallelInv'
<1>1. /\ TypeOK /\ Joined /\ phase = "joining" /\ phase' = "idle"
      /\ UNCHANGED <<chunks, min_key, worker, holds, claims, calls, panics>>
      /\ \/ progress' = <<Cardinality(Completed), Len(chunks)>> /\ stale' = FALSE
         \/ progress' = progress /\ stale' = TRUE
  BY DEF ParallelInv, SaveProgress, SaveFails, Joined
<1>2. Cardinality(Completed) \in Nat /\ Len(chunks) \in Nat
  BY <1>1, IndexSets, ChunkFacts DEF Completed
<1>3. progress' \in {<<>>} \cup (Nat \X Nat) /\ stale' \in BOOLEAN
  <2>1. stale' \in BOOLEAN
    BY <1>1, Zenon
  <2>2. progress \in {<<>>} \cup (Nat \X Nat)
    BY <1>1 DEF TypeOK
  <2>3. progress' \in {<<>>} \cup (Nat \X Nat)
    <3>1. CASE progress' = progress
      BY <2>2, <3>1
    <3>2. CASE progress' = <<Cardinality(Completed), Len(chunks)>>
      BY <1>2, <3>2
    <3> QED
      BY <1>1, <3>1, <3>2
  <2> QED
    BY <2>1, <2>3
<1>4. TypeOK'
  BY <1>1, <1>3 DEF TypeOK
<1>5. Cut'
  BY <1>1, CutKept DEF ParallelInv, Cut
<1>6. Crew'
  BY <1>1 DEF ParallelInv, Crew, Pending, Joined
<1>7. Completed' = Completed
  BY <1>1 DEF Completed
<1>8. Saved'
  <2>1. CASE progress' = progress /\ stale' = TRUE
    BY <1>1, <1>4, <1>7, <2>1, SavedKept DEF ParallelInv
  <2>2. CASE progress' = <<Cardinality(Completed), Len(chunks)>>
    <3>1. progress'[1] = Cardinality(Completed) /\ progress'[2] = Len(chunks)
      BY <2>2
    <3>2. panics' = 0 /\ Workers # {} => progress'[1] = Len(chunks')
      BY <1>1, <3>1, AllDone
    <3> QED
      BY <1>1, <1>2, <1>7, <3>1, <3>2 DEF Saved
  <2> QED
    BY <1>1, <2>1, <2>2
<1>9. Holding' /\ ClaimedOnce'
  BY <1>1 DEF ParallelInv, Holding, ClaimedOnce
<1>10. Tally'
  BY <1>1 DEF ParallelInv, Tally, InProgress, Working
<1> QED
  BY <1>4, <1>5, <1>6, <1>8, <1>9, <1>10 DEF ParallelInv

(***************************************************************************)
(* The steps of a worker.                                                  *)
(***************************************************************************)
\* Only while the owner joins its workers is one of them looking or working.
LEMMA Joining ==
  ASSUME ParallelInv, NEW w \in Workers, worker[w] \in {"looking", "working"}
  PROVE  phase = "joining"
BY DEF ParallelInv, Crew

\* The first pending chunk becomes this worker's: no other worker holds it,
\* because what others hold is in progress.
LEMMA ClaimStep ==
  ASSUME ParallelInv, NEW w \in Workers, Claim(w)
  PROVE  ParallelInv'
<1>1. /\ TypeOK /\ worker[w] = "looking"
      /\ worker' = [worker EXCEPT ![w] = "working"]
      /\ UNCHANGED <<min_key, phase, progress, stale, calls, panics>>
  BY DEF ParallelInv, Claim
<1>2. PICK i \in Pending : /\ chunks' = [chunks EXCEPT ![i].status = "InProgress"]
                           /\ holds' = [holds EXCEPT ![w] = i]
                           /\ claims' = [claims EXCEPT ![i] = @ + 1]
  BY DEF Claim
<1>3. i \in DOMAIN chunks /\ chunks[i].status = "Pending"
  BY <1>2 DEF Pending
<1>4. i \in Nat
  BY <1>1, <1>3, ChunkFacts
<1>5. phase = "joining"
  BY <1>1, Joining
<1>6. /\ chunks' \in Seq(Chunk)
      /\ Len(chunks') = Len(chunks) /\ DOMAIN chunks' = DOMAIN chunks
      /\ \A j \in DOMAIN chunks : /\ chunks'[j].min_key = chunks[j].min_key
                                  /\ chunks'[j].max_key = chunks[j].max_key
                                  /\ j # i => chunks'[j].status = chunks[j].status
      /\ chunks'[i].status = "InProgress"
  BY <1>1, <1>2, <1>3, Marking DEF Status
<1>7. /\ claims' \in Seq(Nat) /\ Len(claims') = Len(claims)
      /\ \A j \in DOMAIN chunks : claims'[j] = IF j = i THEN claims[i] + 1 ELSE claims[j]
  BY <1>1, <1>2, <1>3, Counting
<1>8. /\ worker'[w] = "working" /\ holds'[w] = i
      /\ \A v \in Workers : v # w => worker'[v] = worker[v] /\ holds'[v] = holds[v]
  BY <1>1, <1>2 DEF TypeOK
<1>9. TypeOK'
  BY <1>1, <1>2, <1>4, <1>6, <1>7 DEF TypeOK, Chunk, Status
<1>10. Cut'
  BY <1>1, <1>5, <1>6, CutKept DEF ParallelInv
<1>11. Pending' \subseteq Pending
  BY <1>6 DEF Pending
<1>12. Crew'
  BY <1>1, <1>5, <1>8, <1>11 DEF ParallelInv, Crew
<1>13. Holding'
  BY <1>3, <1>6, <1>8 DEF ParallelInv, Holding
<1>14. ClaimedOnce'
  <2>1. \A v \in Workers : v # w /\ worker[v] = "working" => holds[v] # i
    BY <1>3 DEF ParallelInv, Holding
  <2>2. \A v, u \in Workers :
          worker'[v] = "working" /\ worker'[u] = "working" /\ holds'[v] = holds'[u]
            => v = u
    BY <1>8, <2>1 DEF ParallelInv, ClaimedOnce
  <2>3. claims[i] = 0
    BY <1>3 DEF ParallelInv, ClaimedOnce
  <2>4. \A j \in DOMAIN chunks' :
          claims'[j] = IF chunks'[j].status = "Pending" THEN 0 ELSE 1
    BY <1>6, <1>7, <2>3 DEF ParallelInv, ClaimedOnce
  <2> QED
    BY <2>2, <2>4 DEF ClaimedOnce
<1>15. Tally'
  <2>1. InProgress' = InProgress \cup {i} /\ i \notin InProgress
    BY <1>3, <1>6 DEF InProgress
  <2>2. Working' = Working \cup {w} /\ w \notin Working
    BY <1>1, <1>8 DEF Working
  <2>3. IsFiniteSet(InProgress) /\ Cardinality(InProgress) \in Nat
    BY <1>1, IndexSets DEF InProgress
  <2>4. IsFiniteSet(Working) /\ Cardinality(Working) \in Nat
    BY WorkerSets DEF Working
  <2>5. Cardinality(InProgress') = Cardinality(InProgress) + 1
    BY <2>1, <2>3, FS_AddElement
  <2>6. Cardinality(Working') = Cardinality(Working) + 1
    BY <2>2, <2>4, FS_AddElement
  <2>7. panics \in Nat /\ panics' = panics
    BY <1>1 DEF TypeOK
  <2> QED
    BY <2>3, <2>4, <2>5, <2>6, <2>7 DEF ParallelInv, Tally
<1>16. Saved'
  <2>1. Completed \subseteq Completed'
    BY <1>3, <1>6 DEF Completed
  <2> QED
    BY <1>1, <1>5, <1>6, <1>9, <2>1, SavedKept DEF ParallelInv
<1> QED
  BY <1>9, <1>10, <1>12, <1>13, <1>14, <1>15, <1>16 DEF ParallelInv

\* The worker's loop ends when no chunk is pending.
LEMMA LeaveStep ==
  ASSUME ParallelInv, NEW w \in Workers, Leave(w)
  PROVE  ParallelInv'
<1>1. /\ TypeOK /\ worker[w] = "looking" /\ Pending = {}
      /\ worker' = [worker EXCEPT ![w] = "ended"]
      /\ UNCHANGED <<chunks, min_key, phase, holds, claims, progress, stale, calls, panics>>
  BY DEF ParallelInv, Leave
<1>2. phase = "joining"
  BY <1>1, Joining
<1>3. /\ worker'[w] = "ended"
      /\ \A v \in Workers : v # w => worker'[v] = worker[v]
  BY <1>1 DEF TypeOK
<1>4. TypeOK'
  BY <1>1 DEF TypeOK
<1>5. Cut'
  BY <1>1, <1>2, CutKept DEF ParallelInv
<1>6. Pending' = {}
  BY <1>1 DEF Pending
<1>7. Crew'
  BY <1>1, <1>2, <1>3, <1>6 DEF ParallelInv, Crew
<1>8. Holding' /\ ClaimedOnce' /\ Saved'
  <2>1. Completed' = Completed
    BY <1>1 DEF Completed
  <2>2. Saved'
    BY <1>1, <1>2, <1>4, <2>1, SavedKept DEF ParallelInv
  <2> QED
    BY <1>1, <1>3, <2>2 DEF ParallelInv, Holding, ClaimedOnce
<1>9. Working' = Working /\ InProgress' = InProgress
  BY <1>1, <1>3 DEF Working, InProgress
<1>10. Tally'
  BY <1>1, <1>9 DEF ParallelInv, Tally
<1> QED
  BY <1>4, <1>5, <1>7, <1>8, <1>10 DEF ParallelInv

\* The chunk a worker completes is the one it holds, and nobody else's.
LEMMA CompleteStep ==
  ASSUME ParallelInv, NEW w \in Workers, Complete(w)
  PROVE  ParallelInv'
<1>1. /\ TypeOK /\ worker[w] = "working"
      /\ worker' = [worker EXCEPT ![w] = "looking"]
      /\ UNCHANGED <<min_key, phase, holds, claims, progress, stale, calls, panics>>
  BY DEF ParallelInv, Complete
<1>2. PICK i : i = holds[w]
  OBVIOUS
<1>3. chunks' = [chunks EXCEPT ![i].status = "Completed"]
  BY <1>2 DEF Complete
<1>4. i \in DOMAIN chunks /\ chunks[i].status = "InProgress"
  BY <1>1, <1>2 DEF ParallelInv, Holding
<1>5. phase = "joining"
  BY <1>1, Joining
<1>6. /\ chunks' \in Seq(Chunk)
      /\ Len(chunks') = Len(chunks) /\ DOMAIN chunks' = DOMAIN chunks
      /\ \A j \in DOMAIN chunks : /\ chunks'[j].min_key = chunks[j].min_key
                                  /\ chunks'[j].max_key = chunks[j].max_key
                                  /\ j # i => chunks'[j].status = chunks[j].status
      /\ chunks'[i].status = "Completed"
  BY <1>1, <1>3, <1>4, Marking DEF Status
<1>7. /\ worker'[w] = "looking"
      /\ \A v \in Workers : v # w => worker'[v] = worker[v]
  BY <1>1 DEF TypeOK
<1>8. TypeOK'
  BY <1>1, <1>6 DEF TypeOK, Chunk, Status
<1>9. Cut'
  BY <1>1, <1>5, <1>6, CutKept DEF ParallelInv
<1>10. Pending' \subseteq Pending
  BY <1>6 DEF Pending
<1>11. Crew'
  BY <1>1, <1>5, <1>7, <1>10 DEF ParallelInv, Crew
<1>12. \A v \in Workers : v # w /\ worker[v] = "working" => holds[v] # i
  BY <1>1, <1>2 DEF ParallelInv, ClaimedOnce
<1>13. Holding'
  BY <1>1, <1>6, <1>7, <1>12 DEF ParallelInv, Holding
<1>14. ClaimedOnce'
  BY <1>1, <1>4, <1>6, <1>7 DEF ParallelInv, ClaimedOnce
<1>15. Tally'
  <2>1. InProgress' = InProgress \ {i} /\ i \in InProgress
    BY <1>4, <1>6 DEF InProgress
  <2>2. Working' = Working \ {w} /\ w \in Working
    BY <1>1, <1>7 DEF Working
  <2>3. IsFiniteSet(InProgress) /\ Cardinality(InProgress) \in Nat
    BY <1>1, IndexSets DEF InProgress
  <2>4. IsFiniteSet(Working) /\ Cardinality(Working) \in Nat
    BY WorkerSets DEF Working
  <2>5. Cardinality(InProgress') = Cardinality(InProgress) - 1
    BY <2>1, <2>3, FS_RemoveElement
  <2>6. Cardinality(Working') = Cardinality(Working) - 1
    BY <2>2, <2>4, FS_RemoveElement
  <2>7. panics \in Nat /\ panics' = panics
    BY <1>1 DEF TypeOK
  <2> QED
    BY <2>3, <2>4, <2>5, <2>6, <2>7 DEF ParallelInv, Tally
<1>16. Saved'
  <2>1. Completed \subseteq Completed'
    BY <1>6 DEF Completed
  <2> QED
    BY <1>1, <1>5, <1>6, <1>8, <2>1, SavedKept DEF ParallelInv
<1> QED
  BY <1>8, <1>9, <1>11, <1>13, <1>14, <1>15, <1>16 DEF ParallelInv

\* A panic leaves a chunk in progress and takes its worker away.
LEMMA PanicStep ==
  ASSUME ParallelInv, NEW w \in Workers, Panic(w)
  PROVE  ParallelInv'
<1>1. /\ TypeOK /\ worker[w] = "working" /\ panics' = panics + 1
      /\ worker' = [worker EXCEPT ![w] = "panicked"]
      /\ UNCHANGED <<chunks, min_key, phase, holds, claims, progress, stale, calls>>
  BY DEF ParallelInv, Panic
<1>2. phase = "joining"
  BY <1>1, Joining
<1>3. /\ worker'[w] = "panicked"
      /\ \A v \in Workers : v # w => worker'[v] = worker[v]
  BY <1>1 DEF TypeOK
<1>4. TypeOK'
  BY <1>1 DEF TypeOK
<1>5. Cut'
  BY <1>1, <1>2, CutKept DEF ParallelInv
<1>6. Pending' = Pending /\ panics \in Nat
  BY <1>1 DEF Pending, TypeOK
<1>7. Crew'
  BY <1>1, <1>2, <1>3, <1>6 DEF ParallelInv, Crew
<1>8. Holding' /\ ClaimedOnce' /\ Saved'
  <2>1. Completed' = Completed
    BY <1>1 DEF Completed
  <2>2. panics' # 0
    BY <1>1, <1>6
  <2>3. Saved'
    BY <1>1, <1>2, <1>4, <2>1, <2>2, SavedKept DEF ParallelInv
  <2> QED
    BY <1>1, <1>3, <2>3 DEF ParallelInv, Holding, ClaimedOnce
<1>9. Tally'
  <2>1. InProgress' = InProgress
    BY <1>1 DEF InProgress
  <2>2. Working' = Working \ {w} /\ w \in Working
    BY <1>1, <1>3 DEF Working
  <2>3. IsFiniteSet(Working) /\ Cardinality(Working) \in Nat
    BY WorkerSets DEF Working
  <2>4. Cardinality(Working') = Cardinality(Working) - 1
    BY <2>2, <2>3, FS_RemoveElement
  <2> QED
    BY <1>1, <1>6, <2>1, <2>3, <2>4 DEF ParallelInv, Tally
<1> QED
  BY <1>4, <1>5, <1>7, <1>8, <1>9 DEF ParallelInv

\* Every step keeps the invariant.
LEMMA ParallelNext == ParallelInv /\ [Next]_vars => ParallelInv'
<1> SUFFICES ASSUME ParallelInv, [Next]_vars PROVE ParallelInv'
  OBVIOUS
<1>1. CASE Owner
  BY <1>1, PushStep, BuiltStep, SaveStep DEF Owner
<1>2. CASE Spawn
  BY <1>2, SpawnStep
<1>3. ASSUME NEW w \in Workers, WorkerStep(w) \/ Panic(w) PROVE ParallelInv'
  BY <1>3, ClaimStep, LeaveStep, CompleteStep, PanicStep DEF WorkerStep
<1>4. CASE UNCHANGED vars
  <2>1. UNCHANGED <<chunks, min_key, phase, worker, holds, claims, progress, stale, calls, panics>>
    BY <1>4 DEF vars
  <2>2. TypeOK' /\ Holding' /\ ClaimedOnce'
    BY <2>1 DEF ParallelInv, TypeOK, Holding, ClaimedOnce
  <2>3. Cut'
    BY <2>1, CutKept DEF ParallelInv
  <2>4. Crew' /\ Saved' /\ Tally'
    BY <2>1 DEF ParallelInv, Crew, Saved, Tally, Pending, Completed, InProgress, Working
  <2> QED
    BY <2>2, <2>3, <2>4 DEF ParallelInv
<1> QED
  BY <1>1, <1>2, <1>3, <1>4 DEF Next

\* The invariant holds in every reachable state.
LEMMA ParallelInvariant == Spec => []ParallelInv
BY ParallelInit, ParallelNext, PTL DEF Spec

(***************************************************************************)
(* What follows.                                                           *)
(***************************************************************************)
\* The vector, the workers and the saved progress keep their types, over every
\* call of process_chunks.
THEOREM ParallelTyping == Spec => []TypeOK
<1>1. ParallelInv => TypeOK
  BY DEF ParallelInv
<1> QED
  BY <1>1, ParallelInvariant, PTL

\* process_chunks hands no chunk out twice, over all its calls, workers and
\* panics: the search for a pending chunk and its marking are one critical
\* section.
THEOREM ClaimsAreUnique == Spec => []ClaimedOnce
<1>1. ParallelInv => ClaimedOnce
  BY DEF ParallelInv
<1> QED
  BY <1>1, ParallelInvariant, PTL

\* The loop of `new` partitions the keys of every table into chunks of at most
\* chunk_size keys: no key is skipped, none is copied twice, and the last chunk
\* stops at the table's end.
THEOREM ChunksCoverTable == Spec => []ChunksPartition
<1>1. ParallelInv => ChunksPartition
  <2> SUFFICES ASSUME ParallelInv PROVE ChunksPartition
    OBVIOUS
  <2>1. TypeOK /\ Cut
    BY DEF ParallelInv
  <2>2. ASSUME NEW k \in 1..total_rows
        PROVE  Cardinality({i \in DOMAIN chunks :
                              chunks[i].min_key <= k /\ k <= chunks[i].max_key})
                 = IF k < min_key THEN 1 ELSE 0
    <3> DEFINE S == {i \in DOMAIN chunks : InChunk(i, k)}
    <3>1. k \in Nat /\ 1 <= k /\ min_key \in Nat
      BY <2>1, ChunkAssumption DEF TypeOK
    <3>2. CASE k < min_key
      <4>1. PICK i \in DOMAIN chunks : InChunk(i, k)
        BY <2>1, <3>1, <3>2 DEF Cut
      <4>2. S = {i}
        BY <2>1, <3>1, <4>1 DEF Cut
      <4>3. Cardinality(S) = 1
        BY <4>2, FS_Singleton
      <4> QED
        BY <3>2, <4>3 DEF InChunk
    <3>3. CASE ~(k < min_key)
      <4>1. \A i \in DOMAIN chunks : ~InChunk(i, k)
        BY <2>1, <3>1, <3>3, ChunkFacts DEF Cut, InChunk
      <4>2. S = {}
        BY <4>1
      <4>3. Cardinality(S) = 0
        BY <4>2, FS_EmptySet
      <4> QED
        BY <3>3, <4>3 DEF InChunk
    <3> QED
      BY <3>2, <3>3
  <2>3. \A i \in DOMAIN chunks : chunks[i].max_key - chunks[i].min_key \in 0..(chunk_size - 1)
    BY <2>1, ChunkFacts, ChunkAssumption DEF Cut
  <2> QED
    BY <2>1, <2>2, <2>3 DEF ChunksPartition, Cut
<1> QED
  BY <1>1, ParallelInvariant, PTL

\* The progress that process_chunks stores never claims more than process_fn
\* finished, whatever panics and whichever saves fail; it is complete unless
\* something panicked, and exact after a call that saved.
THEOREM ProgressIsHonest == Spec => []ProgressHonest
<1>1. ParallelInv => ProgressHonest
  <2> SUFFICES ASSUME ParallelInv PROVE ProgressHonest
    OBVIOUS
  <2>1. TypeOK /\ Saved
    BY DEF ParallelInv
  <2>2. phase = "idle" => Cardinality(InProgress) = panics
    <3> SUFFICES ASSUME phase = "idle" PROVE Cardinality(InProgress) = panics
      OBVIOUS
    <3>1. Working = {}
      BY DEF ParallelInv, Crew, Working
    <3>2. Cardinality(Working) = 0
      BY <3>1, FS_EmptySet
    <3>3. panics \in Nat
      BY <2>1 DEF TypeOK
    <3> QED
      BY <3>2, <3>3 DEF ParallelInv, Tally
  <2> QED
    BY <2>1, <2>2 DEF ProgressHonest, Saved, Completed, InProgress
<1> QED
  BY <1>1, ParallelInvariant, PTL
=============================================================================
