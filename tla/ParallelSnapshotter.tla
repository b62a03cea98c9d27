------------------------- MODULE ParallelSnapshotter -------------------------
(***************************************************************************)
(* src/src/snapshot/parallel.rs: a table is cut into chunks of keys, and   *)
(* workers claim chunks under a mutex, process them outside it and mark    *)
(* them completed; process_chunks joins the workers and saves how many     *)
(* chunks are completed.  A worker whose process_fn panics is joined like  *)
(* the others (the JoinError is ignored) and leaves its chunk in progress. *)
(* The error of a save that fails is ignored too: what is stored stays.    *)
(* process_chunks may be called again on the same snapshotter.             *)
(***************************************************************************)
EXTENDS Naturals, Sequences, FiniteSets

CONSTANTS
  Workers,     \* 0..worker_count-1
  total_rows,
  chunk_size,
  MaxCalls,    \* bound: calls of process_chunks
  MaxPanics    \* bound: panics of process_fn

\* With chunk_size = 0 the loop of `new` does not end.
ASSUME ChunkAssumption ==
  /\ total_rows \in Nat /\ chunk_size \in Nat \ {0}
  /\ MaxCalls \in Nat /\ MaxPanics \in Nat

\* worker_count is a usize.
ASSUME WorkersAssumption == IsFiniteSet(Workers)

VARIABLES
  chunks,      \* the vector, a sequence; chunk_id is the index less one
  min_key,     \* local to `new`: first key not in a chunk yet
  phase,       \* "new" | "idle" | "joining" : the owner of the snapshotter
  worker,      \* each worker: "off" | "looking" | "working" | "ended" | "panicked"
  holds,       \* index of the chunk a working worker is on (chunk_to_process)
  claims,      \* per chunk, how often process_fn was started on it
  progress,    \* the saved <<completed, total>>, or <<>> when never saved
  stale,       \* history: the last save failed
  calls,
  panics

vars == <<chunks, min_key, phase, worker, holds, claims, progress, stale, calls, panics>>

Least(a, b) == IF a < b THEN a ELSE b

Init ==
  /\ chunks = <<>>
  /\ min_key = 1
  /\ phase = "new"
  /\ worker = [w \in Workers |-> "off"]
  /\ holds = [w \in Workers |-> 0]
  /\ claims = <<>>
  /\ progress = <<>>
  /\ stale = FALSE
  /\ calls = 0
  /\ panics = 0

(***************************************************************************)
(* ParallelSnapshotter::new                                                *)
(***************************************************************************)
\* Mutant: the next chunk starts at the last key of the previous one.
PushOverlapping ==
  /\ phase = "new" /\ min_key <= total_rows
  /\ LET max_key == Least(min_key + chunk_size - 1, total_rows)
     IN  /\ chunks' = Append(chunks, [min_key |-> min_key, max_key |-> max_key,
                                      status |-> "Pending"])
         /\ min_key' = max_key
  /\ claims' = Append(claims, 0)
  /\ UNCHANGED <<phase, worker, holds, progress, stale, calls, panics>>

PushChunk ==
  /\ phase = "new" /\ min_key <= total_rows
  /\ LET max_key == Least(min_key + chunk_size - 1, total_rows)
     IN  /\ chunks' = Append(chunks, [min_key |-> min_key, max_key |-> max_key,
                                      status |-> "Pending"])
         /\ min_key' = max_key + 1
  /\ claims' = Append(claims, 0)
  /\ UNCHANGED <<phase, worker, holds, progress, stale, calls, panics>>

Built ==
  /\ phase = "new" /\ min_key > total_rows
  /\ phase' = "idle"
  /\ UNCHANGED <<chunks, min_key, worker, holds, claims, progress, stale, calls, panics>>

(***************************************************************************)
(* process_chunks: the owner                                               *)
(***************************************************************************)
Spawn ==
  /\ phase = "idle" /\ calls < MaxCalls
  /\ phase' = "joining"
  /\ worker' = [w \in Workers |-> "looking"]
  /\ calls' = calls + 1
  /\ UNCHANGED <<chunks, min_key, holds, claims, progress, stale, panics>>

\* Mutant: chunks in progress are counted as completed.
NotPending == {i \in DOMAIN chunks : chunks[i].status # "Pending"}

Completed == {i \in DOMAIN chunks : chunks[i].status = "Completed"}

\* All handles have been awaited: save "completed/total".
Joined == phase = "joining" /\ \A w \in Workers : worker[w] \in {"ended", "panicked"}

SaveProgress ==
  /\ Joined
  /\ progress' = <<Cardinality(Completed), Len(chunks)>>
  /\ stale' = FALSE
  /\ phase' = "idle"
  /\ UNCHANGED <<chunks, min_key, worker, holds, claims, calls, panics>>

\* save_offset fails, and process_chunks returns as if it had not.
SaveFails ==
  /\ Joined
  /\ stale' = TRUE
  /\ phase' = "idle"
  /\ UNCHANGED <<chunks, min_key, worker, holds, claims, progress, calls, panics>>

(***************************************************************************)
(* process_chunks: a worker                                                *)
(***************************************************************************)
Pending == {i \in DOMAIN chunks : chunks[i].status = "Pending"}

\* Mutant: the claimed chunk is not marked.
ClaimUnmarked(w) ==
  /\ worker[w] = "looking"
  /\ \E i \in Pending :
       /\ \A j \in Pending : i <= j
       /\ holds' = [holds EXCEPT ![w] = i]
       /\ claims' = [claims EXCEPT ![i] = @ + 1]
  /\ worker' = [worker EXCEPT ![w] = "working"]
  /\ UNCHANGED <<chunks, min_key, phase, progress, stale, calls, panics>>

\* Under the mutex: the first pending chunk becomes ours.
Claim(w) ==
  /\ worker[w] = "looking"
  /\ \E i \in Pending :
       /\ \A j \in Pending : i <= j
       /\ chunks' = [chunks EXCEPT ![i].status = "InProgress"]
       /\ holds' = [holds EXCEPT ![w] = i]
       /\ claims' = [claims EXCEPT ![i] = @ + 1]
  /\ worker' = [worker EXCEPT ![w] = "working"]
  /\ UNCHANGED <<min_key, phase, progress, stale, calls, panics>>

\* Mutant: a worker stays until every chunk is completed.
LeaveWhenAllDone(w) ==
  /\ worker[w] = "looking" /\ Completed = DOMAIN chunks
  /\ worker' = [worker EXCEPT ![w] = "ended"]
  /\ UNCHANGED <<chunks, min_key, phase, holds, claims, progress, stale, calls, panics>>

\* No chunk is pending: the worker's loop ends.
Leave(w) ==
  /\ worker[w] = "looking" /\ Pending = {}
  /\ worker' = [worker EXCEPT ![w] = "ended"]
  /\ UNCHANGED <<chunks, min_key, phase, holds, claims, progress, stale, calls, panics>>

\* process_fn returned: under the mutex again, mark the chunk completed.
Complete(w) ==
  /\ worker[w] = "working"
  /\ chunks' = [chunks EXCEPT ![holds[w]].status = "Completed"]
  /\ worker' = [worker EXCEPT ![w] = "looking"]
  /\ UNCHANGED <<min_key, phase, holds, claims, progress, stale, calls, panics>>

\* process_fn panicked: the task ends.
Panic(w) ==
  /\ worker[w] = "working" /\ panics < MaxPanics
  /\ worker' = [worker EXCEPT ![w] = "panicked"]
  /\ panics' = panics + 1
  /\ UNCHANGED <<chunks, min_key, phase, holds, claims, progress, stale, calls>>

Owner == PushChunk \/ Built \/ SaveProgress \/ SaveFails
WorkerStep(w) == Claim(w) \/ Leave(w) \/ Complete(w)

Next == Owner \/ Spawn \/ \E w \in Workers : WorkerStep(w) \/ Panic(w)

Spec == Init /\ [][Next]_vars

\* Every task is polled, and process_fn returns or panics.
FairSpec == /\ Spec /\ WF_vars(Owner)
            /\ \A w \in Workers : WF_vars(WorkerStep(w))

-----------------------------------------------------------------------------
\* Types.
TypeOK ==
  /\ chunks \in Seq([min_key : Nat, max_key : Nat,
                     status : {"Pending", "InProgress", "Completed"}])
  /\ min_key \in 1..(total_rows + 1)
  /\ phase \in {"new", "idle", "joining"}
  /\ worker \in [Workers -> {"off", "looking", "working", "ended", "panicked"}]
  /\ holds \in [Workers -> Nat]
  /\ claims \in Seq(Nat) /\ Len(claims) = Len(chunks)
  /\ progress \in {<<>>} \cup (Nat \X Nat)
  /\ stale \in BOOLEAN
  /\ calls \in Nat
  /\ panics \in Nat

\* The chunks cut from the table so far hold every key below min_key exactly
\* once, none is empty or longer than chunk_size, and `new` returns when every
\* row of the table is in one.
ChunksPartition ==
  /\ \A k \in 1..total_rows :
       Cardinality({i \in DOMAIN chunks :
                      chunks[i].min_key <= k /\ k <= chunks[i].max_key})
         = IF k < min_key THEN 1 ELSE 0
  /\ \A i \in DOMAIN chunks :
       chunks[i].max_key - chunks[i].min_key \in 0..(chunk_size - 1)
  /\ phase # "new" => min_key = total_rows + 1

\* No chunk is handed out twice, over all calls: two workers never process the
\* same chunk, and a chunk once claimed is never pending again.
ClaimedOnce ==
  /\ \A v, w \in Workers :
       worker[v] = "working" /\ worker[w] = "working" /\ holds[v] = holds[w]
         => v = w
  /\ \A i \in DOMAIN chunks :
       claims[i] = IF chunks[i].status = "Pending" THEN 0 ELSE 1

\* The saved progress never claims a chunk that process_fn did not finish, also
\* when later saves fail and while a later call runs; it is complete unless
\* process_fn panicked (or there was no worker), and exact after a call whose
\* save succeeded.  Chunks that are in progress between calls were abandoned by
\* panics, one each.
ProgressHonest ==
  LET done == Cardinality({i \in DOMAIN chunks : chunks[i].status = "Completed"})
  IN  /\ progress # <<>> =>
           /\ progress[2] = Len(chunks) /\ progress[1] <= done
           /\ panics = 0 /\ Workers # {} => progress[1] = Len(chunks)
           /\ phase = "idle" /\ ~stale => progress[1] = done
      /\ phase = "idle" =>
           Cardinality({i \in DOMAIN chunks : chunks[i].status = "InProgress"}) = panics

\* process_chunks returns, whatever panics: every worker runs out of pending
\* chunks or dies, and the progress is saved or the save fails.
ProcessReturns == phase = "joining" ~> phase = "idle"
=============================================================================
