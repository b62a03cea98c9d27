----------------------------- MODULE IngestStage -----------------------------
(***************************************************************************)
(* The two in-memory filters an ingestion task owns, composed as the loop  *)
(* of src/src/main.rs composes them: an event passes the duplicate filter  *)
(* and then enters the transaction buffer.  Any source may interleave its  *)
(* transactions and repeat ids, and the owner of the buffer may prune it   *)
(* between two events.                                                     *)
(***************************************************************************)
EXTENDS DeduplicationFilter, TransactionBuffer, SequencesExt

CONSTANTS
  Ids,         \* event ids
  MaxEvents,   \* bound: events accepted
  MaxSizes     \* the thresholds prune may be called with

ASSUME StageAssumption == MaxEvents \in Nat /\ MaxSizes \subseteq Nat

VARIABLES
  filter,     \* the DeduplicationFilter
  buffer,     \* the TransactionBuffer
  log,        \* the events the filter accepted, in order
  answer,     \* its last answer
  out,        \* what the last call of process returned
  pruned      \* transactions that prune took rows of, and that are still open

vars == <<filter, buffer, log, answer, out, pruned>>

Init ==
  /\ filter = NewFilter
  /\ buffer = NewBuffer
  /\ log = <<>>
  /\ answer = FALSE
  /\ out = <<>>
  /\ pruned = {}

\* check_and_track(id) says duplicate: the event is skipped.
Skip(id) ==
  /\ IsDuplicate(filter, id)
  /\ answer' = TRUE
  /\ filter' = AfterCheck(filter, id)
  /\ UNCHANGED <<buffer, log, out, pruned>>

\* check_and_track(id) says new, and the event goes to process.
Process(id, tx, op) ==
  /\ ~IsDuplicate(filter, id) /\ Len(log) < MaxEvents
  /\ answer' = FALSE
  /\ filter' = AfterCheck(filter, id)
  /\ buffer' = AfterProcess(buffer, tx, op, Len(log) + 1)
  /\ out' = ProcessOutput(buffer, tx, op, Len(log) + 1)
  /\ log' = Append(log, [id |-> id, tx |-> tx, op |-> op])
  /\ pruned' = IF op \in {"Commit", "Rollback"} THEN pruned \ {tx} ELSE pruned

\* prune(max_size)
Prune(max_size) ==
  /\ buffer' = AfterPrune(buffer, max_size)
  /\ pruned' = pruned \cup (OpenTxs(buffer) \ OpenTxs(buffer'))
  /\ UNCHANGED <<filter, log, answer, out>>

Next ==
  \/ \E id \in Ids : Skip(id)
  \/ \E id \in Ids, tx \in Txs \cup {NoTx}, op \in {"Create", "Commit", "Rollback"} :
       Process(id, tx, op)
  \/ \E max_size \in MaxSizes : Prune(max_size)

Spec == Init /\ [][Next]_vars

-----------------------------------------------------------------------------
Accepted == [i \in DOMAIN log |-> log[i].id]

\* The filter's queue and set agree, although they are updated separately: the
\* queue is the tail of what was accepted, it holds each id once, and the set
\* is what it holds.  The memory used is bounded by the capacity.
QueueMatchesSet ==
  LET n == Len(filter.order)
      k == Len(log)
  IN  /\ n = IF k < DedupCapacity THEN k ELSE DedupCapacity
      /\ \A i \in 1..n : filter.order[i] = log[k - n + i].id
      /\ \A i, j \in 1..n : filter.order[i] = filter.order[j] => i = j
      /\ filter.processed_ids = {filter.order[i] : i \in 1..n}

\* The filter answers as a sliding window over the accepted ids does.
Window == INSTANCE SlidingWindow WITH accepted <- Accepted
RefinesWindow == Window!Spec

IsEndOf(e, x) == e.tx = x /\ e.op \in {"Commit", "Rollback"}

\* The rows of transaction x in the log s since its last end marker.
OpenRows(s, x) ==
  {i \in DOMAIN s : /\ s[i].tx = x /\ ~IsEndOf(s[i], x)
                    /\ \A j \in i..Len(s) : ~IsEndOf(s[j], x)}

CompleteFlush(x) ==
  /\ ToSet(out') = OpenRows(log, x)
  /\ \A i, j \in DOMAIN out' : i < j => out'[i] < out'[j]

\* Whatever the interleaving of transactions, a commit flushes the accepted
\* rows of its own transaction, all of them and in log order, unless prune
\* took some; a rollback and a row inside a transaction flush nothing.
FlushIsTransaction ==
  [][log' # log =>
       LET e == Last(log')
       IN  CASE e.tx = NoTx -> out' = <<Len(log')>>
             [] e.tx # NoTx /\ e.op = "Commit" ->
                  e.tx \notin pruned => CompleteFlush(e.tx)
             [] OTHER -> out' = <<>>]_vars

=============================================================================
