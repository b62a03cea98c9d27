------------------------------ MODULE Pipeline ------------------------------
(***************************************************************************)
(* The engine of src/src/main.rs: one ingestion task per source, each      *)
(* reading its source's log from the checkpoint, filtering, buffering by   *)
(* transaction, transforming, sending to Kafka and checkpointing; the      *)
(* process may crash between any two awaits and is started again.          *)
(*                                                                         *)
(* A task's source is a finite log; the offset of an event is its position *)
(* (both sources number their events 1, 2, ... and parse the checkpoint    *)
(* back to that number).  The state after a restart is the state store and *)
(* nothing else: dedup filter, buffer, cursor and leadership are volatile. *)
(***************************************************************************)
EXTENDS TransactionBuffer, DeduplicationFilter, SequencesExt

CONSTANTS
  Tasks,         \* the ingestion tasks main spawns
  Guarded,       \* those with schema validation and the watermark filter
  Ids,           \* event ids
  Log,           \* Log[t][p] is the event of source t at offset p
  MaxCrashes,    \* bound: crashes and restarts of the process
  MaxSaveErrors, \* bound: failed save_offset calls, per task
  MaxRefusals,   \* bound: failed kafka.send calls, per task
  MaxRewinds     \* bound: checkpoints that could not be read, per task

\* What the engine's control depends on in a ChangeEvent: watermark is "the
\* table is caminus_watermarks", conforms is the verdict of validate_event,
\* fits is whether the WASM transform succeeds on it.
ChangeEvent == [id : Ids, op : Operation, tx : Txs \cup {NoTx},
                watermark : BOOLEAN, conforms : BOOLEAN, fits : BOOLEAN]

Pos(t) == 1..Len(Log[t])

\* Position p holds the marker that ends a transaction.
IsEnd(t, p) == /\ Log[t][p].tx # NoTx
               /\ Log[t][p].op \in {"Commit", "Rollback"}

\* Position p is a row for the consumers, not a marker or a watermark row.
Payload(t, p) == ~IsEnd(t, p) /\ ~(t \in Guarded /\ Log[t][p].watermark)

EndsTx(t, q, p) == IsEnd(t, q) /\ Log[t][q].tx = Log[t][p].tx

\* No end of p's transaction has been seen when the log is read up to c.
Pending(t, p, c) ==
  Log[t][p].tx # NoTx /\ \A q \in (p + 1)..c : ~EndsTx(t, q, p)

\* p is outside any transaction, or its transaction ends with a commit.
Committed(t, p) ==
  /\ Payload(t, p)
  /\ \/ Log[t][p].tx = NoTx
     \/ \E q \in Pos(t) : /\ q > p
                          /\ EndsTx(t, q, p)
                          /\ Log[t][q].op = "Commit"
                          /\ Pending(t, p, q - 1)

\* The rows the consumers of each source are owed.
CommittedRows == [t \in Tasks |-> {p \in Pos(t) : Committed(t, p)}]

ASSUME TasksAssumption == Guarded \subseteq Tasks

ASSUME LogAssumption == Log \in [Tasks -> Seq(ChangeEvent)]

\* End markers carry ids of their own, always pass validate_event (which
\* looks at Create and Update only) and are not rows of the watermark table.
ASSUME MarkerAssumption ==
  \A t \in Tasks : \A p \in Pos(t) : IsEnd(t, p) =>
    /\ \A q \in Pos(t) \ {p} : Log[t][q].id # Log[t][p].id
    /\ Log[t][p].conforms
    /\ ~Log[t][p].watermark

\* The source delivers transactions in the order they end, as Postgres'
\* logical decoding does and as both sources of the repository do: no row is
\* released while an earlier row is still waiting for its transaction's end.
ASSUME CommitOrderAssumption ==
  \A t \in Tasks : \A p, q, c \in Pos(t) :
    /\ p < q /\ q <= c
    /\ Payload(t, p) /\ Payload(t, q)
    /\ Pending(t, p, c)
    => Pending(t, q, c)

ASSUME BoundsAssumption ==
  {MaxCrashes, MaxSaveErrors, MaxRefusals, MaxRewinds} \subseteq Nat

VARIABLES
  leader,      \* coordinator.is_leader()
  offsets,     \* the state store's checkpoint per task, 0 when there is none
  pc,          \* where each task is suspended
  cursor,      \* offset of the last event each stream yielded
  dedup,       \* each task's DeduplicationFilter
  buffer,      \* each task's TransactionBuffer
  flush,       \* the rest of `mutations` in each task's for loop
  kafka,       \* what was sent, with the process incarnation that sent it
  dlq,         \* positions routed to the dead letter queue
  discarded,   \* positions dropped because the node was not the leader
  refused,     \* positions whose send returned an error
  suppressed,  \* positions dropped as duplicates
  crashes,     \* incarnation of the process
  saveErrs,    \* failed saves so far
  rewinds      \* unreadable checkpoints so far

volatile == <<leader, pc, cursor, dedup, buffer, flush>>
fates    == <<dlq, discarded, refused, suppressed>>
counters == <<crashes, saveErrs, rewinds>>
vars     == <<volatile, offsets, kafka, fates, counters>>

Init ==
  /\ leader = FALSE
  /\ offsets = [t \in Tasks |-> 0]
  /\ pc = [t \in Tasks |-> "init"]
  /\ cursor = [t \in Tasks |-> 0]
  /\ dedup = [t \in Tasks |-> NewFilter]
  /\ buffer = [t \in Tasks |-> NewBuffer]
  /\ flush = [t \in Tasks |-> <<>>]
  /\ kafka = [t \in Tasks |-> <<>>]
  /\ dlq = [t \in Tasks |-> {}]
  /\ discarded = [t \in Tasks |-> {}]
  /\ refused = [t \in Tasks |-> {}]
  /\ suppressed = [t \in Tasks |-> {}]
  /\ crashes = 0
  /\ saveErrs = [t \in Tasks |-> 0]
  /\ rewinds = [t \in Tasks |-> 0]

Goto(t, label) == pc' = [pc EXCEPT ![t] = label]
Mark(set, t, p) == [set EXCEPT ![t] = @ \cup {p}]

(***************************************************************************)
(* Start of a task: read the checkpoint, open the stream after it.         *)
(***************************************************************************)
\* Mutant: the stream starts at the checkpoint instead of after it.
StartInclusive(t) ==
  /\ pc[t] = "init"
  /\ cursor' = [cursor EXCEPT ![t] = IF offsets[t] = 0 THEN 0 ELSE offsets[t] - 1]
  /\ Goto(t, "streaming")
  /\ UNCHANGED <<leader, dedup, buffer, flush, offsets, kafka, fates, counters>>

\* Mutant: the checkpoint is not used.
StartIgnoringCheckpoint(t) ==
  /\ pc[t] = "init"
  /\ cursor' = [cursor EXCEPT ![t] = 0]
  /\ Goto(t, "streaming")
  /\ UNCHANGED <<leader, dedup, buffer, flush, offsets, kafka, fates, counters>>

\* start_stream succeeds from the checkpoint, or from the beginning when
\* there is none.
StartStream(t) ==
  /\ pc[t] = "init"
  /\ cursor' = [cursor EXCEPT ![t] = offsets[t]]
  /\ Goto(t, "streaming")
  /\ UNCHANGED <<leader, dedup, buffer, flush, offsets, kafka, fates, counters>>

\* Both reads of the checkpoint fail: an unreadable checkpoint is treated
\* as none and the stream starts from the beginning.
StartFromZero(t) ==
  /\ pc[t] = "init"
  /\ offsets[t] # 0
  /\ rewinds[t] < MaxRewinds
  /\ cursor' = [cursor EXCEPT ![t] = 0]
  /\ rewinds' = [rewinds EXCEPT ![t] = @ + 1]
  /\ Goto(t, "streaming")
  /\ UNCHANGED <<leader, dedup, buffer, flush, offsets, kafka, fates,
                 crashes, saveErrs>>

\* start_stream returns an error: the task ends.
StartFails(t) ==
  /\ pc[t] = "init"
  /\ Goto(t, "stopped")
  /\ UNCHANGED <<leader, cursor, dedup, buffer, flush, offsets, kafka, fates,
                 counters>>

(***************************************************************************)
(* One turn of the while loop.                                             *)
(***************************************************************************)
\* stream.next() yields an event on a node that is not the leader: sleep
\* and `continue`; the event is gone.
Discard(t) ==
  /\ pc[t] = "streaming" /\ ~leader
  /\ cursor[t] < Len(Log[t])
  /\ cursor' = [cursor EXCEPT ![t] = @ + 1]
  /\ discarded' = Mark(discarded, t, cursor[t] + 1)
  /\ UNCHANGED <<leader, pc, dedup, buffer, flush, offsets, kafka, dlq, refused,
                 suppressed, counters>>

\* The leader takes the next event and waits for the limiter.
Pull(t) ==
  /\ pc[t] = "streaming" /\ leader
  /\ cursor[t] < Len(Log[t])
  /\ cursor' = [cursor EXCEPT ![t] = @ + 1]
  /\ Goto(t, "throttled")
  /\ UNCHANGED <<leader, dedup, buffer, flush, offsets, kafka, fates, counters>>

\* The stream yields an error to the leader: the loop breaks, the task ends and
\* its filter and its buffer are dropped, with the rows that are in it.
Break(t) ==
  /\ pc[t] = "streaming" /\ leader
  /\ dedup' = [dedup EXCEPT ![t] = NewFilter]
  /\ buffer' = [buffer EXCEPT ![t] = NewBuffer]
  /\ Goto(t, "stopped")
  /\ UNCHANGED <<leader, cursor, flush, offsets, kafka, fates, counters>>

Event(t) == Log[t][cursor[t]]

\* check_and_track says duplicate: `continue`.
Suppress(t) ==
  /\ pc[t] = "throttled"
  /\ IsDuplicate(dedup[t], Event(t).id)
  /\ suppressed' = Mark(suppressed, t, cursor[t])
  /\ Goto(t, "streaming")
  /\ UNCHANGED <<leader, cursor, dedup, buffer, flush, offsets, kafka, dlq,
                 discarded, refused, counters>>

\* check_and_track says new, and remembers the id.
Track(t) ==
  /\ pc[t] = "throttled"
  /\ ~IsDuplicate(dedup[t], Event(t).id)
  /\ dedup' = [dedup EXCEPT ![t] = AfterCheck(@, Event(t).id)]

\* validate_event fails: dead letter queue, `continue`.
Reject(t) ==
  /\ Track(t)
  /\ t \in Guarded /\ ~Event(t).conforms
  /\ dlq' = Mark(dlq, t, cursor[t])
  /\ Goto(t, "streaming")
  /\ UNCHANGED <<leader, cursor, buffer, flush, offsets, kafka, discarded, refused,
                 suppressed, counters>>

\* process_replication_event returns None: `continue`.
Absorb(t) ==
  /\ Track(t)
  /\ t \in Guarded /\ Event(t).conforms /\ Event(t).watermark
  /\ Goto(t, "streaming")
  /\ UNCHANGED <<leader, cursor, buffer, flush, offsets, kafka, fates, counters>>

\* Mutant: the for loop goes on when nothing is left.
ResumeUnchecked(t, rest) ==
  /\ flush' = [flush EXCEPT ![t] = rest]
  /\ Goto(t, "flushing")

Resume(t, rest) ==
  /\ flush' = [flush EXCEPT ![t] = rest]
  /\ Goto(t, IF rest = <<>> THEN "streaming" ELSE "flushing")

\* tx_buffer.process; the for loop over its result starts.
Process(t) ==
  /\ Track(t)
  /\ t \in Guarded => Event(t).conforms /\ ~Event(t).watermark
  /\ buffer' = [buffer EXCEPT ![t] =
                  AfterProcess(@, Event(t).tx, Event(t).op, cursor[t])]
  /\ Resume(t, ProcessOutput(buffer[t], Event(t).tx, Event(t).op, cursor[t]))
  /\ UNCHANGED <<leader, cursor, offsets, kafka, fates, counters>>

\* The transform fails on the next mutation: dead letter queue, no
\* checkpoint, on with the loop.
DeadLetter(t) ==
  /\ pc[t] = "flushing"
  /\ ~Log[t][Head(flush[t])].fits
  /\ dlq' = Mark(dlq, t, Head(flush[t]))
  /\ Resume(t, Tail(flush[t]))
  /\ UNCHANGED <<leader, cursor, dedup, buffer, offsets, kafka, discarded, refused,
                 suppressed, counters>>

\* The transformed mutation is sent.
Send(t) ==
  /\ pc[t] = "flushing"
  /\ Log[t][Head(flush[t])].fits
  /\ kafka' = [kafka EXCEPT ![t] =
                 Append(@, [pos |-> Head(flush[t]), run |-> crashes])]
  /\ Goto(t, "sent")
  /\ UNCHANGED <<leader, cursor, dedup, buffer, flush, offsets, fates, counters>>

\* The send returns an error, which `let _ =` ignores.
SendFails(t) ==
  /\ pc[t] = "flushing"
  /\ Log[t][Head(flush[t])].fits
  /\ Cardinality(refused[t]) < MaxRefusals
  /\ refused' = Mark(refused, t, Head(flush[t]))
  /\ Goto(t, "sent")
  /\ UNCHANGED <<leader, cursor, dedup, buffer, flush, offsets, kafka, dlq,
                 discarded, suppressed, counters>>

\* Mutant: the checkpoint is the offset of the event being handled (the
\* commit), not of the row just sent.
SaveCursor(t) ==
  /\ pc[t] = "sent"
  /\ offsets' = [offsets EXCEPT ![t] = cursor[t]]
  /\ Resume(t, Tail(flush[t]))
  /\ UNCHANGED <<leader, cursor, dedup, buffer, kafka, fates, counters>>

\* Mutant: the loop is left after the first row.
SaveThenBreak(t) ==
  /\ pc[t] = "sent"
  /\ offsets' = [offsets EXCEPT ![t] = Head(flush[t])]
  /\ Resume(t, <<>>)
  /\ UNCHANGED <<leader, cursor, dedup, buffer, kafka, fates, counters>>

\* save_offset(transformed.offset), then the next mutation.
Save(t) ==
  /\ pc[t] = "sent"
  /\ offsets' = [offsets EXCEPT ![t] = Head(flush[t])]
  /\ Resume(t, Tail(flush[t]))
  /\ UNCHANGED <<leader, cursor, dedup, buffer, kafka, fates, counters>>

\* Mutant: a failed save sends the row again.
SaveFailsRetry(t) ==
  /\ pc[t] = "sent"
  /\ saveErrs[t] < MaxSaveErrors
  /\ saveErrs' = [saveErrs EXCEPT ![t] = @ + 1]
  /\ Resume(t, flush[t])
  /\ UNCHANGED <<leader, cursor, dedup, buffer, offsets, kafka, fates, crashes,
                 rewinds>>

\* save_offset returns an error, which `let _ =` ignores.
SaveFails(t) ==
  /\ pc[t] = "sent"
  /\ saveErrs[t] < MaxSaveErrors
  /\ saveErrs' = [saveErrs EXCEPT ![t] = @ + 1]
  /\ Resume(t, Tail(flush[t]))
  /\ UNCHANGED <<leader, cursor, dedup, buffer, offsets, kafka, fates, crashes,
                 rewinds>>

(***************************************************************************)
(* The rest of the process.                                                *)
(***************************************************************************)
\* The election loop of this node's coordinator makes it leader; main never
\* calls shutdown, so it stays leader until the process ends.
Elect ==
  /\ ~leader
  /\ leader' = TRUE
  /\ UNCHANGED <<pc, cursor, dedup, buffer, flush, offsets, kafka, fates, counters>>

\* Crash, or ctrl-c and abort, and restart: main runs again with the state
\* store as it was left.
Crash ==
  /\ crashes < MaxCrashes
  /\ crashes' = crashes + 1
  /\ leader' = FALSE
  /\ pc' = [t \in Tasks |-> "init"]
  /\ cursor' = [t \in Tasks |-> 0]
  /\ dedup' = [t \in Tasks |-> NewFilter]
  /\ buffer' = [t \in Tasks |-> NewBuffer]
  /\ flush' = [t \in Tasks |-> <<>>]
  /\ UNCHANGED <<offsets, kafka, fates, saveErrs, rewinds>>

TaskStep(t) ==
  \/ StartStream(t) \/ Discard(t) \/ Pull(t)
  \/ Suppress(t) \/ Reject(t) \/ Absorb(t) \/ Process(t)
  \/ DeadLetter(t) \/ Send(t) \/ Save(t)

TaskFault(t) ==
  \/ StartFromZero(t) \/ StartFails(t) \/ Break(t)
  \/ SendFails(t) \/ SaveFails(t)

Next == Elect \/ Crash \/ \E t \in Tasks : TaskStep(t) \/ TaskFault(t)

Spec == Init /\ [][Next]_vars

\* The runtime polls every task that can move, and the election loop wakes
\* up on a timer: each keeps going unless a fault stops it.
FairSpec == Spec /\ WF_vars(Elect) /\ \A t \in Tasks : WF_vars(TaskStep(t))

-----------------------------------------------------------------------------
(***************************************************************************)
(* Properties.                                                             *)
(***************************************************************************)
Delivered(t) == {kafka[t][i].pos : i \in DOMAIN kafka[t]}

\* What may become of a row: sent, or given up for a reason the code names.
Settled(t) ==
  Delivered(t) \cup dlq[t] \cup discarded[t] \cup refused[t] \cup suppressed[t]

Labels == {"init", "streaming", "throttled", "flushing", "sent", "stopped"}

FilterType == [processed_ids : SUBSET Ids, order : Seq(Ids)]

VarTypes ==
  /\ leader \in BOOLEAN
  /\ offsets \in [Tasks -> Nat]
  /\ pc \in [Tasks -> Labels]
  /\ cursor \in [Tasks -> Nat]
  /\ dedup \in [Tasks -> FilterType]
  /\ buffer \in [Tasks -> [Txs -> Seq(Nat)]]
  /\ flush \in [Tasks -> Seq(Nat)]
  /\ kafka \in [Tasks -> Seq([pos : Nat, run : Nat])]
  /\ dlq \in [Tasks -> SUBSET Nat]
  /\ discarded \in [Tasks -> SUBSET Nat]
  /\ refused \in [Tasks -> SUBSET Nat]
  /\ suppressed \in [Tasks -> SUBSET Nat]
  /\ crashes \in Nat
  /\ saveErrs \in [Tasks -> Nat]
  /\ rewinds \in [Tasks -> Nat]

\* What task t points at is in its log, and it is in its flush loop exactly
\* when there is something to flush.
TaskShape(t) ==
  /\ cursor[t] \in 0..Len(Log[t])
  /\ offsets[t] \in 0..Len(Log[t])
  /\ buffer[t] \in [Txs -> Seq(Pos(t))]
  /\ flush[t] \in Seq(Pos(t))
  /\ pc[t] = "throttled" => cursor[t] > 0
  /\ flush[t] # <<>> <=> pc[t] \in {"flushing", "sent"}

\* The types and the shape of the state of main.rs' tasks.
TypeOK == VarTypes /\ \A t \in Tasks : TaskShape(t)

Covered(t) == \A p \in CommittedRows[t] : p <= offsets[t] => p \in Settled(t)

\* The checkpoint never runs ahead of the work: every committed row at or
\* before the saved offset has been sent, dead-lettered, refused by the sink,
\* suppressed as a duplicate or dropped while the node was a standby.  A
\* restart from the checkpoint therefore skips no row silently.
CheckpointCovers == \A t \in Tasks : Covered(t)

\* What one incarnation of the process sends of a source is in log order and
\* without repetition, whatever the buffering and the duplicate filter did.
SessionOrder ==
  \A t \in Tasks : \A i, j \in DOMAIN kafka[t] :
    i < j /\ kafka[t][i].run = kafka[t][j].run
      => kafka[t][i].pos < kafka[t][j].pos

\* At-least-once with a bound: a restart sends again at most the row that was
\* sent and not yet checkpointed, plus one row per failed save.
DuplicateBound ==
  \A t \in Tasks : rewinds[t] = 0 =>
    Len(kafka[t]) <= Cardinality(Delivered(t)) + crashes + saveErrs[t]

\* A row is sent only once the commit of its transaction has been read from
\* the log, and rows of rolled back transactions never are.
SendAfterCommit ==
  [][\A t \in Tasks : kafka'[t] # kafka[t] =>
       LET p == Last(kafka'[t]).pos
       IN  p \in CommittedRows[t] /\ ~Pending(t, p, cursor[t])]_vars

\* The checkpoint of a source never moves back, unless a checkpoint could not
\* be read and the stream was started from the beginning.
CheckpointMonotone ==
  [][\A t \in Tasks : rewinds[t] = 0 => offsets'[t] >= offsets[t]]_vars

\* Every committed row is settled in the end, unless its task has ended on a
\* stream error: nothing restarts a task but a restart of the process.
EventuallySettled ==
  <>[](\A t \in Tasks : pc[t] # "stopped" =>
         CommittedRows[t] \subseteq Settled(t))

(***************************************************************************)
(* Why the checkpoint is safe: the parts of the inductive invariant.       *)
(***************************************************************************)
\* The last event the task is done with, but for the rows it put aside.
Handled(t) == IF pc[t] = "throttled" THEN cursor[t] - 1 ELSE cursor[t]

Increasing(s) == \A i, j \in DOMAIN s : i < j => s[i] < s[j]

\* Row p is held in memory, to be sent later.
Held(t, p) == \/ /\ Log[t][p].tx \in Txs
                 /\ \E i \in DOMAIN buffer[t][Log[t][p].tx] :
                      buffer[t][Log[t][p].tx][i] = p
              \/ \E i \in DOMAIN flush[t] : flush[t][i] = p

\* The buffer holds rows of transactions that have not ended, in log order.
BufferPending(t) ==
  \A x \in Txs :
    /\ Increasing(buffer[t][x])
    /\ \A i \in DOMAIN buffer[t][x] :
         LET p == buffer[t][x][i]
         IN  /\ p \in 1..Handled(t)
             /\ Log[t][p].tx = x /\ Payload(t, p)
             /\ Pending(t, p, Handled(t))

\* The flush loop runs over committed rows whose commit has been read, in log
\* order; the first of them is settled once it was sent.
FlushReleased(t) ==
  /\ Increasing(flush[t])
  /\ \A i \in DOMAIN flush[t] :
       /\ flush[t][i] \in 1..cursor[t]
       /\ flush[t][i] \in CommittedRows[t]
       /\ ~Pending(t, flush[t][i], cursor[t])
  /\ pc[t] = "sent" => Head(flush[t]) \in Settled(t)

\* A task that has not started, or whose node is not leader, holds nothing.
IdleEmpty(t) ==
  /\ pc[t] = "init" => cursor[t] = 0 /\ dedup[t] = NewFilter
  /\ pc[t] = "init" \/ ~leader => buffer[t] = NewBuffer
  /\ ~leader => pc[t] \in {"init", "streaming", "stopped"}

\* The filter remembers ids of events the task is done with.
FilterPast(t) ==
  dedup[t].processed_ids \subseteq {Log[t][q].id : q \in 1..Handled(t)}

\* Every committed row read so far is settled or still held, while the task runs.
WorkAccounted(t) ==
  pc[t] # "stopped" =>
    \A p \in CommittedRows[t] : p <= Handled(t) => p \in Settled(t) \/ Held(t, p)

TaskInv(t) ==
  /\ BufferPending(t) /\ FlushReleased(t) /\ IdleEmpty(t) /\ FilterPast(t)
  /\ WorkAccounted(t) /\ Covered(t)

\* Nothing that was read is forgotten: as long as a task runs, each committed
\* row it has read is settled or held in its buffer or its flush loop, and at
\* every moment, also after its end, the checkpoint is behind all that was not
\* settled.
NothingForgotten == \A t \in Tasks : TaskInv(t)

\* resume_checkpoint_offset is there "to resume replication without data
\* loss": rows before the checkpoint are not lost.  Rows a standby dropped
\* count as lost.
NoDataLoss ==
  \A t \in Tasks : \A p \in CommittedRows[t] :
    p <= offsets[t] => p \in Settled(t) \ discarded[t]
=============================================================================
