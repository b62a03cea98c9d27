--------------------------- MODULE PipelineProofs ---------------------------
(***************************************************************************)
(* Proofs about the engine, for every set of tasks, every log that keeps   *)
(* the source's contract and every number of faults.                       *)
(***************************************************************************)
EXTENDS Pipeline, FiniteSetTheorems, SequenceTheorems, TLAPS

\* A log is a sequence of events.
LEMMA LogTypes ==
  ASSUME NEW t \in Tasks
  PROVE  /\ Len(Log[t]) \in Nat
         /\ Pos(t) \subseteq Nat
         /\ \A p \in Pos(t) : Log[t][p] \in ChangeEvent
BY LogAssumption DEF Pos

\* The fields of an event have their types.
LEMMA EventFields ==
  ASSUME NEW t \in Tasks, NEW p \in Pos(t)
  PROVE  /\ Log[t][p].id \in Ids
         /\ Log[t][p].op \in Operation
         /\ Log[t][p].tx \in Txs \cup {NoTx}
BY LogTypes DEF ChangeEvent

\* check_and_track keeps the filter's types.
LEMMA AfterCheckType ==
  ASSUME NEW f \in FilterType, NEW id \in Ids
  PROVE  AfterCheck(f, id) \in FilterType
BY DEF AfterCheck, IsDuplicate, FilterType

\* process keeps the buffer's types and returns a sequence of rows.
LEMMA ProcessTypes ==
  ASSUME NEW S, NEW b \in [Txs -> Seq(S)], NEW tx \in Txs \cup {NoTx},
         NEW op \in Operation, NEW m \in S
  PROVE  /\ AfterProcess(b, tx, op, m) \in [Txs -> Seq(S)]
         /\ ProcessOutput(b, tx, op, m) \in Seq(S)
BY NoTxAssumption DEF AfterProcess, ProcessOutput

\* The volatile state a process starts with is well typed.
LEMMA FreshTypes ==
  /\ NewFilter \in FilterType
  /\ \A S : NewBuffer \in [Txs -> Seq(S)]
  /\ \A S : <<>> \in Seq(S)
BY DEF NewFilter, FilterType, NewBuffer

\* A process that begins has the shape.
LEMMA InitTypes == Init => TypeOK
<1> SUFFICES ASSUME Init PROVE TypeOK
  OBVIOUS
<1>1. VarTypes
  BY FreshTypes DEF Init, VarTypes, Labels
<1>2. ASSUME NEW t \in Tasks PROVE TaskShape(t)
  <2>1. /\ cursor[t] = 0 /\ offsets[t] = 0 /\ buffer[t] = NewBuffer
        /\ flush[t] = <<>> /\ pc[t] = "init"
    BY DEF Init
  <2>2. 0 \in 0..Len(Log[t])
    BY LogTypes
  <2> QED
    BY <2>1, <2>2, FreshTypes DEF TaskShape
<1> QED
  BY <1>1, <1>2 DEF TypeOK

\* A step of the types' proof for another task than the one that moves.
LEMMA ShapeFrame ==
  ASSUME NEW u \in Tasks, TaskShape(u), cursor'[u] = cursor[u],
         offsets'[u] = offsets[u], buffer'[u] = buffer[u],
         flush'[u] = flush[u], pc'[u] = pc[u]
  PROVE  TaskShape(u)'
BY DEF TaskShape

\* The flush loop goes on with the rest of its rows, or ends.
LEMMA ResumeTypes ==
  ASSUME TypeOK, NEW t \in Tasks, NEW rest \in Seq(Pos(t)), Resume(t, rest)
  PROVE  /\ flush' \in [Tasks -> Seq(Nat)] /\ pc' \in [Tasks -> Labels]
         /\ \A u \in Tasks \ {t} : flush'[u] = flush[u] /\ pc'[u] = pc[u]
         /\ flush'[t] = rest
         /\ flush'[t] # <<>> <=> pc'[t] \in {"flushing", "sent"}
         /\ pc'[t] \in {"streaming", "flushing"}
<1>1. rest \in Seq(Nat)
  BY LogTypes
<1> QED
  BY <1>1 DEF TypeOK, VarTypes, Resume, Goto, Labels

\* A task in its flush loop has a first row to flush and a rest.
LEMMA FlushHead ==
  ASSUME TypeOK, NEW t \in Tasks, pc[t] \in {"flushing", "sent"}
  PROVE  /\ Head(flush[t]) \in Pos(t) /\ Tail(flush[t]) \in Seq(Pos(t))
         /\ Head(flush[t]) \in Nat /\ Head(flush[t]) \in 0..Len(Log[t])
<1>1. flush[t] \in Seq(Pos(t)) /\ flush[t] # <<>>
  BY DEF TypeOK, TaskShape
<1>2. Head(flush[t]) \in Pos(t) /\ Tail(flush[t]) \in Seq(Pos(t))
  BY <1>1
<1> QED
  BY <1>2, LogTypes DEF Pos

\* An event that passed the limiter is an event of the log.
LEMMA TrackTypes ==
  ASSUME TypeOK, NEW t \in Tasks, Track(t)
  PROVE  /\ cursor[t] \in Pos(t) /\ Event(t) \in ChangeEvent
         /\ dedup' \in [Tasks -> FilterType]
<1>1. cursor[t] \in Pos(t) /\ Event(t) \in ChangeEvent
  BY LogTypes DEF TypeOK, TaskShape, Track, Event, Pos
<1>2. AfterCheck(dedup[t], Event(t).id) \in FilterType
  BY <1>1, AfterCheckType DEF TypeOK, VarTypes, ChangeEvent
<1> QED
  BY <1>1, <1>2 DEF TypeOK, VarTypes, Track

\* Every step keeps the types.
LEMMA NextTypes == TypeOK /\ [Next]_vars => TypeOK'
<1> SUFFICES ASSUME TypeOK, [Next]_vars PROVE TypeOK'
  OBVIOUS
<1>1. ASSUME NEW t \in Tasks, StartStream(t) PROVE TypeOK'
  <2>1. VarTypes'
    BY <1>1 DEF TypeOK, VarTypes, StartStream, Goto, Labels, fates, counters
  <2>2. TaskShape(t)'
    BY <1>1, LogTypes DEF TypeOK, VarTypes, TaskShape, StartStream, Goto, Labels, fates, counters
  <2>3. ASSUME NEW u \in Tasks \ {t} PROVE TaskShape(u)'
    BY <1>1, ShapeFrame DEF TypeOK, VarTypes, StartStream, Goto, Labels, fates, counters
  <2> QED
    BY <2>1, <2>2, <2>3 DEF TypeOK
<1>2. ASSUME NEW t \in Tasks, StartFromZero(t) PROVE TypeOK'
  <2>1. VarTypes'
    BY <1>2 DEF TypeOK, VarTypes, StartFromZero, Goto, Labels, fates
  <2>2. TaskShape(t)'
    <3>1. 0 \in 0..Len(Log[t])
      BY LogTypes
    <3> QED
      BY <1>2, <3>1 DEF TypeOK, VarTypes, TaskShape, StartFromZero, Goto
  <2>3. ASSUME NEW u \in Tasks \ {t} PROVE TaskShape(u)'
    BY <1>2, ShapeFrame DEF TypeOK, VarTypes, StartFromZero, Goto, Labels, fates
  <2> QED
    BY <2>1, <2>2, <2>3 DEF TypeOK
<1>3. ASSUME NEW t \in Tasks, StartFails(t) PROVE TypeOK'
  <2>1. VarTypes'
    BY <1>3 DEF TypeOK, VarTypes, StartFails, Goto, Labels, fates, counters
  <2>2. TaskShape(t)'
    BY <1>3, LogTypes DEF TypeOK, VarTypes, TaskShape, StartFails, Goto, Labels, fates, counters
  <2>3. ASSUME NEW u \in Tasks \ {t} PROVE TaskShape(u)'
    BY <1>3, ShapeFrame DEF TypeOK, VarTypes, StartFails, Goto, Labels, fates, counters
  <2> QED
    BY <2>1, <2>2, <2>3 DEF TypeOK
<1>4. ASSUME NEW t \in Tasks, Discard(t) PROVE TypeOK'
  <2>1. VarTypes'
    BY <1>4 DEF TypeOK, VarTypes, Discard, Mark, counters
  <2>2. TaskShape(t)'
    <3>1. /\ cursor[t] \in 0..Len(Log[t]) /\ cursor[t] < Len(Log[t])
          /\ Len(Log[t]) \in Nat /\ cursor'[t] = cursor[t] + 1
      BY <1>4, LogTypes DEF TypeOK, VarTypes, TaskShape, Discard
    <3>2. cursor'[t] \in 0..Len(Log[t]) /\ cursor'[t] > 0
      BY <3>1
    <3> QED
      BY <1>4, <3>2 DEF TypeOK, VarTypes, TaskShape, Discard
  <2>3. ASSUME NEW u \in Tasks \ {t} PROVE TaskShape(u)'
    BY <1>4, ShapeFrame DEF TypeOK, VarTypes, Discard, Mark, counters
  <2> QED
    BY <2>1, <2>2, <2>3 DEF TypeOK
<1>5. ASSUME NEW t \in Tasks, Pull(t) PROVE TypeOK'
  <2>1. VarTypes'
    BY <1>5 DEF TypeOK, VarTypes, Pull, Goto, Labels, fates, counters
  <2>2. TaskShape(t)'
    <3>1. /\ cursor[t] \in 0..Len(Log[t]) /\ cursor[t] < Len(Log[t])
          /\ Len(Log[t]) \in Nat /\ cursor'[t] = cursor[t] + 1
      BY <1>5, LogTypes DEF TypeOK, VarTypes, TaskShape, Pull
    <3>2. cursor'[t] \in 0..Len(Log[t]) /\ cursor'[t] > 0
      BY <3>1
    <3> QED
      BY <1>5, <3>2 DEF TypeOK, VarTypes, TaskShape, Pull, Goto
  <2>3. ASSUME NEW u \in Tasks \ {t} PROVE TaskShape(u)'
    BY <1>5, ShapeFrame DEF TypeOK, VarTypes, Pull, Goto, Labels, fates, counters
  <2> QED
    BY <2>1, <2>2, <2>3 DEF TypeOK
<1>6. ASSUME NEW t \in Tasks, Break(t) PROVE TypeOK'
  <2>0. /\ NewFilter \in FilterType
        /\ NewBuffer \in [Txs -> Seq(Nat)] /\ NewBuffer \in [Txs -> Seq(Pos(t))]
    BY DEF NewFilter, FilterType, NewBuffer
  <2>1. VarTypes'
    BY <1>6, <2>0 DEF TypeOK, VarTypes, Break, Goto, Labels, fates, counters
  <2>2. TaskShape(t)'
    <3>1. /\ buffer'[t] = NewBuffer /\ pc[t] = "streaming" /\ pc'[t] = "stopped"
          /\ cursor' = cursor /\ offsets' = offsets /\ flush' = flush
      BY <1>6 DEF TypeOK, VarTypes, Break, Goto
    <3> QED
      BY <2>0, <3>1 DEF TypeOK, TaskShape
  <2>3. ASSUME NEW u \in Tasks \ {t} PROVE TaskShape(u)'
    BY <1>6, ShapeFrame DEF TypeOK, VarTypes, Break, Goto, Labels, fates, counters
  <2> QED
    BY <2>1, <2>2, <2>3 DEF TypeOK
<1>7. ASSUME NEW t \in Tasks, Suppress(t) PROVE TypeOK'
  <2>1. VarTypes'
    BY <1>7 DEF TypeOK, VarTypes, Suppress, Mark, Goto, Labels, counters
  <2>2. TaskShape(t)'
    BY <1>7, LogTypes DEF TypeOK, VarTypes, TaskShape, Suppress, Mark, Goto, Labels, counters
  <2>3. ASSUME NEW u \in Tasks \ {t} PROVE TaskShape(u)'
    BY <1>7, ShapeFrame DEF TypeOK, VarTypes, Suppress, Mark, Goto, Labels, counters
  <2> QED
    BY <2>1, <2>2, <2>3 DEF TypeOK
<1>8. ASSUME NEW t \in Tasks, Reject(t) PROVE TypeOK'
  <2>1. VarTypes'
    BY <1>8, TrackTypes, ZenonT(30)
    DEF TypeOK, VarTypes, Reject, Track, Mark, Goto, Labels, counters
  <2>2. TaskShape(t)'
    BY <1>8, LogTypes, TrackTypes DEF TypeOK, VarTypes, TaskShape, Reject, Track, Mark, Goto, Labels, counters
  <2>3. ASSUME NEW u \in Tasks \ {t} PROVE TaskShape(u)'
    BY <1>8, TrackTypes, ShapeFrame DEF TypeOK, VarTypes, Reject, Track, Mark, Goto, Labels, counters
  <2> QED
    BY <2>1, <2>2, <2>3 DEF TypeOK
<1>9. ASSUME NEW t \in Tasks, Absorb(t) PROVE TypeOK'
  <2>1. VarTypes'
    BY <1>9, TrackTypes DEF TypeOK, VarTypes, Absorb, Track, Goto, Labels, fates, counters
  <2>2. TaskShape(t)'
    BY <1>9, LogTypes, TrackTypes DEF TypeOK, VarTypes, TaskShape, Absorb, Track, Goto, Labels, fates, counters
  <2>3. ASSUME NEW u \in Tasks \ {t} PROVE TaskShape(u)'
    BY <1>9, TrackTypes, ShapeFrame DEF TypeOK, VarTypes, Absorb, Track, Goto, Labels, fates, counters
  <2> QED
    BY <2>1, <2>2, <2>3 DEF TypeOK
<1>10. ASSUME NEW t \in Tasks, DeadLetter(t) PROVE TypeOK'
  <2>0. /\ Head(flush[t]) \in Nat /\ Head(flush[t]) \in 0..Len(Log[t])
        /\ Tail(flush[t]) \in Seq(Pos(t)) /\ Resume(t, Tail(flush[t]))
    BY <1>10, FlushHead DEF DeadLetter
  <2>8. /\ flush' \in [Tasks -> Seq(Nat)] /\ pc' \in [Tasks -> Labels]
        /\ flush'[t] = Tail(flush[t])
        /\ flush'[t] # <<>> <=> pc'[t] \in {"flushing", "sent"}
        /\ pc'[t] \in {"streaming", "flushing"}
    BY <2>0, ResumeTypes
  <2>1. VarTypes'
    BY <1>10, <2>0, <2>8 DEF TypeOK, VarTypes, DeadLetter, Mark, counters
  <2>2. TaskShape(t)'
    BY <1>10, <2>0, <2>8 DEF TypeOK, VarTypes, TaskShape, DeadLetter
  <2>3. ASSUME NEW u \in Tasks \ {t} PROVE TaskShape(u)'
    BY <1>10, FlushHead, ResumeTypes, ShapeFrame DEF TypeOK, VarTypes, DeadLetter, Mark, counters
  <2> QED
    BY <2>1, <2>2, <2>3 DEF TypeOK
<1>11. ASSUME NEW t \in Tasks, Send(t) PROVE TypeOK'
  <2>1. VarTypes'
    <3>1. [pos |-> Head(flush[t]), run |-> crashes] \in [pos : Nat, run : Nat]
      BY <1>11, FlushHead DEF TypeOK, VarTypes, Send
    <3>2. kafka' \in [Tasks -> Seq([pos : Nat, run : Nat])]
      BY <1>11, <3>1 DEF TypeOK, VarTypes, Send
    <3> QED
      BY <1>11, <3>2 DEF TypeOK, VarTypes, Send, Goto, Labels, fates, counters
  <2>2. TaskShape(t)'
    BY <1>11, LogTypes, FlushHead DEF TypeOK, VarTypes, TaskShape, Send, Goto, Labels, fates, counters
  <2>3. ASSUME NEW u \in Tasks \ {t} PROVE TaskShape(u)'
    BY <1>11, FlushHead, ShapeFrame DEF TypeOK, VarTypes, Send, Goto, Labels, fates, counters
  <2> QED
    BY <2>1, <2>2, <2>3 DEF TypeOK
<1>12. ASSUME NEW t \in Tasks, SendFails(t) PROVE TypeOK'
  <2>1. VarTypes'
    BY <1>12, FlushHead DEF TypeOK, VarTypes, SendFails, Mark, Goto, Labels, counters
  <2>2. TaskShape(t)'
    BY <1>12, LogTypes, FlushHead DEF TypeOK, VarTypes, TaskShape, SendFails, Mark, Goto, Labels, counters
  <2>3. ASSUME NEW u \in Tasks \ {t} PROVE TaskShape(u)'
    BY <1>12, FlushHead, ShapeFrame DEF TypeOK, VarTypes, SendFails, Mark, Goto, Labels, counters
  <2> QED
    BY <2>1, <2>2, <2>3 DEF TypeOK
<1>13. ASSUME NEW t \in Tasks, Save(t) PROVE TypeOK'
  <2>0. /\ Head(flush[t]) \in Nat /\ Head(flush[t]) \in 0..Len(Log[t])
        /\ Tail(flush[t]) \in Seq(Pos(t)) /\ Resume(t, Tail(flush[t]))
    BY <1>13, FlushHead DEF Save
  <2>8. /\ flush' \in [Tasks -> Seq(Nat)] /\ pc' \in [Tasks -> Labels]
        /\ flush'[t] = Tail(flush[t])
        /\ flush'[t] # <<>> <=> pc'[t] \in {"flushing", "sent"}
        /\ pc'[t] \in {"streaming", "flushing"}
    BY <2>0, ResumeTypes
  <2>1. VarTypes'
    BY <1>13, <2>0, <2>8 DEF TypeOK, VarTypes, Save, fates, counters
  <2>2. TaskShape(t)'
    BY <1>13, <2>0, <2>8 DEF TypeOK, VarTypes, TaskShape, Save
  <2>3. ASSUME NEW u \in Tasks \ {t} PROVE TaskShape(u)'
    BY <1>13, FlushHead, ResumeTypes, ShapeFrame DEF TypeOK, VarTypes, Save, fates, counters
  <2> QED
    BY <2>1, <2>2, <2>3 DEF TypeOK
<1>14. ASSUME NEW t \in Tasks, SaveFails(t) PROVE TypeOK'
  <2>0. /\ Head(flush[t]) \in Nat /\ Head(flush[t]) \in 0..Len(Log[t])
        /\ Tail(flush[t]) \in Seq(Pos(t)) /\ Resume(t, Tail(flush[t]))
    BY <1>14, FlushHead DEF SaveFails
  <2>8. /\ flush' \in [Tasks -> Seq(Nat)] /\ pc' \in [Tasks -> Labels]
        /\ flush'[t] = Tail(flush[t])
        /\ flush'[t] # <<>> <=> pc'[t] \in {"flushing", "sent"}
        /\ pc'[t] \in {"streaming", "flushing"}
    BY <2>0, ResumeTypes
  <2>1. VarTypes'
    <3>1. saveErrs' \in [Tasks -> Nat]
      BY <1>14 DEF TypeOK, VarTypes, SaveFails
    <3> QED
      BY <1>14, <2>8, <3>1 DEF TypeOK, VarTypes, SaveFails, fates
  <2>2. TaskShape(t)'
    BY <1>14, <2>0, <2>8 DEF TypeOK, VarTypes, TaskShape, SaveFails
  <2>3. ASSUME NEW u \in Tasks \ {t} PROVE TaskShape(u)'
    BY <1>14, FlushHead, ResumeTypes, ShapeFrame DEF TypeOK, VarTypes, SaveFails, fates
  <2> QED
    BY <2>1, <2>2, <2>3 DEF TypeOK
<1>15. ASSUME NEW t \in Tasks, Process(t) PROVE TypeOK'
  <2> DEFINE tx == Event(t).tx
             op == Event(t).op
             out == ProcessOutput(buffer[t], tx, op, cursor[t])
             buf == AfterProcess(buffer[t], tx, op, cursor[t])
  <2>1. /\ tx \in Txs \cup {NoTx} /\ op \in Operation /\ cursor[t] \in Pos(t)
        /\ dedup' \in [Tasks -> FilterType]
    BY <1>15, TrackTypes DEF Process, ChangeEvent
  <2>2. /\ buf \in [Txs -> Seq(Pos(t))] /\ out \in Seq(Pos(t))
    BY <2>1, ProcessTypes DEF TypeOK, TaskShape
  <2>3. buf \in [Txs -> Seq(Nat)]
    BY <2>1, ProcessTypes, LogTypes DEF TypeOK, VarTypes
  <2>4. buffer' = [buffer EXCEPT ![t] = buf] /\ Resume(t, out)
    BY <1>15 DEF Process
  <2> HIDE DEF tx, op, out, buf
  <2>8. flush' \in [Tasks -> Seq(Nat)] /\ pc' \in [Tasks -> Labels]
    BY <2>2, <2>4, ResumeTypes
  <2>9. buffer' \in [Tasks -> [Txs -> Seq(Nat)]]
    BY <2>3, <2>4 DEF TypeOK, VarTypes
  <2>10. /\ UNCHANGED <<leader, cursor, offsets, kafka, dlq, discarded, refused>>
         /\ UNCHANGED <<suppressed, crashes, rewinds, saveErrs>>
    BY <1>15 DEF Process, fates, counters
  <2>5. VarTypes'
    BY <2>1, <2>8, <2>9, <2>10 DEF TypeOK, VarTypes
  <2>6. TaskShape(t)'
    <3>1. buffer'[t] = buf /\ cursor'[t] = cursor[t] /\ offsets'[t] = offsets[t]
      BY <2>4, <2>10 DEF TypeOK, VarTypes
    <3> QED
      BY <2>2, <2>4, <3>1, ResumeTypes DEF TypeOK, TaskShape
  <2>7. ASSUME NEW u \in Tasks \ {t} PROVE TaskShape(u)'
    <3>1. buffer'[u] = buffer[u] /\ cursor'[u] = cursor[u] /\ offsets'[u] = offsets[u]
      BY <2>4, <2>10 DEF TypeOK, VarTypes
    <3>2. flush'[u] = flush[u] /\ pc'[u] = pc[u]
      BY <2>2, <2>4, ResumeTypes DEF TypeOK
    <3> QED
      BY <3>1, <3>2, ShapeFrame DEF TypeOK
  <2> QED
    BY <2>5, <2>6, <2>7 DEF TypeOK
<1>16. CASE Elect
  BY <1>16 DEF TypeOK, VarTypes, TaskShape, Elect, fates, counters
<1>17. CASE Crash
  <2>1. VarTypes'
    <3>1. /\ dedup' \in [Tasks -> FilterType]
          /\ buffer' \in [Tasks -> [Txs -> Seq(Nat)]]
          /\ flush' \in [Tasks -> Seq(Nat)]
      BY <1>17, FreshTypes DEF Crash
    <3>2. leader' \in BOOLEAN
      BY <1>17 DEF Crash
    <3>3. crashes' \in Nat
      BY <1>17 DEF TypeOK, VarTypes, Crash
    <3>4. pc' \in [Tasks -> Labels] /\ cursor' \in [Tasks -> Nat]
      BY <1>17 DEF Crash, Labels
    <3> QED
      BY <1>17, <3>1, <3>2, <3>3, <3>4 DEF TypeOK, VarTypes, Crash, fates
  <2>2. ASSUME NEW u \in Tasks PROVE TaskShape(u)'
    BY <1>17, FreshTypes, LogTypes DEF TypeOK, VarTypes, TaskShape, Crash
  <2> QED
    BY <2>1, <2>2 DEF TypeOK
<1>18. CASE UNCHANGED vars
  BY <1>18 DEF TypeOK, VarTypes, TaskShape, vars, volatile, fates, counters
<1> QED
  BY <1>1, <1>2, <1>3, <1>4, <1>5, <1>6, <1>7, <1>8, <1>9, <1>10, <1>11, <1>12,
     <1>13, <1>14, <1>15, <1>16, <1>17, <1>18
  DEF Next, TaskStep, TaskFault

\* The state of the engine keeps its types and shape, whatever the log.
THEOREM Typing == Spec => []TypeOK
  BY InitTypes, NextTypes, PTL DEF Spec

-----------------------------------------------------------------------------
(***************************************************************************)
(* The checkpoint is safe: an inductive proof of NothingForgotten, from    *)
(* which CheckpointCovers follows.  The argument rests on the contract of  *)
(* the source (CommitOrderAssumption): when a row is flushed, no earlier   *)
(* row is still buffered.                                                  *)
(***************************************************************************)

(***************************************************************************)
(* Facts about the log.                                                    *)
(***************************************************************************)
\* A row waiting at c - 1 still waits at c when c does not end its transaction.
LEMMA PendingStep ==
  ASSUME NEW t \in Tasks, NEW p \in Pos(t), NEW c \in Nat,
         Pending(t, p, c - 1), ~EndsTx(t, c, p)
  PROVE  Pending(t, p, c)
<1>1. p \in Nat
  BY LogTypes
<1>2. \A q \in (p + 1)..c : q = c \/ q \in (p + 1)..(c - 1)
  BY <1>1
<1> QED
  BY <1>2 DEF Pending

\* An end marker releases the rows of its transaction.
LEMMA EndReleases ==
  ASSUME NEW t \in Tasks, NEW p \in Pos(t), NEW c \in Pos(t),
         p < c, EndsTx(t, c, p)
  PROVE  ~Pending(t, p, c)
<1>1. c \in (p + 1)..c
  BY LogTypes
<1> QED
  BY <1>1 DEF Pending

\* Rows waiting for a commit are committed by it.
LEMMA CommitCommits ==
  ASSUME NEW t \in Tasks, NEW p \in Pos(t), NEW c \in Pos(t), p < c,
         Payload(t, p), Pending(t, p, c - 1), EndsTx(t, c, p),
         Log[t][c].op = "Commit"
  PROVE  p \in CommittedRows[t]
BY DEF CommittedRows, Committed

\* Rows waiting for a rollback are not committed.
LEMMA RollbackDrops ==
  ASSUME NEW t \in Tasks, NEW p \in Pos(t), NEW c \in Pos(t), p < c,
         Pending(t, p, c - 1), EndsTx(t, c, p), Log[t][c].op # "Commit"
  PROVE  p \notin CommittedRows[t]
<1> SUFFICES ASSUME p \in CommittedRows[t] PROVE FALSE
  OBVIOUS
<1>1. Log[t][p].tx # NoTx
  BY DEF Pending
<1>2. PICK q \in Pos(t) : /\ q > p /\ EndsTx(t, q, p)
                          /\ Log[t][q].op = "Commit" /\ Pending(t, p, q - 1)
  BY <1>1 DEF CommittedRows, Committed
<1>3. p \in Nat /\ q \in Nat /\ c \in Nat
  BY LogTypes
<1>4. CASE q < c
  <2>1. q \in (p + 1)..(c - 1)
    BY <1>2, <1>3, <1>4
  <2> QED
    BY <1>2, <2>1 DEF Pending
<1>5. CASE q = c
  BY <1>2, <1>5
<1>6. CASE q > c
  <2>1. c \in (p + 1)..(q - 1)
    BY <1>2, <1>3, <1>6
  <2> QED
    BY <1>2, <2>1 DEF Pending
<1> QED
  BY <1>3, <1>4, <1>5, <1>6

\* Committed rows are rows of the log for the consumers.
LEMMA CommittedIsPayload ==
  ASSUME NEW t \in Tasks, NEW p \in CommittedRows[t]
  PROVE  p \in Pos(t) /\ p \in Nat /\ Payload(t, p)
BY LogTypes DEF CommittedRows, Committed

\* The contract of the source: when a row is released, earlier rows are too.
LEMMA EarlierReleased ==
  ASSUME NEW t \in Tasks, NEW p \in Pos(t), NEW q \in Pos(t), NEW c \in Pos(t),
         p < q, q <= c, Payload(t, p), Payload(t, q), ~Pending(t, q, c)
  PROVE  ~Pending(t, p, c)
BY CommitOrderAssumption

(***************************************************************************)
(* Facts about a task's state.                                             *)
(***************************************************************************)
\* The state of a task other than the one that moves is the same.
Frame(u) ==
  /\ offsets'[u] = offsets[u] /\ pc'[u] = pc[u] /\ cursor'[u] = cursor[u]
  /\ dedup'[u] = dedup[u] /\ buffer'[u] = buffer[u] /\ flush'[u] = flush[u]
  /\ kafka'[u] = kafka[u] /\ dlq'[u] = dlq[u] /\ discarded'[u] = discarded[u]
  /\ refused'[u] = refused[u] /\ suppressed'[u] = suppressed[u]

\* A step that does not touch a task keeps its account.
LEMMA FrameKeeps ==
  ASSUME NEW u \in Tasks, TaskInv(u), Frame(u), leader => leader'
  PROVE  TaskInv(u)'
<1>1. Settled(u)' = Settled(u)
  BY DEF Frame, Settled, Delivered
<1>2. Handled(u)' = Handled(u)
  BY DEF Frame, Handled
<1>3. BufferPending(u)'
  BY <1>2 DEF TaskInv, Frame, BufferPending
<1>4. FlushReleased(u)'
  BY <1>1 DEF TaskInv, Frame, FlushReleased
<1>5. IdleEmpty(u)'
  BY DEF TaskInv, Frame, IdleEmpty
<1>6. FilterPast(u)'
  BY <1>2 DEF TaskInv, Frame, FilterPast
<1>7. \A p \in CommittedRows[u] : Held(u, p)' <=> Held(u, p)
  BY DEF Frame, Held
<1>8. WorkAccounted(u)'
  BY <1>1, <1>2, <1>7 DEF TaskInv, Frame, WorkAccounted
<1>9. Covered(u)'
  BY <1>1 DEF TaskInv, Frame, Covered
<1> QED
  BY <1>3, <1>4, <1>5, <1>6, <1>8, <1>9 DEF TaskInv

\* Nothing that is settled becomes unsettled.
Settles(t) == Settled(t) \subseteq Settled(t)'

\* Sending, or marking a position with a fate, settles it.
LEMMA SettleStep ==
  ASSUME NEW t \in Tasks, TypeOK,
         \/ kafka'[t] = kafka[t]
         \/ \E e \in [pos : Nat, run : Nat] : kafka'[t] = Append(kafka[t], e),
         dlq[t] \subseteq dlq'[t], discarded[t] \subseteq discarded'[t],
         refused[t] \subseteq refused'[t], suppressed[t] \subseteq suppressed'[t]
  PROVE  Settles(t)
<1>1. kafka[t] \in Seq([pos : Nat, run : Nat])
  BY DEF TypeOK, VarTypes
<1>2. \A i \in DOMAIN kafka[t] : i \in DOMAIN kafka'[t] /\ kafka'[t][i] = kafka[t][i]
  <2>1. CASE kafka'[t] = kafka[t]
    BY <2>1
  <2>2. ASSUME NEW e \in [pos : Nat, run : Nat], kafka'[t] = Append(kafka[t], e)
        PROVE  \A i \in DOMAIN kafka[t] :
                 i \in DOMAIN kafka'[t] /\ kafka'[t][i] = kafka[t][i]
    BY <1>1, <2>2, SMTT(30)
  <2> QED
    BY <2>1, <2>2
<1>3. Delivered(t) \subseteq Delivered(t)'
  BY <1>2 DEF Delivered
<1> QED
  BY <1>3 DEF Settles, Settled

\* The next event is handled and is not an end marker: what the buffer holds
\* goes on waiting.
LEMMA BufferAdvances ==
  ASSUME NEW t \in Tasks, TypeOK, NEW c \in Pos(t), BufferPending(t),
         Handled(t) = c - 1, Handled(t)' = c, ~IsEnd(t, c),
         buffer'[t] = buffer[t]
  PROVE  BufferPending(t)'
<1> SUFFICES ASSUME NEW x \in Txs, NEW i \in DOMAIN buffer[t][x]
             PROVE  LET p == buffer[t][x][i]
                    IN  /\ p \in 1..c /\ Log[t][p].tx = x /\ Payload(t, p)
                        /\ Pending(t, p, c)
  BY DEF BufferPending
<1> DEFINE p == buffer[t][x][i]
<1>1. p \in 1..(c - 1) /\ Log[t][p].tx = x /\ Payload(t, p) /\ Pending(t, p, c - 1)
  BY DEF BufferPending
<1>2. c \in Nat /\ p \in Pos(t) /\ p \in 1..c
  BY <1>1, LogTypes DEF Pos
<1>3. ~EndsTx(t, c, p)
  BY DEF EndsTx
<1> QED
  BY <1>1, <1>2, <1>3, PendingStep

\* The next event is handled: it is settled or not owed to anyone, and what
\* was held still is.
LEMMA WorkAdvances ==
  ASSUME NEW t \in Tasks, NEW c \in Pos(t), pc[t] # "stopped",
         WorkAccounted(t), Settles(t),
         Handled(t) = c - 1, Handled(t)' = c,
         c \in CommittedRows[t] => c \in Settled(t)',
         buffer'[t] = buffer[t], flush'[t] = flush[t]
  PROVE  WorkAccounted(t)'
<1> SUFFICES ASSUME NEW p \in CommittedRows[t], p <= c
             PROVE  p \in Settled(t)' \/ Held(t, p)'
  BY DEF WorkAccounted
<1>1. CASE p = c
  BY <1>1
<1>2. CASE p # c
  <2>1. p <= c - 1
    BY <1>2, CommittedIsPayload, LogTypes
  <2>2. p \in Settled(t) \/ Held(t, p)
    BY <2>1 DEF WorkAccounted
  <2> QED
    BY <2>2 DEF Settles, Held
<1> QED
  BY <1>1, <1>2

\* The filter learns at most the id of the event that is handled.
LEMMA FilterAdvances ==
  ASSUME NEW t \in Tasks, NEW c \in Pos(t), FilterPast(t),
         Handled(t) = c - 1, Handled(t)' = c,
         dedup'[t].processed_ids \subseteq
           dedup[t].processed_ids \cup {Log[t][c].id}
  PROVE  FilterPast(t)'
<1>1. c \in Nat /\ c \in 1..c /\ 1..(c - 1) \subseteq 1..c
  BY LogTypes DEF Pos
<1> QED
  BY <1>1 DEF FilterPast

\* Rows settled stay settled, so the checkpoint stays covered when it stays.
LEMMA CoveredStays ==
  ASSUME NEW t \in Tasks, Covered(t), Settles(t), offsets'[t] = offsets[t]
  PROVE  Covered(t)'
BY DEF Covered, Settles

\* A loop that is not running has nothing to be right about.
LEMMA NoFlush ==
  ASSUME NEW t \in Tasks, flush'[t] = <<>>, pc'[t] # "sent"
  PROVE  FlushReleased(t)'
BY DEF FlushReleased, Increasing

(***************************************************************************)
(* The steps of a task, one lemma each.                                    *)
(***************************************************************************)
\* Every committed row read so far is settled when the checkpoint is where the
\* reading starts.
LEMMA StartStreamKeeps ==
  ASSUME TypeOK, NEW t \in Tasks, TaskInv(t), StartStream(t)
  PROVE  TaskInv(t)'
<1>1. /\ pc[t] = "init" /\ pc'[t] = "streaming" /\ cursor'[t] = offsets[t]
      /\ dedup'[t] = dedup[t] /\ buffer'[t] = buffer[t] /\ flush'[t] = flush[t]
      /\ offsets' = offsets /\ leader' = leader
      /\ kafka' = kafka /\ UNCHANGED fates
  BY DEF StartStream, Goto, TypeOK, VarTypes
<1>2. Settled(t)' = Settled(t)
  BY <1>1 DEF fates, Settled, Delivered
<1>3. Handled(t)' = offsets[t] /\ dedup[t] = NewFilter /\ buffer[t] = NewBuffer
  BY <1>1 DEF Handled, TaskInv, IdleEmpty
<1>4. flush[t] = <<>>
  BY <1>1 DEF TypeOK, TaskShape
<1>5. BufferPending(t)'
  BY <1>1, <1>3 DEF BufferPending, NewBuffer, Increasing
<1>6. FlushReleased(t)'
  BY <1>1, <1>4, NoFlush
<1>7. IdleEmpty(t)'
  BY <1>1, <1>3 DEF TaskInv, IdleEmpty
<1>8. FilterPast(t)'
  BY <1>1, <1>3 DEF FilterPast, NewFilter
<1>9. WorkAccounted(t)'
  BY <1>2, <1>3 DEF TaskInv, Covered, WorkAccounted
<1>10. Covered(t)'
  BY <1>1, <1>2 DEF TaskInv, Covered
<1> QED
  BY <1>5, <1>6, <1>7, <1>8, <1>9, <1>10 DEF TaskInv

\* Reading from the beginning forgets nothing: no row is behind it.
LEMMA StartFromZeroKeeps ==
  ASSUME TypeOK, NEW t \in Tasks, TaskInv(t), StartFromZero(t)
  PROVE  TaskInv(t)'
<1>1. /\ pc[t] = "init" /\ pc'[t] = "streaming" /\ cursor'[t] = 0
      /\ dedup'[t] = dedup[t] /\ buffer'[t] = buffer[t] /\ flush'[t] = flush[t]
      /\ offsets' = offsets /\ leader' = leader
      /\ kafka' = kafka /\ UNCHANGED fates
  BY DEF StartFromZero, Goto, TypeOK, VarTypes
<1>2. Settled(t)' = Settled(t)
  BY <1>1 DEF fates, Settled, Delivered
<1>3. Handled(t)' = 0 /\ dedup[t] = NewFilter /\ buffer[t] = NewBuffer
  BY <1>1 DEF Handled, TaskInv, IdleEmpty
<1>4. flush[t] = <<>>
  BY <1>1 DEF TypeOK, TaskShape
<1>5. BufferPending(t)'
  BY <1>1, <1>3 DEF BufferPending, NewBuffer, Increasing
<1>6. FlushReleased(t)'
  BY <1>1, <1>4, NoFlush
<1>7. IdleEmpty(t)'
  BY <1>1, <1>3 DEF TaskInv, IdleEmpty
<1>8. FilterPast(t)'
  BY <1>1, <1>3 DEF FilterPast, NewFilter
<1>9. WorkAccounted(t)'
  <2>1. \A p \in CommittedRows[t] : ~(p <= 0)
    BY CommittedIsPayload, LogTypes DEF Pos
  <2> QED
    BY <1>3, <2>1 DEF WorkAccounted
<1>10. Covered(t)'
  BY <1>1, <1>2 DEF TaskInv, Covered
<1> QED
  BY <1>5, <1>6, <1>7, <1>8, <1>9, <1>10 DEF TaskInv

\* A task that cannot start, or that takes an event to handle, keeps what it
\* holds.
LEMMA PcOnlyKeeps ==
  ASSUME TypeOK, NEW t \in Tasks, TaskInv(t),
         StartFails(t) \/ Pull(t)
  PROVE  TaskInv(t)'
<1>1. /\ dedup'[t] = dedup[t] /\ buffer'[t] = buffer[t] /\ flush'[t] = flush[t]
      /\ offsets' = offsets /\ leader' = leader
      /\ kafka' = kafka /\ UNCHANGED fates
  BY DEF StartFails, Pull
<1>2. /\ pc[t] \in {"init", "streaming"} /\ pc'[t] \in {"stopped", "throttled"}
      /\ pc'[t] = "throttled" => leader
  BY DEF StartFails, Pull, Goto, TypeOK, VarTypes
<1>3. Handled(t)' = Handled(t)
  BY <1>2 DEF Handled, StartFails, Pull, Goto, TypeOK, VarTypes
<1>4. Settled(t)' = Settled(t)
  BY <1>1 DEF fates, Settled, Delivered
<1>5. flush[t] = <<>>
  BY <1>2 DEF TypeOK, TaskShape
<1>6. BufferPending(t)'
  BY <1>1, <1>3 DEF TaskInv, BufferPending
<1>7. FlushReleased(t)'
  BY <1>1, <1>2, <1>5, NoFlush
<1>8. IdleEmpty(t)'
  BY <1>1, <1>2 DEF TaskInv, IdleEmpty
<1>9. FilterPast(t)'
  BY <1>1, <1>3 DEF TaskInv, FilterPast
<1>10. \A p \in CommittedRows[t] : Held(t, p)' <=> Held(t, p)
  BY <1>1 DEF Held
<1>11. WorkAccounted(t)' /\ Covered(t)'
  BY <1>1, <1>2, <1>3, <1>4, <1>10 DEF TaskInv, WorkAccounted, Covered
<1> QED
  BY <1>6, <1>7, <1>8, <1>9, <1>11 DEF TaskInv

\* A task that ends drops what it holds; what is checkpointed stays settled.
LEMMA BreakKeeps ==
  ASSUME TypeOK, NEW t \in Tasks, TaskInv(t), Break(t)
  PROVE  TaskInv(t)'
<1>1. /\ pc[t] = "streaming" /\ pc'[t] = "stopped" /\ leader /\ leader' = leader
      /\ dedup'[t] = NewFilter /\ buffer'[t] = NewBuffer /\ flush'[t] = flush[t]
      /\ offsets' = offsets /\ kafka' = kafka /\ UNCHANGED fates
  BY DEF Break, Goto, TypeOK, VarTypes
<1>2. Settled(t)' = Settled(t)
  BY <1>1 DEF fates, Settled, Delivered
<1>3. flush'[t] = <<>>
  BY <1>1 DEF TypeOK, TaskShape
<1>4. BufferPending(t)'
  BY <1>1 DEF BufferPending, NewBuffer, Increasing
<1>5. FlushReleased(t)'
  BY <1>1, <1>3, NoFlush
<1>6. IdleEmpty(t)' /\ WorkAccounted(t)'
  BY <1>1 DEF IdleEmpty, WorkAccounted
<1>7. FilterPast(t)'
  BY <1>1 DEF FilterPast, NewFilter
<1>8. Covered(t)'
  BY <1>1, <1>2 DEF TaskInv, Covered
<1> QED
  BY <1>4, <1>5, <1>6, <1>7, <1>8 DEF TaskInv

\* A standby holds nothing, and the event it drops is marked.
LEMMA DiscardKeeps ==
  ASSUME TypeOK, NEW t \in Tasks, TaskInv(t), Discard(t)
  PROVE  TaskInv(t)'
<1> DEFINE c == cursor[t] + 1
<1>1. /\ pc[t] = "streaming" /\ pc' = pc /\ cursor'[t] = c /\ ~leader /\ ~leader'
      /\ dedup'[t] = dedup[t] /\ buffer'[t] = buffer[t] /\ flush'[t] = flush[t]
      /\ offsets' = offsets /\ kafka' = kafka /\ dlq' = dlq /\ refused' = refused
      /\ suppressed' = suppressed /\ discarded'[t] = discarded[t] \cup {c}
  BY DEF Discard, Mark, TypeOK, VarTypes
<1>2. c \in Pos(t) /\ cursor[t] \in Nat
  BY LogTypes DEF Discard, Pos, TypeOK, VarTypes
<1>3. Settles(t) /\ c \in Settled(t)'
  BY <1>1, SettleStep DEF Settled
<1>4. Handled(t) = c - 1 /\ Handled(t)' = c
  BY <1>1, <1>2 DEF Handled
<1>5. buffer[t] = NewBuffer /\ flush[t] = <<>>
  BY <1>1 DEF TaskInv, IdleEmpty, TypeOK, TaskShape
<1> HIDE DEF c
<1>6. BufferPending(t)'
  BY <1>1, <1>5 DEF BufferPending, NewBuffer, Increasing
<1>7. FlushReleased(t)'
  BY <1>1, <1>5, NoFlush
<1>8. IdleEmpty(t)'
  BY <1>1 DEF TaskInv, IdleEmpty
<1>9. FilterPast(t)'
  BY <1>1, <1>2, <1>4, FilterAdvances DEF TaskInv
<1>10. WorkAccounted(t)'
  BY <1>1, <1>2, <1>3, <1>4, WorkAdvances DEF TaskInv
<1>11. Covered(t)'
  BY <1>1, <1>3, CoveredStays DEF TaskInv
<1> QED
  BY <1>6, <1>7, <1>8, <1>9, <1>10, <1>11 DEF TaskInv

\* An event that passed the limiter is the first one not handled yet.
LEMMA Admitted ==
  ASSUME TypeOK, NEW t \in Tasks, pc[t] = "throttled"
  PROVE  /\ cursor[t] \in Pos(t) /\ cursor[t] \in Nat
         /\ Handled(t) = cursor[t] - 1 /\ flush[t] = <<>>
<1>1. cursor[t] \in 0..Len(Log[t]) /\ cursor[t] > 0 /\ Len(Log[t]) \in Nat
  BY LogTypes DEF TypeOK, TaskShape
<1>2. flush[t] = <<>>
  BY DEF TypeOK, TaskShape
<1> QED
  BY <1>1, <1>2 DEF Handled, Pos

\* check_and_track adds no id but the one it is given.
LEMMA AfterCheckIds ==
  ASSUME NEW f \in FilterType, NEW id
  PROVE  AfterCheck(f, id).processed_ids \subseteq f.processed_ids \cup {id}
BY DEF AfterCheck, FilterType

\* An event that is suppressed is no end marker: markers have ids of their own.
LEMMA SuppressKeeps ==
  ASSUME TypeOK, NEW t \in Tasks, TaskInv(t), Suppress(t)
  PROVE  TaskInv(t)'
<1> DEFINE c == cursor[t]
<1>1. /\ pc[t] = "throttled" /\ pc'[t] = "streaming" /\ cursor'[t] = c
      /\ leader' = leader
      /\ dedup'[t] = dedup[t] /\ buffer'[t] = buffer[t] /\ flush'[t] = flush[t]
      /\ offsets' = offsets /\ kafka' = kafka /\ dlq' = dlq /\ refused' = refused
      /\ discarded' = discarded /\ suppressed'[t] = suppressed[t] \cup {c}
      /\ Log[t][c].id \in dedup[t].processed_ids
  BY DEF Suppress, Mark, Goto, Event, IsDuplicate, TypeOK, VarTypes
<1>2. /\ c \in Pos(t) /\ c \in Nat /\ Handled(t) = c - 1 /\ Handled(t)' = c
      /\ flush[t] = <<>>
  BY <1>1, Admitted DEF Handled
<1>3. Settles(t) /\ c \in Settled(t)'
  BY <1>1, SettleStep DEF Settled
<1>4. ~IsEnd(t, c)
  <2>1. PICK q \in 1..(c - 1) : Log[t][q].id = Log[t][c].id
    BY <1>1, <1>2 DEF TaskInv, FilterPast
  <2>2. q \in Pos(t) \ {c}
    BY <1>2, LogTypes DEF Pos
  <2> QED
    BY <1>2, <2>1, <2>2, MarkerAssumption
<1> HIDE DEF c
<1>5. BufferPending(t)'
  BY <1>1, <1>2, <1>4, BufferAdvances DEF TaskInv
<1>6. FlushReleased(t)'
  BY <1>1, <1>2, NoFlush
<1>7. IdleEmpty(t)'
  BY <1>1 DEF TaskInv, IdleEmpty
<1>8. FilterPast(t)'
  BY <1>1, <1>2, FilterAdvances DEF TaskInv
<1>9. WorkAccounted(t)'
  BY <1>1, <1>2, <1>3, WorkAdvances DEF TaskInv
<1>10. Covered(t)'
  BY <1>1, <1>3, CoveredStays DEF TaskInv
<1> QED
  BY <1>5, <1>6, <1>7, <1>8, <1>9, <1>10 DEF TaskInv

\* What check_and_track does to a task whose event is new.
LEMMA Tracked ==
  ASSUME TypeOK, NEW t \in Tasks, FilterPast(t), Track(t), cursor' = cursor,
         pc'[t] # "throttled"
  PROVE  /\ pc[t] = "throttled"
         /\ cursor[t] \in Pos(t) /\ cursor[t] \in Nat /\ flush[t] = <<>>
         /\ Handled(t) = cursor[t] - 1 /\ Handled(t)' = cursor[t]
         /\ FilterPast(t)'
<1>1. pc[t] = "throttled" /\ dedup'[t] = AfterCheck(dedup[t], Event(t).id)
  BY DEF Track, TypeOK, VarTypes
<1>2. /\ cursor[t] \in Pos(t) /\ cursor[t] \in Nat /\ flush[t] = <<>>
      /\ Handled(t) = cursor[t] - 1
  BY <1>1, Admitted
<1>3. Handled(t)' = cursor[t]
  BY DEF Handled
<1>4. dedup'[t].processed_ids \subseteq
        dedup[t].processed_ids \cup {Log[t][cursor[t]].id}
  BY <1>1, AfterCheckIds DEF TypeOK, VarTypes, Event
<1> QED
  BY <1>1, <1>2, <1>3, <1>4, FilterAdvances

\* An event that fails validation is no end marker and goes to the dead letter
\* queue; one that is a watermark row is neither a marker nor owed to anyone.
LEMMA RejectAbsorbKeeps ==
  ASSUME TypeOK, NEW t \in Tasks, TaskInv(t), Reject(t) \/ Absorb(t)
  PROVE  TaskInv(t)'
<1> DEFINE c == cursor[t]
<1>1. /\ pc'[t] = "streaming" /\ cursor' = cursor /\ leader' = leader /\ Track(t)
      /\ buffer'[t] = buffer[t] /\ flush'[t] = flush[t]
      /\ offsets' = offsets /\ kafka' = kafka /\ refused' = refused
      /\ discarded' = discarded /\ suppressed' = suppressed
      /\ dlq[t] \subseteq dlq'[t]
  BY DEF Reject, Absorb, Mark, Goto, fates, TypeOK, VarTypes
<1>2. /\ pc[t] = "throttled" /\ c \in Pos(t) /\ c \in Nat /\ flush[t] = <<>>
      /\ Handled(t) = c - 1 /\ Handled(t)' = c /\ FilterPast(t)'
  BY <1>1, Tracked DEF TaskInv
<1>3. Settles(t)
  BY <1>1, SettleStep
<1>4. ~IsEnd(t, c)
  BY <1>2, MarkerAssumption DEF Reject, Absorb, Event
<1>5. c \in CommittedRows[t] => c \in Settled(t)'
  <2>1. CASE Reject(t)
    BY <2>1 DEF Reject, Mark, Settled, TypeOK, VarTypes
  <2>2. CASE Absorb(t)
    BY <2>2, CommittedIsPayload DEF Absorb, Event, Payload
  <2> QED
    BY <2>1, <2>2
<1> HIDE DEF c
<1>6. BufferPending(t)'
  BY <1>1, <1>2, <1>4, BufferAdvances DEF TaskInv
<1>7. FlushReleased(t)'
  BY <1>1, <1>2, NoFlush
<1>8. IdleEmpty(t)'
  BY <1>1, <1>2 DEF TaskInv, IdleEmpty
<1>9. WorkAccounted(t)'
  BY <1>1, <1>2, <1>3, <1>5, WorkAdvances DEF TaskInv
<1>10. Covered(t)'
  BY <1>1, <1>3, CoveredStays DEF TaskInv
<1> QED
  BY <1>2, <1>6, <1>7, <1>8, <1>9, <1>10 DEF TaskInv

\* The transaction buffer gets the event: a row outside any transaction is
\* flushed, a row inside one waits, a commit flushes the rows that waited for
\* it and a rollback drops them.
LEMMA ProcessKeeps ==
  ASSUME TypeOK, NEW t \in Tasks, TaskInv(t), Process(t)
  PROVE  TaskInv(t)'
<1> DEFINE c == cursor[t]
           tx == Log[t][c].tx
           op == Log[t][c].op
<1>1. /\ cursor' = cursor /\ leader' = leader /\ Track(t)
      /\ offsets' = offsets /\ kafka' = kafka /\ UNCHANGED fates
      /\ buffer'[t] = AfterProcess(buffer[t], tx, op, c)
      /\ flush'[t] = ProcessOutput(buffer[t], tx, op, c)
      /\ pc'[t] \in {"streaming", "flushing"}
      /\ t \in Guarded => ~Log[t][c].watermark
  BY DEF Process, Resume, Goto, Event, TypeOK, VarTypes
<1>2. /\ pc[t] = "throttled" /\ c \in Pos(t) /\ c \in Nat /\ flush[t] = <<>>
      /\ Handled(t) = c - 1 /\ Handled(t)' = c /\ FilterPast(t)'
  BY <1>1, Tracked DEF TaskInv
<1>3. /\ tx \in Txs \cup {NoTx} /\ op \in Operation
      /\ buffer[t] \in [Txs -> Seq(Pos(t))]
  BY <1>2, EventFields DEF TypeOK, TaskShape
<1>4. Settled(t)' = Settled(t)
  BY <1>1 DEF fates, Settled, Delivered
<1>5. IdleEmpty(t)'
  BY <1>1, <1>2 DEF TaskInv, IdleEmpty
<1>6. Covered(t)'
  BY <1>1, <1>4 DEF TaskInv, Covered
<1>7. ASSUME NEW x \in Txs, NEW i \in DOMAIN buffer[t][x]
      PROVE  LET p == buffer[t][x][i]
             IN  /\ p \in 1..(c - 1) /\ p \in Pos(t) /\ p \in 1..c /\ p < c
                 /\ Log[t][p].tx = x /\ Payload(t, p) /\ Pending(t, p, c - 1)
  BY <1>2, <1>3, LogTypes DEF TaskInv, BufferPending, Pos
<1>8. ASSUME NEW p \in CommittedRows[t], p <= c, p # c
      PROVE  p \in Settled(t) \/ Held(t, p)
  <2>1. p <= c - 1
    BY <1>2, <1>8, CommittedIsPayload
  <2> QED
    BY <1>2, <1>8, <2>1 DEF TaskInv, WorkAccounted
<1>9. ASSUME NEW x \in Txs PROVE Increasing(buffer[t][x])
  BY DEF TaskInv, BufferPending
<1> HIDE DEF c, tx, op
<1>10. CASE tx = NoTx
  <2>1. buffer'[t] = buffer[t] /\ flush'[t] = <<c>>
    BY <1>1, <1>10 DEF AfterProcess, ProcessOutput
  <2>2. ~IsEnd(t, c) /\ Payload(t, c) /\ ~Pending(t, c, c)
    BY <1>1, <1>10 DEF IsEnd, Payload, Pending, tx
  <2>3. c \in CommittedRows[t]
    BY <1>2, <1>10, <2>2 DEF CommittedRows, Committed, tx
  <2>4. BufferPending(t)'
    BY <1>2, <2>1, <2>2, BufferAdvances DEF TaskInv
  <2>5. FlushReleased(t)'
    <3>1. \A i \in DOMAIN flush'[t] : flush'[t][i] = c
      BY <2>1
    <3>2. Increasing(flush'[t])
      BY <2>1 DEF Increasing
    <3>3. cursor'[t] = c /\ c \in 1..c
      BY <1>1, <1>2, LogTypes DEF c, Pos
    <3> QED
      BY <1>1, <2>2, <2>3, <3>1, <3>2, <3>3 DEF FlushReleased
  <2>6. WorkAccounted(t)'
    <3> SUFFICES ASSUME NEW p \in CommittedRows[t], p <= c
                 PROVE  p \in Settled(t) \/ Held(t, p)'
      BY <1>2, <1>4 DEF WorkAccounted
    <3>1. CASE p = c
      <4>1. 1 \in DOMAIN flush'[t] /\ flush'[t][1] = p
        BY <2>1, <3>1
      <4> QED
        BY <4>1 DEF Held
    <3>2. CASE p # c
      BY <1>2, <1>8, <2>1, <3>2 DEF Held
    <3> QED
      BY <3>1, <3>2
  <2> QED
    BY <1>2, <1>5, <1>6, <2>4, <2>5, <2>6 DEF TaskInv
<1>11. CASE tx # NoTx /\ op \notin {"Commit", "Rollback"}
  <2>1. /\ tx \in Txs /\ flush'[t] = <<>>
        /\ buffer'[t] = [buffer[t] EXCEPT ![tx] = Append(@, c)]
    BY <1>1, <1>3, <1>11 DEF AfterProcess, ProcessOutput
  <2>2. ~IsEnd(t, c) /\ Payload(t, c) /\ Pending(t, c, c)
    BY <1>1, <1>2, <1>11 DEF IsEnd, Payload, Pending, tx, op
  <2>3. ASSUME NEW x \in Txs, NEW i \in DOMAIN buffer[t][x]
        PROVE  Pending(t, buffer[t][x][i], c)
    <3>1. ~EndsTx(t, c, buffer[t][x][i])
      BY <2>2 DEF EndsTx
    <3> QED
      BY <1>2, <1>7, <3>1, PendingStep
  <2>4. BufferPending(t)'
    <3> SUFFICES ASSUME NEW x \in Txs
                 PROVE  /\ Increasing(buffer'[t][x])
                        /\ \A i \in DOMAIN buffer'[t][x] :
                             LET p == buffer'[t][x][i]
                             IN  /\ p \in 1..c /\ Log[t][p].tx = x
                                 /\ Payload(t, p) /\ Pending(t, p, c)
      BY <1>2 DEF BufferPending
    <3>1. CASE x # tx
      <4>1. buffer'[t][x] = buffer[t][x]
        BY <1>3, <2>1, <3>1
      <4> QED
        BY <1>7, <1>9, <2>3, <4>1
    <3>2. CASE x = tx
      <4>1. buffer'[t][x] = Append(buffer[t][x], c) /\ buffer[t][x] \in Seq(Pos(t))
        BY <1>3, <2>1, <3>2
      <4>2. \A i \in DOMAIN buffer'[t][x] :
              \/ i \in DOMAIN buffer[t][x] /\ buffer'[t][x][i] = buffer[t][x][i]
              \/ i = Len(buffer[t][x]) + 1 /\ buffer'[t][x][i] = c
        BY <4>1, <1>2
      <4>3. \A i \in DOMAIN buffer[t][x] : buffer[t][x][i] < c
        BY <1>7
      <4>4. \A i \in DOMAIN buffer[t][x] : i \in Nat /\ i < Len(buffer[t][x]) + 1
        BY <4>1
      <4>5. Increasing(buffer'[t][x])
        <5> SUFFICES ASSUME NEW i \in DOMAIN buffer'[t][x],
                            NEW j \in DOMAIN buffer'[t][x], i < j
                     PROVE  buffer'[t][x][i] < buffer'[t][x][j]
          BY DEF Increasing
        <5>1. Len(buffer[t][x]) \in Nat
          BY <4>1
        <5>2. i \in DOMAIN buffer[t][x] /\ buffer'[t][x][i] = buffer[t][x][i]
          BY <4>2, <4>4, <5>1
        <5>3. CASE j \in DOMAIN buffer[t][x] /\ buffer'[t][x][j] = buffer[t][x][j]
          BY <1>9, <5>2, <5>3 DEF Increasing
        <5>4. CASE buffer'[t][x][j] = c
          BY <4>3, <5>2, <5>4
        <5> QED
          BY <4>2, <5>3, <5>4
      <4>6. /\ c \in 1..c /\ Log[t][c].tx = x /\ Payload(t, c) /\ Pending(t, c, c)
        BY <1>2, <2>2, <3>2, LogTypes DEF tx, Pos
      <4> QED
        BY <1>7, <2>3, <4>2, <4>5, <4>6
    <3> QED
      BY <3>1, <3>2
  <2>5. FlushReleased(t)'
    BY <1>1, <2>1, NoFlush
  <2>6. WorkAccounted(t)'
    <3> SUFFICES ASSUME NEW p \in CommittedRows[t], p <= c
                 PROVE  p \in Settled(t) \/ Held(t, p)'
      BY <1>2, <1>4 DEF WorkAccounted
    <3> DEFINE old == buffer[t][Log[t][p].tx]
               new == buffer'[t][Log[t][p].tx]
    <3>1. CASE p = c
      <4>1. new = Append(buffer[t][tx], c) /\ buffer[t][tx] \in Seq(Pos(t))
        BY <1>3, <2>1, <3>1 DEF tx
      <4>2. Len(buffer[t][tx]) + 1 \in DOMAIN new /\ new[Len(buffer[t][tx]) + 1] = p
        BY <4>1, <3>1, <1>2
      <4> QED
        BY <2>1, <3>1, <4>2 DEF Held, tx
    <3>2. CASE p # c /\ Held(t, p)
      <4>1. PICK i \in DOMAIN old : Log[t][p].tx \in Txs /\ old[i] = p
        BY <1>2, <3>2 DEF Held
      <4>2. old \in Seq(Pos(t)) /\ (new = old \/ new = Append(old, c))
        BY <1>3, <2>1, <4>1
      <4> HIDE DEF old, new
      <4>3. i \in DOMAIN new /\ new[i] = p
        <5>1. CASE new = old
          BY <4>1, <5>1
        <5>2. CASE new = Append(old, c)
          BY <1>2, <4>1, <4>2, <5>2
        <5> QED
          BY <4>2, <5>1, <5>2
      <4> USE DEF old, new
      <4> QED
        BY <4>1, <4>3 DEF Held
    <3> QED
      BY <1>8, <3>1, <3>2
  <2> QED
    BY <1>2, <1>5, <1>6, <2>4, <2>5, <2>6 DEF TaskInv
<1>12. CASE tx # NoTx /\ op \in {"Commit", "Rollback"}
  <2>1. /\ tx \in Txs /\ buffer'[t] = [buffer[t] EXCEPT ![tx] = <<>>]
        /\ op = "Commit" => flush'[t] = buffer[t][tx]
        /\ op # "Commit" => flush'[t] = <<>>
    BY <1>1, <1>3, <1>12 DEF AfterProcess, ProcessOutput
  <2>2. IsEnd(t, c) /\ c \notin CommittedRows[t]
    BY <1>12, CommittedIsPayload DEF IsEnd, Payload, tx, op
  <2>3. ASSUME NEW x \in Txs, x # tx, NEW i \in DOMAIN buffer[t][x]
        PROVE  Pending(t, buffer[t][x][i], c)
    <3>1. ~EndsTx(t, c, buffer[t][x][i])
      BY <1>7, <2>3 DEF EndsTx, tx
    <3> QED
      BY <1>2, <1>7, <3>1, PendingStep
  <2>4. ASSUME NEW i \in DOMAIN buffer[t][tx]
        PROVE  LET p == buffer[t][tx][i]
               IN  EndsTx(t, c, p) /\ ~Pending(t, p, c)
    <3>1. EndsTx(t, c, buffer[t][tx][i])
      BY <1>7, <2>1, <2>2 DEF EndsTx, tx
    <3> QED
      BY <1>2, <1>7, <2>1, <3>1, EndReleases
  <2>5. BufferPending(t)'
    <3> SUFFICES ASSUME NEW x \in Txs
                 PROVE  /\ Increasing(buffer'[t][x])
                        /\ \A i \in DOMAIN buffer'[t][x] :
                             LET p == buffer'[t][x][i]
                             IN  /\ p \in 1..c /\ Log[t][p].tx = x
                                 /\ Payload(t, p) /\ Pending(t, p, c)
      BY <1>2 DEF BufferPending
    <3>1. CASE x # tx
      <4>1. buffer'[t][x] = buffer[t][x]
        BY <1>3, <2>1, <3>1
      <4> QED
        BY <1>7, <1>9, <2>3, <3>1, <4>1
    <3>2. CASE x = tx
      <4>1. buffer'[t][x] = <<>>
        BY <1>3, <2>1, <3>2
      <4> QED
        BY <4>1 DEF Increasing
    <3> QED
      BY <3>1, <3>2
  <2>6. FlushReleased(t)'
    <3>1. CASE op = "Commit"
      <4>1. \A i \in DOMAIN flush'[t] :
              /\ flush'[t][i] \in 1..c /\ flush'[t][i] \in CommittedRows[t]
              /\ ~Pending(t, flush'[t][i], c)
        BY <1>2, <1>7, <2>1, <2>4, <3>1, CommitCommits DEF op
      <4>2. Increasing(flush'[t]) /\ cursor'[t] = c
        BY <1>1, <1>9, <2>1, <3>1 DEF c
      <4> QED
        BY <1>1, <4>1, <4>2 DEF FlushReleased
    <3>2. CASE op # "Commit"
      BY <1>1, <2>1, <3>2, NoFlush
    <3> QED
      BY <3>1, <3>2
  <2>7. WorkAccounted(t)'
    <3> SUFFICES ASSUME NEW p \in CommittedRows[t], p <= c, Held(t, p)
                 PROVE  Held(t, p)'
      BY <1>2, <1>4, <1>8, <2>2 DEF WorkAccounted
    <3>1. PICK i \in DOMAIN buffer[t][Log[t][p].tx] :
            Log[t][p].tx \in Txs /\ buffer[t][Log[t][p].tx][i] = p
      BY <1>2 DEF Held
    <3>2. CASE Log[t][p].tx # tx
      <4>1. buffer'[t][Log[t][p].tx] = buffer[t][Log[t][p].tx]
        BY <1>3, <2>1, <3>1, <3>2
      <4> QED
        BY <3>1, <4>1 DEF Held
    <3>3. CASE Log[t][p].tx = tx /\ op = "Commit"
      BY <2>1, <3>1, <3>3 DEF Held
    <3>4. CASE Log[t][p].tx = tx /\ op # "Commit"
      <4>1. /\ p \in Pos(t) /\ p < c /\ Pending(t, p, c - 1) /\ EndsTx(t, c, p)
        BY <1>7, <2>1, <2>4, <3>1, <3>4
      <4> QED
        BY <1>2, <3>4, <4>1, RollbackDrops DEF op
    <3> QED
      BY <3>2, <3>3, <3>4
  <2> QED
    BY <1>2, <1>5, <1>6, <2>5, <2>6, <2>7 DEF TaskInv
<1> QED
  BY <1>10, <1>11, <1>12

\* The for loop is done with its first row: the rest is as it was.
LEMMA LoopAdvances ==
  ASSUME TypeOK, NEW t \in Tasks, TaskInv(t), pc[t] \in {"flushing", "sent"},
         Resume(t, Tail(flush[t])), leader' = leader, cursor' = cursor,
         dedup' = dedup, buffer' = buffer,
         Settles(t), Head(flush[t]) \in Settled(t)', Covered(t)'
  PROVE  TaskInv(t)'
<1> DEFINE s == flush[t]
           r == flush'[t]
<1>1. /\ s \in Seq(Pos(t)) /\ s # <<>> /\ r = Tail(s)
      /\ pc'[t] \in {"streaming", "flushing"}
  BY DEF Resume, Goto, TypeOK, VarTypes, TaskShape
<1>2. /\ Handled(t) = cursor[t] /\ Handled(t)' = cursor[t]
  BY <1>1 DEF Handled
<1> HIDE DEF s, r
<1>3. \A i \in DOMAIN r : i \in Nat /\ i + 1 \in DOMAIN s /\ r[i] = s[i + 1]
  BY <1>1
<1>4. \A i \in DOMAIN s : i = 1 \/ (i - 1 \in DOMAIN r /\ r[i - 1] = s[i])
  BY <1>1
<1>5. s[1] = Head(s)
  BY <1>1
<1>6. BufferPending(t)'
  BY <1>2 DEF TaskInv, BufferPending
<1>7. FlushReleased(t)'
  <2>1. Increasing(r)
    <3> SUFFICES ASSUME NEW i \in DOMAIN r, NEW j \in DOMAIN r, i < j
                 PROVE  r[i] < r[j]
      BY DEF Increasing
    <3>1. i + 1 < j + 1
      BY <1>3
    <3> QED
      BY <1>3, <3>1 DEF TaskInv, FlushReleased, Increasing, s
  <2>2. \A i \in DOMAIN r : /\ r[i] \in 1..cursor[t] /\ r[i] \in CommittedRows[t]
                            /\ ~Pending(t, r[i], cursor[t])
    BY <1>3 DEF TaskInv, FlushReleased, s
  <2> QED
    BY <1>1, <2>1, <2>2 DEF FlushReleased, r
<1>8. IdleEmpty(t)'
  BY <1>1 DEF TaskInv, IdleEmpty
<1>9. FilterPast(t)'
  BY <1>2 DEF TaskInv, FilterPast
<1>10. WorkAccounted(t)'
  <2> SUFFICES ASSUME NEW p \in CommittedRows[t], p <= cursor[t]
               PROVE  p \in Settled(t)' \/ Held(t, p)'
    BY <1>2 DEF WorkAccounted
  <2>1. p \in Settled(t) \/ Held(t, p)
    BY <1>2 DEF TaskInv, WorkAccounted
  <2>2. CASE p \in Settled(t)
    BY <2>2 DEF Settles
  <2>3. CASE \E i \in DOMAIN s : s[i] = p
    <3>1. PICK i \in DOMAIN s : s[i] = p
      BY <2>3
    <3>2. CASE i = 1
      BY <1>5, <3>1, <3>2 DEF s
    <3>3. CASE i # 1
      BY <1>4, <3>1, <3>3 DEF Held, r
    <3> QED
      BY <3>2, <3>3
  <2>4. CASE Held(t, p) /\ ~\E i \in DOMAIN s : s[i] = p
    BY <2>4 DEF Held, s
  <2> QED
    BY <2>1, <2>2, <2>3, <2>4
<1> QED
  BY <1>6, <1>7, <1>8, <1>9, <1>10 DEF TaskInv

\* A row the transform fails on is in the dead letter queue.
LEMMA DeadLetterKeeps ==
  ASSUME TypeOK, NEW t \in Tasks, TaskInv(t), DeadLetter(t)
  PROVE  TaskInv(t)'
<1>1. /\ pc[t] = "flushing" /\ Resume(t, Tail(flush[t])) /\ leader' = leader
      /\ cursor' = cursor /\ dedup' = dedup /\ buffer' = buffer
      /\ offsets' = offsets /\ kafka' = kafka /\ discarded' = discarded
      /\ refused' = refused /\ suppressed' = suppressed
      /\ dlq'[t] = dlq[t] \cup {Head(flush[t])}
  BY DEF DeadLetter, Mark, TypeOK, VarTypes
<1>2. Settles(t) /\ Head(flush[t]) \in Settled(t)'
  BY <1>1, SettleStep DEF Settled
<1>3. Covered(t)'
  BY <1>1, <1>2, CoveredStays DEF TaskInv
<1> QED
  BY <1>1, <1>2, <1>3, LoopAdvances

\* A row that was sent, or that the sink refused, is settled and stays first
\* in the loop until its offset is saved.
LEMMA SendKeeps ==
  ASSUME TypeOK, NEW t \in Tasks, TaskInv(t), Send(t) \/ SendFails(t)
  PROVE  TaskInv(t)'
<1> DEFINE h == Head(flush[t])
           e == [pos |-> h, run |-> crashes]
<1>1. /\ pc[t] = "flushing" /\ pc'[t] = "sent" /\ leader' = leader
      /\ cursor' = cursor /\ dedup' = dedup /\ buffer' = buffer /\ flush' = flush
      /\ offsets' = offsets
  BY DEF Send, SendFails, Goto, TypeOK, VarTypes
<1>2. h \in Nat /\ e \in [pos : Nat, run : Nat]
  <2>1. h \in Pos(t)
    BY <1>1, FlushHead
  <2> QED
    BY <2>1, LogTypes DEF TypeOK, VarTypes
<1>3. Settles(t) /\ h \in Settled(t)'
  <2>1. CASE Send(t)
    <3>1. /\ kafka'[t] = Append(kafka[t], e) /\ dlq' = dlq /\ discarded' = discarded
          /\ refused' = refused /\ suppressed' = suppressed
      BY <2>1 DEF Send, fates, TypeOK, VarTypes
    <3>2. kafka[t] \in Seq([pos : Nat, run : Nat])
      BY DEF TypeOK, VarTypes
    <3>3. Len(kafka[t]) + 1 \in DOMAIN kafka'[t]
          /\ kafka'[t][Len(kafka[t]) + 1].pos = h
      BY <1>2, <3>1, <3>2
    <3>4. h \in Delivered(t)'
      BY <3>3 DEF Delivered
    <3> QED
      BY <1>2, <3>1, <3>4, SettleStep DEF Settled
  <2>2. CASE SendFails(t)
    <3>1. /\ kafka' = kafka /\ dlq' = dlq /\ discarded' = discarded
          /\ suppressed' = suppressed /\ refused'[t] = refused[t] \cup {h}
      BY <2>2 DEF SendFails, Mark, TypeOK, VarTypes
    <3> QED
      BY <3>1, SettleStep DEF Settled
  <2> QED
    BY <2>1, <2>2
<1>4. Handled(t) = cursor[t] /\ Handled(t)' = cursor[t]
  BY <1>1 DEF Handled
<1>5. BufferPending(t)'
  BY <1>1, <1>4 DEF TaskInv, BufferPending
<1>6. FlushReleased(t)'
  BY <1>1, <1>3 DEF TaskInv, FlushReleased
<1>7. IdleEmpty(t)'
  BY <1>1 DEF TaskInv, IdleEmpty
<1>8. FilterPast(t)'
  BY <1>1, <1>4 DEF TaskInv, FilterPast
<1>9. WorkAccounted(t)'
  <2>1. \A p \in CommittedRows[t] : Held(t, p) => Held(t, p)'
    BY <1>1 DEF Held
  <2> QED
    BY <1>1, <1>3, <1>4, <2>1 DEF TaskInv, WorkAccounted, Settles
<1>10. Covered(t)'
  BY <1>1, <1>3, CoveredStays DEF TaskInv
<1> QED
  BY <1>5, <1>6, <1>7, <1>8, <1>9, <1>10 DEF TaskInv

\* The heart of the argument: when a row has been sent, every committed row
\* before it is settled.  A row still buffered would be waiting while a later
\* one was released, and a row still in the loop comes after this one.
LEMMA SentCovers ==
  ASSUME TypeOK, NEW t \in Tasks, TaskInv(t), pc[t] = "sent",
         NEW p \in CommittedRows[t], p <= Head(flush[t])
  PROVE  p \in Settled(t)
<1> DEFINE h == Head(flush[t])
           c == cursor[t]
<1>1. flush[t] \in Seq(Pos(t)) /\ flush[t] # <<>>
  BY DEF TypeOK, TaskShape
<1>2. 1 \in DOMAIN flush[t] /\ flush[t][1] = h
  BY <1>1
<1>3. /\ h \in 1..c /\ h \in CommittedRows[t] /\ ~Pending(t, h, c)
      /\ h \in Settled(t)
  BY <1>2 DEF TaskInv, FlushReleased
<1>4. /\ c \in Nat /\ c \in Pos(t) /\ h <= c
      /\ p \in Pos(t) /\ p \in Nat /\ Payload(t, p)
      /\ h \in Pos(t) /\ h \in Nat /\ Payload(t, h)
  BY <1>3, CommittedIsPayload, LogTypes DEF TypeOK, TaskShape, Pos
<1>5. p \in Settled(t) \/ Held(t, p)
  <2>1. Handled(t) = c
    BY DEF Handled
  <2>2. p <= c
    BY <1>4
  <2> QED
    BY <2>1, <2>2 DEF TaskInv, WorkAccounted
<1>6. CASE p = h
  BY <1>3, <1>6
<1>7. CASE p # h
  <2>1. p < h
    BY <1>4, <1>7
  <2>2. ~Pending(t, p, c)
    BY <1>3, <1>4, <2>1, EarlierReleased
  <2>3. ASSUME NEW i \in DOMAIN flush[t] PROVE flush[t][i] # p
    <3>1. i = 1 \/ 1 < i
      BY <1>1
    <3>2. h <= flush[t][i]
      BY <1>2, <1>4, <3>1 DEF TaskInv, FlushReleased, Increasing
    <3> QED
      BY <1>4, <2>1, <3>2
  <2>4. ASSUME Log[t][p].tx \in Txs,
               NEW i \in DOMAIN buffer[t][Log[t][p].tx]
        PROVE  buffer[t][Log[t][p].tx][i] # p
    BY <2>2, <2>4 DEF TaskInv, BufferPending, Handled
  <2> QED
    BY <1>5, <2>3, <2>4 DEF Held
<1> QED
  BY <1>6, <1>7

\* Saving the offset of the row just sent, or failing to.
LEMMA SaveKeeps ==
  ASSUME TypeOK, NEW t \in Tasks, TaskInv(t), Save(t) \/ SaveFails(t)
  PROVE  TaskInv(t)'
<1>1. /\ pc[t] = "sent" /\ Resume(t, Tail(flush[t])) /\ leader' = leader
      /\ cursor' = cursor /\ dedup' = dedup /\ buffer' = buffer
      /\ kafka' = kafka /\ UNCHANGED fates
      /\ offsets'[t] \in {offsets[t], Head(flush[t])}
  BY DEF Save, SaveFails, TypeOK, VarTypes
<1>2. Settled(t)' = Settled(t)
  BY <1>1 DEF fates, Settled, Delivered
<1>3. Settles(t) /\ Head(flush[t]) \in Settled(t)'
  BY <1>1, <1>2 DEF Settles, TaskInv, FlushReleased
<1>4. Covered(t)'
  <2> SUFFICES ASSUME NEW p \in CommittedRows[t], p <= offsets'[t]
               PROVE  p \in Settled(t)
    BY <1>2 DEF Covered
  <2>1. CASE offsets'[t] = offsets[t]
    BY <2>1 DEF TaskInv, Covered
  <2>2. CASE offsets'[t] = Head(flush[t])
    BY <1>1, <2>2, SentCovers
  <2> QED
    BY <1>1, <2>1, <2>2
<1> QED
  BY <1>1, <1>3, <1>4, LoopAdvances

\* A restart keeps the checkpoint and all that was settled, and nothing else
\* is needed: what was held is read again.
LEMMA CrashKeeps ==
  ASSUME TypeOK, NEW t \in Tasks, TaskInv(t), Crash
  PROVE  TaskInv(t)'
<1>1. /\ pc'[t] = "init" /\ cursor'[t] = 0 /\ dedup'[t] = NewFilter
      /\ buffer'[t] = NewBuffer /\ flush'[t] = <<>> /\ offsets' = offsets
      /\ kafka' = kafka /\ UNCHANGED fates
  BY DEF Crash
<1>2. Settled(t)' = Settled(t)
  BY <1>1 DEF fates, Settled, Delivered
<1>3. Handled(t)' = 0
  BY <1>1 DEF Handled
<1>4. BufferPending(t)'
  BY <1>1 DEF BufferPending, NewBuffer, Increasing
<1>5. FlushReleased(t)'
  BY <1>1, NoFlush
<1>6. IdleEmpty(t)'
  BY <1>1 DEF IdleEmpty
<1>7. FilterPast(t)'
  BY <1>1 DEF FilterPast, NewFilter
<1>8. WorkAccounted(t)'
  <2>1. \A p \in CommittedRows[t] : ~(p <= 0)
    BY CommittedIsPayload, LogTypes DEF Pos
  <2> QED
    BY <1>3, <2>1 DEF WorkAccounted
<1>9. Covered(t)'
  BY <1>1, <1>2 DEF TaskInv, Covered
<1> QED
  BY <1>4, <1>5, <1>6, <1>7, <1>8, <1>9 DEF TaskInv

(***************************************************************************)
(* The theorems.                                                           *)
(***************************************************************************)
\* At the start nothing is read and nothing is checkpointed.
LEMMA InitForgetsNothing ==
  ASSUME Init
  PROVE  NothingForgotten
<1> SUFFICES ASSUME NEW t \in Tasks PROVE TaskInv(t)
  BY DEF NothingForgotten
<1>1. /\ pc[t] = "init" /\ cursor[t] = 0 /\ dedup[t] = NewFilter
      /\ buffer[t] = NewBuffer /\ flush[t] = <<>> /\ offsets[t] = 0
      /\ Handled(t) = 0
  BY DEF Init, Handled
<1>2. BufferPending(t)
  BY <1>1 DEF BufferPending, NewBuffer, Increasing
<1>3. FlushReleased(t) /\ IdleEmpty(t)
  BY <1>1 DEF FlushReleased, IdleEmpty, Increasing
<1>4. FilterPast(t)
  BY <1>1 DEF FilterPast, NewFilter
<1>5. \A p \in CommittedRows[t] : ~(p <= 0)
  BY CommittedIsPayload, LogTypes DEF Pos
<1>6. WorkAccounted(t) /\ Covered(t)
  BY <1>1, <1>5 DEF WorkAccounted, Covered
<1> QED
  BY <1>2, <1>3, <1>4, <1>6 DEF TaskInv

\* A step of task t leaves the state of every other task alone.
LEMMA OthersFramed ==
  ASSUME TypeOK, NEW t \in Tasks, TaskStep(t) \/ TaskFault(t),
         NEW u \in Tasks, u # t
  PROVE  Frame(u) /\ leader' = leader
<1> USE DEF TypeOK, VarTypes, Frame, Goto, Mark, fates
<1>1. CASE StartStream(t)
  BY <1>1 DEF StartStream
<1>2. CASE Discard(t)
  BY <1>2 DEF Discard
<1>3. CASE Pull(t)
  BY <1>3 DEF Pull
<1>4. CASE Suppress(t)
  BY <1>4 DEF Suppress
<1>5. CASE Reject(t)
  BY <1>5 DEF Reject, Track
<1>6. CASE Absorb(t)
  BY <1>6 DEF Absorb, Track
<1>7. CASE Process(t)
  BY <1>7 DEF Process, Track, Resume
<1>8. CASE DeadLetter(t)
  BY <1>8 DEF DeadLetter, Resume
<1>9. CASE Send(t)
  BY <1>9 DEF Send
<1>10. CASE Save(t)
  BY <1>10 DEF Save, Resume
<1>11. CASE StartFromZero(t)
  BY <1>11 DEF StartFromZero
<1>12. CASE StartFails(t)
  BY <1>12 DEF StartFails
<1>13. CASE Break(t)
  BY <1>13 DEF Break
<1>14. CASE SendFails(t)
  BY <1>14 DEF SendFails
<1>15. CASE SaveFails(t)
  BY <1>15 DEF SaveFails, Resume
<1> QED
  BY <1>1, <1>2, <1>3, <1>4, <1>5, <1>6, <1>7, <1>8, <1>9, <1>10, <1>11, <1>12,
     <1>13, <1>14, <1>15 DEF TaskStep, TaskFault

\* Every step of the engine keeps the account of every task.
LEMMA NextKeeps ==
  ASSUME TypeOK, NothingForgotten, [Next]_vars
  PROVE  NothingForgotten'
<1> SUFFICES ASSUME NEW u \in Tasks PROVE TaskInv(u)'
  BY DEF NothingForgotten
<1>1. TaskInv(u)
  BY DEF NothingForgotten
<1>2. CASE UNCHANGED vars
  <2>1. Frame(u) /\ leader' = leader
    BY <1>2 DEF vars, volatile, fates, counters, Frame
  <2> QED
    BY <1>1, <2>1, FrameKeeps
<1>3. CASE Elect
  <2>1. Frame(u) /\ leader'
    BY <1>3 DEF Elect, fates, Frame
  <2> QED
    BY <1>1, <2>1, FrameKeeps
<1>4. CASE Crash
  BY <1>1, <1>4, CrashKeeps
<1>5. ASSUME NEW t \in Tasks, TaskStep(t) \/ TaskFault(t), t # u PROVE TaskInv(u)'
  BY <1>1, <1>5, OthersFramed, FrameKeeps
<1>6. CASE TaskStep(u)
  BY <1>1, <1>6, StartStreamKeeps, DiscardKeeps, PcOnlyKeeps, SuppressKeeps,
     RejectAbsorbKeeps, ProcessKeeps, DeadLetterKeeps, SendKeeps, SaveKeeps
     DEF TaskStep
<1>7. CASE TaskFault(u)
  BY <1>1, <1>7, StartFromZeroKeeps, PcOnlyKeeps, BreakKeeps, SendKeeps, SaveKeeps
     DEF TaskFault
<1> QED
  BY <1>2, <1>3, <1>4, <1>5, <1>6, <1>7 DEF Next

\* The engine never forgets a row it has read, for every log that keeps the
\* contract of the sources, every number of tasks and every bound on crashes,
\* failed saves, failed sends and unreadable checkpoints.
THEOREM Accounting == Spec => []NothingForgotten
<1>1. Init => NothingForgotten
  BY InitForgetsNothing
<1>2. TypeOK /\ NothingForgotten /\ [Next]_vars => NothingForgotten'
  BY NextKeeps
<1> QED
  BY <1>1, <1>2, Typing, PTL DEF Spec

\* save_offset never records an offset with an unsettled committed row at or
\* before it: a restart from the checkpoint skips no row silently.
THEOREM CheckpointSafety == Spec => []CheckpointCovers
<1>1. NothingForgotten => CheckpointCovers
  BY DEF NothingForgotten, TaskInv, CheckpointCovers
<1> QED
  BY <1>1, Accounting, PTL

\* Only Send adds to the topic, and what it adds is the head of the loop.
LEMMA SentIsHead ==
  ASSUME TypeOK, [Next]_vars, NEW u \in Tasks, kafka'[u] # kafka[u]
  PROVE  Send(u)
<1> USE DEF TypeOK, VarTypes
<1>1. ~UNCHANGED vars /\ ~Elect /\ ~Crash
  BY DEF vars, Elect, Crash
<1>2. PICK t \in Tasks : TaskStep(t) \/ TaskFault(t)
  BY <1>1 DEF Next
<1>3. t = u
  BY <1>2, OthersFramed DEF Frame
<1> QED
  BY <1>2, <1>3 DEF TaskStep, TaskFault, StartStream, Discard, Pull, Suppress,
     Reject, Absorb, Process, DeadLetter, Save, StartFromZero, StartFails, Break,
     SendFails, SaveFails

\* kafka.send is called for a row only after the commit of its transaction has
\* been read, and never for a row of a transaction that was rolled back.
THEOREM SendsCommitted == Spec => SendAfterCommit
<1> DEFINE A == \A t \in Tasks : kafka'[t] # kafka[t] =>
                  LET p == Last(kafka'[t]).pos
                  IN  p \in CommittedRows[t] /\ ~Pending(t, p, cursor[t])
<1>1. TypeOK /\ NothingForgotten /\ [Next]_vars => [A]_vars
  <2> SUFFICES ASSUME TypeOK, NothingForgotten, [Next]_vars,
                      NEW t \in Tasks, kafka'[t] # kafka[t]
               PROVE  LET p == Last(kafka'[t]).pos
                      IN  p \in CommittedRows[t] /\ ~Pending(t, p, cursor[t])
    OBVIOUS
  <2> DEFINE h == Head(flush[t])
  <2>1. Send(t)
    BY SentIsHead
  <2>2. h \in Pos(t)
    BY <2>1, FlushHead DEF Send
  <2>3. h \in CommittedRows[t] /\ ~Pending(t, h, cursor[t])
    <3>1. flush[t] \in Seq(Pos(t)) /\ flush[t] # <<>>
      BY <2>1 DEF Send, TypeOK, TaskShape
    <3>2. 1 \in DOMAIN flush[t] /\ flush[t][1] = h
      BY <3>1
    <3> QED
      BY <3>2 DEF NothingForgotten, TaskInv, FlushReleased
  <2>4. Last(kafka'[t]).pos = h
    <3> DEFINE e == [pos |-> h, run |-> crashes]
    <3>1. /\ kafka[t] \in Seq([pos : Nat, run : Nat])
          /\ e \in [pos : Nat, run : Nat] /\ e.pos = h
      BY <2>2, LogTypes DEF TypeOK, VarTypes
    <3>2. kafka'[t] = Append(kafka[t], e)
      BY <2>1 DEF Send, TypeOK, VarTypes
    <3> HIDE DEF e
    <3>3. Len(kafka'[t]) = Len(kafka[t]) + 1 /\ kafka'[t][Len(kafka[t]) + 1] = e
      BY <3>1, <3>2
    <3> QED
      BY <3>1, <3>3 DEF Last
  <2> QED
    BY <2>3, <2>4
<1> QED
  BY <1>1, Typing, Accounting, PTL DEF Spec, SendAfterCommit

-----------------------------------------------------------------------------
(***************************************************************************)
(* What a consumer of the topic sees.                                      *)
(***************************************************************************)

\* A row sent by this incarnation was read by it, was released by its commit,
\* and lies before everything its loop has still to send.
SentBehind(t) ==
  \A i \in DOMAIN kafka[t] : kafka[t][i].run = crashes =>
    LET p == kafka[t][i].pos
    IN  /\ p \in 1..Handled(t) /\ Payload(t, p) /\ ~Pending(t, p, Handled(t))
        /\ \A k \in DOMAIN flush[t] :
             \/ p < flush[t][k]
             \/ pc[t] = "sent" /\ k = 1 /\ p <= flush[t][k]

\* What was sent is a position of the log, sent by this incarnation or an
\* earlier one; each incarnation sent in log order.
SentSorted(t) ==
  /\ \A i \in DOMAIN kafka[t] : /\ kafka[t][i].pos \in Pos(t)
                                /\ kafka[t][i].run <= crashes
  /\ \A i, j \in DOMAIN kafka[t] :
       i < j /\ kafka[t][i].run = kafka[t][j].run
         => kafka[t][i].pos < kafka[t][j].pos

\* The checkpoint is behind what is held and behind what is still to be read.
CheckpointBehind(t) ==
  rewinds[t] = 0 =>
    /\ pc[t] \notin {"init", "stopped"} => offsets[t] <= Handled(t)
    /\ \A x \in Txs : \A i \in DOMAIN buffer[t][x] : buffer[t][x][i] > offsets[t]
    /\ \A k \in DOMAIN flush[t] : flush[t][k] > offsets[t]

\* The rows a restart would send again, and the one whose save is pending.
Exposed(t) == {p \in Delivered(t) : p > offsets[t]}
Unsaved(t) == IF pc[t] = "sent" /\ Head(flush[t]) \in Exposed(t) THEN 1 ELSE 0

\* The account of repeated sends: what was sent twice and what may still be is
\* paid for by a crash, a failed save or the save that is pending.
RepeatsPaid(t) ==
  rewinds[t] = 0 =>
    Len(kafka[t]) + Cardinality(Exposed(t))
      <= Cardinality(Delivered(t)) + crashes + saveErrs[t] + Unsaved(t)

OrderTask(t) ==
  SentBehind(t) /\ SentSorted(t) /\ CheckpointBehind(t) /\ RepeatsPaid(t)

\* The inductive invariant behind SessionOrder, CheckpointMonotone and
\* DuplicateBound.
SendsInOrder == \A t \in Tasks : OrderTask(t)

\* The topic of a source is a sequence of positions and incarnations.
LEMMA TopicFacts ==
  ASSUME TypeOK, NEW t \in Tasks, SentSorted(t)
  PROVE  /\ kafka[t] \in Seq([pos : Nat, run : Nat])
         /\ DOMAIN kafka[t] = 1..Len(kafka[t]) /\ Len(kafka[t]) \in Nat
         /\ \A i \in DOMAIN kafka[t] : kafka[t][i].pos \in Nat /\ kafka[t][i].run \in Nat
         /\ Delivered(t) \subseteq Pos(t) /\ Delivered(t) \subseteq Nat
<1>1. kafka[t] \in Seq([pos : Nat, run : Nat])
  BY DEF TypeOK, VarTypes
<1>2. \A i \in DOMAIN kafka[t] : kafka[t][i] \in [pos : Nat, run : Nat]
  <2>1. PICK R, s : R = [pos : Nat, run : Nat] /\ s = kafka[t]
    OBVIOUS
  <2>2. s \in Seq(R)
    BY <1>1, <2>1
  <2>3. \A i \in DOMAIN s : s[i] \in R
    BY <2>2
  <2> QED
    BY <2>1, <2>3
<1>3. Delivered(t) \subseteq Pos(t)
  BY DEF Delivered, SentSorted
<1> QED
  BY <1>1, <1>2, <1>3, LogTypes

\* Sets of positions are finite.
LEMMA PositionSets ==
  ASSUME NEW t \in Tasks, NEW S, S \subseteq Pos(t)
  PROVE  IsFiniteSet(S) /\ Cardinality(S) \in Nat
<1>1. 1 \in Int /\ Len(Log[t]) \in Int
  BY LogTypes
<1>2. IsFiniteSet(Pos(t))
  BY <1>1, FS_Interval DEF Pos
<1> QED
  BY <1>2, FS_Subset, FS_CardinalityType

\* A row that was released stays released when more of the log is read.
LEMMA ReleasedStays ==
  ASSUME NEW t \in Tasks, NEW p \in Nat, NEW c \in Nat, NEW d \in Nat, c <= d,
         ~Pending(t, p, c)
  PROVE  ~Pending(t, p, d)
<1>1. \A q \in (p + 1)..c : q \in (p + 1)..d
  OBVIOUS
<1> QED
  BY <1>1 DEF Pending

\* What is released lies before what waits: the contract of the source.
LEMMA ReleasedBeforeWaiting ==
  ASSUME NEW t \in Tasks, NEW c \in Pos(t), NEW p \in 1..c, NEW q \in 1..c,
         Payload(t, p), Payload(t, q), ~Pending(t, p, c), Pending(t, q, c)
  PROVE  p < q
<1>1. p \in Pos(t) /\ q \in Pos(t) /\ p \in Nat /\ q \in Nat /\ p <= c
  BY LogTypes DEF Pos
<1>2. p # q
  OBVIOUS
<1>3. ~(q < p)
  BY <1>1, EarlierReleased
<1> QED
  BY <1>1, <1>2, <1>3

\* The position a task has handled is a number, and one of the log when it is
\* not 0.
LEMMA HandledType ==
  ASSUME TypeOK, NEW t \in Tasks
  PROVE  Handled(t) \in Nat /\ (Handled(t) # 0 => Handled(t) \in Pos(t))
<1>1. cursor[t] \in 0..Len(Log[t]) /\ Len(Log[t]) \in Nat
  BY LogTypes DEF TypeOK, TaskShape
<1>2. pc[t] = "throttled" => cursor[t] > 0
  BY DEF TypeOK, TaskShape
<1> QED
  BY <1>1, <1>2 DEF Handled, Pos

\* What is buffered comes after what this incarnation sent.
LEMMA BufferedBehind ==
  ASSUME TypeOK, NEW t \in Tasks, TaskInv(t), SentBehind(t),
         NEW i \in DOMAIN kafka[t], kafka[t][i].run = crashes,
         NEW x \in Txs, NEW j \in DOMAIN buffer[t][x]
  PROVE  kafka[t][i].pos < buffer[t][x][j]
<1>1. PICK p, q, c : p = kafka[t][i].pos /\ q = buffer[t][x][j] /\ c = Handled(t)
  OBVIOUS
<1>2. p \in 1..c /\ Payload(t, p) /\ ~Pending(t, p, c)
  BY <1>1 DEF SentBehind
<1>3. q \in 1..c /\ Payload(t, q) /\ Pending(t, q, c)
  BY <1>1 DEF TaskInv, BufferPending
<1>4. c \in Pos(t)
  <2>1. c \in Nat /\ (c # 0 => c \in Pos(t))
    BY <1>1, HandledType
  <2> QED
    BY <1>2, <2>1
<1>5. p < q
  BY <1>2, <1>3, <1>4, ReleasedBeforeWaiting
<1> QED
  BY <1>1, <1>5

\* No save is pending but while the task waits for one.
LEMMA NoneUnsaved ==
  ASSUME NEW t \in Tasks, pc[t] # "sent"
  PROVE  Unsaved(t) = 0
BY DEF Unsaved

\* The same after a step.
LEMMA NoneUnsavedNext ==
  ASSUME NEW t \in Tasks, pc'[t] # "sent"
  PROVE  Unsaved(t)' = 0
BY DEF Unsaved

(***************************************************************************)
(* Steps that send nothing and save nothing.                               *)
(***************************************************************************)
LEMMA QuietKeeps ==
  ASSUME TypeOK, NEW t \in Tasks, OrderTask(t), Handled(t)' \in Nat,
         kafka'[t] = kafka[t], crashes' = crashes, offsets'[t] = offsets[t],
         saveErrs'[t] = saveErrs[t], flush'[t] = flush[t],
         buffer'[t] \in {buffer[t], NewBuffer}, pc[t] # "sent", pc'[t] # "sent", Handled(t)' >= Handled(t),
         rewinds'[t] = 0 =>
           /\ rewinds[t] = 0
           /\ pc'[t] \notin {"init", "stopped"} => offsets[t] <= Handled(t)'
  PROVE  OrderTask(t)'
<1>1. PICK c \in Nat, d \in Nat : c = Handled(t) /\ d = Handled(t)'
  BY HandledType
<1>2. c <= d
  BY <1>1
<1>3. SentBehind(t)'
  <2> SUFFICES ASSUME NEW i \in DOMAIN kafka[t], kafka[t][i].run = crashes
               PROVE  LET p == kafka[t][i].pos
                      IN  /\ p \in 1..d /\ Payload(t, p) /\ ~Pending(t, p, d)
                          /\ \A k \in DOMAIN flush[t] : p < flush[t][k]
    BY <1>1 DEF SentBehind
  <2>1. PICK p : p = kafka[t][i].pos
    OBVIOUS
  <2>2. p \in 1..c /\ Payload(t, p) /\ ~Pending(t, p, c)
        /\ \A k \in DOMAIN flush[t] : p < flush[t][k]
    BY <1>1, <2>1 DEF OrderTask, SentBehind
  <2>3. p \in 1..d /\ p \in Nat
    BY <1>2, <2>2
  <2>4. ~Pending(t, p, d)
    BY <1>2, <2>2, <2>3, ReleasedStays
  <2> QED
    BY <2>1, <2>2, <2>3, <2>4
<1>4. SentSorted(t)'
  BY DEF OrderTask, SentSorted
<1>5. CheckpointBehind(t)'
  <2>1. CASE buffer'[t] = buffer[t]
    BY <2>1 DEF OrderTask, CheckpointBehind
  <2>2. CASE buffer'[t] = NewBuffer
    BY <2>2 DEF OrderTask, CheckpointBehind, NewBuffer
  <2> QED
    BY <2>1, <2>2
<1>6. RepeatsPaid(t)'
  <2>1. Unsaved(t) = 0 /\ Unsaved(t)' = 0
    BY NoneUnsaved, NoneUnsavedNext
  <2>2. Delivered(t)' = Delivered(t)
    BY DEF Delivered
  <2>3. Exposed(t)' = Exposed(t)
    BY <2>2 DEF Exposed
  <2> QED
    BY <2>1, <2>2, <2>3 DEF OrderTask, RepeatsPaid
<1> QED
  BY <1>3, <1>4, <1>5, <1>6 DEF OrderTask

\* Starting, ending, reading, dropping, suppressing and rejecting are quiet.
LEMMA QuietSteps ==
  ASSUME TypeOK, NEW t \in Tasks, TaskInv(t), OrderTask(t),
         \/ StartStream(t) \/ StartFromZero(t) \/ StartFails(t) \/ Break(t)
         \/ Pull(t) \/ Discard(t) \/ Suppress(t) \/ Reject(t) \/ Absorb(t)
  PROVE  OrderTask(t)'
<1> USE DEF TypeOK, VarTypes
<1>1. /\ kafka'[t] = kafka[t] /\ crashes' = crashes /\ offsets'[t] = offsets[t]
      /\ saveErrs'[t] = saveErrs[t] /\ flush'[t] = flush[t]
      /\ buffer'[t] \in {buffer[t], NewBuffer}
  BY DEF StartStream, StartFromZero, StartFails, Break, Pull, Discard, Suppress,
         Reject, Absorb, counters
<1>2. offsets[t] \in Nat /\ cursor[t] \in Nat /\ rewinds[t] \in Nat
  OBVIOUS
<1>3. pc[t] \in {"init", "streaming", "throttled"}
  BY DEF StartStream, StartFromZero, StartFails, Break, Pull, Discard, Suppress,
         Reject, Absorb, Track
<1>4. rewinds[t] = 0 /\ pc[t] \notin {"init", "stopped"} => offsets[t] <= Handled(t)
  BY DEF OrderTask, CheckpointBehind
<1> DEFINE Onward ==
      /\ Handled(t)' \in Nat /\ Handled(t)' >= Handled(t)
      /\ pc[t] # "sent" /\ pc'[t] # "sent"
      /\ rewinds'[t] = 0 =>
           /\ rewinds[t] = 0
           /\ pc'[t] \notin {"init", "stopped"} => offsets[t] <= Handled(t)'
<1>5. ASSUME StartStream(t) \/ StartFromZero(t) PROVE Onward
  <2>1. /\ pc[t] = "init" /\ pc'[t] = "streaming" /\ cursor[t] = 0
        /\ cursor'[t] \in Nat
        /\ rewinds'[t] = 0 => rewinds[t] = 0 /\ cursor'[t] = offsets[t]
    BY <1>2, <1>5 DEF StartStream, StartFromZero, Goto, TaskInv, IdleEmpty, counters
  <2>2. Handled(t) = 0 /\ Handled(t)' = cursor'[t]
    BY <2>1 DEF Handled
  <2> QED
    BY <1>1, <1>2, <2>1, <2>2
<1>6. ASSUME StartFails(t) \/ Break(t) \/ Pull(t) PROVE Onward
  <2>1. /\ pc'[t] \in {"stopped", "throttled"} /\ rewinds'[t] = rewinds[t]
        /\ pc'[t] = "throttled" => pc[t] = "streaming"
    BY <1>6 DEF StartFails, Break, Pull, Goto, counters
  <2>2. Handled(t)' = Handled(t) /\ Handled(t) \in Nat
    <3>1. pc[t] # "throttled"
      BY <1>6 DEF StartFails, Break, Pull
    <3>2. cursor'[t] = IF pc'[t] = "throttled" THEN cursor[t] + 1 ELSE cursor[t]
      BY <1>6 DEF StartFails, Break, Pull, Goto
    <3> QED
      BY <1>2, <3>1, <3>2 DEF Handled
  <2> QED
    BY <1>1, <1>3, <1>4, <2>1, <2>2
<1>7. ASSUME Discard(t) PROVE Onward
  <2>1. /\ pc[t] = "streaming" /\ pc'[t] = "streaming" /\ rewinds'[t] = rewinds[t]
        /\ cursor'[t] = cursor[t] + 1
    BY <1>7 DEF Discard, counters
  <2>2. Handled(t) = cursor[t] /\ Handled(t)' = cursor[t] + 1
    BY <2>1 DEF Handled
  <2> QED
    BY <1>1, <1>2, <1>4, <2>1, <2>2
<1>8. ASSUME Suppress(t) \/ Reject(t) \/ Absorb(t) PROVE Onward
  <2>1. /\ pc[t] = "throttled" /\ pc'[t] = "streaming" /\ rewinds'[t] = rewinds[t]
        /\ cursor'[t] = cursor[t]
    BY <1>8 DEF Suppress, Reject, Absorb, Track, Goto, counters
  <2>2. Handled(t) = cursor[t] - 1 /\ Handled(t)' = cursor[t]
    BY <2>1 DEF Handled
  <2>3. cursor[t] > 0
    BY <2>1 DEF TaskShape
  <2> QED
    BY <1>1, <1>2, <1>4, <2>1, <2>2, <2>3
<1>9. Onward
  BY <1>5, <1>6, <1>7, <1>8
<1> HIDE DEF TypeOK, VarTypes
<1> QED
  BY <1>1, <1>9, QuietKeeps

\* A step that leaves the task alone.
LEMMA FrameOrder ==
  ASSUME NEW t \in Tasks, OrderTask(t), Frame(t), crashes' = crashes,
         saveErrs'[t] = saveErrs[t], rewinds'[t] = rewinds[t]
  PROVE  OrderTask(t)'
<1> USE DEF Frame
<1>1. Handled(t)' = Handled(t) /\ Delivered(t)' = Delivered(t)
  BY DEF Handled, Delivered
<1>2. Exposed(t)' = Exposed(t)
  BY <1>1 DEF Exposed
<1>3. Unsaved(t)' = Unsaved(t)
  BY <1>2 DEF Unsaved
<1>4. SentBehind(t)'
  BY <1>1 DEF OrderTask, SentBehind
<1>5. SentSorted(t)' /\ CheckpointBehind(t)'
  BY <1>1 DEF OrderTask, SentSorted, CheckpointBehind
<1>6. RepeatsPaid(t)'
  BY <1>1, <1>2, <1>3 DEF OrderTask, RepeatsPaid
<1> QED
  BY <1>4, <1>5, <1>6 DEF OrderTask

\* The buffer takes the event or releases a transaction: either way the loop
\* gets rows that come after everything sent and after the checkpoint.
LEMMA ProcessOrder ==
  ASSUME TypeOK, NEW t \in Tasks, TaskInv(t), OrderTask(t), Process(t)
  PROVE  OrderTask(t)'
<1>1. PICK c, tx, op : c = cursor[t] /\ tx = Log[t][c].tx /\ op = Log[t][c].op
  OBVIOUS
<1>2. /\ cursor' = cursor /\ Track(t) /\ pc'[t] \in {"streaming", "flushing"}
      /\ offsets'[t] = offsets[t] /\ kafka'[t] = kafka[t] /\ crashes' = crashes
      /\ saveErrs'[t] = saveErrs[t] /\ rewinds'[t] = rewinds[t]
      /\ buffer'[t] = AfterProcess(buffer[t], tx, op, c)
      /\ flush'[t] = ProcessOutput(buffer[t], tx, op, c)
  BY <1>1 DEF Process, Resume, Goto, Event, counters, TypeOK, VarTypes
<1>3. /\ pc[t] = "throttled" /\ c \in Pos(t) /\ c \in Nat /\ flush[t] = <<>>
      /\ Handled(t) = c - 1 /\ Handled(t)' = c
  BY <1>1, <1>2, Tracked DEF TaskInv
<1>4. /\ tx \in Txs \cup {NoTx} /\ buffer[t] \in [Txs -> Seq(Pos(t))]
      /\ offsets[t] \in Nat /\ Pos(t) \subseteq Nat
  BY <1>1, <1>3, EventFields, LogTypes DEF TypeOK, TaskShape, VarTypes
<1>5. ASSUME NEW k \in DOMAIN flush'[t]
      PROVE  \/ flush'[t][k] = c
             \/ tx \in Txs /\ k \in DOMAIN buffer[t][tx] /\ flush'[t][k] = buffer[t][tx][k]
  BY <1>2, <1>4 DEF ProcessOutput
<1>6. ASSUME NEW x \in Txs, NEW k \in DOMAIN buffer'[t][x]
      PROVE  \/ buffer'[t][x][k] = c
             \/ k \in DOMAIN buffer[t][x] /\ buffer'[t][x][k] = buffer[t][x][k]
  <2>1. \/ buffer'[t][x] = buffer[t][x]
        \/ buffer'[t][x] = <<>>
        \/ buffer'[t][x] = Append(buffer[t][x], c)
    BY <1>2, <1>4 DEF AfterProcess
  <2>2. PICK b \in Seq(Pos(t)) : b = buffer[t][x]
    BY <1>4
  <2>3. PICK d : d = buffer'[t][x]
    OBVIOUS
  <2>4. k \in DOMAIN d /\ (d = b \/ d = <<>> \/ d = Append(b, c))
    BY <2>1, <2>2, <2>3
  <2>5. d[k] = c \/ (k \in DOMAIN b /\ d[k] = b[k])
    <3>1. CASE d = Append(b, c)
      <4>1. /\ Len(d) = Len(b) + 1 /\ d \in Seq(Pos(t)) /\ d[Len(b) + 1] = c
            /\ \A i \in 1..Len(b) : d[i] = b[i]
        BY <1>3, <3>1, AppendProperties
      <4> QED
        BY <2>4, <4>1
    <3> QED
      BY <2>4, <3>1
  <2> QED
    BY <2>2, <2>3, <2>5
<1>7. ASSUME NEW i \in DOMAIN kafka[t], kafka[t][i].run = crashes
      PROVE  LET p == kafka[t][i].pos
             IN  /\ p \in 1..c /\ Payload(t, p) /\ ~Pending(t, p, c)
                 /\ \A k \in DOMAIN flush'[t] : p < flush'[t][k]
  <2>1. PICK p : p = kafka[t][i].pos
    OBVIOUS
  <2>2. p \in 1..(c - 1) /\ Payload(t, p) /\ ~Pending(t, p, c - 1)
    BY <1>3, <1>7, <2>1 DEF OrderTask, SentBehind
  <2>3. p \in 1..c /\ p < c /\ p \in Nat /\ c - 1 \in Nat
    BY <1>3, <2>2
  <2>4. ~Pending(t, p, c)
    BY <1>3, <2>2, <2>3, ReleasedStays
  <2>5. \A x \in Txs : \A k \in DOMAIN buffer[t][x] : p < buffer[t][x][k]
    BY <1>7, <2>1, BufferedBehind DEF OrderTask
  <2>6. \A k \in DOMAIN flush'[t] : p < flush'[t][k]
    BY <1>5, <2>3, <2>5
  <2> QED
    BY <2>1, <2>2, <2>3, <2>4, <2>6
<1>8. SentBehind(t)'
  BY <1>2, <1>3, <1>7 DEF SentBehind
<1>9. SentSorted(t)'
  BY <1>2 DEF OrderTask, SentSorted
<1>10. CheckpointBehind(t)'
  <2> SUFFICES ASSUME rewinds[t] = 0
               PROVE  /\ offsets[t] <= c
                      /\ \A x \in Txs : \A i \in DOMAIN buffer'[t][x] :
                           buffer'[t][x][i] > offsets[t]
                      /\ \A k \in DOMAIN flush'[t] : flush'[t][k] > offsets[t]
    BY <1>2, <1>3 DEF CheckpointBehind
  <2>1. offsets[t] <= c - 1
    BY <1>3 DEF OrderTask, CheckpointBehind
  <2>2. c > offsets[t] /\ offsets[t] <= c
    BY <1>3, <1>4, <2>1
  <2>3. \A x \in Txs : \A i \in DOMAIN buffer[t][x] : buffer[t][x][i] > offsets[t]
    BY DEF OrderTask, CheckpointBehind
  <2> QED
    BY <1>5, <1>6, <2>2, <2>3
<1>11. RepeatsPaid(t)'
  <2>1. Unsaved(t) = 0 /\ Unsaved(t)' = 0
    BY <1>2, <1>3, NoneUnsaved, NoneUnsavedNext
  <2>2. Delivered(t)' = Delivered(t)
    BY <1>2 DEF Delivered
  <2>3. Exposed(t)' = Exposed(t)
    BY <1>2, <2>2 DEF Exposed
  <2> QED
    BY <1>2, <2>1, <2>2, <2>3 DEF OrderTask, RepeatsPaid
<1> QED
  BY <1>8, <1>9, <1>10, <1>11 DEF OrderTask

(***************************************************************************)
(* The for loop over the mutations.                                        *)
(***************************************************************************)
\* The first row of the loop and the rows behind it.
LEMMA LoopFacts ==
  ASSUME TypeOK, NEW t \in Tasks, TaskInv(t), pc[t] \in {"flushing", "sent"}
  PROVE  /\ 1 \in DOMAIN flush[t] /\ flush[t][1] = Head(flush[t])
         /\ Head(flush[t]) \in Nat /\ Head(flush[t]) \in 1..cursor[t]
         /\ Head(flush[t]) \in Pos(t) /\ Payload(t, Head(flush[t]))
         /\ ~Pending(t, Head(flush[t]), cursor[t])
         /\ Handled(t) = cursor[t] /\ cursor[t] \in Pos(t)
         /\ \A k \in DOMAIN flush[t] : /\ flush[t][k] \in Nat
                                       /\ k # 1 => Head(flush[t]) < flush[t][k]
         /\ \A k \in DOMAIN Tail(flush[t]) :
              /\ k + 1 \in DOMAIN flush[t] /\ k + 1 # 1
              /\ Tail(flush[t])[k] = flush[t][k + 1]
<1>1. PICK s \in Seq(Pos(t)) : s = flush[t]
  BY DEF TypeOK, TaskShape
<1>2. s # <<>>
  BY <1>1 DEF TypeOK, TaskShape
<1>3. 1 \in DOMAIN s /\ s[1] = Head(s)
  BY <1>2
<1>4. /\ Increasing(s)
      /\ \A i \in DOMAIN s : /\ s[i] \in 1..cursor[t] /\ s[i] \in CommittedRows[t]
                             /\ ~Pending(t, s[i], cursor[t])
  BY <1>1 DEF TaskInv, FlushReleased
<1>5. s[1] \in Nat /\ s[1] \in Pos(t) /\ Payload(t, s[1])
  BY <1>3, <1>4, CommittedIsPayload
<1>6. Handled(t) = cursor[t]
  BY DEF Handled
<1>7. cursor[t] \in Pos(t)
  <2>1. cursor[t] \in 0..Len(Log[t]) /\ Len(Log[t]) \in Nat
    BY LogTypes DEF TypeOK, TaskShape
  <2>2. s[1] \in 1..cursor[t]
    BY <1>3, <1>4
  <2> QED
    BY <2>1, <2>2 DEF Pos
<1>8. \A k \in DOMAIN s : s[k] \in Nat
  BY <1>4, CommittedIsPayload
<1>9. \A k \in DOMAIN s : k # 1 => s[1] < s[k]
  <2>1. \A k \in DOMAIN s : k # 1 => 1 < k
    BY <1>1
  <2> QED
    BY <1>3, <1>4, <2>1 DEF Increasing
<1>10. \A k \in DOMAIN Tail(s) : /\ k + 1 \in DOMAIN s /\ k + 1 # 1
                                 /\ Tail(s)[k] = s[k + 1]
  BY <1>2
<1> QED
  BY <1>1, <1>3, <1>4, <1>5, <1>6, <1>7, <1>8, <1>9, <1>10

\* The loop goes on with the rest of its rows.
LEMMA LoopOrder ==
  ASSUME TypeOK, NEW t \in Tasks, TaskInv(t), OrderTask(t),
         pc[t] \in {"flushing", "sent"}, pc'[t] \in {"streaming", "flushing"},
         flush'[t] = Tail(flush[t]), kafka'[t] = kafka[t], crashes' = crashes,
         cursor'[t] = cursor[t]
  PROVE  SentBehind(t)' /\ SentSorted(t)' /\ Handled(t)' = cursor[t]
<1>1. Handled(t)' = cursor[t] /\ Handled(t) = cursor[t]
  BY DEF Handled
<1>2. SentSorted(t)'
  BY DEF OrderTask, SentSorted
<1>3. ASSUME NEW i \in DOMAIN kafka[t], kafka[t][i].run = crashes
      PROVE  LET p == kafka[t][i].pos
             IN  /\ p \in 1..cursor[t] /\ Payload(t, p) /\ ~Pending(t, p, cursor[t])
                 /\ \A k \in DOMAIN flush'[t] : p < flush'[t][k]
  <2>1. PICK p, h : p = kafka[t][i].pos /\ h = Head(flush[t])
    OBVIOUS
  <2>2. /\ p \in 1..cursor[t] /\ Payload(t, p) /\ ~Pending(t, p, cursor[t])
        /\ \A k \in DOMAIN flush[t] : p < flush[t][k] \/ (k = 1 /\ p <= flush[t][k])
    BY <1>1, <1>3, <2>1 DEF OrderTask, SentBehind
  <2>3. p \in Nat /\ h \in Nat /\ p <= h
    BY <2>1, <2>2, LoopFacts
  <2>4. ASSUME NEW k \in DOMAIN flush'[t] PROVE p < flush'[t][k]
    <3>1. PICK f : f = flush[t][k + 1]
      OBVIOUS
    <3>2. f \in Nat /\ h < f /\ flush'[t][k] = f
      BY <2>1, <3>1, LoopFacts
    <3> QED
      BY <2>3, <3>2
  <2> QED
    BY <2>1, <2>2, <2>4
<1>4. SentBehind(t)'
  BY <1>1, <1>3 DEF SentBehind
<1> QED
  BY <1>1, <1>2, <1>4

\* Unsaved counts at most one row, and only one that a restart would repeat.
LEMMA UnsavedBound ==
  ASSUME TypeOK, NEW t \in Tasks, SentSorted(t)
  PROVE  /\ Unsaved(t) \in {0, 1}
         /\ Unsaved(t) <= Cardinality(Exposed(t))
         /\ Cardinality(Exposed(t)) \in Nat /\ IsFiniteSet(Exposed(t))
         /\ Cardinality(Delivered(t)) \in Nat /\ IsFiniteSet(Delivered(t))
<1>1. Delivered(t) \subseteq Pos(t) /\ Exposed(t) \subseteq Pos(t)
  BY TopicFacts DEF Exposed
<1>2. /\ Cardinality(Exposed(t)) \in Nat /\ IsFiniteSet(Exposed(t))
      /\ Cardinality(Delivered(t)) \in Nat /\ IsFiniteSet(Delivered(t))
  BY <1>1, PositionSets
<1>3. Unsaved(t) = 1 => Exposed(t) # {}
  BY DEF Unsaved
<1>4. Exposed(t) # {} => Cardinality(Exposed(t)) # 0
  BY <1>2, FS_EmptySet
<1>5. Unsaved(t) \in {0, 1}
  BY DEF Unsaved
<1> QED
  BY <1>2, <1>3, <1>4, <1>5

\* A dead letter or a failed save moves the loop on and leaves the checkpoint.
LEMMA SkipRowOrder ==
  ASSUME TypeOK, NEW t \in Tasks, TaskInv(t), OrderTask(t), DeadLetter(t) \/ SaveFails(t)
  PROVE  OrderTask(t)'
<1>1. /\ pc[t] \in {"flushing", "sent"} /\ pc'[t] \in {"streaming", "flushing"}
      /\ flush'[t] = Tail(flush[t]) /\ kafka'[t] = kafka[t] /\ crashes' = crashes
      /\ cursor'[t] = cursor[t] /\ offsets'[t] = offsets[t] /\ buffer'[t] = buffer[t]
      /\ rewinds'[t] = rewinds[t]
  BY DEF DeadLetter, SaveFails, Resume, Goto, counters, TypeOK, VarTypes
<1>2. \/ pc[t] # "sent" /\ saveErrs'[t] = saveErrs[t]
      \/ saveErrs'[t] = saveErrs[t] + 1
  BY DEF DeadLetter, SaveFails, counters, TypeOK, VarTypes
<1>3. SentBehind(t)' /\ SentSorted(t)' /\ Handled(t)' = cursor[t]
  BY <1>1, LoopOrder
<1>4. CheckpointBehind(t)'
  <2>1. Handled(t) = cursor[t]
    BY <1>1, LoopFacts
  <2>2. rewinds[t] = 0 => \A k \in DOMAIN flush'[t] : flush'[t][k] > offsets[t]
    BY <1>1, LoopFacts DEF OrderTask, CheckpointBehind
  <2> QED
    BY <1>1, <1>3, <2>1, <2>2 DEF OrderTask, CheckpointBehind
<1>5. RepeatsPaid(t)'
  <2>1. Unsaved(t)' = 0
    BY <1>1, NoneUnsavedNext
  <2>2. Delivered(t)' = Delivered(t)
    BY <1>1 DEF Delivered
  <2>3. Exposed(t)' = Exposed(t)
    BY <1>1, <2>2 DEF Exposed
  <2>4. pc[t] # "sent" => Unsaved(t) = 0
    BY NoneUnsaved
  <2>5. /\ Unsaved(t) \in {0, 1} /\ Cardinality(Exposed(t)) \in Nat
        /\ Cardinality(Delivered(t)) \in Nat
    BY UnsavedBound DEF OrderTask
  <2>6. saveErrs[t] \in Nat /\ crashes \in Nat /\ Len(kafka[t]) \in Nat
    BY TopicFacts DEF TypeOK, VarTypes, OrderTask
  <2>7. rewinds[t] = 0 =>
          Len(kafka[t]) + Cardinality(Exposed(t))
            <= Cardinality(Delivered(t)) + crashes + saveErrs[t] + Unsaved(t)
    BY DEF OrderTask, RepeatsPaid
  <2>8. rewinds[t] = 0 =>
          Len(kafka[t]) + Cardinality(Exposed(t))
            <= Cardinality(Delivered(t)) + crashes + saveErrs'[t] + 0
    BY <1>2, <2>4, <2>5, <2>6, <2>7
  <2> QED
    BY <1>1, <2>1, <2>2, <2>3, <2>8 DEF RepeatsPaid
<1> QED
  BY <1>3, <1>4, <1>5 DEF OrderTask

\* The checkpoint moves to the row just sent: everything held comes after it,
\* and the row is no longer exposed.
LEMMA SaveOrder ==
  ASSUME TypeOK, NEW t \in Tasks, TaskInv(t), OrderTask(t), Save(t)
  PROVE  OrderTask(t)'
<1>1. PICK h, c : h = Head(flush[t]) /\ c = cursor[t]
  OBVIOUS
<1>2. /\ pc[t] = "sent" /\ pc'[t] \in {"streaming", "flushing"}
      /\ flush'[t] = Tail(flush[t]) /\ kafka'[t] = kafka[t] /\ crashes' = crashes
      /\ cursor'[t] = cursor[t] /\ offsets'[t] = h /\ buffer'[t] = buffer[t]
      /\ rewinds'[t] = rewinds[t] /\ saveErrs'[t] = saveErrs[t]
  BY <1>1 DEF Save, Resume, Goto, counters, TypeOK, VarTypes
<1>3. SentBehind(t)' /\ SentSorted(t)' /\ Handled(t)' = c
  BY <1>1, <1>2, LoopOrder
<1>4. /\ h \in Nat /\ h \in 1..c /\ Payload(t, h) /\ ~Pending(t, h, c)
      /\ c \in Pos(t) /\ Handled(t) = c /\ 1 \in DOMAIN flush[t] /\ flush[t][1] = h
      /\ \A k \in DOMAIN flush'[t] : flush'[t][k] > h
  BY <1>1, <1>2, LoopFacts
<1>5. CheckpointBehind(t)'
  <2>1. ASSUME NEW x \in Txs, NEW i \in DOMAIN buffer[t][x] PROVE buffer[t][x][i] > h
    <3>1. PICK q : q = buffer[t][x][i]
      OBVIOUS
    <3>2. q \in 1..c /\ Payload(t, q) /\ Pending(t, q, c)
      BY <1>4, <3>1 DEF TaskInv, BufferPending
    <3>3. h < q
      BY <1>4, <3>2, ReleasedBeforeWaiting
    <3> QED
      BY <1>4, <3>1, <3>2, <3>3
  <2>2. h <= c
    BY <1>4
  <2> QED
    BY <1>2, <1>3, <1>4, <2>1, <2>2 DEF CheckpointBehind
<1>6. RepeatsPaid(t)'
  <2> SUFFICES ASSUME rewinds[t] = 0
               PROVE  Len(kafka[t]) + Cardinality(Exposed(t)')
                        <= Cardinality(Delivered(t)) + crashes + saveErrs[t] + 0
    <3>1. Unsaved(t)' = 0
      BY <1>2, NoneUnsavedNext
    <3>2. Delivered(t)' = Delivered(t)
      BY <1>2 DEF Delivered
    <3> QED
      BY <1>2, <3>1, <3>2 DEF RepeatsPaid
  <2>1. h > offsets[t] /\ offsets[t] \in Nat
    BY <1>4 DEF OrderTask, CheckpointBehind, TypeOK, VarTypes
  <2>2. Exposed(t)' = {p \in Delivered(t) : p > h}
    BY <1>2 DEF Exposed, Delivered
  <2>3. Exposed(t)' \subseteq Exposed(t) \ {h}
    <3>1. Delivered(t) \subseteq Nat
      BY TopicFacts DEF OrderTask
    <3> QED
      BY <1>4, <2>1, <2>2, <3>1 DEF Exposed
  <2>4. /\ Cardinality(Exposed(t)) \in Nat /\ IsFiniteSet(Exposed(t))
        /\ Cardinality(Delivered(t)) \in Nat
    BY UnsavedBound DEF OrderTask
  <2>5. /\ IsFiniteSet(Exposed(t) \ {h})
        /\ Cardinality(Exposed(t) \ {h}) =
             IF h \in Exposed(t) THEN Cardinality(Exposed(t)) - 1 ELSE Cardinality(Exposed(t))
    BY <2>4, FS_RemoveElement
  <2>6. Cardinality(Exposed(t)') <= Cardinality(Exposed(t) \ {h})
        /\ Cardinality(Exposed(t)') \in Nat
    BY <2>3, <2>5, FS_Subset, FS_CardinalityType
  <2>7. Unsaved(t) = IF h \in Exposed(t) THEN 1 ELSE 0
    BY <1>1, <1>2 DEF Unsaved
  <2>8. Len(kafka[t]) + Cardinality(Exposed(t))
          <= Cardinality(Delivered(t)) + crashes + saveErrs[t] + Unsaved(t)
    BY DEF OrderTask, RepeatsPaid
  <2>9. saveErrs[t] \in Nat /\ crashes \in Nat /\ Len(kafka[t]) \in Nat
    BY TopicFacts DEF TypeOK, VarTypes, OrderTask
  <2> QED
    BY <2>4, <2>5, <2>6, <2>7, <2>8, <2>9
<1> QED
  BY <1>3, <1>5, <1>6 DEF OrderTask

\* A row is sent after everything this incarnation sent before; until its
\* offset is saved a restart would send it again.
LEMMA SendOrder ==
  ASSUME TypeOK, NEW t \in Tasks, TaskInv(t), OrderTask(t), Send(t)
  PROVE  OrderTask(t)'
<1>1. PICK h, c, n, e, s : /\ h = Head(flush[t]) /\ c = cursor[t] /\ s = kafka[t]
                           /\ n = Len(kafka[t]) /\ e = [pos |-> h, run |-> crashes]
  OBVIOUS
<1>2. /\ pc[t] = "flushing" /\ pc'[t] = "sent"
      /\ flush'[t] = flush[t] /\ kafka'[t] = Append(s, e) /\ crashes' = crashes
      /\ cursor'[t] = cursor[t] /\ offsets'[t] = offsets[t] /\ buffer'[t] = buffer[t]
      /\ rewinds'[t] = rewinds[t] /\ saveErrs'[t] = saveErrs[t]
  BY <1>1 DEF Send, Goto, counters, TypeOK, VarTypes
<1>3. /\ h \in Nat /\ h \in 1..c /\ h \in Pos(t) /\ Payload(t, h) /\ ~Pending(t, h, c)
      /\ Handled(t) = c /\ 1 \in DOMAIN flush[t] /\ flush[t][1] = h
      /\ \A k \in DOMAIN flush[t] : k # 1 => h < flush[t][k]
  BY <1>1, <1>2, LoopFacts
<1>4. Handled(t)' = c
  BY <1>1, <1>2 DEF Handled
<1>5. /\ s \in Seq([pos : Nat, run : Nat]) /\ DOMAIN s = 1..n /\ n \in Nat
      /\ \A i \in 1..n : s[i].pos \in Nat /\ s[i].run \in Nat
      /\ Delivered(t) \subseteq Nat
  BY <1>1, TopicFacts DEF OrderTask
<1>6. crashes \in Nat /\ e \in [pos : Nat, run : Nat] /\ e.pos = h /\ e.run = crashes
  BY <1>1, <1>3 DEF TypeOK, VarTypes
<1>7. PICK r : r = Append(s, e)
  OBVIOUS
<1>8. /\ Len(r) = n + 1 /\ DOMAIN r = 1..(n + 1)
      /\ \A i \in 1..n : r[i] = s[i]
      /\ r[n + 1] = e
  <2>1. PICK R : R = [pos : Nat, run : Nat]
    OBVIOUS
  <2>2. s \in Seq(R) /\ e \in R
    BY <1>5, <1>6, <2>1
  <2>3. /\ Append(s, e) \in Seq(R) /\ Len(Append(s, e)) = Len(s) + 1
        /\ \A i \in 1..Len(s) : Append(s, e)[i] = s[i]
        /\ Append(s, e)[Len(s) + 1] = e
    BY <2>2, AppendProperties
  <2> QED
    BY <1>1, <1>7, <2>3
<1>9. \A i \in 1..(n + 1) : i \in 1..n \/ i = n + 1
  BY <1>5
<1>10. ASSUME NEW i \in 1..n, s[i].run = crashes
       PROVE  /\ s[i].pos \in 1..c /\ Payload(t, s[i].pos) /\ ~Pending(t, s[i].pos, c)
              /\ \A k \in DOMAIN flush[t] : s[i].pos < flush[t][k]
  BY <1>1, <1>2, <1>3, <1>5, <1>10 DEF OrderTask, SentBehind
<1>11. SentBehind(t)'
  <2>1. ASSUME NEW i \in 1..(n + 1), r[i].run = crashes
        PROVE  /\ r[i].pos \in 1..c /\ Payload(t, r[i].pos) /\ ~Pending(t, r[i].pos, c)
               /\ \A k \in DOMAIN flush[t] :
                    r[i].pos < flush[t][k] \/ (k = 1 /\ r[i].pos <= flush[t][k])
    <3>1. CASE i = n + 1
      BY <1>3, <1>6, <1>8, <3>1
    <3>2. CASE i \in 1..n
      BY <1>8, <1>10, <2>1, <3>2
    <3> QED
      BY <1>9, <3>1, <3>2
  <2>2. kafka'[t] = r
    BY <1>2, <1>7
  <2> QED
    BY <1>2, <1>4, <1>8, <2>1, <2>2 DEF SentBehind
<1>12. SentSorted(t)'
  <2>1. \A i \in 1..(n + 1) : r[i].pos \in Pos(t) /\ r[i].run <= crashes
    <3>1. \A i \in 1..n : s[i].pos \in Pos(t) /\ s[i].run <= crashes
      BY <1>1, <1>5 DEF OrderTask, SentSorted
    <3> QED
      BY <1>3, <1>6, <1>8, <1>9, <3>1
  <2>2. ASSUME NEW i \in 1..(n + 1), NEW j \in 1..(n + 1), i < j, r[i].run = r[j].run
        PROVE  r[i].pos < r[j].pos
    <3>1. i \in 1..n
      BY <1>5, <2>2
    <3>2. CASE j = n + 1
      BY <1>3, <1>6, <1>8, <1>10, <2>2, <3>1, <3>2
    <3>3. CASE j \in 1..n
      BY <1>1, <1>5, <1>8, <2>2, <3>1, <3>3 DEF OrderTask, SentSorted
    <3> QED
      BY <1>9, <3>2, <3>3
  <2>3. kafka'[t] = r
    BY <1>2, <1>7
  <2> QED
    BY <1>2, <1>8, <2>1, <2>2, <2>3 DEF SentSorted
<1>13. CheckpointBehind(t)'
  BY <1>2, <1>3, <1>4 DEF OrderTask, CheckpointBehind
<1>14. RepeatsPaid(t)'
  <2> SUFFICES ASSUME rewinds[t] = 0
               PROVE  n + 1 + Cardinality(Exposed(t)')
                        <= Cardinality(Delivered(t)') + crashes + saveErrs[t] + Unsaved(t)'
    BY <1>2, <1>7, <1>8 DEF RepeatsPaid
  <2>1. h > offsets[t] /\ offsets[t] \in Nat
    BY <1>3 DEF OrderTask, CheckpointBehind, TypeOK, VarTypes
  <2>2. Delivered(t)' = Delivered(t) \cup {h}
    <3>1. Delivered(t) = {s[i].pos : i \in 1..n}
      BY <1>1, <1>5 DEF Delivered
    <3>2. Delivered(t)' = {r[i].pos : i \in 1..(n + 1)}
      BY <1>2, <1>7, <1>8 DEF Delivered
    <3>3. \A i \in 1..n : i \in 1..(n + 1)
      BY <1>5
    <3>4. n + 1 \in 1..(n + 1)
      BY <1>5
    <3> QED
      BY <1>6, <1>8, <1>9, <3>1, <3>2, <3>3, <3>4
  <2>3. Exposed(t)' = Exposed(t) \cup {h}
    BY <1>2, <2>1, <2>2 DEF Exposed
  <2>4. Unsaved(t)' = 1
    BY <1>1, <1>2, <2>3 DEF Unsaved
  <2>5. h \in Delivered(t) <=> h \in Exposed(t)
    BY <2>1 DEF Exposed
  <2>6. /\ Cardinality(Exposed(t)) \in Nat /\ IsFiniteSet(Exposed(t))
        /\ Cardinality(Delivered(t)) \in Nat /\ IsFiniteSet(Delivered(t))
    BY UnsavedBound DEF OrderTask
  <2>7. Cardinality(Exposed(t)') =
          IF h \in Exposed(t) THEN Cardinality(Exposed(t)) ELSE Cardinality(Exposed(t)) + 1
    BY <2>3, <2>6, FS_AddElement
  <2>8. Cardinality(Delivered(t)') =
          IF h \in Delivered(t) THEN Cardinality(Delivered(t))
                                ELSE Cardinality(Delivered(t)) + 1
    BY <2>2, <2>6, FS_AddElement
  <2>9. n + Cardinality(Exposed(t))
          <= Cardinality(Delivered(t)) + crashes + saveErrs[t] + Unsaved(t)
    BY <1>1 DEF OrderTask, RepeatsPaid
  <2>10. Unsaved(t) = 0
    BY <1>2, NoneUnsaved
  <2>11. saveErrs[t] \in Nat
    BY DEF TypeOK, VarTypes
  <2> QED
    BY <1>5, <1>6, <2>4, <2>5, <2>6, <2>7, <2>8, <2>9, <2>10, <2>11
<1> QED
  BY <1>11, <1>12, <1>13, <1>14 DEF OrderTask

\* A send that failed adds nothing to the topic.
LEMMA SendFailsOrder ==
  ASSUME TypeOK, NEW t \in Tasks, TaskInv(t), OrderTask(t), SendFails(t)
  PROVE  OrderTask(t)'
<1>1. /\ pc[t] = "flushing" /\ pc'[t] = "sent"
      /\ flush'[t] = flush[t] /\ kafka'[t] = kafka[t] /\ crashes' = crashes
      /\ cursor'[t] = cursor[t] /\ offsets'[t] = offsets[t] /\ buffer'[t] = buffer[t]
      /\ rewinds'[t] = rewinds[t] /\ saveErrs'[t] = saveErrs[t]
  BY DEF SendFails, Goto, counters, TypeOK, VarTypes
<1>2. Handled(t)' = Handled(t)
  BY <1>1 DEF Handled
<1>3. SentBehind(t)'
  BY <1>1, <1>2 DEF OrderTask, SentBehind
<1>4. SentSorted(t)' /\ CheckpointBehind(t)'
  BY <1>1, <1>2 DEF OrderTask, SentSorted, CheckpointBehind
<1>5. RepeatsPaid(t)'
  <2>1. Unsaved(t) = 0
    BY <1>1, NoneUnsaved
  <2>2. Delivered(t)' = Delivered(t)
    BY <1>1 DEF Delivered
  <2>3. Exposed(t)' = Exposed(t)
    BY <1>1, <2>2 DEF Exposed
  <2>4. Unsaved(t)' \in {0, 1}
    BY DEF Unsaved
  <2>5. /\ Cardinality(Exposed(t)) \in Nat /\ Cardinality(Delivered(t)) \in Nat
        /\ saveErrs[t] \in Nat /\ crashes \in Nat /\ Len(kafka[t]) \in Nat
    BY UnsavedBound, TopicFacts DEF OrderTask, TypeOK, VarTypes
  <2>6. rewinds[t] = 0 => Len(kafka[t]) + Cardinality(Exposed(t))
                            <= Cardinality(Delivered(t)) + crashes + saveErrs[t] + 0
    BY <2>1 DEF OrderTask, RepeatsPaid
  <2>7. rewinds[t] = 0 =>
          Len(kafka[t]) + Cardinality(Exposed(t))
            <= Cardinality(Delivered(t)) + crashes + saveErrs[t] + Unsaved(t)'
    BY <2>4, <2>5, <2>6
  <2> QED
    BY <1>1, <2>2, <2>3, <2>7 DEF RepeatsPaid
<1> QED
  BY <1>3, <1>4, <1>5 DEF OrderTask

\* A crash pays for the row whose save was pending.
LEMMA CrashOrder ==
  ASSUME TypeOK, NEW t \in Tasks, TaskInv(t), OrderTask(t), Crash
  PROVE  OrderTask(t)'
<1>1. /\ pc'[t] = "init" /\ flush'[t] = <<>> /\ buffer'[t] = NewBuffer
      /\ cursor'[t] = 0 /\ kafka'[t] = kafka[t] /\ crashes' = crashes + 1
      /\ offsets'[t] = offsets[t] /\ rewinds'[t] = rewinds[t]
      /\ saveErrs'[t] = saveErrs[t]
  BY DEF Crash
<1>2. /\ crashes \in Nat
      /\ \A i \in DOMAIN kafka[t] : kafka[t][i].run \in Nat /\ kafka[t][i].run <= crashes
  BY TopicFacts DEF OrderTask, SentSorted, TypeOK, VarTypes
<1>3. \A i \in DOMAIN kafka[t] : kafka[t][i].run # crashes' /\ kafka[t][i].run <= crashes'
  BY <1>1, <1>2
<1>4. SentBehind(t)'
  BY <1>1, <1>3 DEF SentBehind
<1>5. SentSorted(t)'
  BY <1>1, <1>3 DEF OrderTask, SentSorted
<1>6. CheckpointBehind(t)'
  BY <1>1 DEF CheckpointBehind, NewBuffer
<1>7. RepeatsPaid(t)'
  <2>1. Unsaved(t)' = 0
    BY <1>1, NoneUnsavedNext
  <2>2. Delivered(t)' = Delivered(t)
    BY <1>1 DEF Delivered
  <2>3. Exposed(t)' = Exposed(t)
    BY <1>1, <2>2 DEF Exposed
  <2>4. /\ Cardinality(Exposed(t)) \in Nat /\ Cardinality(Delivered(t)) \in Nat
        /\ saveErrs[t] \in Nat /\ Len(kafka[t]) \in Nat /\ Unsaved(t) \in {0, 1}
    BY UnsavedBound, TopicFacts DEF OrderTask, TypeOK, VarTypes
  <2>5. rewinds[t] = 0 =>
          Len(kafka[t]) + Cardinality(Exposed(t))
            <= Cardinality(Delivered(t)) + crashes + saveErrs[t] + Unsaved(t)
    BY DEF OrderTask, RepeatsPaid
  <2>6. rewinds[t] = 0 =>
          Len(kafka[t]) + Cardinality(Exposed(t))
            <= Cardinality(Delivered(t)) + (crashes + 1) + saveErrs[t] + 0
    BY <1>2, <2>4, <2>5
  <2> QED
    BY <1>1, <2>1, <2>2, <2>3, <2>6 DEF RepeatsPaid
<1> QED
  BY <1>4, <1>5, <1>6, <1>7 DEF OrderTask

\* Nothing has been sent at the start.
LEMMA InitOrder == Init => SendsInOrder
<1> SUFFICES ASSUME Init, NEW t \in Tasks PROVE OrderTask(t)
  BY DEF SendsInOrder
<1>1. /\ kafka[t] = <<>> /\ flush[t] = <<>> /\ buffer[t] = NewBuffer /\ pc[t] = "init"
      /\ crashes = 0 /\ saveErrs[t] = 0
  BY DEF Init
<1>2. DOMAIN kafka[t] = {} /\ Len(kafka[t]) = 0
  BY <1>1
<1>3. SentBehind(t) /\ SentSorted(t)
  BY <1>2 DEF SentBehind, SentSorted
<1>4. CheckpointBehind(t)
  BY <1>1 DEF CheckpointBehind, NewBuffer
<1>5. Delivered(t) = {} /\ Exposed(t) = {} /\ Unsaved(t) = 0
  BY <1>1, <1>2 DEF Delivered, Exposed, Unsaved
<1>6. RepeatsPaid(t)
  BY <1>1, <1>2, <1>5, FS_EmptySet DEF RepeatsPaid
<1> QED
  BY <1>3, <1>4, <1>6 DEF OrderTask

\* A step of a task leaves the counters of the others, and of the process,
\* alone.
LEMMA OthersCounted ==
  ASSUME TypeOK, NEW t \in Tasks, TaskStep(t) \/ TaskFault(t),
         NEW u \in Tasks, u # t
  PROVE  crashes' = crashes /\ saveErrs'[u] = saveErrs[u] /\ rewinds'[u] = rewinds[u]
<1> USE DEF TypeOK, VarTypes, counters
<1>1. CASE TaskStep(t)
  BY <1>1 DEF TaskStep, StartStream, Discard, Pull, Suppress, Reject, Absorb, Process,
     DeadLetter, Send, Save
<1>2. CASE TaskFault(t)
  BY <1>2 DEF TaskFault, StartFromZero, StartFails, Break, SendFails, SaveFails
<1> QED
  BY <1>1, <1>2

\* Every step of the engine keeps the order of every task.
LEMMA NextOrder ==
  ASSUME TypeOK, NothingForgotten, SendsInOrder, [Next]_vars
  PROVE  SendsInOrder'
<1> SUFFICES ASSUME NEW u \in Tasks PROVE OrderTask(u)'
  BY DEF SendsInOrder
<1>1. TaskInv(u) /\ OrderTask(u)
  BY DEF NothingForgotten, SendsInOrder
<1>2. CASE UNCHANGED vars
  <2>1. Frame(u) /\ UNCHANGED counters
    BY <1>2 DEF vars, volatile, fates, Frame
  <2> QED
    BY <1>1, <2>1, FrameOrder DEF counters
<1>3. CASE Elect
  <2>1. Frame(u) /\ UNCHANGED counters
    BY <1>3 DEF Elect, fates, Frame
  <2> QED
    BY <1>1, <2>1, FrameOrder DEF counters
<1>4. CASE Crash
  BY <1>1, <1>4, CrashOrder
<1>5. ASSUME NEW t \in Tasks, TaskStep(t) \/ TaskFault(t), t # u PROVE OrderTask(u)'
  BY <1>1, <1>5, OthersFramed, OthersCounted, FrameOrder
<1>6. CASE TaskStep(u)
  BY <1>1, <1>6, QuietSteps, ProcessOrder, SkipRowOrder, SendOrder, SaveOrder
     DEF TaskStep
<1>7. CASE TaskFault(u)
  BY <1>1, <1>7, QuietSteps, SkipRowOrder, SendFailsOrder DEF TaskFault
<1> QED
  BY <1>2, <1>3, <1>4, <1>5, <1>6, <1>7 DEF Next

\* The invariant holds in every reachable state.
LEMMA OrderInvariant == Spec => []SendsInOrder
<1>1. TypeOK /\ NothingForgotten /\ SendsInOrder /\ [Next]_vars => SendsInOrder'
  BY NextOrder
<1> QED
  BY <1>1, InitOrder, Typing, Accounting, PTL DEF Spec

\* What one incarnation of the process sends of a source is in log order and
\* without repetition, although rows wait in the transaction buffer and the
\* duplicate filter forgets: the sends follow the order in which the source
\* ends its transactions.
THEOREM SessionsInOrder == Spec => []SessionOrder
<1>1. SendsInOrder => SessionOrder
  BY DEF SendsInOrder, OrderTask, SentSorted, SessionOrder
<1> QED
  BY <1>1, OrderInvariant, PTL

\* save_offset never moves the checkpoint of a source back, unless the
\* checkpoint could not be read once and the stream began again.
THEOREM CheckpointAdvances == Spec => CheckpointMonotone
<1> DEFINE A == \A t \in Tasks : rewinds[t] = 0 => offsets'[t] >= offsets[t]
<1>1. TypeOK /\ NothingForgotten /\ SendsInOrder /\ [Next]_vars => [A]_vars
  <2> SUFFICES ASSUME TypeOK, NothingForgotten, SendsInOrder, Next,
                      NEW t \in Tasks, rewinds[t] = 0
               PROVE  offsets'[t] >= offsets[t]
    BY DEF vars
  <2>1. offsets[t] \in Nat
    BY DEF TypeOK, VarTypes
  <2>2. CASE Save(t)
    <3>1. offsets'[t] = Head(flush[t]) /\ pc[t] = "sent"
      BY <2>2 DEF Save, TypeOK, VarTypes
    <3>2. /\ 1 \in DOMAIN flush[t] /\ flush[t][1] = Head(flush[t])
          /\ Head(flush[t]) \in Nat
      BY <3>1, LoopFacts DEF NothingForgotten
    <3>3. Head(flush[t]) > offsets[t]
      BY <3>2 DEF SendsInOrder, OrderTask, CheckpointBehind
    <3> QED
      BY <2>1, <3>1, <3>2, <3>3
  <2>3. CASE ~Save(t)
    <3>1. offsets'[t] = offsets[t]
      <4>1. CASE Elect \/ Crash
        BY <4>1 DEF Elect, Crash
      <4>2. ASSUME NEW u \in Tasks, TaskStep(u) \/ TaskFault(u), u # t
            PROVE  offsets'[t] = offsets[t]
        BY <4>2, OthersFramed DEF Frame
      <4>3. CASE TaskStep(t) \/ TaskFault(t)
        BY <2>3, <4>3 DEF TaskStep, TaskFault, StartStream, Discard, Pull, Suppress,
           Reject, Absorb, Process, DeadLetter, Send, StartFromZero, StartFails,
           Break, SendFails, SaveFails
      <4> QED
        BY <4>1, <4>2, <4>3 DEF Next
    <3> QED
      BY <2>1, <3>1
  <2> QED
    BY <2>2, <2>3
<1> QED
  BY <1>1, Typing, Accounting, OrderInvariant, PTL DEF Spec, CheckpointMonotone

\* At-least-once with a bound, for every log and every number of faults: the
\* topic holds at most one repetition per crash and per failed save.
THEOREM RepeatsBounded == Spec => []DuplicateBound
<1>1. TypeOK /\ SendsInOrder => DuplicateBound
  <2> SUFFICES ASSUME TypeOK, SendsInOrder, NEW t \in Tasks, rewinds[t] = 0
               PROVE  Len(kafka[t]) <= Cardinality(Delivered(t)) + crashes + saveErrs[t]
    BY DEF DuplicateBound
  <2>1. OrderTask(t)
    BY DEF SendsInOrder
  <2>2. /\ Unsaved(t) \in {0, 1} /\ Unsaved(t) <= Cardinality(Exposed(t))
        /\ Cardinality(Exposed(t)) \in Nat /\ Cardinality(Delivered(t)) \in Nat
        /\ saveErrs[t] \in Nat /\ crashes \in Nat /\ Len(kafka[t]) \in Nat
    BY <2>1, UnsavedBound, TopicFacts DEF OrderTask, TypeOK, VarTypes
  <2>3. Len(kafka[t]) + Cardinality(Exposed(t))
          <= Cardinality(Delivered(t)) + crashes + saveErrs[t] + Unsaved(t)
    BY <2>1 DEF OrderTask, RepeatsPaid
  <2> QED
    BY <2>2, <2>3
<1> QED
  BY <1>1, Typing, OrderInvariant, PTL
=============================================================================
