----------------------------- MODULE MCSnapshots -----------------------------
(***************************************************************************)
(* The two snapshotters, which share no state: a behaviour exercises one   *)
(* of them, picked at the start, while the other stays as it was made.     *)
(***************************************************************************)
EXTENDS ParallelSnapshotter

CONSTANTS Keys, Vals, NoRow, Origins, MaxWrites, MaxChunks

VARIABLES
  part, log, tables, read, active_chunk, in_watermark_window, view, stage, high,
  flushes, writes

W == INSTANCE WatermarkSnapshotter

watermarkVars ==
  <<log, tables, writes, read, active_chunk, in_watermark_window, view, stage, high,
    flushes>>

ASSUME SnapshotAssumption ==
  /\ NoRow \notin Vals /\ Origins \subseteq W!AllOrigins
  /\ MaxWrites \in Nat /\ MaxChunks \in Nat

\* Any table may be the one that is snapshotted; the other part needs one.
EitherInit ==
  /\ part \in {"parallel", "watermark"}
  /\ Init /\ W!Init
  /\ part = "parallel" => W!Table = W!NoChunk

ParallelStep == part = "parallel" /\ Next /\ UNCHANGED <<part, watermarkVars>>
WatermarkStep == part = "watermark" /\ W!Next /\ UNCHANGED <<part, vars>>

\* The fairness of ParallelSnapshotter.
EitherSpec ==
  /\ EitherInit /\ [][ParallelStep \/ WatermarkStep]_<<part, vars, watermarkVars>>
  /\ WF_vars(part = "parallel" /\ Owner)
  /\ \A w \in Workers : WF_vars(part = "parallel" /\ WorkerStep(w))

\* What is checked of the watermark snapshotter, explained in its module.
SnapshotConsistent == W!SnapshotConsistent
=============================================================================
