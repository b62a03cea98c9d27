------------------------ MODULE WatermarkSnapshotter ------------------------
(***************************************************************************)
(* src/src/snapshot/watermark.rs: a chunk of a table, selected while the   *)
(* table changes, is reconciled with the replication log between two       *)
(* watermark rows and then flushed to the consumers of the log.            *)
(*                                                                         *)
(* The database and the owner of the snapshotter are external and follow   *)
(* the protocol of the repository's test: the chunk selected after the low *)
(* watermark was written is loaded before that watermark is read from the  *)
(* log (the log is not read in between), and it is flushed when the high   *)
(* one was read, before the next entry is (a later flush could set back a  *)
(* row that was changed meanwhile).  active_tx is written and printed,     *)
(* never used.                                                             *)
(***************************************************************************)
EXTENDS Naturals, Sequences

CONSTANTS
  Keys, Vals,
  NoRow,       \* there is no row with this key
  Origins,     \* where rows of the log may come from, a subset of AllOrigins
  MaxWrites,   \* bound: writes
  MaxChunks    \* bound: chunks

\* A row of the snapshotted table whose transaction commits, one whose
\* transaction is rolled back, and a row of another table.
AllOrigins == {"committed", "rolled back", "other table"}

Rows == [Keys -> Vals \cup {NoRow}]

VARIABLES
  log,                   \* the replication log
  tables,                \* tables[n + 1] is the table after n log entries
  read,                  \* entries read from the log
  active_chunk,
  in_watermark_window,
  view,                  \* the consumers' copy of the table
  stage,                 \* of the owner: "idle" | "low" | "loaded" | "high"
  high,                  \* where the last high watermark is in the log
  flushes,               \* chunks flushed so far
  writes                 \* writes so far

database == <<log, tables, writes>>
engine   == <<read, active_chunk, in_watermark_window, view>>
owner    == <<stage, high, flushes>>
vars     == <<database, engine, owner>>

Table == tables[Len(tables)]
NoChunk == [k \in Keys |-> NoRow]

\* The consumers know nothing of the rows that were there before the log.
Init ==
  /\ log = <<>> /\ writes = 0
  /\ \E rows \in Rows : tables = <<rows>>
  /\ read = 0
  /\ active_chunk = NoChunk
  /\ in_watermark_window = FALSE
  /\ view = NoChunk
  /\ stage = "idle" /\ high = 0 /\ flushes = 0

(***************************************************************************)
(* The database.                                                           *)
(***************************************************************************)
Changed(rows, op, k, v) == [rows EXCEPT ![k] = IF op = "Delete" THEN NoRow ELSE v]

Record(origin, op, k, v, rows) ==
  /\ log' = Append(log, [origin |-> origin, op |-> op, key |-> k,
                         after |-> IF op = "Delete" THEN NoRow ELSE v])
  /\ tables' = Append(tables, rows)

\* A row is created, updated or deleted.
Write(origin, op, k, v) ==
  /\ writes < MaxWrites
  /\ origin # "other table" => (op = "Create" <=> Table[k] = NoRow)
  /\ Record(origin, op, k, v,
            IF origin = "committed" THEN Changed(Table, op, k, v) ELSE Table)
  /\ writes' = writes + 1
  /\ UNCHANGED <<engine, owner>>

WriteWatermark == Record("watermark", "Create", NoRow, NoRow, Table)

WriteLow ==
  /\ stage = "idle" /\ flushes < MaxChunks
  /\ WriteWatermark
  /\ stage' = "low"
  /\ UNCHANGED <<writes, engine, high, flushes>>

WriteHigh ==
  /\ stage = "loaded"
  /\ WriteWatermark
  /\ stage' = "high" /\ high' = Len(log')
  /\ UNCHANGED <<writes, engine, flushes>>

(***************************************************************************)
(* The snapshotter.                                                        *)
(***************************************************************************)
\* The chunk is selected, and load_chunk replaces what was there by it.
LoadChunk ==
  /\ stage = "low"
  /\ active_chunk' = Table
  /\ stage' = "loaded"
  /\ UNCHANGED <<database, read, in_watermark_window, view, high, flushes>>

\* A watermark row opens or closes the window and goes no further.
ReadWatermark(e) ==
  /\ e.origin = "watermark"
  /\ in_watermark_window' = ~in_watermark_window
  /\ UNCHANGED <<active_chunk, view>>

\* Mutant: a deleted row stays in the chunk.
KeepDeleted(chunk, e) ==
  IF in_watermark_window /\ chunk[e.key] # NoRow /\ e.op # "Delete"
  THEN [chunk EXCEPT ![e.key] = e.after]
  ELSE chunk

\* The chunk after a row of the log: in the window a row it holds is removed
\* or overwritten, whatever table and transaction the log's row belongs to.
Reconciled(chunk, e) ==
  IF in_watermark_window /\ chunk[e.key] # NoRow
  THEN Changed(chunk, e.op, e.key, e.after)
  ELSE chunk

\* Any other row is reconciled and passed on; the consumers get it if its
\* transaction commits, and file it under its own table.
ReadRow(e) ==
  /\ e.origin # "watermark"
  /\ active_chunk' = Reconciled(active_chunk, e)
  /\ view' = IF e.origin = "committed" THEN Changed(view, e.op, e.key, e.after)
                                       ELSE view
  /\ UNCHANGED in_watermark_window

\* The window has just closed: is_in_window() went from true to false.
HighRead == stage = "high" /\ read = high

\* process_replication_event on the next entry of the log.
Read ==
  /\ stage # "low" /\ ~HighRead /\ read < Len(log)
  /\ read' = read + 1
  /\ ReadWatermark(log[read + 1]) \/ ReadRow(log[read + 1])
  /\ UNCHANGED <<database, owner>>

\* flush_chunk: the consumers get the rows of the chunk.
FlushChunk ==
  /\ HighRead
  /\ view' = [k \in Keys |-> IF active_chunk[k] # NoRow THEN active_chunk[k]
                                                        ELSE view[k]]
  /\ active_chunk' = NoChunk
  /\ stage' = "idle" /\ flushes' = flushes + 1
  /\ UNCHANGED <<database, read, in_watermark_window, high>>

Next ==
  \/ \E origin \in Origins, op \in {"Create", "Update", "Delete"}, k \in Keys,
        v \in Vals : Write(origin, op, k, v)
  \/ WriteLow \/ LoadChunk \/ WriteHigh \/ Read \/ FlushChunk

Spec == Init /\ [][Next]_vars

-----------------------------------------------------------------------------
\* Once a chunk was flushed the consumers' copy is the table as of the log
\* entry they have got to: the chunk brought the rows from before the log and
\* neither set a row back to an older value nor brought a deleted one back,
\* however writes, the select and the reading of the log interleave.
SnapshotConsistent == flushes > 0 => view = tables[read + 1]
=============================================================================
