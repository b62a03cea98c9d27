-------------------------- MODULE MCPipelineSource --------------------------
(***************************************************************************)
(* One task on a log with every kind of event a source may yield within    *)
(* the CdcSource contract: a poison row, a watermark row, a row the         *)
(* transform rejects, a rolled back and a committed transaction, a row      *)
(* delivered twice with the same id, rows outside any transaction.          *)
(***************************************************************************)
EXTENDS Pipeline

Row(id, op, tx) == [id |-> id, op |-> op, tx |-> tx,
                    watermark |-> FALSE, conforms |-> TRUE, fits |-> TRUE]

MCLog == [t \in Tasks |->
  << Row("a", "Create", "t1"),
     Row("b", "Rollback", "t1"),
     [Row("c", "Update", "t2") EXCEPT !.conforms = FALSE],
     Row("d", "Create", "t2"),
     [Row("w", "Create", "t2") EXCEPT !.watermark = TRUE],
     Row("d", "Create", "t2"),
     [Row("e", "Delete", "t2") EXCEPT !.fits = FALSE],
     Row("g", "Commit", "t2"),
     Row("d", "Create", NoTx),
     Row("h", "Snapshot", NoTx) >>]
=============================================================================
