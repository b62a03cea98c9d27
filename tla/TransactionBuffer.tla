------------------------- MODULE TransactionBuffer -------------------------
(***************************************************************************)
(* The transaction buffer of src/src/buffer/mod.rs as operators on its one *)
(* field: a map from transaction id to the mutations buffered for it.  The *)
(* map is a total function on Txs; an absent key is the empty sequence (the*)
(* code never stores an empty vector: it inserts a key only to push).      *)
(* Mutations are represented by their position in the source's log.        *)
(***************************************************************************)
EXTENDS Sequences, FiniteSets, Naturals

CONSTANTS
  Txs,    \* transaction ids
  NoTx    \* the transaction id of an event outside any transaction (None)

ASSUME NoTxAssumption == NoTx \notin Txs

\* The six kinds of event.
Operation == {"Create", "Update", "Delete", "Snapshot", "Commit", "Rollback"}

\* TransactionBuffer::new
NewBuffer == [x \in Txs |-> <<>>]

\* Mutant: a commit reads the transaction without removing it.
KeepOnCommit(buffer, tx, op, m) ==
  CASE tx = NoTx \/ op = "Commit" -> buffer
    [] tx # NoTx /\ op = "Rollback" -> [buffer EXCEPT ![tx] = <<>>]
    [] OTHER -> [buffer EXCEPT ![tx] = Append(@, m)]

\* The buffer after process(event), the event being mutation m of
\* transaction tx: an event without a transaction leaves it alone, an end
\* marker removes the transaction, any other event is pushed.
AfterProcess(buffer, tx, op, m) ==
  CASE tx = NoTx                   -> buffer
    [] tx # NoTx /\ op \in {"Commit", "Rollback"}
                                   -> [buffer EXCEPT ![tx] = <<>>]
    [] OTHER                       -> [buffer EXCEPT ![tx] = Append(@, m)]

\* Mutant: a rollback flushes like a commit.
FlushOnAnyEnd(buffer, tx, op, m) ==
  CASE tx = NoTx -> <<m>>
    [] tx # NoTx /\ op \in {"Commit", "Rollback"} -> buffer[tx]
    [] OTHER -> <<>>

\* What process(event) returns: the event itself outside a transaction, the
\* whole transaction on its commit, nothing otherwise.
ProcessOutput(buffer, tx, op, m) ==
  CASE tx = NoTx                   -> <<m>>
    [] tx # NoTx /\ op = "Commit"  -> buffer[tx]
    [] OTHER                       -> <<>>

\* The keys the map holds.
OpenTxs(buffer) == {x \in DOMAIN buffer : buffer[x] # <<>>}

\* The buffer after prune(max_size): all of it goes, or nothing.
AfterPrune(buffer, max_size) ==
  IF Cardinality(OpenTxs(buffer)) > max_size THEN NewBuffer ELSE buffer
============================================================================
