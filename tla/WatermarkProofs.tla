--------------------------- MODULE WatermarkProofs ---------------------------
(***************************************************************************)
(* The chunk a WatermarkSnapshotter flushes never sets a row back, for     *)
(* every table, every number of writes and chunks, and every interleaving  *)
(* of writes, the select and the reading of the log, provided that the log *)
(* holds committed rows of the snapshotted table only (the snapshotter     *)
(* looks at neither the transaction nor the table of a row).               *)
(*                                                                         *)
(* The argument: let the chunk be selected after `sel` log entries.  Until *)
(* the low watermark is read the chunk is the table as of `sel`.  From     *)
(* then on every key is either followed (a row of the log with this key    *)
(* came after the low watermark, so the consumers have its value and the   *)
(* chunk holds the same or nothing) or still has the selected value, which *)
(* is the table's once `sel` entries are read.  The high watermark comes   *)
(* after `sel`, so both kinds of key are right when the chunk is flushed.  *)
(***************************************************************************)
EXTENDS MCSnapshots, SequenceTheorems, TLAPS

Ops == {"Create", "Update", "Delete"}
Entry == [origin : {"committed", "watermark"}, op : Ops,
          key : Keys \cup {NoRow}, after : Vals \cup {NoRow}]

SnapTypes ==
  /\ log \in Seq(Entry) /\ tables \in Seq(W!Rows) /\ Len(tables) = Len(log) + 1
  /\ read \in 0..Len(log)
  /\ active_chunk \in W!Rows /\ view \in W!Rows
  /\ in_watermark_window \in BOOLEAN
  /\ stage \in {"idle", "low", "loaded", "high"}
  /\ high \in Nat /\ flushes \in Nat

\* The table after n entries of the log.
At(n) == tables[n + 1]

\* What an entry of the log did to the table.
Explains(e, before, after) ==
  \/ e.origin = "watermark" /\ after = before
  \/ /\ e.origin = "committed" /\ e.key \in Keys
     /\ e.op = "Delete" => e.after = NoRow
     /\ after = [before EXCEPT ![e.key] = e.after]

History == \A n \in 1..Len(log) : Explains(log[n], tables[n], tables[n + 1])

\* What the consumers have of a row is its value at the entry they have got to.
ViewBehind == \A k \in Keys : view[k] \in {NoRow, At(read)[k]}

\* A row of the log with this key came after the low watermark.
Followed(k) == view[k] = At(read)[k] /\ active_chunk[k] \in {NoRow, At(read)[k]}

\* None did: the chunk holds what was selected.
Selected(k, sel) ==
  /\ active_chunk[k] = At(sel)[k]
  /\ read >= sel => At(read)[k] = At(sel)[k]

Reconciling(sel) == \A k \in Keys : Followed(k) \/ Selected(k, sel)

\* The watermarks that are still to be read.
Unread == {n \in 1..Len(log) : n > read /\ log[n].origin = "watermark"}

\* Where the owner, the window and the unread watermarks are.
Before(sel, rest) ==
  /\ ~in_watermark_window /\ active_chunk = At(sel)
  /\ \E low \in 1..sel : Unread = {low} \cup rest

Within(sel, rest) == in_watermark_window /\ Unread = rest /\ Reconciling(sel)

Idle == stage = "idle" => ~in_watermark_window /\ Unread = {}
Low  == stage = "low" => ~in_watermark_window /\ \E low \in 1..Len(log) : Unread = {low}
Loaded ==
  stage = "loaded" => \E sel \in 0..Len(log) : Before(sel, {}) \/ Within(sel, {})
High ==
  stage = "high" =>
    /\ high \in 1..Len(log)
    /\ \E sel \in 0..(high - 1) :
         \/ Before(sel, {high}) \/ Within(sel, {high})
         \/ ~in_watermark_window /\ read = high /\ Unread = {} /\ Reconciling(sel)

SnapInv ==
  /\ SnapTypes /\ History /\ ViewBehind /\ W!SnapshotConsistent
  /\ Idle /\ Low /\ Loaded /\ High

-----------------------------------------------------------------------------
\* What appending an entry and the table after it leaves where it was.
LEMMA Recorded ==
  ASSUME SnapTypes, NEW e \in Entry, NEW rows \in W!Rows, NEW n \in Nat, n = Len(log),
         log' = Append(log, e), tables' = Append(tables, rows)
  PROVE  /\ log' \in Seq(Entry) /\ Len(log') = n + 1
         /\ log'[n + 1] = e /\ \A i \in 1..n : log'[i] = log[i]
         /\ tables' \in Seq(W!Rows) /\ Len(tables') = n + 2
         /\ tables'[n + 2] = rows /\ \A i \in 1..(n + 1) : tables'[i] = tables[i]
<1>1. PICK E : E = Entry
  OBVIOUS
<1>2. PICK R : R = W!Rows
  OBVIOUS
<1>3. log \in Seq(E) /\ tables \in Seq(R) /\ Len(tables) = n + 1 /\ e \in E /\ rows \in R
  BY <1>1, <1>2 DEF SnapTypes
<1>4. /\ log' \in Seq(E) /\ Len(log') = n + 1
      /\ log'[n + 1] = e /\ \A i \in 1..n : log'[i] = log[i]
  BY ONLY <1>3, n \in Nat, n = Len(log), log' = Append(log, e), AppendProperties
<1>5. /\ tables' \in Seq(R) /\ Len(tables') = n + 2
      /\ tables'[n + 2] = rows /\ \A i \in 1..(n + 1) : tables'[i] = tables[i]
  <2>1. n + 1 + 1 = n + 2 /\ n + 1 \in Nat
    OBVIOUS
  <2> QED
    BY ONLY <1>3, <2>1, tables' = Append(tables, rows), AppendProperties
<1> QED
  BY <1>1, <1>2, <1>4, <1>5, Zenon

\* An entry that is not read yet changes nothing on the reader's side.
LEMMA Appended ==
  ASSUME SnapInv, NEW e \in Entry, NEW rows \in W!Rows, NEW n \in Nat, n = Len(log),
         log' = Append(log, e), tables' = Append(tables, rows),
         Explains(e, tables[n + 1], rows), UNCHANGED W!engine, UNCHANGED flushes
  PROVE  /\ \A i \in 0..n : At(i)' = At(i)
         /\ History' /\ ViewBehind' /\ W!SnapshotConsistent'
         /\ e.origin = "watermark" => Unread' = Unread \cup {n + 1}
         /\ e.origin # "watermark" => Unread' = Unread
         /\ \A sel \in 0..n : Reconciling(sel) => Reconciling(sel)'
<1>1. /\ Len(log') = n + 1 /\ log'[n + 1] = e /\ \A i \in 1..n : log'[i] = log[i]
      /\ tables'[n + 2] = rows /\ \A i \in 1..(n + 1) : tables'[i] = tables[i]
  BY Recorded DEF SnapInv
<1>2. read \in 0..n /\ read' = read /\ active_chunk' = active_chunk /\ view' = view
  BY DEF SnapInv, SnapTypes, W!engine
<1>3. ASSUME NEW i \in 0..n PROVE At(i)' = At(i)
  <2>1. i + 1 \in 1..(n + 1)
    OBVIOUS
  <2> QED
    BY <1>1, <2>1 DEF At
<1>4. At(read)' = At(read)
  <2>1. PICK r \in 0..n : r = read
    BY <1>2
  <2>2. At(r)' = At(r)
    BY <1>3
  <2> QED
    BY <1>2, <2>1, <2>2 DEF At
<1>5. History'
  <2>1. ASSUME NEW i \in 1..(n + 1)
        PROVE  Explains(log'[i], tables'[i], tables'[i + 1])
    <3>1. CASE i \in 1..n
      <4>1. i \in 1..(n + 1) /\ i + 1 \in 1..(n + 1)
        BY <3>1
      <4>2. log'[i] = log[i] /\ tables'[i] = tables[i] /\ tables'[i + 1] = tables[i + 1]
        BY <1>1, <3>1, <4>1, Zenon
      <4>3. Explains(log[i], tables[i], tables[i + 1])
        BY <3>1 DEF SnapInv, History
      <4> QED
        BY <4>2, <4>3, Zenon
    <3>2. CASE i = n + 1
      <4>1. n + 1 \in 1..(n + 1) /\ n + 1 + 1 = n + 2
        OBVIOUS
      <4>2. tables'[n + 1] = tables[n + 1]
        BY <1>1, <4>1, Zenon
      <4> QED
        BY <1>1, <3>2, <4>1, <4>2
    <3>3. i \in 1..n \/ i = n + 1
      OBVIOUS
    <3> QED
      BY <3>1, <3>2, <3>3, Zenon
  <2> QED
    BY <1>1, <2>1, Zenon DEF History
<1>6. ViewBehind'
  BY <1>2, <1>4 DEF SnapInv, ViewBehind
<1>7. W!SnapshotConsistent'
  BY <1>2, <1>4 DEF SnapInv, W!SnapshotConsistent, At
<1>8. ASSUME e.origin = "watermark" PROVE Unread' = Unread \cup {n + 1}
  <2>1. Unread' = {i \in 1..(n + 1) : i > read /\ log'[i].origin = "watermark"}
    BY <1>1, <1>2 DEF Unread
  <2>2. n + 1 > read /\ log'[n + 1].origin = "watermark"
    BY <1>1, <1>2, <1>8
  <2> QED
    BY <1>1, <2>1, <2>2 DEF Unread
<1>9. ASSUME e.origin # "watermark" PROVE Unread' = Unread
  <2>1. Unread' = {i \in 1..(n + 1) : i > read /\ log'[i].origin = "watermark"}
    BY <1>1, <1>2 DEF Unread
  <2>2. log'[n + 1].origin # "watermark"
    BY <1>1, <1>9
  <2> QED
    BY <1>1, <2>1, <2>2 DEF Unread
<1>10. ASSUME NEW sel \in 0..n, Reconciling(sel) PROVE Reconciling(sel)'
  <2>1. ASSUME NEW k \in Keys PROVE Followed(k)' \/ Selected(k, sel)'
    <3>1. At(sel)' = At(sel)
      BY <1>3
    <3> QED
      BY <1>2, <1>4, <1>10, <3>1 DEF Reconciling, Followed, Selected
  <2> QED
    BY <2>1 DEF Reconciling
<1> QED
  BY <1>3, <1>5, <1>6, <1>7, <1>8, <1>9, <1>10

\* The next entry of the log and what it did to the table.
LEMMA NextEntry ==
  ASSUME SnapInv, W!Read, NEW r \in Nat, r = read
  PROVE  /\ r + 1 \in 1..Len(log) /\ read' = r + 1
         /\ log[r + 1] \in Entry /\ Explains(log[r + 1], At(r), At(r + 1))
         /\ tables' = tables /\ log' = log
         /\ UNCHANGED <<stage, high, flushes>>
<1>1. read \in 0..Len(log) /\ Len(log) \in Nat /\ read < Len(log) /\ log \in Seq(Entry)
  BY DEF SnapInv, SnapTypes, W!Read
<1>2. r + 1 \in 1..Len(log)
  BY <1>1
<1>3. log[r + 1] \in Entry
  BY <1>1, <1>2, ElementOfSeq
<1>4. Explains(log[r + 1], At(r), At(r + 1))
  BY <1>2 DEF SnapInv, History, At
<1> QED
  BY <1>2, <1>3, <1>4 DEF W!Read, W!database, W!owner

\* A watermark changes the window and nothing else.
LEMMA ReadMark ==
  ASSUME SnapInv, W!Read, NEW r \in Nat, r = read, log[r + 1].origin = "watermark"
  PROVE  /\ in_watermark_window' = ~in_watermark_window
         /\ UNCHANGED <<active_chunk, view>>
         /\ At(r + 1) = At(r)
         /\ r + 1 \in Unread /\ Unread' = Unread \ {r + 1}
<1>1. /\ r + 1 \in 1..Len(log) /\ read' = r + 1
      /\ Explains(log[r + 1], At(r), At(r + 1)) /\ log' = log
  BY NextEntry
<1>2. At(r + 1) = At(r)
  BY <1>1 DEF Explains
<1>3. in_watermark_window' = ~in_watermark_window /\ UNCHANGED <<active_chunk, view>>
  BY DEF W!Read, W!ReadWatermark, W!ReadRow
<1>4. r + 1 \in Unread
  BY <1>1 DEF Unread
<1>5. Len(log) \in Nat
  BY DEF SnapInv, SnapTypes
<1>6. Unread' = Unread \ {r + 1}
  BY <1>1, <1>5 DEF Unread
<1> QED
  BY <1>2, <1>3, <1>4, <1>6

\* A row goes to the consumers as it is, and to the chunk if the window is open
\* and the chunk has its key.
LEMMA ReadChange ==
  ASSUME SnapInv, W!Read, NEW r \in Nat, r = read, log[r + 1].origin # "watermark"
  PROVE  \E key \in Keys, val \in Vals \cup {NoRow} :
           /\ At(r + 1) = [At(r) EXCEPT ![key] = val]
           /\ view' = [view EXCEPT ![key] = val]
           /\ active_chunk' = IF in_watermark_window /\ active_chunk[key] # NoRow
                              THEN [active_chunk EXCEPT ![key] = val]
                              ELSE active_chunk
           /\ UNCHANGED in_watermark_window
           /\ r + 1 \notin Unread /\ Unread' = Unread
<1>1. /\ r + 1 \in 1..Len(log) /\ read' = r + 1
      /\ log[r + 1] \in Entry
      /\ Explains(log[r + 1], At(r), At(r + 1)) /\ log' = log
  BY NextEntry
<1>2. PICK e \in Entry : e = log[r + 1]
  BY <1>1
<1>3. /\ e.origin = "committed" /\ e.key \in Keys /\ e.after \in Vals \cup {NoRow}
      /\ e.op = "Delete" => e.after = NoRow
      /\ At(r + 1) = [At(r) EXCEPT ![e.key] = e.after]
  BY <1>1, <1>2 DEF Explains, Entry
<1>4. \A rows : W!Changed(rows, e.op, e.key, e.after) = [rows EXCEPT ![e.key] = e.after]
  BY <1>3 DEF W!Changed
<1>5. W!ReadRow(e)
  BY <1>2 DEF W!Read, W!ReadWatermark
<1>6. /\ view' = [view EXCEPT ![e.key] = e.after]
      /\ active_chunk' = IF in_watermark_window /\ active_chunk[e.key] # NoRow
                         THEN [active_chunk EXCEPT ![e.key] = e.after]
                         ELSE active_chunk
      /\ UNCHANGED in_watermark_window
  BY <1>3, <1>4, <1>5 DEF W!ReadRow, W!Reconciled
<1>7. r + 1 \notin Unread
  BY DEF Unread
<1>8. Len(log) \in Nat
  BY DEF SnapInv, SnapTypes
<1>9. Unread' = Unread
  BY <1>1, <1>8 DEF Unread
<1> QED
  BY <1>3, <1>6, <1>7, <1>9

\* Tables of the log are tables.
LEMMA TableTypes ==
  ASSUME SnapTypes, NEW n \in 0..Len(log)
  PROVE  At(n) \in W!Rows
<1>1. PICK R : R = W!Rows
  OBVIOUS
<1>2. tables \in Seq(R) /\ n + 1 \in 1..Len(tables)
  BY <1>1 DEF SnapTypes
<1> QED
  BY <1>1, <1>2, ElementOfSeq DEF At

\* Reading a row of the log turns its key into one that is followed.
LEMMA RowReconciles ==
  ASSUME SnapInv, W!Read, NEW r \in Nat, r = read, log[r + 1].origin # "watermark",
         in_watermark_window, NEW sel \in Nat, Reconciling(sel)
  PROVE  Reconciling(sel)'
<1>1. PICK key \in Keys, val \in Vals \cup {NoRow} :
        /\ At(r + 1) = [At(r) EXCEPT ![key] = val]
        /\ view' = [view EXCEPT ![key] = val]
        /\ active_chunk' = IF in_watermark_window /\ active_chunk[key] # NoRow
                           THEN [active_chunk EXCEPT ![key] = val]
                           ELSE active_chunk
  BY ReadChange
<1>2. r + 1 \in 1..Len(log) /\ read' = r + 1 /\ tables' = tables
  BY NextEntry
<1>3. At(r) \in W!Rows /\ view \in W!Rows /\ active_chunk \in W!Rows
  BY TableTypes DEF SnapInv, SnapTypes
<1>4. ASSUME NEW k \in Keys PROVE Followed(k)' \/ Selected(k, sel)'
  <2>1. CASE k = key
    <3>1. At(r + 1)[k] = val /\ view'[k] = val /\ active_chunk'[k] \in {NoRow, val}
      BY <1>1, <1>3, <2>1 DEF W!Rows
    <3> QED
      BY <1>2, <3>1 DEF Followed, At
  <2>2. CASE k # key
    <3>1. /\ At(r + 1)[k] = At(r)[k] /\ view'[k] = view[k]
          /\ active_chunk'[k] = active_chunk[k]
      BY <1>1, <1>3, <2>2 DEF W!Rows
    <3>2. CASE Followed(k)
      BY <1>2, <3>1, <3>2 DEF Followed, At
    <3>3. CASE Selected(k, sel)
      <4>1. active_chunk'[k] = At(sel)[k]
        BY <3>1, <3>3 DEF Selected
      <4>2. ASSUME r + 1 >= sel PROVE At(r + 1)[k] = At(sel)[k]
        <5>1. CASE r >= sel
          BY <3>1, <3>3, <5>1 DEF Selected
        <5>2. CASE r + 1 = sel
          BY <5>2
        <5> QED
          BY <4>2, <5>1, <5>2
      <4> QED
        BY <1>2, <4>1, <4>2 DEF Selected, At
    <3> QED
      BY <3>2, <3>3 DEF Reconciling
  <2> QED
    BY <2>1, <2>2
<1> QED
  BY <1>4 DEF Reconciling

\* Reading a watermark leaves every key as it is.
LEMMA MarkReconciles ==
  ASSUME SnapInv, W!Read, NEW r \in Nat, r = read, log[r + 1].origin = "watermark",
         NEW sel \in Nat, Reconciling(sel)
  PROVE  Reconciling(sel)'
<1>1. At(r + 1) = At(r) /\ view' = view /\ active_chunk' = active_chunk
  BY ReadMark
<1>2. r + 1 \in 1..Len(log) /\ read' = r + 1 /\ tables' = tables
  BY NextEntry
<1>3. ASSUME NEW k \in Keys PROVE Followed(k)' \/ Selected(k, sel)'
  <2>1. CASE Followed(k)
    BY <1>1, <1>2, <2>1 DEF Followed, At
  <2>2. CASE Selected(k, sel)
    <3>1. ASSUME r + 1 >= sel PROVE At(r + 1)[k] = At(sel)[k]
      <4>1. CASE r >= sel
        BY <1>1, <2>2, <4>1 DEF Selected
      <4>2. CASE r + 1 = sel
        BY <4>2
      <4> QED
        BY <3>1, <4>1, <4>2
    <3> QED
      BY <1>1, <1>2, <2>2, <3>1 DEF Selected, At
  <2> QED
    BY <2>1, <2>2 DEF Reconciling
<1> QED
  BY <1>3 DEF Reconciling

\* The low watermark opens the window on a chunk no row of which was touched.
LEMMA OpensWindow ==
  ASSUME SnapInv, W!Read, NEW r \in Nat, r = read, log[r + 1].origin = "watermark",
         NEW sel \in Nat, NEW rest, \A h \in rest : h \in Nat /\ h > sel, Before(sel, rest)
  PROVE  Within(sel, rest)'
<1>1. PICK low \in 1..sel : Unread = {low} \cup rest
  BY DEF Before
<1>2. /\ in_watermark_window' /\ active_chunk' = active_chunk
      /\ r + 1 \in Unread /\ Unread' = Unread \ {r + 1}
  BY ReadMark DEF Before
<1>3. read' = r + 1 /\ tables' = tables
  BY NextEntry
<1>4. r + 1 = low
  <2>1. low > r
    BY <1>1 DEF Unread
  <2> QED
    BY <1>1, <1>2, <2>1
<1>5. Unread' = rest
  <2>1. low \notin rest
    BY <1>1
  <2> QED
    BY <1>1, <1>2, <1>4, <2>1
<1>6. ASSUME NEW k \in Keys PROVE Selected(k, sel)'
  <2>1. active_chunk'[k] = tables'[sel + 1][k]
    BY <1>2, <1>3 DEF Before, At
  <2>2. r + 1 >= sel => r + 1 = sel
    BY <1>1, <1>4
  <2> QED
    BY <1>3, <2>1, <2>2 DEF Selected, At
<1> QED
  BY <1>2, <1>5, <1>6 DEF Within, Reconciling

\* Before it, rows of the log leave the chunk alone.
LEMMA StaysBefore ==
  ASSUME SnapInv, W!Read, NEW r \in Nat, r = read, log[r + 1].origin # "watermark",
         NEW sel \in Nat, NEW rest, Before(sel, rest)
  PROVE  Before(sel, rest)'
<1>1. active_chunk' = active_chunk /\ UNCHANGED in_watermark_window /\ Unread' = Unread
  BY ReadChange DEF Before
<1>2. tables' = tables
  BY NextEntry
<1> QED
  BY <1>1, <1>2 DEF Before, At

\* The consumers' copy keeps up with what is read.
LEMMA ReadView ==
  ASSUME SnapInv, W!Read
  PROVE  SnapTypes' /\ History' /\ ViewBehind' /\ W!SnapshotConsistent'
<1>1. PICK r \in Nat : r = read
  BY DEF SnapInv, SnapTypes
<1>2. /\ r + 1 \in 1..Len(log) /\ read' = r + 1 /\ log[r + 1] \in Entry
      /\ tables' = tables /\ log' = log /\ UNCHANGED <<stage, high, flushes>>
  BY <1>1, NextEntry
<1>3. /\ At(r) \in W!Rows /\ view \in W!Rows /\ active_chunk \in W!Rows
      /\ in_watermark_window \in BOOLEAN /\ Len(log) \in Nat
  BY <1>1, TableTypes DEF SnapInv, SnapTypes
<1>4. History'
  BY <1>2 DEF SnapInv, History
<1>5. CASE log[r + 1].origin = "watermark"
  <2>1. /\ At(r + 1) = At(r) /\ view' = view /\ active_chunk' = active_chunk
        /\ in_watermark_window' \in BOOLEAN
    BY <1>1, <1>3, <1>5, ReadMark
  <2>2. SnapTypes'
    BY <1>2, <1>3, <2>1 DEF SnapInv, SnapTypes, W!Rows, Entry
  <2>3. ViewBehind' /\ W!SnapshotConsistent'
    BY <1>1, <1>2, <2>1 DEF SnapInv, ViewBehind, W!SnapshotConsistent, At
  <2> QED
    BY <1>4, <2>2, <2>3
<1>6. CASE log[r + 1].origin # "watermark"
  <2>1. PICK key \in Keys, val \in Vals \cup {NoRow} :
          /\ At(r + 1) = [At(r) EXCEPT ![key] = val]
          /\ view' = [view EXCEPT ![key] = val]
          /\ active_chunk' = IF in_watermark_window /\ active_chunk[key] # NoRow
                             THEN [active_chunk EXCEPT ![key] = val]
                             ELSE active_chunk
          /\ UNCHANGED in_watermark_window
    BY <1>1, <1>6, ReadChange
  <2>2. view' \in W!Rows /\ active_chunk' \in W!Rows
    BY <1>3, <2>1 DEF W!Rows
  <2>3. SnapTypes'
    BY <1>2, <1>3, <2>1, <2>2 DEF SnapInv, SnapTypes, W!Rows, Entry
  <2>4. ASSUME NEW k \in Keys PROVE view'[k] \in {NoRow, At(r + 1)[k]}
    <3>1. view[k] \in {NoRow, At(r)[k]}
      BY <1>1 DEF SnapInv, ViewBehind
    <3> QED
      BY <1>3, <2>1, <3>1 DEF W!Rows
  <2>5. ViewBehind'
    BY <1>2, <2>4 DEF ViewBehind, At
  <2>6. W!SnapshotConsistent'
    <3>1. flushes > 0 => view = At(r)
      BY <1>1 DEF SnapInv, W!SnapshotConsistent, At
    <3>2. flushes > 0 => view' = At(r + 1)
      BY <2>1, <3>1
    <3> QED
      BY <1>2, <3>2 DEF W!SnapshotConsistent, At
  <2> QED
    BY <1>4, <2>3, <2>5, <2>6
<1> QED
  BY <1>5, <1>6

\* Where reading takes the owner's protocol.
LEMMA ReadStep == ASSUME SnapInv, W!Read PROVE SnapInv'
<1>1. PICK r \in Nat : r = read
  BY DEF SnapInv, SnapTypes
<1>2. /\ r + 1 \in 1..Len(log) /\ read' = r + 1
      /\ tables' = tables /\ log' = log /\ UNCHANGED <<stage, high, flushes>>
  BY <1>1, NextEntry
<1>3. Len(log) \in Nat
  BY DEF SnapInv, SnapTypes
<1>4. Idle'
  <2> SUFFICES ASSUME stage = "idle" PROVE ~in_watermark_window' /\ Unread' = {}
    BY <1>2 DEF Idle
  <2>1. ~in_watermark_window /\ Unread = {}
    BY DEF SnapInv, Idle
  <2>2. CASE log[r + 1].origin = "watermark"
    BY <1>1, <2>1, <2>2, ReadMark
  <2>3. CASE log[r + 1].origin # "watermark"
    BY <1>1, <2>1, <2>3, ReadChange
  <2> QED
    BY <2>2, <2>3
<1>5. Low'
  BY <1>2 DEF Low, W!Read
<1>6. ASSUME NEW sel \in Nat, NEW rest, \A h \in rest : h \in Nat /\ h > sel,
             Before(sel, rest)
      PROVE  Before(sel, rest)' \/ Within(sel, rest)'
  <2>1. CASE log[r + 1].origin = "watermark"
    BY <1>1, <1>6, <2>1, OpensWindow
  <2>2. CASE log[r + 1].origin # "watermark"
    BY <1>1, <1>6, <2>2, StaysBefore
  <2> QED
    BY <2>1, <2>2
<1>7. ASSUME NEW sel \in Nat, NEW rest, Within(sel, rest)
      PROVE  \/ Within(sel, rest)'
             \/ /\ ~in_watermark_window' /\ Reconciling(sel)'
                /\ r + 1 \in rest /\ Unread' = rest \ {r + 1}
  <2>1. in_watermark_window /\ Unread = rest /\ Reconciling(sel)
    BY <1>7 DEF Within
  <2>2. CASE log[r + 1].origin = "watermark"
    BY <1>1, <2>1, <2>2, ReadMark, MarkReconciles
  <2>3. CASE log[r + 1].origin # "watermark"
    <3>1. Reconciling(sel)'
      BY <1>1, <2>1, <2>3, RowReconciles
    <3>2. in_watermark_window' = in_watermark_window /\ Unread' = Unread
      BY <1>1, <2>3, ReadChange
    <3> QED
      BY <2>1, <3>1, <3>2 DEF Within
  <2> QED
    BY <2>2, <2>3
<1>8. Loaded'
  <2> SUFFICES ASSUME stage = "loaded"
               PROVE  \E sel \in 0..Len(log) : Before(sel, {})' \/ Within(sel, {})'
    BY <1>2 DEF Loaded
  <2>1. PICK sel \in 0..Len(log) : Before(sel, {}) \/ Within(sel, {})
    BY DEF SnapInv, Loaded
  <2>2. sel \in Nat
    BY <1>3
  <2>3. Before(sel, {})' \/ Within(sel, {})'
    BY <1>6, <1>7, <2>1, <2>2
  <2> QED
    BY <2>3
<1>9. High'
  <2> SUFFICES ASSUME stage = "high"
               PROVE  /\ high \in 1..Len(log)
                      /\ \E sel \in 0..(high - 1) :
                           \/ Before(sel, {high})' \/ Within(sel, {high})'
                           \/ /\ ~in_watermark_window' /\ r + 1 = high
                              /\ Unread' = {} /\ Reconciling(sel)'
    BY <1>2 DEF High, Before, Within
  <2>1. PICK g \in 1..Len(log) : g = high
    BY DEF SnapInv, High
  <2>2. PICK sel \in 0..(g - 1) :
          \/ Before(sel, {g}) \/ Within(sel, {g})
          \/ ~in_watermark_window /\ read = g
    BY <2>1 DEF SnapInv, High
  <2>3. read # g
    BY <2>1 DEF W!Read, W!HighRead
  <2>4. sel \in Nat /\ g \in Nat /\ g > sel
    BY <1>3
  <2>5. CASE Before(sel, {g})
    <3>1. Before(sel, {g})' \/ Within(sel, {g})'
      BY <1>6, <2>4, <2>5
    <3> QED
      BY <1>2, <2>1, <3>1 DEF Before, Within
  <2>6. CASE Within(sel, {g})
    <3>1. \/ Within(sel, {g})'
          \/ ~in_watermark_window' /\ Reconciling(sel)' /\ r + 1 = g /\ Unread' = {}
      BY <1>7, <2>4, <2>6
    <3> QED
      BY <1>2, <2>1, <3>1 DEF Within
  <2> QED
    BY <2>2, <2>3, <2>5, <2>6
<1> QED
  BY <1>4, <1>5, <1>8, <1>9, ReadView DEF SnapInv

-----------------------------------------------------------------------------
\* What a write to the database leaves of the invariant, whatever is written.
LEMMA Wrote ==
  ASSUME SnapInv, NEW e \in Entry, NEW rows \in W!Rows, NEW n \in Nat, n = Len(log),
         log' = Append(log, e), tables' = Append(tables, rows),
         Explains(e, tables[n + 1], rows), UNCHANGED W!engine, UNCHANGED flushes,
         stage' \in {"idle", "low", "loaded", "high"}, high' \in Nat
  PROVE  /\ SnapTypes' /\ History' /\ ViewBehind' /\ W!SnapshotConsistent'
         /\ \A sel \in 0..n : \A rest :
              /\ Before(sel, rest) =>
                   \E low \in 1..sel : /\ ~in_watermark_window' /\ active_chunk' = At(sel)'
                                       /\ Unread = {low} \cup rest
              /\ Within(sel, rest) =>
                   in_watermark_window' /\ Unread = rest /\ Reconciling(sel)'
<1>1. /\ \A i \in 0..n : At(i)' = At(i)
      /\ History' /\ ViewBehind' /\ W!SnapshotConsistent'
      /\ \A sel \in 0..n : Reconciling(sel) => Reconciling(sel)'
  BY Appended
<1>2. /\ log' \in Seq(Entry) /\ Len(log') = n + 1
      /\ tables' \in Seq(W!Rows) /\ Len(tables') = n + 2
  BY Recorded DEF SnapInv
<1>3. /\ read \in 0..n /\ active_chunk \in W!Rows /\ view \in W!Rows
      /\ in_watermark_window \in BOOLEAN /\ flushes \in Nat
      /\ UNCHANGED <<read, active_chunk, in_watermark_window, view>>
  BY DEF SnapInv, SnapTypes, W!engine
<1>4. SnapTypes'
  BY <1>2, <1>3 DEF SnapTypes, W!Rows, Entry
<1>5. ASSUME NEW sel \in 0..n, NEW rest, Before(sel, rest)
      PROVE  \E low \in 1..sel : /\ ~in_watermark_window' /\ active_chunk' = At(sel)'
                                 /\ Unread = {low} \cup rest
  BY <1>1, <1>3, <1>5 DEF Before
<1>6. ASSUME NEW sel \in 0..n, NEW rest, Within(sel, rest)
      PROVE  in_watermark_window' /\ Unread = rest /\ Reconciling(sel)'
  BY <1>1, <1>3, <1>6 DEF Within
<1> QED
  BY <1>1, <1>4, <1>5, <1>6

\* The last table is the one after the whole log.
LEMMA LastTable ==
  ASSUME SnapTypes, NEW n \in Nat, n = Len(log)
  PROVE  W!Table = tables[n + 1] /\ W!Table \in W!Rows
  BY TableTypes DEF SnapTypes, W!Table, At

\* A committed row is written.
LEMMA WriteStep ==
  ASSUME SnapInv, NEW op \in Ops, NEW k \in Keys, NEW v \in Vals,
         W!Write("committed", op, k, v)
  PROVE  SnapInv'
<1>1. PICK n \in Nat : n = Len(log)
  BY DEF SnapInv, SnapTypes
<1>2. PICK val \in Vals \cup {NoRow} : val = IF op = "Delete" THEN NoRow ELSE v
  OBVIOUS
<1>3. PICK e \in Entry :
        e = [origin |-> "committed", op |-> op, key |-> k, after |-> val]
  BY DEF Entry
<1>4. W!Table = tables[n + 1] /\ W!Table \in W!Rows
  BY <1>1, LastTable DEF SnapInv
<1>5. PICK rows \in W!Rows : rows = [W!Table EXCEPT ![k] = val]
  BY <1>4 DEF W!Rows
<1>6. /\ log' = Append(log, e) /\ tables' = Append(tables, rows)
      /\ UNCHANGED W!engine /\ UNCHANGED <<stage, high, flushes>>
  BY <1>2, <1>3, <1>5 DEF W!Write, W!Record, W!Changed, W!owner
<1>7. Explains(e, tables[n + 1], rows)
  BY <1>2, <1>3, <1>4, <1>5 DEF Explains
<1>8. /\ stage' \in {"idle", "low", "loaded", "high"} /\ high' \in Nat
      /\ UNCHANGED flushes /\ UNCHANGED in_watermark_window /\ read' = read
  BY <1>6 DEF SnapInv, SnapTypes, W!engine
<1>9. Unread' = Unread /\ Len(log') = n + 1
      /\ \A sel \in 0..n : Reconciling(sel) => Reconciling(sel)'
  <2>1. Unread' = Unread /\ \A sel \in 0..n : Reconciling(sel) => Reconciling(sel)'
    BY <1>1, <1>3, <1>6, <1>7, <1>8, Appended
  <2>2. Len(log') = n + 1
    BY <1>1, <1>6, Recorded DEF SnapInv
  <2> QED
    BY <2>1, <2>2
<1>10. /\ SnapTypes' /\ History' /\ ViewBehind' /\ W!SnapshotConsistent'
       /\ \A sel \in 0..n : \A rest :
            /\ Before(sel, rest) => Before(sel, rest)'
            /\ Within(sel, rest) => Within(sel, rest)'
  <2>1. /\ SnapTypes' /\ History' /\ ViewBehind' /\ W!SnapshotConsistent'
        /\ \A sel \in 0..n : \A rest :
             /\ Before(sel, rest) =>
                  \E low \in 1..sel : /\ ~in_watermark_window' /\ active_chunk' = At(sel)'
                                      /\ Unread = {low} \cup rest
             /\ Within(sel, rest) =>
                  in_watermark_window' /\ Unread = rest /\ Reconciling(sel)'
    BY <1>1, <1>6, <1>7, <1>8, Wrote
  <2>2. ASSUME NEW sel \in 0..n, NEW rest, Before(sel, rest) PROVE Before(sel, rest)'
    BY <1>9, <2>1, <2>2 DEF Before
  <2>3. ASSUME NEW sel \in 0..n, NEW rest, Within(sel, rest) PROVE Within(sel, rest)'
    BY <1>9, <2>1, <2>3 DEF Within
  <2> QED
    BY <2>1, <2>2, <2>3
<1>11. Idle' /\ Low'
  BY <1>1, <1>6, <1>8, <1>9 DEF SnapInv, Idle, Low
<1>12. Loaded'
  <2> SUFFICES ASSUME stage = "loaded"
               PROVE  \E sel \in 0..(n + 1) : Before(sel, {})' \/ Within(sel, {})'
    BY <1>6, <1>9 DEF Loaded
  <2>1. PICK sel \in 0..n : Before(sel, {}) \/ Within(sel, {})
    BY <1>1 DEF SnapInv, Loaded
  <2>2. sel \in 0..(n + 1) /\ (Before(sel, {})' \/ Within(sel, {})')
    BY <1>10, <2>1
  <2> QED
    BY <2>2
<1>13. High'
  <2> SUFFICES ASSUME stage = "high", NEW g, g = high
               PROVE  /\ g \in 1..(n + 1)
                      /\ \E sel \in 0..(g - 1) :
                           \/ Before(sel, {g})' \/ Within(sel, {g})'
                           \/ /\ ~in_watermark_window' /\ read' = g
                              /\ Unread' = {} /\ Reconciling(sel)'
    BY <1>6, <1>9 DEF High, Before, Within
  <2>1. g \in 1..n
    BY <1>1 DEF SnapInv, High
  <2>2. PICK sel \in 0..(g - 1) :
          \/ Before(sel, {g}) \/ Within(sel, {g})
          \/ ~in_watermark_window /\ read = g /\ Unread = {} /\ Reconciling(sel)
    BY <2>1 DEF SnapInv, High
  <2>3. sel \in 0..n
    BY <2>1
  <2>4. \/ Before(sel, {g})' \/ Within(sel, {g})'
        \/ ~in_watermark_window' /\ read' = g /\ Unread' = {} /\ Reconciling(sel)'
    BY <1>8, <1>9, <1>10, <2>2, <2>3
  <2> QED
    BY <2>1, <2>4
<1> QED
  BY <1>10, <1>11, <1>12, <1>13 DEF SnapInv

\* A watermark is written: one more is unread.
LEMMA WroteMark ==
  ASSUME SnapInv, W!WriteWatermark, UNCHANGED W!engine, UNCHANGED flushes,
         stage' \in {"idle", "low", "loaded", "high"}, high' \in Nat,
         NEW n \in Nat, n = Len(log)
  PROVE  /\ SnapTypes' /\ History' /\ ViewBehind' /\ W!SnapshotConsistent'
         /\ Len(log') = n + 1 /\ Unread' = Unread \cup {n + 1}
         /\ \A sel \in 0..n : \A rest :
              /\ Before(sel, rest) => Before(sel, rest \cup {n + 1})'
              /\ Within(sel, rest) => Within(sel, rest \cup {n + 1})'
<1>1. PICK e \in Entry :
        e = [origin |-> "watermark", op |-> "Create", key |-> NoRow, after |-> NoRow]
  BY DEF Entry, Ops
<1>2. W!Table = tables[n + 1] /\ W!Table \in W!Rows
  BY LastTable DEF SnapInv
<1>3. PICK rows \in W!Rows : rows = W!Table
  BY <1>2
<1>4. log' = Append(log, e) /\ tables' = Append(tables, rows)
  BY <1>1, <1>3 DEF W!WriteWatermark, W!Record
<1>5. Explains(e, tables[n + 1], rows)
  BY <1>1, <1>2, <1>3 DEF Explains
<1>6. Unread' = Unread \cup {n + 1}
  BY <1>1, <1>4, <1>5, Appended
<1>7. Len(log') = n + 1
  BY <1>4, Recorded DEF SnapInv
<1>8. /\ SnapTypes' /\ History' /\ ViewBehind' /\ W!SnapshotConsistent'
      /\ \A sel \in 0..n : \A rest :
           /\ Before(sel, rest) =>
                \E low \in 1..sel : /\ ~in_watermark_window' /\ active_chunk' = At(sel)'
                                    /\ Unread = {low} \cup rest
           /\ Within(sel, rest) =>
                in_watermark_window' /\ Unread = rest /\ Reconciling(sel)'
  BY <1>4, <1>5, Wrote
<1>9. ASSUME NEW sel \in 0..n, NEW rest, Before(sel, rest)
      PROVE  Before(sel, rest \cup {n + 1})'
  <2>1. PICK low \in 1..sel : /\ ~in_watermark_window' /\ active_chunk' = At(sel)'
                              /\ Unread = {low} \cup rest
    BY <1>8, <1>9
  <2>2. Unread' = {low} \cup (rest \cup {n + 1})
    BY <1>6, <2>1
  <2> QED
    BY <2>1, <2>2 DEF Before
<1>10. ASSUME NEW sel \in 0..n, NEW rest, Within(sel, rest)
       PROVE  Within(sel, rest \cup {n + 1})'
  BY <1>6, <1>8, <1>10 DEF Within
<1> QED
  BY <1>6, <1>7, <1>8, <1>9, <1>10

\* The low watermark.
LEMMA WriteLowStep == ASSUME SnapInv, W!WriteLow PROVE SnapInv'
<1>1. PICK n \in Nat : n = Len(log)
  BY DEF SnapInv, SnapTypes
<1>2. /\ stage = "idle" /\ stage' = "low" /\ UNCHANGED <<W!engine, high, flushes>>
      /\ W!WriteWatermark
  BY DEF W!WriteLow
<1>3. high' \in Nat
  BY <1>2 DEF SnapInv, SnapTypes
<1>4. /\ SnapTypes' /\ History' /\ ViewBehind' /\ W!SnapshotConsistent'
      /\ Len(log') = n + 1 /\ Unread' = Unread \cup {n + 1}
  BY <1>1, <1>2, <1>3, WroteMark
<1>5. ~in_watermark_window' /\ Unread' = {n + 1}
  BY <1>2, <1>4 DEF SnapInv, Idle, W!engine
<1>6. Low'
  BY <1>4, <1>5 DEF Low
<1> QED
  BY <1>2, <1>4, <1>6 DEF SnapInv, Idle, Loaded, High

\* The high watermark, behind everything that was selected.
LEMMA WriteHighStep == ASSUME SnapInv, W!WriteHigh PROVE SnapInv'
<1>1. PICK n \in Nat : n = Len(log)
  BY DEF SnapInv, SnapTypes
<1>2. /\ stage = "loaded" /\ stage' = "high" /\ UNCHANGED <<W!engine, flushes>>
      /\ W!WriteWatermark /\ high' = Len(log')
  BY DEF W!WriteHigh
<1>3. Len(log') = n + 1
  <2>1. log' = Append(log, [origin |-> "watermark", op |-> "Create", key |-> NoRow,
                            after |-> NoRow])
    BY <1>2 DEF W!WriteWatermark, W!Record
  <2>2. PICK e : log' = Append(log, e)
    BY <2>1
  <2> QED
    BY <1>1, <2>2 DEF SnapInv, SnapTypes
<1>4. high' = n + 1 /\ high' \in Nat
  BY <1>2, <1>3
<1>5. /\ SnapTypes' /\ History' /\ ViewBehind' /\ W!SnapshotConsistent'
      /\ \A sel \in 0..n : \A rest :
           /\ Before(sel, rest) => Before(sel, rest \cup {n + 1})'
           /\ Within(sel, rest) => Within(sel, rest \cup {n + 1})'
  BY <1>1, <1>2, <1>4, WroteMark
<1>6. PICK sel \in 0..n : Before(sel, {}) \/ Within(sel, {})
  BY <1>1, <1>2 DEF SnapInv, Loaded
<1>7. Before(sel, {n + 1})' \/ Within(sel, {n + 1})'
  <2>1. {} \cup {n + 1} = {n + 1}
    OBVIOUS
  <2> QED
    BY <1>5, <1>6, <2>1
<1>8. High'
  <2>1. n + 1 \in 1..Len(log') /\ sel \in 0..(n + 1 - 1)
    BY <1>3
  <2> QED
    BY <1>4, <1>7, <2>1 DEF High, Before, Within
<1> QED
  BY <1>2, <1>5, <1>8 DEF SnapInv, Idle, Low, Loaded

\* The select, behind the low watermark.
LEMMA LoadStep == ASSUME SnapInv, W!LoadChunk PROVE SnapInv'
<1>1. PICK n \in Nat : n = Len(log)
  BY DEF SnapInv, SnapTypes
<1>2. /\ stage = "low" /\ stage' = "loaded" /\ active_chunk' = W!Table
      /\ UNCHANGED <<log, tables, read, in_watermark_window, view, high, flushes>>
  BY DEF W!LoadChunk, W!database
<1>3. W!Table = At(n) /\ W!Table \in W!Rows
  BY <1>1, LastTable DEF SnapInv, At
<1>4. ~in_watermark_window' /\ \E low \in 1..n : Unread' = {low}
  BY <1>1, <1>2 DEF SnapInv, Low, Unread
<1>5. Before(n, {})'
  BY <1>2, <1>3, <1>4 DEF Before, At
<1>6. Loaded'
  BY <1>1, <1>2, <1>5 DEF Loaded
<1>7. SnapTypes' /\ History' /\ ViewBehind' /\ W!SnapshotConsistent'
  BY <1>2, <1>3 DEF SnapInv, SnapTypes, W!Rows, Entry, History, ViewBehind,
                    W!SnapshotConsistent, At
<1> QED
  BY <1>2, <1>6, <1>7 DEF SnapInv, Idle, Low, High

\* The flush: followed keys and selected ones are both right.
LEMMA FlushStep == ASSUME SnapInv, W!FlushChunk PROVE SnapInv'
<1>1. PICK g \in Nat : g = high /\ g \in 1..Len(log) /\ read = g /\ stage = "high"
  BY DEF SnapInv, SnapTypes, High, W!FlushChunk, W!HighRead
<1>2. /\ view' = [k \in Keys |-> IF active_chunk[k] # NoRow THEN active_chunk[k]
                                                            ELSE view[k]]
      /\ active_chunk' = W!NoChunk /\ stage' = "idle" /\ flushes' = flushes + 1
      /\ UNCHANGED <<log, tables, read, in_watermark_window, high>>
  BY DEF W!FlushChunk, W!database
<1>3. At(g) \in W!Rows /\ active_chunk \in W!Rows /\ view \in W!Rows
  <2>1. g \in 0..Len(log)
    BY <1>1
  <2> QED
    BY <2>1, TableTypes DEF SnapInv, SnapTypes
<1>4. PICK sel \in 0..(g - 1) : Unread = {} /\ ~in_watermark_window /\ Reconciling(sel)
  <2>1. g \notin Unread
    BY <1>1 DEF Unread
  <2>2. PICK sel \in 0..(g - 1) :
          \/ Before(sel, {g}) \/ Within(sel, {g})
          \/ ~in_watermark_window /\ Unread = {} /\ Reconciling(sel)
    BY <1>1 DEF SnapInv, High
  <2> QED
    BY <2>1, <2>2 DEF Before, Within
<1>5. ASSUME NEW k \in Keys PROVE view'[k] = At(g)[k]
  <2>1. view'[k] = IF active_chunk[k] # NoRow THEN active_chunk[k] ELSE view[k]
    BY <1>2
  <2>2. CASE Followed(k)
    BY <1>1, <2>1, <2>2 DEF Followed
  <2>3. CASE Selected(k, sel)
    <3>1. active_chunk[k] = At(g)[k]
      BY <1>1, <2>3 DEF Selected
    <3>2. view[k] \in {NoRow, At(g)[k]}
      BY <1>1 DEF SnapInv, ViewBehind
    <3> QED
      BY <2>1, <3>1, <3>2
  <2> QED
    BY <1>4, <2>2, <2>3 DEF Reconciling
<1>6. view' = At(g)
  BY <1>2, <1>3, <1>5 DEF W!Rows
<1>7. W!SnapshotConsistent' /\ ViewBehind'
  BY <1>1, <1>2, <1>6 DEF W!SnapshotConsistent, ViewBehind, At
<1>8. SnapTypes' /\ History'
  BY <1>2, <1>3, <1>6 DEF SnapInv, SnapTypes, W!Rows, Entry, W!NoChunk, History
<1>9. Idle'
  BY <1>2, <1>4 DEF Idle, Unread
<1> QED
  BY <1>2, <1>7, <1>8, <1>9 DEF SnapInv, Low, Loaded, High

\* Nothing is read, loaded or flushed.
LEMMA SnapInit == W!Init => SnapInv
<1> SUFFICES ASSUME W!Init PROVE SnapInv
  OBVIOUS
<1>1. PICK rows \in W!Rows : tables = <<rows>>
  BY DEF W!Init
<1>2. /\ log = <<>> /\ read = 0 /\ active_chunk = W!NoChunk /\ view = W!NoChunk
      /\ in_watermark_window = FALSE /\ stage = "idle" /\ high = 0 /\ flushes = 0
  BY DEF W!Init
<1>3. PICK R : R = W!Rows
  OBVIOUS
<1>4. tables \in Seq(R) /\ Len(tables) = 1
  BY <1>1, <1>3
<1>5. W!NoChunk \in W!Rows
  BY DEF W!NoChunk, W!Rows
<1>6. log \in Seq(Entry) /\ Len(log) = 0
  BY <1>2
<1>7. SnapTypes
  <2>1. tables \in Seq(W!Rows)
    BY <1>3, <1>4, Zenon
  <2>2. active_chunk \in W!Rows /\ view \in W!Rows
    BY <1>2, <1>5, Zenon
  <2>3. Len(tables) = Len(log) + 1 /\ read \in 0..Len(log)
    BY <1>2, <1>4, <1>6
  <2> QED
    BY <1>2, <1>6, <2>1, <2>2, <2>3 DEF SnapTypes
<1>8. History /\ ViewBehind /\ W!SnapshotConsistent
  BY <1>2, <1>6 DEF History, ViewBehind, W!SnapshotConsistent, W!NoChunk
<1>9. Idle /\ Low /\ Loaded /\ High
  BY <1>2, <1>6 DEF Idle, Low, Loaded, High, Unread
<1> QED
  BY <1>7, <1>8, <1>9 DEF SnapInv

\* When the log holds committed rows of the snapshotted table only, the
\* consumers' copy is the table as of the entry they have got to once a chunk
\* was flushed, for any number of chunks.
THEOREM SnapshotsConsistent ==
  ASSUME Origins \subseteq {"committed"}
  PROVE  EitherSpec => []SnapshotConsistent
<1>1. SnapInv /\ [ParallelStep \/ WatermarkStep]_<<part, vars, watermarkVars>> => SnapInv'
  <2> SUFFICES ASSUME SnapInv, W!Next \/ UNCHANGED watermarkVars PROVE SnapInv'
    BY DEF ParallelStep, WatermarkStep
  <2>1. ASSUME NEW origin \in Origins, NEW op \in {"Create", "Update", "Delete"},
               NEW k \in Keys, NEW v \in Vals, W!Write(origin, op, k, v)
        PROVE  SnapInv'
    BY <2>1, WriteStep DEF Ops
  <2>2. CASE UNCHANGED watermarkVars
    <3>1. UNCHANGED <<log, tables, read, active_chunk, in_watermark_window, view,
                      stage, high, flushes>>
      BY <2>2 DEF watermarkVars
    <3>2. SnapTypes' /\ History' /\ ViewBehind' /\ W!SnapshotConsistent'
      BY <3>1 DEF SnapInv, SnapTypes, W!Rows, Entry, History, ViewBehind,
                  W!SnapshotConsistent, At
    <3>3. Unread' = Unread /\ \A sel : Reconciling(sel) => Reconciling(sel)'
      BY <3>1 DEF Unread, Reconciling, Followed, Selected, At
    <3>4. \A sel, rest : /\ Before(sel, rest) => Before(sel, rest)'
                         /\ Within(sel, rest) => Within(sel, rest)'
      BY <3>1, <3>3 DEF Before, Within, At
    <3>5. Idle' /\ Low' /\ Loaded'
      BY <3>1, <3>3, <3>4 DEF SnapInv, Idle, Low, Loaded
    <3>6. High'
      <4>1. PICK g : g = high
        OBVIOUS
      <4>2. ASSUME stage = "high"
            PROVE  /\ g \in 1..Len(log')
                   /\ \E sel \in 0..(g - 1) :
                        \/ Before(sel, {g})' \/ Within(sel, {g})'
                        \/ /\ ~in_watermark_window' /\ read' = g
                           /\ Unread' = {} /\ Reconciling(sel)'
        BY <3>1, <3>3, <3>4, <4>1, <4>2 DEF SnapInv, High
      <4> QED
        BY <3>1, <4>1, <4>2 DEF High, Before, Within
    <3> QED
      BY <3>2, <3>5, <3>6 DEF SnapInv
  <2> QED
    BY <2>1, <2>2, WriteLowStep, WriteHighStep, LoadStep, ReadStep, FlushStep DEF W!Next
<1>2. SnapInv => SnapshotConsistent
  BY DEF SnapInv, SnapshotConsistent
<1>3. EitherInit => SnapInv
  BY SnapInit DEF EitherInit
<1> QED
  BY <1>1, <1>2, <1>3, PTL DEF EitherSpec
=============================================================================
