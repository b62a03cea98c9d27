---------------------------- MODULE IngestProofs ----------------------------
(***************************************************************************)
(* Proofs about the duplicate filter and the transaction buffer, for every *)
(* capacity (0 included), every set of ids and transactions and a log of   *)
(* any length.  QueueMatchesSet is inductive together with the types; the  *)
(* filter's refinement of the sliding window follows from it.  For the     *)
(* buffer the invariant says that what is buffered for a transaction that  *)
(* was not pruned is its open rows, in the order of the log.               *)
(***************************************************************************)
EXTENDS IngestStage, SequenceTheorems, TLAPS

Event == [id : Ids, tx : Txs \cup {NoTx}, op : {"Create", "Commit", "Rollback"}]

StageTypes ==
  /\ filter \in [processed_ids : SUBSET Ids, order : Seq(Ids)]
  /\ buffer \in [Txs -> Seq(Nat)]
  /\ log \in Seq(Event)
  /\ pruned \in SUBSET Txs

\* What the buffer holds of a transaction that was not pruned.
BufferHoldsOpen ==
  \A x \in Txs \ pruned :
    /\ ToSet(buffer[x]) = OpenRows(log, x)
    /\ \A i, j \in DOMAIN buffer[x] : i < j => buffer[x][i] < buffer[x][j]

StageInv == StageTypes /\ QueueMatchesSet /\ BufferHoldsOpen

(***************************************************************************)
(* The filter.                                                             *)
(***************************************************************************)
\* check_and_track on an id that is not in the set, below the capacity.
LEMMA TrackBelow ==
  ASSUME NEW f \in [processed_ids : SUBSET Ids, order : Seq(Ids)], NEW id \in Ids,
         id \notin f.processed_ids, Len(f.order) + 1 <= DedupCapacity
  PROVE  AfterCheck(f, id) = [processed_ids |-> f.processed_ids \cup {id},
                              order |-> Append(f.order, id)]
<1>1. Len(Append(f.order, id)) = Len(f.order) + 1 /\ Len(f.order) \in Nat
  OBVIOUS
<1>2. ~(Len(Append(f.order, id)) > DedupCapacity)
  BY <1>1, DedupCapacityAssumption
<1> QED
  BY <1>2 DEF AfterCheck, IsDuplicate

\* The same at the capacity: the oldest id leaves the queue and the set.
LEMMA TrackFull ==
  ASSUME NEW f \in [processed_ids : SUBSET Ids, order : Seq(Ids)], NEW id \in Ids,
         id \notin f.processed_ids, Len(f.order) + 1 > DedupCapacity
  PROVE  AfterCheck(f, id) =
           [processed_ids |-> (f.processed_ids \cup {id}) \ {Head(Append(f.order, id))},
            order |-> Tail(Append(f.order, id))]
<1>1. Len(Append(f.order, id)) = Len(f.order) + 1 /\ Len(f.order) \in Nat
  OBVIOUS
<1>2. Len(Append(f.order, id)) > DedupCapacity
  BY <1>1, DedupCapacityAssumption
<1> QED
  BY <1>2 DEF AfterCheck, IsDuplicate

\* A duplicate changes nothing.
LEMMA TrackDuplicate ==
  ASSUME NEW f, NEW id, id \in f.processed_ids
  PROVE  AfterCheck(f, id) = f
BY DEF AfterCheck, IsDuplicate

\* Appending to the log.
LEMMA LogGrows ==
  ASSUME NEW s \in Seq(Event), NEW e \in Event
  PROVE  /\ Append(s, e) \in Seq(Event)
         /\ Len(Append(s, e)) = Len(s) + 1 /\ Len(s) \in Nat
         /\ DOMAIN s = 1..Len(s) /\ DOMAIN Append(s, e) = 1..(Len(s) + 1)
         /\ \A i \in 1..Len(s) : Append(s, e)[i] = s[i]
         /\ Append(s, e)[Len(s) + 1] = e
BY AppendProperties

\* QueueMatchesSet of any filter f and log s, and of its parts: a queue q of
\* length n, a set S and a log s of length k.
Fits(q, S, n, s, k) ==
  /\ n = IF k < DedupCapacity THEN k ELSE DedupCapacity
  /\ \A i \in 1..n : q[i] = s[k - n + i].id
  /\ \A i, j \in 1..n : q[i] = q[j] => i = j
  /\ S = {q[i] : i \in 1..n}
Matches(f, s) == Fits(f.order, f.processed_ids, Len(f.order), s, Len(s))

\* The queue and the set after an id was tracked.
LEMMA QueueStep ==
  ASSUME NEW f \in [processed_ids : SUBSET Ids, order : Seq(Ids)],
         NEW s \in Seq(Event), NEW e \in Event,
         Matches(f, s), e.id \notin f.processed_ids
  PROVE  /\ AfterCheck(f, e.id) \in [processed_ids : SUBSET Ids, order : Seq(Ids)]
         /\ Matches(AfterCheck(f, e.id), Append(s, e))
<1>1. PICK id \in Ids : id = e.id
  BY DEF Event
<1>2. PICK q \in Seq(Ids) : q = f.order
  OBVIOUS
<1>3. PICK n \in Nat, k \in Nat : n = Len(q) /\ k = Len(s)
  OBVIOUS
<1>4. PICK S \in SUBSET Ids : S = f.processed_ids
  OBVIOUS
<1>5. PICK p \in Seq(Ids) : p = Append(q, id)
  BY AppendProperties
<1>6. PICK t \in Seq(Event) : t = Append(s, e)
  BY LogGrows
<1>7. /\ n = IF k < DedupCapacity THEN k ELSE DedupCapacity
      /\ \A i \in 1..n : q[i] = s[k - n + i].id
      /\ \A i, j \in 1..n : q[i] = q[j] => i = j
      /\ S = {q[i] : i \in 1..n}
      /\ id \notin S
  <2>1. Fits(q, S, n, s, k)
    BY <1>2, <1>3, <1>4, Zenon DEF Matches
  <2> QED
    BY <1>1, <1>4, <2>1 DEF Fits
<1>8. /\ Len(p) = n + 1
      /\ \A i \in 1..n : p[i] = q[i]
      /\ p[n + 1] = id
  BY <1>3, <1>5, AppendProperties
<1>9. /\ Len(t) = k + 1
      /\ \A i \in 1..k : t[i] = s[i]
      /\ t[k + 1].id = id
  BY <1>1, <1>3, <1>6, LogGrows
<1>10. DedupCapacity \in Nat
  BY DedupCapacityAssumption
<1>11. \A i \in 1..(n + 1) : i \in 1..n \/ i = n + 1
  OBVIOUS
<1>12. \A i \in 1..(n + 1) : p[i] = t[k - n + i].id
  <2>1. \A i \in 1..n : k - n + i \in 1..k
    BY <1>7, <1>10
  <2>2. \A i \in 1..n : p[i] = t[k - n + i].id
    BY <1>7, <1>8, <1>9, <2>1
  <2>3. k - n + (n + 1) = k + 1
    OBVIOUS
  <2>4. p[n + 1] = t[k - n + (n + 1)].id
    BY <1>8, <1>9, <2>3
  <2> QED
    BY <1>11, <2>2, <2>4
<1>13. \A i, j \in 1..(n + 1) : p[i] = p[j] => i = j
  <2>1. \A i \in 1..n : q[i] \in S
    BY <1>7, Zenon
  <2>2. \A i \in 1..n : p[i] # id
    BY <1>7, <1>8, <2>1
  <2>3. \A i, j \in 1..n : p[i] = p[j] => i = j
    BY <1>7, <1>8
  <2> QED
    BY <1>8, <1>11, <2>2, <2>3, Zenon
<1>14. S \cup {id} = {p[i] : i \in 1..(n + 1)}
  <2>1. \A i \in 1..n : i \in 1..(n + 1)
    OBVIOUS
  <2>2. n + 1 \in 1..(n + 1)
    OBVIOUS
  <2>3. \A x \in S : \E i \in 1..n : x = q[i]
    BY <1>7, Zenon
  <2>4. \A i \in 1..n : q[i] \in S
    BY <1>7, Zenon
  <2>5. \A x \in S : \E i \in 1..(n + 1) : x = p[i]
    BY <1>8, <2>1, <2>3, Zenon
  <2>6. \A i \in 1..(n + 1) : p[i] \in S \cup {id}
    BY <1>8, <1>11, <2>4, Zenon
  <2> QED
    BY <1>8, <2>2, <2>5, <2>6, ZenonT(30)
<1>15. CASE n + 1 <= DedupCapacity
  <2>1. PICK g : g = AfterCheck(f, id)
    OBVIOUS
  <2>2. g = [processed_ids |-> S \cup {id}, order |-> p]
    BY <1>2, <1>3, <1>4, <1>5, <1>7, <1>15, <2>1, TrackBelow
  <2>3. g.order = p /\ g.processed_ids = S \cup {id}
    BY <2>2
  <2>4. n + 1 = IF k + 1 < DedupCapacity THEN k + 1 ELSE DedupCapacity
    BY <1>7, <1>10, <1>15
  <2>5. \A i \in 1..(n + 1) : k + 1 - (n + 1) + i = k - n + i
    OBVIOUS
  <2>6. \A i \in 1..(n + 1) : p[i] = t[k + 1 - (n + 1) + i].id
    BY <1>12, <2>5
  <2>7. Matches(g, t)
    <3>1. Fits(p, S \cup {id}, n + 1, t, k + 1)
      <4>1. PICK m, l : m = n + 1 /\ l = k + 1
        OBVIOUS
      <4>2. m = IF l < DedupCapacity THEN l ELSE DedupCapacity
        BY <2>4, <4>1
      <4>3. \A i \in 1..m : p[i] = t[l - m + i].id
        BY <2>6, <4>1
      <4>4. \A i, j \in 1..m : p[i] = p[j] => i = j
        BY <1>13, <4>1
      <4>5. S \cup {id} = {p[i] : i \in 1..m}
        BY <1>14, <4>1, Zenon
      <4>6. Fits(p, S \cup {id}, m, t, l)
        BY <4>2, <4>3, <4>4, <4>5 DEF Fits
      <4> QED
        BY <4>1, <4>6, Zenon
    <3> QED
      BY <1>8, <1>9, <2>3, <3>1, Zenon DEF Matches
  <2>8. g \in [processed_ids : SUBSET Ids, order : Seq(Ids)]
    BY <2>2
  <2> QED
    BY <1>1, <1>6, <2>1, <2>7, <2>8
<1>16. CASE n + 1 > DedupCapacity
  <2>1. PICK g : g = AfterCheck(f, id)
    OBVIOUS
  <2>2. PICK r \in Seq(Ids) : /\ r = Tail(p) /\ Len(r) = n
                              /\ \A i \in 1..n : r[i] = p[i + 1]
                              /\ Head(p) = p[1]
    <3>1. p # <<>>
      BY <1>8
    <3>2. /\ Tail(p) \in Seq(Ids) /\ Len(Tail(p)) = n
          /\ \A i \in 1..Len(Tail(p)) : Tail(p)[i] = p[i + 1]
      BY <1>8, <3>1, HeadTailProperties
    <3>3. Head(p) = p[1]
      BY <3>1
    <3> QED
      BY <3>2, <3>3, Zenon
  <2>3. g = [processed_ids |-> (S \cup {id}) \ {p[1]}, order |-> r]
    <3>1. id \notin f.processed_ids /\ Len(f.order) + 1 > DedupCapacity
      BY <1>2, <1>3, <1>4, <1>7, <1>16
    <3>2. g = [processed_ids |-> (f.processed_ids \cup {id}) \ {Head(Append(f.order, id))},
               order |-> Tail(Append(f.order, id))]
      BY <2>1, <3>1, TrackFull
    <3> QED
      BY <1>2, <1>4, <1>5, <2>2, <3>2, Zenon
  <2>4. g.order = r /\ g.processed_ids = (S \cup {id}) \ {p[1]}
    BY <2>3
  <2>5. n = IF k + 1 < DedupCapacity THEN k + 1 ELSE DedupCapacity
    BY <1>7, <1>10, <1>16
  <2>6. \A i \in 1..n : i + 1 \in 1..(n + 1) /\ k - n + (i + 1) = k + 1 - n + i
    OBVIOUS
  <2>7. \A i \in 1..n : r[i] = t[k + 1 - n + i].id
    <3>1. \A i \in 1..n : p[i + 1] = t[k - n + (i + 1)].id
      BY <1>12, <2>6
    <3> QED
      BY <2>2, <2>6, <3>1
  <2>8. \A i, j \in 1..n : r[i] = r[j] => i = j
    <3>1. \A i, j \in 1..n : i + 1 = j + 1 => i = j
      OBVIOUS
    <3> QED
      BY <1>13, <2>2, <2>6, <3>1
  <2>9. (S \cup {id}) \ {p[1]} = {r[i] : i \in 1..n}
    <3>1. \A i \in 1..n : i + 1 # 1 /\ 1 \in 1..(n + 1)
      OBVIOUS
    <3>2. \A i \in 1..n : r[i] # p[1] /\ r[i] \in S \cup {id}
      BY <1>13, <1>14, <2>2, <2>6, <3>1
    <3>3. \A i \in 1..(n + 1) : i = 1 \/ (i - 1 \in 1..n /\ (i - 1) + 1 = i)
      OBVIOUS
    <3>4. \A i \in 1..(n + 1) : i = 1 \/ (i - 1 \in 1..n /\ p[i] = r[i - 1])
      BY <2>2, <3>3
    <3>5. ASSUME NEW x \in (S \cup {id}) \ {p[1]} PROVE x \in {r[i] : i \in 1..n}
      <4>1. PICK i \in 1..(n + 1) : x = p[i]
        BY <1>14
      <4>2. i - 1 \in 1..n /\ x = r[i - 1]
        BY <3>4, <4>1
      <4> QED
        BY <4>2
    <3> QED
      BY <3>2, <3>5
  <2>10. Matches(g, t)
    <3>1. Fits(r, (S \cup {id}) \ {p[1]}, n, t, k + 1)
      <4>1. PICK l : l = k + 1
        OBVIOUS
      <4>2. PICK W : W = (S \cup {id}) \ {p[1]}
        OBVIOUS
      <4>3. n = IF l < DedupCapacity THEN l ELSE DedupCapacity
        BY <2>5, <4>1
      <4>4. \A i \in 1..n : r[i] = t[l - n + i].id
        BY <2>7, <4>1
      <4>5. W = {r[i] : i \in 1..n}
        BY <2>9, <4>2, Zenon
      <4>6. Fits(r, W, n, t, l)
        BY <2>8, <4>3, <4>4, <4>5, Zenon DEF Fits
      <4> QED
        BY <4>1, <4>2, <4>6, Zenon
    <3> QED
      BY <1>9, <2>2, <2>4, <3>1, Zenon DEF Matches
  <2>11. g \in [processed_ids : SUBSET Ids, order : Seq(Ids)]
    BY <2>3
  <2> QED
    BY <1>1, <1>6, <2>1, <2>10, <2>11
<1> QED
  BY <1>10, <1>15, <1>16

(***************************************************************************)
(* The buffer.                                                             *)
(***************************************************************************)
\* An event of another transaction, or of none, leaves the open rows alone.
LEMMA OpenOther ==
  ASSUME NEW s \in Seq(Event), NEW e \in Event, NEW x, e.tx # x
  PROVE  OpenRows(Append(s, e), x) = OpenRows(s, x)
<1>0. PICK t \in Seq(Event) : t = Append(s, e)
  BY LogGrows
<1>1. PICK n \in Nat : n = Len(s)
  OBVIOUS
<1>2. /\ Len(t) = n + 1 /\ DOMAIN s = 1..n /\ DOMAIN t = 1..(n + 1)
      /\ \A i \in 1..n : t[i] = s[i]
      /\ t[n + 1] = e
  BY <1>0, <1>1, LogGrows
<1>3. ~IsEndOf(t[n + 1], x) /\ t[n + 1].tx # x
  BY <1>2 DEF IsEndOf
<1>4. ASSUME NEW i \in 1..n
      PROVE  (\A j \in i..(n + 1) : ~IsEndOf(t[j], x))
               <=> (\A j \in i..n : ~IsEndOf(s[j], x))
  <2>1. \A j \in i..(n + 1) : j \in i..n \/ j = n + 1
    OBVIOUS
  <2>2. \A j \in i..n : j \in i..(n + 1) /\ t[j] = s[j]
    BY <1>2
  <2> QED
    BY <1>3, <2>1, <2>2
<1>5. \A i \in 1..(n + 1) : i \in 1..n \/ i = n + 1
  OBVIOUS
<1>6. \A i \in 1..n : i \in 1..(n + 1)
  OBVIOUS
<1>7. ASSUME NEW i PROVE i \in OpenRows(t, x) <=> i \in OpenRows(s, x)
  <2>1. i \in OpenRows(t, x) <=> /\ i \in 1..(n + 1) /\ t[i].tx = x /\ ~IsEndOf(t[i], x)
                                 /\ \A j \in i..(n + 1) : ~IsEndOf(t[j], x)
    BY <1>2 DEF OpenRows
  <2>2. i \in OpenRows(s, x) <=> /\ i \in 1..n /\ s[i].tx = x /\ ~IsEndOf(s[i], x)
                                 /\ \A j \in i..n : ~IsEndOf(s[j], x)
    BY <1>1, <1>2 DEF OpenRows
  <2> QED
    BY <1>2, <1>3, <1>4, <1>5, <1>6, <2>1, <2>2
<1> QED
  BY <1>0, <1>7

\* A row joins the open rows of its transaction.
LEMMA OpenRow ==
  ASSUME NEW s \in Seq(Event), NEW e \in Event, e.op = "Create"
  PROVE  OpenRows(Append(s, e), e.tx) = OpenRows(s, e.tx) \cup {Len(s) + 1}
<1>0. PICK t \in Seq(Event) : t = Append(s, e)
  BY LogGrows
<1>1. PICK n \in Nat : n = Len(s)
  OBVIOUS
<1>x. PICK x : x = e.tx
  OBVIOUS
<1>2. /\ Len(t) = n + 1 /\ DOMAIN s = 1..n /\ DOMAIN t = 1..(n + 1)
      /\ \A i \in 1..n : t[i] = s[i]
      /\ t[n + 1] = e
  BY <1>0, <1>1, LogGrows
<1>3. ~IsEndOf(t[n + 1], x) /\ t[n + 1].tx = x
  BY <1>x, <1>2 DEF IsEndOf
<1>4. ASSUME NEW i \in 1..n
      PROVE  (\A j \in i..(n + 1) : ~IsEndOf(t[j], x))
               <=> (\A j \in i..n : ~IsEndOf(s[j], x))
  <2>1. \A j \in i..(n + 1) : j \in i..n \/ j = n + 1
    OBVIOUS
  <2>2. \A j \in i..n : j \in i..(n + 1) /\ t[j] = s[j]
    BY <1>2
  <2> QED
    BY <1>3, <2>1, <2>2
<1>5. \A i \in 1..(n + 1) : i \in 1..n \/ i = n + 1
  OBVIOUS
<1>6. \A i \in 1..n : i \in 1..(n + 1) /\ i # n + 1
  OBVIOUS
<1>7. /\ n + 1 \in 1..(n + 1)
      /\ \A j \in (n + 1)..(n + 1) : ~IsEndOf(t[j], x)
  BY <1>3
<1>8. ASSUME NEW i PROVE i \in OpenRows(t, x) <=> i \in OpenRows(s, x) \/ i = n + 1
  <2>1. i \in OpenRows(t, x) <=> /\ i \in 1..(n + 1) /\ t[i].tx = x /\ ~IsEndOf(t[i], x)
                                 /\ \A j \in i..(n + 1) : ~IsEndOf(t[j], x)
    BY <1>2 DEF OpenRows
  <2>2. i \in OpenRows(s, x) <=> /\ i \in 1..n /\ s[i].tx = x /\ ~IsEndOf(s[i], x)
                                 /\ \A j \in i..n : ~IsEndOf(s[j], x)
    BY <1>1, <1>2 DEF OpenRows
  <2> QED
    BY <1>2, <1>3, <1>4, <1>5, <1>6, <1>7, <2>1, <2>2
<1>9. OpenRows(t, x) = OpenRows(s, x) \cup {n + 1}
  BY <1>8
<1> QED
  BY <1>x, <1>0, <1>1, <1>9

\* An end marker closes its transaction.
LEMMA OpenEnd ==
  ASSUME NEW s \in Seq(Event), NEW e \in Event, e.op \in {"Commit", "Rollback"}
  PROVE  OpenRows(Append(s, e), e.tx) = {}
<1>0. PICK t \in Seq(Event) : t = Append(s, e)
  BY LogGrows
<1>1. PICK n \in Nat : n = Len(s)
  OBVIOUS
<1>x. PICK x : x = e.tx
  OBVIOUS
<1>2. Len(t) = n + 1 /\ DOMAIN t = 1..(n + 1) /\ t[n + 1] = e
  BY <1>0, <1>1, LogGrows
<1>3. IsEndOf(t[n + 1], x)
  BY <1>x, <1>2 DEF IsEndOf
<1>4. \A i \in 1..(n + 1) : n + 1 \in i..(n + 1)
  OBVIOUS
<1>5. OpenRows(t, x) = {}
  BY <1>2, <1>3, <1>4 DEF OpenRows
<1> QED
  BY <1>x, <1>0, <1>5

\* A row pushed behind smaller ones.
LEMMA PushRow ==
  ASSUME NEW b \in Seq(Nat), NEW m \in Nat,
         \A i \in DOMAIN b : b[i] < m,
         \A i, j \in DOMAIN b : i < j => b[i] < b[j]
  PROVE  /\ Append(b, m) \in Seq(Nat)
         /\ ToSet(Append(b, m)) = ToSet(b) \cup {m}
         /\ \A i, j \in DOMAIN Append(b, m) : i < j => Append(b, m)[i] < Append(b, m)[j]
<1>1. PICK n \in Nat : n = Len(b)
  OBVIOUS
<1>2. PICK c \in Seq(Nat) : c = Append(b, m)
  BY AppendProperties
<1>3. /\ DOMAIN b = 1..n /\ DOMAIN c = 1..(n + 1)
      /\ \A i \in 1..n : c[i] = b[i]
      /\ c[n + 1] = m
  BY <1>1, <1>2, AppendProperties
<1>4. \A i \in 1..(n + 1) : i \in 1..n \/ i = n + 1
  OBVIOUS
<1>5. \A i \in 1..n : i \in 1..(n + 1)
  OBVIOUS
<1>6. ToSet(c) = ToSet(b) \cup {m}
  <2>1. \A y : y \in ToSet(c) <=> \E i \in 1..(n + 1) : y = c[i]
    BY <1>3, Zenon DEF ToSet
  <2>2. \A y : y \in ToSet(b) <=> \E i \in 1..n : y = b[i]
    BY <1>3, Zenon DEF ToSet
  <2>3. n + 1 \in 1..(n + 1)
    OBVIOUS
  <2> QED
    BY <1>3, <1>4, <1>5, <2>1, <2>2, <2>3
<1>7. \A i, j \in 1..(n + 1) : i < j => c[i] < c[j]
  <2> SUFFICES ASSUME NEW i \in 1..(n + 1), NEW j \in 1..(n + 1), i < j
               PROVE  c[i] < c[j]
    OBVIOUS
  <2>1. i \in 1..n
    OBVIOUS
  <2> QED
    BY <1>3, <1>4, <2>1
<1> QED
  BY <1>2, <1>3, <1>6, <1>7

(***************************************************************************)
(* The steps.                                                              *)
(***************************************************************************)
\* The invariant holds of a new stage.
LEMMA StageInit == Init => StageInv
<1> SUFFICES ASSUME Init PROVE StageInv
  OBVIOUS
<1>1. StageTypes
  BY DEF Init, StageTypes, NewFilter, NewBuffer
<1>2. filter.order = <<>> /\ filter.processed_ids = {} /\ log = <<>>
  BY DEF Init, NewFilter
<1>3. QueueMatchesSet
  BY <1>2, DedupCapacityAssumption DEF QueueMatchesSet
<1>4. ASSUME NEW x \in Txs
      PROVE  /\ ToSet(buffer[x]) = OpenRows(log, x)
             /\ \A i, j \in DOMAIN buffer[x] : i < j => buffer[x][i] < buffer[x][j]
  <2>1. buffer[x] = <<>>
    BY DEF Init, NewBuffer
  <2>2. ToSet(buffer[x]) = {} /\ DOMAIN buffer[x] = {}
    BY <2>1 DEF ToSet
  <2>3. OpenRows(log, x) = {}
    BY <1>2 DEF OpenRows
  <2> QED
    BY <2>2, <2>3
<1> QED
  BY <1>1, <1>3, <1>4 DEF StageInv, BufferHoldsOpen

\* A duplicate is skipped.
LEMMA SkipStep ==
  ASSUME StageInv, NEW id \in Ids, Skip(id)
  PROVE  StageInv'
<1>1. filter' = filter /\ UNCHANGED <<buffer, log, out, pruned>>
  BY TrackDuplicate DEF Skip, IsDuplicate
<1> QED
  BY <1>1 DEF StageInv, StageTypes, QueueMatchesSet, BufferHoldsOpen

\* A new event is tracked and goes to its transaction.
LEMMA ProcessStep ==
  ASSUME StageInv, NEW id \in Ids, NEW tx \in Txs \cup {NoTx},
         NEW op \in {"Create", "Commit", "Rollback"}, Process(id, tx, op)
  PROVE  StageInv'
<1>1. PICK e \in Event : e = [id |-> id, tx |-> tx, op |-> op]
  BY DEF Event
<1>2. e.id = id /\ e.tx = tx /\ e.op = op
  BY <1>1
<1>3. PICK n \in Nat, s \in Seq(Event), b \in [Txs -> Seq(Nat)] :
        n = Len(log) /\ s = log /\ b = buffer
  BY DEF StageInv, StageTypes
<1>4. /\ id \notin filter.processed_ids
      /\ filter' = AfterCheck(filter, id)
      /\ buffer' = AfterProcess(b, tx, op, n + 1)
      /\ log' = Append(s, e)
      /\ pruned' = IF op \in {"Commit", "Rollback"} THEN pruned \ {tx} ELSE pruned
  BY <1>1, <1>3 DEF Process, IsDuplicate
<1>5. /\ filter' \in [processed_ids : SUBSET Ids, order : Seq(Ids)]
      /\ QueueMatchesSet'
  <2>1. PICK f \in [processed_ids : SUBSET Ids, order : Seq(Ids)] : f = filter
    BY DEF StageInv, StageTypes
  <2>2. Matches(f, s)
    <3>1. Matches(filter, log)
      BY DEF StageInv, QueueMatchesSet, Matches, Fits
    <3> QED
      BY <1>3, <2>1, <3>1
  <2>3. /\ AfterCheck(f, e.id) \in [processed_ids : SUBSET Ids, order : Seq(Ids)]
        /\ Matches(AfterCheck(f, e.id), Append(s, e))
    BY <1>2, <1>4, <2>1, <2>2, QueueStep
  <2>4. PICK g, t : g = AfterCheck(f, e.id) /\ t = Append(s, e)
    OBVIOUS
  <2>5. g = filter' /\ t = log'
    BY <1>2, <1>4, <2>1, <2>4
  <2>6. Fits(g.order, g.processed_ids, Len(g.order), t, Len(t))
    BY <2>3, <2>4 DEF Matches
  <2> QED
    BY <2>3, <2>4, <2>5, <2>6 DEF QueueMatchesSet, Fits
<1>6. log' \in Seq(Event)
  BY <1>4, LogGrows
<1>7. pruned' \in SUBSET Txs
  BY <1>4 DEF StageInv, StageTypes
<1>8. ASSUME NEW x \in Txs
      PROVE  /\ buffer'[x] \in Seq(Nat)
             /\ x \notin pruned' =>
                  /\ ToSet(buffer'[x]) = OpenRows(log', x)
                  /\ \A i, j \in DOMAIN buffer'[x] : i < j => buffer'[x][i] < buffer'[x][j]
  <2>1. x \notin pruned =>
          /\ ToSet(b[x]) = OpenRows(s, x)
          /\ \A i, j \in DOMAIN b[x] : i < j => b[x][i] < b[x][j]
    BY <1>3 DEF StageInv, BufferHoldsOpen
  <2>2. CASE tx # x
    <3>1. buffer'[x] = b[x]
      BY <1>4, <2>2 DEF AfterProcess
    <3>2. x \notin pruned' => x \notin pruned
      BY <1>4, <2>2
    <3>3. OpenRows(log', x) = OpenRows(s, x)
      BY <1>2, <1>4, <2>2, OpenOther
    <3> QED
      BY <2>1, <3>1, <3>2, <3>3
  <2>3. CASE tx = x /\ op # "Create"
    <3>1. x # NoTx
      BY NoTxAssumption
    <3>2. buffer'[x] = <<>>
      BY <1>4, <2>3, <3>1 DEF AfterProcess
    <3>3. OpenRows(log', x) = {}
      BY <1>2, <1>4, <2>3, OpenEnd
    <3>4. ToSet(buffer'[x]) = {} /\ DOMAIN buffer'[x] = {} /\ buffer'[x] \in Seq(Nat)
      BY <3>2 DEF ToSet
    <3> QED
      BY <3>3, <3>4
  <2>4. CASE tx = x /\ op = "Create"
    <3>1. x # NoTx
      BY NoTxAssumption
    <3>2. buffer'[x] = Append(b[x], n + 1)
      BY <1>4, <2>4, <3>1 DEF AfterProcess
    <3>3. pruned' = pruned
      BY <1>4, <2>4
    <3>4. b[x] \in Seq(Nat) /\ buffer'[x] \in Seq(Nat)
      BY <3>2
    <3>5. ASSUME x \notin pruned
          PROVE  /\ ToSet(buffer'[x]) = OpenRows(log', x)
                 /\ \A i, j \in DOMAIN buffer'[x] :
                      i < j => buffer'[x][i] < buffer'[x][j]
      <4>1. \A i \in OpenRows(s, x) : i \in 1..n
        BY <1>3 DEF OpenRows
      <4>2. \A i \in DOMAIN b[x] : b[x][i] \in OpenRows(s, x)
        BY <2>1, <3>5 DEF ToSet
      <4>3. \A i \in DOMAIN b[x] : b[x][i] < n + 1
        BY <4>1, <4>2
      <4>4. /\ ToSet(buffer'[x]) = ToSet(b[x]) \cup {n + 1}
            /\ \A i, j \in DOMAIN buffer'[x] : i < j => buffer'[x][i] < buffer'[x][j]
        BY <2>1, <3>2, <3>4, <3>5, <4>3, PushRow
      <4>5. OpenRows(log', x) = OpenRows(s, x) \cup {n + 1}
        BY <1>2, <1>3, <1>4, <2>4, OpenRow
      <4> QED
        BY <2>1, <3>5, <4>4, <4>5
    <3> QED
      BY <3>3, <3>4, <3>5
  <2> QED
    BY <2>2, <2>3, <2>4
<1>9. buffer' \in [Txs -> Seq(Nat)]
  <2>1. buffer' = b \/ (\E v : buffer' = [b EXCEPT ![tx] = v])
    BY <1>4 DEF AfterProcess
  <2>2. buffer' = [y \in Txs |-> buffer'[y]]
    BY <2>1
  <2> QED
    BY <1>8, <2>2
<1> QED
  BY <1>5, <1>6, <1>7, <1>8, <1>9 DEF StageInv, StageTypes, BufferHoldsOpen

\* prune empties the buffer, and then every open transaction is counted as
\* pruned, or leaves it alone.
LEMMA PruneStep ==
  ASSUME StageInv, NEW max_size, Prune(max_size)
  PROVE  StageInv'
<1>1. /\ buffer' = NewBuffer \/ buffer' = buffer
      /\ pruned' = pruned \cup (OpenTxs(buffer) \ OpenTxs(buffer'))
      /\ UNCHANGED <<filter, log>>
  BY DEF Prune, AfterPrune
<1>2. QueueMatchesSet'
  BY <1>1 DEF StageInv, QueueMatchesSet
<1>3. buffer \in [Txs -> Seq(Nat)] /\ buffer' \in [Txs -> Seq(Nat)]
  <2>1. <<>> \in Seq(Nat)
    OBVIOUS
  <2>2. NewBuffer \in [Txs -> Seq(Nat)]
    BY <2>1 DEF NewBuffer
  <2> QED
    BY <1>1, <2>2 DEF StageInv, StageTypes
<1>4. StageTypes'
  BY <1>1, <1>3 DEF StageInv, StageTypes, OpenTxs
<1>5. ASSUME NEW x \in Txs, x \notin pruned' PROVE x \notin pruned /\ buffer'[x] = buffer[x]
  <2>1. x \notin OpenTxs(buffer) \/ x \in OpenTxs(buffer')
    BY <1>1, <1>5
  <2>2. NewBuffer[x] = <<>> /\ DOMAIN buffer = Txs /\ DOMAIN buffer' = Txs
    BY <1>3 DEF NewBuffer
  <2> QED
    BY <1>1, <1>5, <2>1, <2>2 DEF OpenTxs
<1>6. BufferHoldsOpen'
  BY <1>1, <1>5 DEF StageInv, BufferHoldsOpen
<1> QED
  BY <1>2, <1>4, <1>6 DEF StageInv

\* The invariant holds in every reachable state.
LEMMA StageInvariant == Spec => []StageInv
<1>1. StageInv /\ [Next]_vars => StageInv'
  <2> SUFFICES ASSUME StageInv, [Next]_vars PROVE StageInv'
    OBVIOUS
  <2>1. CASE UNCHANGED vars
    BY <2>1 DEF vars, StageInv, StageTypes, QueueMatchesSet, BufferHoldsOpen
  <2> QED
    BY <2>1, SkipStep, ProcessStep, PruneStep DEF Next
<1> QED
  BY <1>1, StageInit, PTL DEF Spec

(***************************************************************************)
(* What follows.                                                           *)
(***************************************************************************)
\* The set and the queue that check_and_track updates separately agree after
\* every sequence of events: the queue is the last max_capacity accepted ids,
\* each once, and the set is what it holds.
THEOREM FilterConsistent == Spec => []QueueMatchesSet
<1>1. StageInv => QueueMatchesSet
  BY DEF StageInv
<1> QED
  BY <1>1, StageInvariant, PTL

\* The ids of a log.
IdsOf(s) == [i \in DOMAIN s |-> s[i].id]

\* An event accepted adds its id at the end.
LEMMA IdsGrow ==
  ASSUME NEW s \in Seq(Event), NEW e \in Event
  PROVE  IdsOf(Append(s, e)) = Append(IdsOf(s), e.id)
<1>1. PICK t \in Seq(Event), n \in Nat : t = Append(s, e) /\ n = Len(s)
  BY LogGrows
<1>2. /\ DOMAIN s = 1..n /\ DOMAIN t = 1..(n + 1)
      /\ \A i \in 1..n : t[i] = s[i]
      /\ t[n + 1] = e
  BY <1>1, LogGrows
<1>3. PICK a : a = IdsOf(s)
  OBVIOUS
<1>4. \A i \in 1..n : s[i].id \in Ids
  <2>1. \A i \in 1..n : s[i] \in Event
    BY <1>1
  <2> QED
    BY <2>1 DEF Event
<1>5. a \in Seq(Ids) /\ Len(a) = n /\ \A i \in 1..n : a[i] = s[i].id
  <2>1. a = [i \in 1..n |-> s[i].id]
    BY <1>2, <1>3 DEF IdsOf
  <2> QED
    BY <1>4, <2>1, IsASeq
<1>6. e.id \in Ids
  BY DEF Event
<1>7. PICK c : c = Append(a, e.id)
  OBVIOUS
<1>8. /\ c \in Seq(Ids) /\ Len(c) = n + 1
      /\ \A i \in 1..n : c[i] = a[i]
      /\ c[n + 1] = e.id
  BY <1>5, <1>6, <1>7, AppendProperties
<1>9. \A i \in 1..(n + 1) : i \in 1..n \/ i = n + 1
  OBVIOUS
<1>10. \A i \in 1..(n + 1) : c[i] = t[i].id
  BY <1>2, <1>5, <1>8, <1>9
<1>11. c = [i \in 1..(n + 1) |-> c[i]]
  BY <1>8
<1>12. c = [i \in 1..(n + 1) |-> t[i].id]
  BY <1>10, <1>11
<1> QED
  BY <1>1, <1>2, <1>3, <1>7, <1>12 DEF IdsOf

\* The filter's set is the window of the abstract specification.
LEMMA SetIsWindow ==
  ASSUME StageInv, NEW id
  PROVE  Window!InWindow(id) <=> id \in filter.processed_ids
<1>1. PICK s \in Seq(Event), n \in Nat, k \in Nat :
        s = log /\ n = Len(filter.order) /\ k = Len(log)
  BY DEF StageInv, StageTypes
<1>2. /\ n = IF k < DedupCapacity THEN k ELSE DedupCapacity
      /\ \A i \in 1..n : filter.order[i] = s[k - n + i].id
      /\ filter.processed_ids = {filter.order[i] : i \in 1..n}
  BY <1>1 DEF StageInv, QueueMatchesSet
<1>3. \A i \in 1..k : Accepted[i] = s[i].id
  BY <1>1 DEF Accepted
<1>4. DOMAIN Accepted = 1..k /\ Len(Accepted) = k
  <2>1. Accepted = [i \in 1..k |-> s[i].id]
    BY <1>1 DEF Accepted
  <2>2. Accepted \in Seq({s[i].id : i \in 1..k}) /\ Len(Accepted) = k
    BY <2>1, IsASeq
  <2> QED
    BY <2>1, <2>2
<1>5. Window!InWindow(id) <=> \E i \in 1..k : i > k - DedupCapacity /\ s[i].id = id
  BY <1>3, <1>4 DEF Window!InWindow, Window!Window
<1>6. id \in filter.processed_ids <=> \E i \in 1..n : s[k - n + i].id = id
  BY <1>2
<1>7. DedupCapacity \in Nat
  BY DedupCapacityAssumption
<1>8. ASSUME NEW i \in 1..k, i > k - DedupCapacity, s[i].id = id
      PROVE  \E j \in 1..n : s[k - n + j].id = id
  <2>1. i - (k - n) \in 1..n /\ k - n + (i - (k - n)) = i
    BY <1>2, <1>7, <1>8
  <2> QED
    BY <1>8, <2>1
<1>9. ASSUME NEW j \in 1..n, s[k - n + j].id = id
      PROVE  \E i \in 1..k : i > k - DedupCapacity /\ s[i].id = id
  <2>1. k - n + j \in 1..k /\ k - n + j > k - DedupCapacity
    BY <1>2, <1>7
  <2> QED
    BY <1>9, <2>1
<1> QED
  BY <1>5, <1>6, <1>8, <1>9

\* check_and_track answers as a sliding window over the accepted ids does,
\* whatever is offered and whenever the buffer is pruned: the eviction of the
\* oldest id from two structures never forgets a younger one and never keeps
\* an older one.
THEOREM FilterImplementsWindow == Spec => RefinesWindow
<1>1. Init => Window!Init
  <2> SUFFICES ASSUME Init PROVE Accepted = <<>> /\ answer = FALSE
    BY DEF Window!Init
  <2>1. Accepted = [i \in {} |-> log[i].id]
    BY DEF Init, Accepted
  <2> QED
    BY <2>1 DEF Init
<1>2. StageInv /\ [Next]_vars => [Window!Next]_<<Accepted, answer>>
  <2> SUFFICES ASSUME StageInv, [Next]_vars
               PROVE  Window!Next \/ UNCHANGED <<Accepted, answer>>
    OBVIOUS
  <2>1. ASSUME NEW id \in Ids, Skip(id) PROVE Window!Next
    <3>1. Window!InWindow(id)
      BY <2>1, SetIsWindow DEF Skip, IsDuplicate
    <3>2. answer' = TRUE /\ Accepted' = Accepted
      BY <2>1 DEF Skip, Accepted
    <3> QED
      BY <3>1, <3>2 DEF Window!Next, Window!Offer
  <2>2. ASSUME NEW id \in Ids, NEW tx \in Txs \cup {NoTx},
               NEW op \in {"Create", "Commit", "Rollback"}, Process(id, tx, op)
        PROVE  Window!Next
    <3>1. ~Window!InWindow(id)
      BY <2>2, SetIsWindow DEF Process, IsDuplicate
    <3>2. PICK e \in Event, s \in Seq(Event) :
            e = [id |-> id, tx |-> tx, op |-> op] /\ s = log
      BY DEF Event, StageInv, StageTypes
    <3>3. e.id = id /\ log' = Append(s, e)
      BY <2>2, <3>2 DEF Process
    <3>4. Accepted = IdsOf(s) /\ Accepted' = IdsOf(Append(s, e))
      BY <3>2, <3>3 DEF Accepted, IdsOf
    <3>5. Accepted' = Append(Accepted, id)
      BY <3>3, <3>4, IdsGrow
    <3>6. answer' = FALSE
      BY <2>2 DEF Process
    <3>7. Window!InWindow(id) = FALSE
      BY <3>1 DEF Window!InWindow
    <3>8. Window!Offer(id)
      BY <3>5, <3>6, <3>7 DEF Window!Offer
    <3> QED
      BY <3>8 DEF Window!Next
  <2>3. ASSUME NEW max_size, Prune(max_size) PROVE UNCHANGED <<Accepted, answer>>
    BY <2>3 DEF Prune, Accepted
  <2>4. CASE UNCHANGED vars
    BY <2>4 DEF vars, Accepted
  <2> QED
    BY <2>1, <2>2, <2>3, <2>4 DEF Next
<1> QED
  BY <1>1, <1>2, StageInvariant, PTL DEF Spec, RefinesWindow, Window!Spec

\* process returns whole transactions: a commit gets the accepted rows of its
\* own transaction, all of them and in the order of the log, unless prune took
\* some; a rollback and a row inside a transaction get nothing; an event
\* outside a transaction gets itself.
THEOREM FlushesAreTransactions == Spec => FlushIsTransaction
<1> DEFINE Flush ==
      log' # log =>
        LET e == Last(log')
        IN  CASE e.tx = NoTx -> out' = <<Len(log')>>
              [] e.tx # NoTx /\ e.op = "Commit" ->
                   e.tx \notin pruned => CompleteFlush(e.tx)
              [] OTHER -> out' = <<>>
<1>1. StageInv /\ [Next]_vars => [Flush]_vars
  <2> SUFFICES ASSUME StageInv, Next, log' # log PROVE Flush
    BY DEF vars
  <2>1. PICK id \in Ids, tx \in Txs \cup {NoTx}, op \in {"Create", "Commit", "Rollback"} :
          Process(id, tx, op)
    BY DEF Next, Skip, Prune
  <2>9. PICK e \in Event : e = [id |-> id, tx |-> tx, op |-> op]
    BY DEF Event
  <2>2. PICK s \in Seq(Event), n \in Nat : s = log /\ n = Len(log)
    BY DEF StageInv, StageTypes
  <2>3. e.tx = tx /\ e.op = op /\ log' = Append(s, e)
    BY <2>1, <2>2, <2>9 DEF Process
  <2>4. Len(log') = n + 1 /\ Last(log') = e
    BY <2>2, <2>3, LogGrows DEF Last
  <2>5. out' = ProcessOutput(buffer, tx, op, n + 1)
    BY <2>1, <2>2 DEF Process
  <2>6. CASE tx = NoTx
    <3>1. out' = <<n + 1>>
      BY <2>5, <2>6 DEF ProcessOutput
    <3> QED
      BY <2>3, <2>4, <2>6, <3>1
  <2>7. CASE tx # NoTx /\ op = "Commit"
    <3>1. out' = buffer[tx]
      BY <2>5, <2>7 DEF ProcessOutput
    <3>2. ASSUME tx \notin pruned PROVE CompleteFlush(tx)
      <4>1. /\ ToSet(buffer[tx]) = OpenRows(log, tx)
            /\ \A i, j \in DOMAIN buffer[tx] : i < j => buffer[tx][i] < buffer[tx][j]
        BY <2>7, <3>2 DEF StageInv, BufferHoldsOpen
      <4>2. ToSet(out') = OpenRows(log, tx)
        BY <3>1, <4>1 DEF ToSet
      <4>3. \A i, j \in DOMAIN out' : i < j => out'[i] < out'[j]
        BY <3>1, <4>1
      <4> QED
        BY <4>2, <4>3 DEF CompleteFlush
    <3> QED
      BY <2>3, <2>4, <2>7, <3>2
  <2>8. CASE tx # NoTx /\ op # "Commit"
    <3>1. out' = <<>>
      BY <2>5, <2>8 DEF ProcessOutput
    <3> QED
      BY <2>3, <2>4, <2>8, <3>1
  <2> QED
    BY <2>6, <2>7, <2>8
<1> QED
  BY <1>1, StageInvariant, PTL DEF Spec, FlushIsTransaction
=============================================================================
