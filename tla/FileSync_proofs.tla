--------------------------- MODULE FileSync_proofs ---------------------------
(* File synchronisation, for any number of files, sizes of the lists, edits,  *)
(* cuts and restarts.  First the list of transfers and the table of local    *)
(* files: every step keeps IInv of FileSync, and RingIsQueue and             *)
(* RecordsAreRows follow.  Then what is on the way between the server and    *)
(* the board: every step keeps FlowInv of FileSyncFlow, and                  *)
(* SkippedFilesAreThere and TransfersKnown follow.                           *)
EXTENDS FileSyncFlow, LoopList_proofs, SequenceTheorems

-----------------------------------------------------------------------------
(* The records in memory are rows: what the operations on the table of local *)
(* files make of a list whose records are those of the rows.                 *)

\* The records q are rows of the table t, one per file.
RowsOf(q, t) ==
    /\ q \in Seq(FileRec)
    /\ \A k \in 1..Len(q) : q[k].ver = t[q[k].name]
    /\ \A k, m \in 1..Len(q) : q[k].name = q[m].name => k = m

LocalList == Ring(LocalSize, FileRec \cup {NoRecord})
Rows      == [File -> Version \cup {Absent}]

LEMMA RowsHeldIs == RowsHeld <=> list \in LocalList /\ RowsOf(Items(list), tbl)
<1>1. ASSUME Items(list) \in Seq(FileRec)
      PROVE  DOMAIN Items(list) = 1..Len(Items(list))
  BY <1>1
<1> QED
  BY <1>1 DEF RowsHeld, RecordsAreRows, RowsOf, LocalList

LEMMA RowsHeldPrimed ==
  list' \in LocalList /\ RowsOf(Items(list'), tbl') => RowsHeld'
<1>1. ASSUME Items(list') \in Seq(FileRec)
      PROVE  DOMAIN Items(list') = 1..Len(Items(list'))
  BY <1>1
<1> QED
  BY <1>1 DEF RowsHeld, RecordsAreRows, RowsOf, LocalList

LEMMA NoneHeld ==
  ASSUME NEW t
  PROVE  RowsOf(<<>>, t)
BY DEF RowsOf

LEMMA RecordTyped ==
  ASSUME NEW f \in File, NEW v \in Version \cup {Absent}
  PROVE  [name |-> f, ver |-> v] \in FileRec
BY DEF FileRec

\* The oldest record is dropped.
LEMMA RowsLost ==
  ASSUME NEW t, NEW q, RowsOf(q, t), q # <<>>
  PROVE  RowsOf(Tail(q), t)
<1>1. q \in Seq(FileRec) /\ Len(q) \in Nat \ {0}
  BY DEF RowsOf
<1>2. /\ Tail(q) \in Seq(FileRec) /\ Len(Tail(q)) = Len(q) - 1
      /\ \A i \in 1..Len(Tail(q)) : Tail(q)[i] = q[i + 1]
  BY <1>1, HeadTailProperties
<1>3. \A i \in 1..Len(Tail(q)) : i + 1 \in 1..Len(q)
  BY <1>1, <1>2
<1> QED
  BY <1>2, <1>3 DEF RowsOf

\* A file that has no record gets one.
LEMMA RowsGained ==
  ASSUME NEW t, NEW q, RowsOf(q, t), NEW f \in File, NEW v \in Version \cup {Absent}, t[f] = v,
         \A k \in 1..Len(q) : q[k].name # f
  PROVE  RowsOf(Append(q, [name |-> f, ver |-> v]), t)
<1> DEFINE rec == [name |-> f, ver |-> v]
           p == Append(q, rec)
<1>1. q \in Seq(FileRec) /\ Len(q) \in Nat
  BY DEF RowsOf
<1>2. rec \in FileRec /\ rec.name = f /\ rec.ver = v
  BY RecordTyped
<1> HIDE DEF rec
<1>3. /\ p \in Seq(FileRec) /\ Len(p) = Len(q) + 1 /\ p[Len(q) + 1] = rec
      /\ \A i \in 1..Len(q) : p[i] = q[i]
  BY <1>1, <1>2, AppendProperties
<1> HIDE DEF p
<1>4. \A k \in 1..Len(p) : k \in 1..Len(q) \/ k = Len(q) + 1
  BY <1>1, <1>3
<1>5. ASSUME NEW k \in 1..Len(p) PROVE p[k].ver = t[p[k].name]
  BY <1>2, <1>3, <1>4 DEF RowsOf
<1>6. ASSUME NEW k \in 1..Len(p), NEW m \in 1..Len(p), p[k].name = p[m].name
      PROVE  k = m
  BY <1>2, <1>3, <1>4, <1>6 DEF RowsOf
<1> QED
  BY <1>3, <1>5, <1>6 DEF RowsOf, p, rec

\* loop_push_to_tail of the record of a file that has none.
LEMMA RowPushed ==
  ASSUME NEW t, NEW l \in LocalList, RowsOf(Items(l), t),
         NEW f \in File, NEW v \in Version \cup {Absent}, t[f] = v,
         \A k \in 1..Len(Items(l)) : Items(l)[k].name # f
  PROVE  /\ loop_push_to_tail(l, [name |-> f, ver |-> v]) \in LocalList
         /\ RowsOf(Items(loop_push_to_tail(l, [name |-> f, ver |-> v])), t)
         /\ \A k \in 1..Len(Items(loop_push_to_tail(l, [name |-> f, ver |-> v]))) :
               \/ Items(loop_push_to_tail(l, [name |-> f, ver |-> v]))[k].name = f
               \/ \E j \in 1..Len(Items(l)) :
                    Items(loop_push_to_tail(l, [name |-> f, ver |-> v]))[k].name = Items(l)[j].name
<1> DEFINE rec == [name |-> f, ver |-> v]
           p == loop_push_to_tail(l, rec)
           q == Items(l)
<1>1. rec \in FileRec \cup {NoRecord} /\ rec.name = f /\ rec \in FileRec
  BY RecordTyped
<1>2. LocalSize \in Nat \ {0, 1}
  BY FileSyncAssumption
<1> HIDE DEF rec
<1>3. p \in LocalList
  BY <1>1, <1>2, PushTyped DEF LocalList
<1>4. Items(p) = IF Len(q) = LocalSize - 1 THEN Append(Tail(q), rec) ELSE Append(q, rec)
  BY <1>1, <1>2, ItemsPushed DEF LocalList
<1> HIDE DEF p, q
<1>5. RowsOf(q, t)
  BY DEF q
<1>6. q \in Seq(FileRec) /\ Len(q) \in Nat
  BY <1>5 DEF RowsOf
<1>7. PICK o : /\ o = IF Len(q) = LocalSize - 1 THEN Tail(q) ELSE q
               /\ RowsOf(o, t) /\ Items(p) = Append(o, rec)
  <2>1. CASE Len(q) = LocalSize - 1
    <3>1. q # <<>>
      BY <1>2, <1>6, <2>1
    <3> QED
      BY <1>4, <1>5, <2>1, <3>1, RowsLost
  <2>2. CASE Len(q) # LocalSize - 1
    BY <1>4, <1>5, <2>2
  <2> QED
    BY <2>1, <2>2
<1>8. \A k \in 1..Len(o) : \E j \in 1..Len(q) : o[k] = q[j]
  <2>1. CASE Len(q) = LocalSize - 1
    <3>1. q # <<>>
      BY <1>2, <1>6, <2>1
    <3>2. Len(o) = Len(q) - 1 /\ \A i \in 1..Len(o) : o[i] = q[i + 1]
      BY <1>6, <1>7, <2>1, <3>1, HeadTailProperties
    <3>3. \A i \in 1..Len(o) : i + 1 \in 1..Len(q)
      BY <1>6, <3>2
    <3> QED
      BY <3>2, <3>3
  <2>2. CASE Len(q) # LocalSize - 1
    BY <1>7, <2>2
  <2> QED
    BY <2>1, <2>2
<1>9. \A k \in 1..Len(o) : o[k].name # f
  BY <1>8 DEF q
<1>10. RowsOf(Append(o, rec), t)
  BY <1>7, <1>9, RowsGained DEF rec
<1>11. \A k \in 1..Len(Append(o, rec)) :
          Append(o, rec)[k].name = f \/ \E j \in 1..Len(q) : Append(o, rec)[k].name = q[j].name
  <2>1. o \in Seq(FileRec) /\ Len(o) \in Nat
    BY <1>7 DEF RowsOf
  <2>2. /\ Len(Append(o, rec)) = Len(o) + 1 /\ Append(o, rec)[Len(o) + 1] = rec
        /\ \A i \in 1..Len(o) : Append(o, rec)[i] = o[i]
    BY <1>1, <2>1, AppendProperties
  <2>3. \A k \in 1..Len(Append(o, rec)) : k \in 1..Len(o) \/ k = Len(o) + 1
    BY <2>1, <2>2
  <2> QED
    BY <1>1, <1>8, <2>2, <2>3
<1>12. \A k \in 1..Len(Items(p)) :
          Items(p)[k].name = f \/ \E j \in 1..Len(q) : Items(p)[k].name = q[j].name
  BY <1>7, <1>11
<1>13. RowsOf(Items(p), t)
  BY <1>7, <1>10
<1> QED
  BY <1>3, <1>12, <1>13, Zenon DEF p, q, rec
\* localDBGetRec: the place of the record of f, 0 when f has none.
LEMMA RecordFound ==
  ASSUME NEW f, NEW k, k = localDBGetRec(f),
         list \in LocalList, Items(list) \in Seq(FileRec)
  PROVE  \/ k \in 1..Len(Items(list)) /\ Items(list)[k].name = f
         \/ k = 0 /\ \A j \in 1..Len(Items(list)) : Items(list)[j].name # f
<1> DEFINE accepted == {r \in Held(list) : r.name = f}
<1>1. LocalSize \in Nat \ {0}
  BY FileSyncAssumption
<1>2. DOMAIN InUse(list) = 1..Len(Items(list))
  BY <1>1, InUseTyped, ItemsAre DEF LocalList
<1>3. k = loop_search(list, accepted)
  BY DEF localDBGetRec
<1>4. \A j \in DOMAIN InUse(list) : Items(list)[j] \in accepted <=> Items(list)[j].name = f
  BY DEF Held
<1> HIDE DEF accepted
<1>5. \/ /\ k \in DOMAIN InUse(list) /\ Items(list)[k] \in accepted
         /\ \A j \in DOMAIN InUse(list) : Items(list)[j] \in accepted => k <= j
      \/ k = 0 /\ \A j \in DOMAIN InUse(list) : Items(list)[j] \notin accepted
  BY <1>1, <1>3, SearchFinds DEF LocalList
<1> QED
  BY <1>2, <1>4, <1>5

\* The write of a row and of its record.
LEMMA RowSaved ==
  ASSUME RowsHeld, tbl \in Rows, NEW f \in File, NEW v \in Version \cup {Absent}, SaveRow(f, v)
  PROVE  RowsHeld' /\ tbl' \in Rows
<1> DEFINE k == localDBGetRec(f)
           rec == [name |-> f, ver |-> v]
           q == Items(list)
<1>1. list \in LocalList /\ RowsOf(q, tbl)
  BY RowsHeldIs
<1>2. LocalSize \in Nat \ {0} /\ q \in Seq(FileRec) /\ Len(q) \in Nat
  BY <1>1, FileSyncAssumption DEF RowsOf
<1>3. \/ k \in 1..Len(q) /\ q[k].name = f
      \/ k = 0 /\ \A j \in 1..Len(q) : q[j].name # f
  BY <1>1, <1>2, RecordFound
<1>4. /\ tbl' = [tbl EXCEPT ![f] = v]
      /\ list' = IF k # 0 THEN loop_replace(list, k, rec)
                 ELSE IF tbl[f] # Absent THEN list
                 ELSE loop_push_to_tail(list, rec)
  BY DEF SaveRow
<1>5. tbl' \in Rows
  BY <1>4 DEF Rows
<1>6. rec \in FileRec /\ rec.name = f /\ rec.ver = v
  BY RecordTyped
<1>7. tbl'[f] = v /\ \A g \in File : g # f => tbl'[g] = tbl[g]
  BY <1>4 DEF Rows
<1>8. \A j \in 1..Len(q) : q[j] \in FileRec /\ q[j].name \in File
  <2> HIDE DEF q
  <2>1. \A j \in 1..Len(q) : q[j] \in FileRec
    BY <1>2
  <2>2. \A r \in FileRec : r.name \in File
    BY DEF FileRec
  <2> QED
    BY <2>1, <2>2
<1> HIDE DEF k, rec
<1>9. CASE k # 0
  <2>1. k \in 1..Used(LocalSize, list) /\ Len(q) = Used(LocalSize, list)
    BY <1>1, <1>2, <1>3, <1>9, ItemsAre DEF LocalList
  <2>2. list' = loop_replace(list, k, rec)
    BY <1>4, <1>9
  <2>3. rec \in FileRec \cup {NoRecord}
    BY <1>6
  <2> DEFINE p == Items(list')
  <2>4. list \in Ring(LocalSize, FileRec \cup {NoRecord})
    BY <1>1 DEF LocalList
  <2>5. /\ list' \in Ring(LocalSize, FileRec \cup {NoRecord}) /\ Used(LocalSize, list') = Len(q)
        /\ \A j \in 1..Len(q) : p[j] = IF j = k THEN rec ELSE q[j]
    <3> DEFINE S == FileRec \cup {NoRecord}
    <3> HIDE DEF S, rec
    <3>1. list \in Ring(LocalSize, S) /\ rec \in S
      BY <2>3, <2>4 DEF S
    <3>2. /\ loop_replace(list, k, rec) \in Ring(LocalSize, S)
          /\ Used(LocalSize, loop_replace(list, k, rec)) = Used(LocalSize, list)
          /\ \A j \in 1..Used(LocalSize, list) :
                Items(loop_replace(list, k, rec))[j] = IF j = k THEN rec ELSE Items(list)[j]
      BY <1>2, <2>1, <3>1, ItemsReplaced
    <3> QED
      BY <2>1, <2>2, <3>2 DEF S
  <2>6. p \in Seq(FileRec) /\ Len(p) = Len(q)
    <3>1. p \in Seq(FileRec \cup {NoRecord}) /\ Len(p) = Len(q)
      BY <1>2, <2>5, ItemsAre
    <3>2. \A j \in 1..Len(p) : p[j] \in FileRec
      BY <1>6, <1>8, <2>5, <3>1
    <3> HIDE DEF p
    <3> QED
      BY <3>1, <3>2
  <2> HIDE DEF p, q
  <2>7. \A j \in 1..Len(q) : p[j].name = q[j].name
    BY <1>3, <1>6, <1>9, <2>5
  <2>8. ASSUME NEW j \in 1..Len(q) PROVE p[j].ver = tbl'[p[j].name]
    <3>1. CASE j = k
      BY <1>6, <1>7, <2>5, <3>1
    <3>2. CASE j # k
      <4>1. q[j].name # f
        BY <1>1, <1>3, <1>9, <3>2 DEF RowsOf
      <4> QED
        BY <1>1, <1>7, <1>8, <2>5, <3>2, <4>1 DEF RowsOf
    <3> QED
      BY <3>1, <3>2
  <2>9. RowsOf(p, tbl')
    BY <1>1, <2>5, <2>6, <2>7, <2>8 DEF RowsOf
  <2>10. list' \in LocalList /\ RowsOf(Items(list'), tbl')
    BY <2>5, <2>9 DEF p, LocalList
  <2>11. RowsHeld'
    BY <2>10, RowsHeldPrimed
  <2> QED
    BY <1>5, <2>11
<1>10. CASE k = 0
  <2>1. \A j \in 1..Len(q) : q[j].name # f
    BY <1>3, <1>10
  <2>2. RowsOf(q, tbl')
    BY <1>1, <1>7, <1>8, <2>1 DEF RowsOf
  <2>3. list' = list \/ list' = loop_push_to_tail(list, rec)
    BY <1>4, <1>10
  <2>4. loop_push_to_tail(list, rec) \in LocalList /\ RowsOf(Items(loop_push_to_tail(list, rec)), tbl')
    BY <1>1, <1>7, <2>1, <2>2, RowPushed DEF rec
  <2>5. list' \in LocalList /\ RowsOf(Items(list'), tbl')
    BY <1>1, <2>2, <2>3, <2>4
  <2>6. RowsHeld'
    BY <2>5, RowsHeldPrimed
  <2> QED
    BY <1>5, <2>6
<1> QED
  BY <1>9, <1>10

LEMMA RowsDeleted ==
  ASSUME RowsHeld, tbl \in Rows, localDBDelAll
  PROVE  RowsHeld' /\ tbl' \in Rows
<1>1. list \in LocalList /\ LocalSize \in Nat \ {0}
  BY RowsHeldIs, FileSyncAssumption
<1>2. list' = loop_clear(list) /\ tbl' = [f \in File |-> Absent]
  BY DEF localDBDelAll
<1>3. list' \in LocalList /\ Items(list') = <<>>
  BY <1>1, <1>2, ItemsCleared DEF LocalList
<1>4. RowsOf(Items(list'), tbl')
  BY <1>3, NoneHeld
<1>5. tbl' \in Rows
  BY <1>2 DEF Rows
<1> QED
  BY <1>3, <1>4, <1>5, RowsHeldPrimed
-----------------------------------------------------------------------------
(* The start of the process: the records that localDBInit loads.             *)

\* The first k files of Order loaded, as load[k] of localDBInit.
Loading(rows) ==
    CHOOSE load : load = [k \in 0..Len(Order) |->
        IF k = 0 THEN loop_create(LocalSize, NoRecord)
        ELSE IF rows[Order[k]] = Absent THEN load[k - 1]
        ELSE loop_push_to_tail(load[k - 1], [name |-> Order[k], ver |-> rows[Order[k]]])]

\* What loading the k-th file makes of the list l.
LoadOne(rows, l, k) ==
    IF rows[Order[k]] = Absent THEN l
    ELSE loop_push_to_tail(l, [name |-> Order[k], ver |-> rows[Order[k]]])

\* The recursion is well founded: such a function exists.
LEMMA LoadingSteps ==
  ASSUME NEW rows
  PROVE  /\ Loading(rows)[0] = loop_create(LocalSize, NoRecord)
         /\ \A k \in 1..Len(Order) : Loading(rows)[k] = LoadOne(rows, Loading(rows)[k - 1], k)
<1> DEFINE n == Len(Order)
           F(load, k) == IF k = 0 THEN loop_create(LocalSize, NoRecord)
                         ELSE IF rows[Order[k]] = Absent THEN load[k - 1]
                         ELSE loop_push_to_tail(load[k - 1], [name |-> Order[k], ver |-> rows[Order[k]]])
           T == {j \in 0..n : \E load : load = [k \in 0..j |-> F(load, k)]}
<1>1. n \in Nat
  BY FileSyncAssumption
<1>2. 0 \in T
  <2> DEFINE g == [k \in 0..0 |-> loop_create(LocalSize, NoRecord)]
  <2>1. g = [k \in 0..0 |-> F(g, k)]
    OBVIOUS
  <2> HIDE DEF g, F
  <2>2. \E load : load = [k \in 0..0 |-> F(load, k)]
    BY <2>1
  <2>3. 0 \in 0..n
    BY <1>1
  <2> QED
    BY <2>2, <2>3
<1>3. ASSUME NEW j \in 0..n - 1, j \in T
      PROVE  j + 1 \in T
  <2>1. PICK g : g = [k \in 0..j |-> F(g, k)]
    BY <1>3
  <2> DEFINE h == [k \in 0..j + 1 |-> IF k = j + 1 THEN F(g, k) ELSE g[k]]
  <2> HIDE DEF F
  <2>2. ASSUME NEW k \in 0..j + 1
        PROVE  h[k] = F(h, k)
    <3>1. CASE k = 0
      <4>1. h[k] = g[k] /\ g[k] = F(g, k)
        BY <2>1, <3>1
      <4> QED
        BY <3>1, <4>1 DEF F
    <3>2. CASE k # 0
      <4>1. k - 1 \in 0..j
        BY <3>2
      <4>2. h[k - 1] = g[k - 1]
        BY <4>1
      <4>3. F(h, k) = F(g, k)
        BY <4>2 DEF F
      <4>4. h[k] = F(g, k)
        <5>1. CASE k = j + 1
          BY <5>1
        <5>2. CASE k \in 0..j
          BY <2>1, <5>2
        <5> QED
          BY <5>1, <5>2
      <4> QED
        BY <4>3, <4>4
    <3> QED
      BY <3>1, <3>2
  <2>3. h = [k \in 0..j + 1 |-> F(h, k)]
    BY <2>2
  <2> HIDE DEF h
  <2>4. j + 1 \in 0..n
    BY <1>1
  <2> QED
    BY <2>3, <2>4
<1>4. n \in T
  <2> HIDE DEF T, n, F
  <2>1. 0..n \subseteq T
    BY <1>1, <1>2, <1>3, SegmentSet
  <2> QED
    BY <1>1, <2>1
<1>5. \E load : load = [k \in 0..n |-> F(load, k)]
  BY <1>4
<1>6. Loading(rows) = [k \in 0..n |-> F(Loading(rows), k)]
  BY <1>5 DEF Loading
<1>7. \A k \in 0..n : Loading(rows)[k] = F(Loading(rows), k)
  <2> DEFINE R == Loading(rows)
  <2> HIDE DEF R, F
  <2>1. R = [k \in 0..n |-> F(R, k)]
    BY <1>6 DEF R
  <2>2. \A k \in 0..n : R[k] = F(R, k)
    BY <2>1
  <2> QED
    BY <2>2 DEF R
<1>8. F(Loading(rows), 0) = loop_create(LocalSize, NoRecord)
  OBVIOUS
<1>9. ASSUME NEW k \in 1..n
      PROVE  F(Loading(rows), k) = LoadOne(rows, Loading(rows)[k - 1], k)
  BY <1>1 DEF LoadOne
<1>10. Loading(rows)[0] = loop_create(LocalSize, NoRecord)
  <2> HIDE DEF F
  <2> QED
    BY <1>1, <1>7, <1>8
<1>11. ASSUME NEW k \in 1..n
       PROVE  Loading(rows)[k] = LoadOne(rows, Loading(rows)[k - 1], k)
  <2> HIDE DEF F
  <2>1. k \in 0..n
    BY <1>1
  <2> QED
    BY <1>7, <1>9, <2>1
<1> QED
  BY <1>10, <1>11

\* The files loaded so far have records, each one the record of its row.
LEMMA RowsLoaded ==
  ASSUME NEW rows \in Rows
  PROVE  localDBInit(rows) \in LocalList /\ RowsOf(Items(localDBInit(rows)), rows)
<1> DEFINE n == Len(Order)
           R == Loading(rows)
           Fine(l, k) == /\ l \in LocalList /\ RowsOf(Items(l), rows)
                         /\ \A j \in 1..Len(Items(l)) : \E i \in 1..k : Items(l)[j].name = Order[i]
           T == {k \in 0..n : Fine(R[k], k)}
<1>1. n \in Nat /\ LocalSize \in Nat \ {0, 1} /\ \A i \in 1..n : Order[i] \in File
  BY FileSyncAssumption
<1>2. 0 \in T
  <2> DEFINE c == loop_create(LocalSize, NoRecord)
  <2>1. R[0] = c
    BY LoadingSteps
  <2>2. NoRecord \in FileRec \cup {NoRecord}
    OBVIOUS
  <2>3. c \in LocalList /\ Items(c) = <<>>
    BY <1>1, <2>2, CreateTyped, ItemsCreated DEF LocalList
  <2> HIDE DEF c, R
  <2>4. Fine(c, 0)
    BY <2>3, NoneHeld
  <2> HIDE DEF Fine
  <2> QED
    BY <1>1, <2>1, <2>4
<1>3. ASSUME NEW k \in 0..n - 1, k \in T
      PROVE  k + 1 \in T
  <2> DEFINE l == R[k]
             f == Order[k + 1]
             v == rows[f]
  <2>1. k + 1 \in 1..n /\ (k + 1) - 1 = k /\ k \in Nat
    BY <1>1
  <2>2. R[k + 1] = LoadOne(rows, l, k + 1)
    BY <2>1, LoadingSteps
  <2>3. f \in File /\ v \in Version \cup {Absent}
    BY <1>1, <2>1 DEF Rows
  <2>4. Fine(l, k)
    BY <1>3
  <2>5. \A i \in 1..k : Order[i] # f
    <3>1. \A i \in 1..k : i \in DOMAIN Order /\ k + 1 \in DOMAIN Order /\ i # k + 1
      BY <1>1, <2>1, FileSyncAssumption
    <3> QED
      BY <3>1, FileSyncAssumption
  <2> DEFINE p == loop_push_to_tail(l, [name |-> f, ver |-> v])
  <2>6. R[k + 1] = l \/ R[k + 1] = p
    BY <2>2 DEF LoadOne
  <2> HIDE DEF R
  <2>7. Fine(l, k + 1)
    <3>1. \A i \in 1..k : i \in 1..k + 1
      BY <2>1
    <3> HIDE DEF l
    <3> QED
      BY <2>4, <3>1
  <2>8. Fine(p, k + 1)
    <3> HIDE DEF l, f, v
    <3>1. \A j \in 1..Len(Items(l)) : Items(l)[j].name # f
      BY <2>4, <2>5
    <3>2. /\ p \in LocalList /\ RowsOf(Items(p), rows)
          /\ \A j \in 1..Len(Items(p)) : \/ Items(p)[j].name = f
                                         \/ \E i \in 1..Len(Items(l)) : Items(p)[j].name = Items(l)[i].name
      <4>1. rows[f] = v
        BY DEF v
      <4> QED
        BY <2>3, <2>4, <3>1, <4>1, RowPushed
    <3> HIDE DEF p
    <3>3. f = Order[k + 1] /\ k + 1 \in 1..k + 1 /\ \A i \in 1..k : i \in 1..k + 1
      BY <2>1 DEF f
    <3> QED
      BY <2>4, <3>2, <3>3
  <2> HIDE DEF Fine, l, p
  <2>9. k + 1 \in 0..n
    BY <1>1
  <2> QED
    BY <2>6, <2>7, <2>8, <2>9
<1>4. n \in T
  <2> HIDE DEF T, n
  <2>1. 0..n \subseteq T
    BY <1>1, <1>2, <1>3, SegmentSet
  <2> QED
    BY <1>1, <2>1
<1>5. Fine(R[n], n)
  BY <1>4
<1>6. localDBInit(rows) = R[n]
  BY DEF localDBInit, Loading
<1> QED
  BY <1>5, <1>6
-----------------------------------------------------------------------------
(* The list of transfers, and the queue it stands for.                       *)

Transfers == Ring(ListSize, Addr \cup {Null})

LEMMA RingFollowsPrimed ==
  ring' \in Transfers /\ known' \in Seq(Addr) /\ Items(ring') = known' => RingFollows'
BY DEF RingFollows, Transfers

LEMMA TransferListed ==
  ASSUME NEW l \in Transfers, NEW q \in Seq(Addr), Items(l) = q, NEW a \in Addr
  PROVE  /\ recv_file_list_insert(l, a) \in Transfers
         /\ Remembered(q, a) \in Seq(Addr)
         /\ Items(recv_file_list_insert(l, a)) = Remembered(q, a)
<1> DEFINE S == Addr \cup {Null}
<1>1. ListSize \in Nat \ {0, 1} /\ a \in S
  BY FileSyncAssumption
<1>2. l \in Ring(ListSize, S)
  BY DEF Transfers
<1> HIDE DEF S
<1>3. loop_push_to_tail(l, a) \in Ring(ListSize, S)
  BY <1>1, <1>2, PushTyped
<1>4. Items(loop_push_to_tail(l, a)) = Remembered(q, a)
  BY <1>1, <1>2, ItemsPushed DEF Remembered
<1>5. Remembered(q, a) \in Seq(Addr)
  <2>1. CASE Len(q) = ListSize - 1
    <3>1. q # <<>>
      BY <1>1, <2>1
    <3>2. Tail(q) \in Seq(Addr)
      BY <3>1, HeadTailProperties
    <3> QED
      BY <2>1, <3>2 DEF Remembered
  <2>2. CASE Len(q) # ListSize - 1
    BY <2>2 DEF Remembered
  <2> QED
    BY <2>1, <2>2
<1> QED
  BY <1>3, <1>4, <1>5 DEF recv_file_list_insert, Transfers, S

LEMMA TransferRemoved ==
  ASSUME NEW l \in Transfers, NEW q \in Seq(Addr), Items(l) = q, NEW a \in Addr
  PROVE  /\ recv_file_list_del(l, a) \in Transfers
         /\ Forgotten(q, a) \in Seq(Addr)
         /\ Items(recv_file_list_del(l, a)) = Forgotten(q, a)
<1> DEFINE S == Addr \cup {Null}
           r == loop_remove(l, a)
           k == loop_search(l, {a})
           u == Len(q)
<1>1. ListSize \in Nat \ {0} /\ u \in Nat /\ DOMAIN q = 1..u
  BY FileSyncAssumption
<1>2. l \in Ring(ListSize, S)
  BY DEF Transfers
<1> HIDE DEF S
<1>3. u = Used(ListSize, l) /\ DOMAIN InUse(l) = 1..u
  <2>1. Len(Items(l)) = Used(ListSize, l)
    BY <1>1, <1>2, ItemsAre
  <2>2. DOMAIN InUse(l) = 1..Used(ListSize, l)
    BY <1>1, <1>2, InUseTyped
  <2> QED
    BY <2>1, <2>2
<1>4. /\ r \in Ring(ListSize, S)
      /\ k = 0 => r = l
      /\ k # 0 => /\ Used(ListSize, r) = u - 1
                  /\ \A j \in 1..u - 1 : Items(r)[j] = IF k <= j THEN q[j + 1] ELSE q[j]
  BY <1>1, <1>2, <1>3, ItemsRemoved
<1>5. \/ k \in 1..u /\ q[k] = a /\ \A j \in 1..u : q[j] = a => k <= j
      \/ k = 0 /\ \A j \in 1..u : q[j] # a
  BY <1>1, <1>2, <1>3, SearchFinds
<1>6. Items(r) \in Seq(S) /\ Len(Items(r)) = Used(ListSize, r)
  BY <1>1, <1>4, ItemsAre
<1> HIDE DEF k, r
<1>7. CASE k = 0
  <2>1. Forgotten(q, a) = q
    <3> HIDE DEF u
    <3>1. k \notin 1..u
      BY <1>1, <1>7
    <3>2. ~ \E i \in DOMAIN q : q[i] = a
      BY <1>1, <1>5, <3>1
    <3> QED
      BY <3>2 DEF Forgotten
  <2>2. r = l
    BY <1>4, <1>7
  <2> QED
    BY <1>2, <2>1, <2>2 DEF recv_file_list_del, Transfers, S, r
<1>8. CASE k # 0
  <2>1. Forgotten(q, a) = [j \in 1..u - 1 |-> IF \E i \in 1..j : q[i] = a THEN q[j + 1] ELSE q[j]]
    BY <1>1, <1>5, <1>8 DEF Forgotten
  <2>2. \A j \in 1..u - 1 : (\E i \in 1..j : q[i] = a) <=> k <= j
    BY <1>1, <1>5, <1>8
  <2> HIDE DEF u
  <2>3. u - 1 \in Nat
    BY <1>1, <1>5, <1>8
  <2>4. \A j \in 1..u : q[j] \in Addr
    BY DEF u
  <2>5. \A j \in 1..u - 1 : j \in 1..u /\ j + 1 \in 1..u
    BY <1>1
  <2> DEFINE g == Forgotten(q, a)
  <2>6. /\ g = [j \in 1..u - 1 |-> g[j]]
        /\ \A j \in 1..u - 1 : g[j] = IF k <= j THEN q[j + 1] ELSE q[j]
    BY <2>1, <2>2
  <2> HIDE DEF g
  <2>7. \A j \in 1..u - 1 : g[j] \in Addr
    BY <2>4, <2>5, <2>6
  <2>8. g \in Seq(Addr) /\ Len(g) = u - 1
    BY <2>3, <2>6, <2>7
  <2>9. Len(Items(r)) = u - 1 /\ \A j \in 1..u - 1 : Items(r)[j] = g[j]
    BY <1>4, <1>6, <1>8, <2>6
  <2>10. g \in Seq(S)
    BY <2>8 DEF S
  <2>11. Items(r) = g
    BY <1>6, <2>8, <2>9, <2>10, SeqEqual
  <2> QED
    BY <1>4, <2>8, <2>11 DEF recv_file_list_del, Transfers, S, r, g
<1> QED
  BY <1>7, <1>8

-----------------------------------------------------------------------------
(* The request for the next file.                                            *)

LEMMA NextMissingTyped ==
  ASSUME NEW s \in SetState
  PROVE  NextMissing(s) \in Nat /\ NextMissing(s) <= Len(s.files)
<1> DEFINE n == Len(s.files)
           missing == {i \in s.curNo..n - 1 : ~find_file_from_local_db(s.files[i + 1])}
<1>1. n \in Nat /\ s.curNo \in Nat
  BY DEF SetState
<1>2. NextMissing(s) = IF missing = {} THEN n ELSE CHOOSE i \in missing : \A j \in missing : i <= j
  BY DEF NextMissing
<1>3. missing \subseteq Nat /\ \A i \in missing : i <= n
  BY <1>1
<1> HIDE DEF missing, n
<1>4. missing # {} => \E i \in missing : \A j \in missing : i <= j
  BY <1>3, Smallest
<1>5. CASE missing = {}
  BY <1>1, <1>2, <1>5 DEF n
<1>6. CASE missing # {}
  <2> DEFINE m == CHOOSE i \in missing : \A j \in missing : i <= j
  <2>1. m \in missing
    BY <1>4, <1>6
  <2>2. NextMissing(s) = m
    BY <1>2, <1>6
  <2> HIDE DEF m
  <2> QED
    BY <1>3, <2>1, <2>2 DEF n
<1> QED
  BY <1>5, <1>6

LEMMA FileNamed ==
  ASSUME NEW s \in SetState, NEW i \in Nat, i < Len(s.files)
  PROVE  s.files[i + 1] \in FileRec /\ s.files[i + 1].name \in File
         /\ s.files[i + 1].ver \in Version \cup {Absent}
<1>1. s.files \in Seq(FileRec)
  BY DEF SetState
<1>2. s.files[i + 1] \in FileRec
  BY <1>1
<1> QED
  BY <1>2 DEF FileRec

LEMMA RequestTyped ==
  ASSUME NEW a \in Addr, NEW f \in File
  PROVE  Request(a, f) \in ToServer
BY DEF Request, ToServer

LEMMA FreeTyped == NoSet \in SetState
BY DEF NoSet, SetState

LEMMA Continued ==
  ASSUME sets \in [Addr -> SetState], up \in Seq(ToServer),
         NEW a \in Addr, NEW s \in SetState, NEW l \in Transfers, NEW q \in Seq(Addr),
         Items(l) = q, ContinueWith(a, s, l, q)
  PROVE  sets' \in [Addr -> SetState] /\ up' \in Seq(ToServer) /\ RingFollows'
<1> DEFINE i == NextMissing(s)
<1>1. i \in Nat /\ i <= Len(s.files)
  BY NextMissingTyped
<1>2. CASE i < Len(s.files)
  <2>1. /\ sets' = [sets EXCEPT ![a] = [s EXCEPT !.curNo = i]]
        /\ up' = Append(up, Request(a, s.files[i + 1].name))
        /\ ring' = l /\ known' = q
    BY <1>2 DEF ContinueWith
  <2> HIDE DEF i
  <2>2. [s EXCEPT !.curNo = i] \in SetState
    BY <1>1 DEF SetState
  <2>3. s.files[i + 1].name \in File
    BY <1>1, <1>2, FileNamed
  <2>4. Request(a, s.files[i + 1].name) \in ToServer
    BY <2>3, RequestTyped
  <2>5. sets' \in [Addr -> SetState]
    BY <2>1, <2>2
  <2>6. up' \in Seq(ToServer)
    BY <2>1, <2>4
  <2> QED
    BY <2>1, <2>5, <2>6, RingFollowsPrimed
<1>3. CASE ~(i < Len(s.files))
  <2>1. /\ sets' = [sets EXCEPT ![a] = NoSet]
        /\ up' = Append(up, [kind |-> "fin"])
        /\ ring' = recv_file_list_del(l, a) /\ known' = Forgotten(q, a)
    BY <1>3 DEF ContinueWith
  <2>2. [kind |-> "fin"] \in ToServer
    BY DEF ToServer
  <2>3. sets' \in [Addr -> SetState]
    BY <2>1, FreeTyped
  <2>4. up' \in Seq(ToServer)
    BY <2>1, <2>2
  <2>5. RingFollows'
    BY <2>1, TransferRemoved, RingFollowsPrimed
  <2> QED
    BY <2>3, <2>4, <2>5
<1> QED
  BY <1>2, <1>3
-----------------------------------------------------------------------------
(* What is on the way.                                                       *)

LEMMA BoardMessage ==
  ASSUME NEW m \in ToBoard
  PROVE  /\ m.kind \in {"SYNCFILE", "COMPLETESYNC"} => m.files \in Seq(FileRec) /\ m.files # <<>>
         /\ m.kind = "UPDATEFILE" => m.name \in File
         /\ m.kind \in {"BEGIN", "BODY", "END"} => m.id \in Addr /\ m.ver \in Version
BY DEF ToBoard

LEMMA ServerMessage ==
  ASSUME NEW m \in ToServer
  PROVE  m.kind # "fin" => m.id \in Addr /\ m.name \in File
BY DEF ToServer

LEMMA ListingTyped ==
  ASSUME LinkTyped
  PROVE  Listing \in Seq(FileRec) /\ Listing # <<>>
<1>1. /\ Order \in Seq(File) /\ Len(Order) \in Nat \ {0} /\ srv \in [File -> Version]
      /\ DOMAIN Order = 1..Len(Order)
  BY FileSyncAssumption DEF LinkTyped
<1>2. \A i \in 1..Len(Order) : [name |-> Order[i], ver |-> srv[Order[i]]] \in FileRec
  <2>1. \A i \in 1..Len(Order) : Order[i] \in File /\ srv[Order[i]] \in Version
    BY <1>1
  <2> QED
    BY <2>1, RecordTyped
<1> DEFINE n == Len(Order)
<1>3. Listing = [i \in 1..n |-> [name |-> Order[i], ver |-> srv[Order[i]]]]
  BY <1>1 DEF Listing
<1> HIDE DEF n
<1>4. n \in Nat \ {0} /\ \A i \in 1..n : [name |-> Order[i], ver |-> srv[Order[i]]] \in FileRec
  BY <1>1, <1>2 DEF n
<1>5. Listing \in Seq(FileRec) /\ Len(Listing) = n
  BY <1>3, <1>4
<1> QED
  BY <1>4, <1>5

LEMMA LinkKept ==
  LinkTyped /\ UNCHANGED <<srv, sBusy, up, down>> => LinkTyped'
BY DEF LinkTyped

LEMMA StoreKept ==
  StoreTyped /\ UNCHANGED <<disk, dirty, tbl, lost, wild>> => StoreTyped'
BY DEF StoreTyped

LEMMA JobKept ==
  JobHasFile /\ UNCHANGED <<sets, job>> => JobHasFile'
BY DEF JobHasFile

LEMMA RingKept ==
  RingFollows /\ UNCHANGED <<ring, known>> => RingFollows'
BY DEF RingFollows, Items, InUse

LEMMA RowsKept ==
  RowsHeld /\ UNCHANGED <<list, tbl>> => RowsHeld'
<1> SUFFICES ASSUME RowsHeld, UNCHANGED <<list, tbl>>
             PROVE  RowsHeld'
  OBVIOUS
<1>1. list' \in LocalList /\ RowsOf(Items(list'), tbl')
  BY RowsHeldIs
<1> QED
  BY <1>1, RowsHeldPrimed

LEMMA InitHolds == Init => IInv
<1> SUFFICES ASSUME Init PROVE IInv
  OBVIOUS
<1>1. LinkTyped
  <2>1. srv \in [File -> Version] /\ sBusy \in BOOLEAN
    BY FileSyncAssumption DEF Init
  <2>2. up \in Seq(ToServer) /\ down \in Seq(ToBoard)
    BY EmptySeq DEF Init
  <2> QED
    BY <2>1, <2>2 DEF LinkTyped
<1>2. StoreTyped
  BY DEF Init, StoreTyped
<1>3. JobHasFile
  BY FreeTyped DEF Init, JobHasFile, Idle
<1>4. RingFollows
  <2>1. ring = loop_create(ListSize, Null) /\ known = <<>>
    BY DEF Init
  <2>2. ListSize \in Nat \ {0} /\ Null \in Addr \cup {Null}
    BY FileSyncAssumption
  <2>3. ring \in Ring(ListSize, Addr \cup {Null}) /\ Items(ring) = <<>>
    BY <2>1, <2>2, CreateTyped, ItemsCreated
  <2> QED
    BY <2>1, <2>3 DEF RingFollows
<1>5. RowsHeld
  <2>1. list = loop_create(LocalSize, NoRecord)
    BY DEF Init
  <2>2. LocalSize \in Nat \ {0} /\ NoRecord \in FileRec \cup {NoRecord}
    BY FileSyncAssumption
  <2>3. list \in LocalList /\ Items(list) = <<>>
    BY <2>1, <2>2, CreateTyped, ItemsCreated DEF LocalList
  <2> QED
    BY <2>3, NoneHeld, RowsHeldIs
<1> QED
  BY <1>1, <1>2, <1>3, <1>4, <1>5 DEF IInv

-----------------------------------------------------------------------------
(* The server and the link: they move messages and nothing else.             *)

\* A step that leaves the board alone.
LEMMA OnTheWay ==
  ASSUME IInv, LinkTyped',
         UNCHANGED <<disk, dirty, tbl, list, lost, wild, sets, job, ring, known>>
  PROVE  IInv'
BY StoreKept, JobKept, RingKept, RowsKept DEF IInv

LEMMA EditStep ==
  ASSUME IInv, NEW f \in File, ServerEdits(f)
  PROVE  IInv'
<1>1. LinkTyped'
  BY DEF IInv, LinkTyped, ServerEdits
<1> QED
  BY <1>1, OnTheWay DEF ServerEdits, store, ghosts

LEMMA SyncStep ==
  ASSUME IInv, NEW kind \in {"SYNCFILE", "COMPLETESYNC"}, Sync(kind)
  PROVE  IInv'
<1>1. [kind |-> kind, files |-> Listing] \in ToBoard
  BY ListingTyped DEF IInv, ToBoard
<1>2. LinkTyped'
  BY <1>1 DEF IInv, LinkTyped, Sync
<1> QED
  BY <1>2, OnTheWay DEF Sync, store, ghosts

LEMMA UpdateStep ==
  ASSUME IInv, NEW f \in File, ServerUpdates(f)
  PROVE  IInv'
<1>1. [kind |-> "UPDATEFILE", name |-> f] \in ToBoard
  BY DEF ToBoard
<1>2. LinkTyped'
  BY <1>1 DEF IInv, LinkTyped, ServerUpdates, server
<1> QED
  BY <1>2, OnTheWay DEF ServerUpdates, store, ghosts

LEMMA AnswerStep ==
  ASSUME IInv, ServerAnswers
  PROVE  IInv'
<1>1. up \in Seq(ToServer) /\ up # <<>> /\ up' = Tail(up) /\ down \in Seq(ToBoard)
      /\ srv \in [File -> Version] /\ srv' = srv /\ sBusy \in BOOLEAN
  BY DEF IInv, LinkTyped, ServerAnswers
<1>2. up' \in Seq(ToServer) /\ Head(up) \in ToServer
  BY <1>1, HeadTailProperties
<1>3. CASE Head(up).kind = "fin"
  <2>1. sBusy' = FALSE /\ down' = down
    BY <1>3 DEF ServerAnswers
  <2>2. LinkTyped'
    BY <1>1, <1>2, <2>1 DEF LinkTyped
  <2> QED
    BY <2>2, OnTheWay DEF ServerAnswers, store, ghosts
<1>4. CASE Head(up).kind # "fin"
  <2> DEFINE part(t) == [kind |-> t, id |-> Head(up).id, ver |-> srv[Head(up).name]]
             size == SizeOf[srv[Head(up).name]]
             body == [i \in 1..size |-> part("BODY")]
  <2>1. down' = down \o <<part("BEGIN")>> \o body \o <<part("END")>> /\ sBusy' = sBusy
    BY <1>4 DEF ServerAnswers
  <2>2. Head(up).id \in Addr /\ srv[Head(up).name] \in Version
    BY <1>1, <1>2, <1>4, ServerMessage
  <2>3. size \in Nat
    BY <2>2, FileSyncAssumption
  <2>4. part("BEGIN") \in ToBoard /\ part("BODY") \in ToBoard /\ part("END") \in ToBoard
    BY <2>2 DEF ToBoard
  <2> HIDE DEF part, size
  <2>5. body \in Seq(ToBoard)
    BY <2>3, <2>4
  <2> HIDE DEF body
  <2>6. down \o <<part("BEGIN")>> \in Seq(ToBoard)
    BY <1>1, <2>4
  <2>7. down \o <<part("BEGIN")>> \o body \in Seq(ToBoard)
    BY <2>5, <2>6, ConcatProperties
  <2>8. down' \in Seq(ToBoard)
    BY <2>1, <2>4, <2>7
  <2>9. LinkTyped'
    BY <1>1, <1>2, <2>1, <2>8 DEF LinkTyped
  <2> QED
    BY <2>9, OnTheWay DEF ServerAnswers, store, ghosts
<1> QED
  BY <1>3, <1>4

LEMMA LostStep ==
  ASSUME IInv, ServerGivesUp \/ LinkCut
  PROVE  IInv'
<1>1. up' = <<>> /\ down' = <<>> /\ srv' = srv /\ sBusy' = FALSE
  BY DEF ServerGivesUp, LinkCut
<1>2. up' \in Seq(ToServer) /\ down' \in Seq(ToBoard)
  BY <1>1, EmptySeq
<1>3. LinkTyped'
  BY <1>1, <1>2 DEF IInv, LinkTyped
<1> QED
  BY <1>3, OnTheWay DEF ServerGivesUp, LinkCut, store, ghosts
-----------------------------------------------------------------------------
(* The handlers.                                                             *)

\* A command is taken: it was typed, and the rest is.
LEMMA Received ==
  ASSUME LinkTyped, NEW kind, Receive(kind)
  PROVE  /\ Head(down) \in ToBoard /\ Head(down).kind = kind
         /\ down' \in Seq(ToBoard) /\ job = Idle
<1>1. down \in Seq(ToBoard) /\ down # <<>>
  BY DEF LinkTyped, Receive
<1> QED
  BY <1>1, HeadTailProperties DEF Receive

LEMMA NewSetTyped ==
  ASSUME NEW kind \in {"sync", "update"}, NEW files \in Seq(FileRec)
  PROVE  /\ NewSet(kind, files) \in SetState
         /\ NewSet(kind, files).curNo = 0 /\ NewSet(kind, files).files = files
BY DEF NewSet, NoSet, SetState

\* A thread that waits has no current file.
LEMMA IdleJob ==
  ASSUME sets' \in [Addr -> SetState], job' = Idle
  PROVE  JobHasFile'
BY DEF JobHasFile, Idle

LEMMA SyncFileStep ==
  ASSUME IInv, NEW a \in Addr, RecvSyncFile(a)
  PROVE  IInv'
<1> DEFINE s == NewSet("sync", Head(down).files)
           l == recv_file_list_insert(ring, a)
           q == Remembered(known, a)
<1>1. /\ Receive("SYNCFILE") /\ ContinueWith(a, s, l, q)
      /\ UNCHANGED <<server, store, job, bound, ghosts>>
  BY DEF RecvSyncFile
<1>2. /\ Head(down) \in ToBoard /\ Head(down).kind = "SYNCFILE"
      /\ down' \in Seq(ToBoard) /\ job = Idle
  BY <1>1, Received DEF IInv
<1>3. s \in SetState
  BY <1>2, BoardMessage, NewSetTyped
<1>4. l \in Transfers /\ q \in Seq(Addr) /\ Items(l) = q
  BY TransferListed DEF IInv, RingFollows, Transfers
<1>5. sets \in [Addr -> SetState] /\ up \in Seq(ToServer)
  BY DEF IInv, JobHasFile, LinkTyped
<1> HIDE DEF s, l, q
<1>6. sets' \in [Addr -> SetState] /\ up' \in Seq(ToServer) /\ RingFollows'
  BY <1>1, <1>3, <1>4, <1>5, Continued
<1>7. LinkTyped'
  BY <1>1, <1>2, <1>6 DEF IInv, LinkTyped, server
<1>8. JobHasFile'
  BY <1>1, <1>2, <1>6, IdleJob
<1>9. StoreTyped' /\ RowsHeld'
  BY <1>1, StoreKept, RowsKept DEF IInv, store, ghosts
<1> QED
  BY <1>6, <1>7, <1>8, <1>9 DEF IInv

LEMMA CompleteSyncStep ==
  ASSUME IInv, NEW a \in Addr, RecvCompleteSync(a)
  PROVE  IInv'
<1> DEFINE s == NewSet("sync", Head(down).files)
<1>1. /\ Receive("COMPLETESYNC") /\ sets' = [sets EXCEPT ![a] = s]
      /\ ring' = recv_file_list_insert(ring, a) /\ known' = Remembered(known, a)
      /\ disk' = [f \in File |-> Absent] /\ dirty' = {}
      /\ job' = [at |-> "wiped", set |-> a]
      /\ UNCHANGED <<server, up, tbl, list, bound, ghosts>>
  BY DEF RecvCompleteSync
<1>2. /\ Head(down) \in ToBoard /\ Head(down).kind = "COMPLETESYNC"
      /\ down' \in Seq(ToBoard)
  BY <1>1, Received DEF IInv
<1>3. Head(down).files \in Seq(FileRec) /\ Head(down).files # <<>>
  BY <1>2, BoardMessage
<1>4. s \in SetState /\ s.curNo = 0 /\ s.files = Head(down).files
  BY <1>3, NewSetTyped
<1>5. Len(Head(down).files) \in Nat \ {0}
  BY <1>3
<1> HIDE DEF s
<1>6. LinkTyped'
  BY <1>1, <1>2 DEF IInv, LinkTyped, server
<1>7. StoreTyped'
  BY <1>1 DEF IInv, StoreTyped, ghosts
<1>8. JobHasFile'
  <2>1. sets' \in [Addr -> SetState] /\ sets'[a] = s
    BY <1>1, <1>4 DEF IInv, JobHasFile
  <2>2. job'.at = "wiped" /\ job'.set = a
        /\ job' \in [at: {"idle", "wiped", "truncated", "written", "synced", "saved"}, set: Addr \cup {Null}]
    BY <1>1
  <2>3. sets'[job'.set].curNo < Len(sets'[job'.set].files)
    BY <1>4, <1>5, <2>1, <2>2
  <2> QED
    BY <2>1, <2>2, <2>3 DEF JobHasFile
<1>9. RingFollows'
  BY <1>1, TransferListed, RingFollowsPrimed DEF IInv, RingFollows, Transfers
<1>10. RowsHeld'
  BY <1>1, RowsKept DEF IInv
<1> QED
  BY <1>6, <1>7, <1>8, <1>9, <1>10 DEF IInv

LEMMA CompleteSyncEndStep ==
  ASSUME IInv, RecvCompleteSyncEnd
  PROVE  IInv'
<1> DEFINE s == sets[job.set]
<1>1. /\ job.at = "wiped" /\ localDBDelAll
      /\ up' = Append(up, Request(job.set, s.files[1].name))
      /\ job' = Idle
      /\ UNCHANGED <<server, down, sets, ring, disk, dirty, bound, known, ghosts>>
  BY DEF RecvCompleteSyncEnd
<1>2. job.set \in Addr /\ s \in SetState /\ s.curNo < Len(s.files) /\ sets \in [Addr -> SetState]
  BY <1>1 DEF IInv, JobHasFile
<1>3. s.files[1].name \in File
  <2>1. s.curNo \in Nat /\ s.files \in Seq(FileRec)
    BY <1>2 DEF SetState
  <2>2. Len(s.files) \in Nat
    BY <2>1
  <2> HIDE DEF s
  <2>3. 0 \in Nat /\ 0 < Len(s.files)
    BY <1>2, <2>1, <2>2
  <2>4. s.files[0 + 1].name \in File
    BY <1>2, <2>3, FileNamed
  <2> QED
    BY <2>4
<1>4. Request(job.set, s.files[1].name) \in ToServer
  BY <1>2, <1>3, RequestTyped
<1> HIDE DEF s
<1>5. LinkTyped'
  BY <1>1, <1>4 DEF IInv, LinkTyped, server
<1>6. RowsHeld' /\ tbl' \in Rows
  BY <1>1, RowsDeleted DEF IInv, StoreTyped, Rows
<1>7. StoreTyped'
  BY <1>1, <1>6 DEF IInv, StoreTyped, ghosts, Rows
<1>8. JobHasFile'
  BY <1>1, <1>2, IdleJob
<1>9. RingFollows'
  BY <1>1, RingKept DEF IInv
<1> QED
  BY <1>5, <1>6, <1>7, <1>8, <1>9 DEF IInv

LEMMA UpdateFileStep ==
  ASSUME IInv, NEW a \in Addr, RecvUpdateFile(a)
  PROVE  IInv'
<1> DEFINE files == <<[name |-> Head(down).name, ver |-> Absent]>>
           s == NewSet("update", files)
<1>1. /\ Receive("UPDATEFILE") /\ sets' = [sets EXCEPT ![a] = s]
      /\ up' = Append(up, Request(a, Head(down).name))
      /\ UNCHANGED <<server, ring, store, job, bound, known, ghosts>>
  BY DEF RecvUpdateFile
<1>2. /\ Head(down) \in ToBoard /\ Head(down).kind = "UPDATEFILE"
      /\ down' \in Seq(ToBoard) /\ job = Idle
  BY <1>1, Received DEF IInv
<1>3. Head(down).name \in File
  BY <1>2, BoardMessage
<1>4. [name |-> Head(down).name, ver |-> Absent] \in FileRec
  BY <1>3, RecordTyped
<1>5. files \in Seq(FileRec)
  BY <1>4
<1> HIDE DEF files
<1>6. s \in SetState
  BY <1>5, NewSetTyped
<1> HIDE DEF s
<1>7. Request(a, Head(down).name) \in ToServer
  BY <1>3, RequestTyped
<1>8. LinkTyped'
  BY <1>1, <1>2, <1>7 DEF IInv, LinkTyped, server
<1>9. sets' \in [Addr -> SetState] /\ job' = Idle
  BY <1>1, <1>2, <1>6 DEF IInv, JobHasFile
<1>10. JobHasFile'
  BY <1>9, IdleJob
<1>11. StoreTyped' /\ RingFollows' /\ RowsHeld'
  BY <1>1, StoreKept, RingKept, RowsKept DEF IInv, store, ghosts
<1> QED
  BY <1>8, <1>10, <1>11 DEF IInv
\* A part of a file is taken: the link stays typed.
LEMMA PartTaken ==
  ASSUME IInv, NEW kind \in {"BEGIN", "BODY", "END"}, RecvFile(kind), up' = up
  PROVE  /\ LinkTyped' /\ job = Idle
         /\ Head(down).id \in Addr /\ Head(down).ver \in Version
         /\ sets \in [Addr -> SetState] /\ sets[Head(down).id] \in SetState
<1>1. Receive(kind) /\ UNCHANGED <<server, ring, bound, known, ghosts>>
  BY DEF RecvFile
<1>2. /\ Head(down) \in ToBoard /\ Head(down).kind = kind
      /\ down' \in Seq(ToBoard) /\ job = Idle
  BY <1>1, Received DEF IInv
<1>3. Head(down).id \in Addr /\ Head(down).ver \in Version
  BY <1>2, BoardMessage
<1>4. LinkTyped'
  BY <1>1, <1>2 DEF IInv, LinkTyped, server
<1>5. sets \in [Addr -> SetState]
  BY DEF IInv, JobHasFile
<1> QED
  BY <1>2, <1>3, <1>4, <1>5

LEMMA BeginStep ==
  ASSUME IInv, RecvFileBegin
  PROVE  IInv'
<1> DEFINE m == Head(down)
           s == [sets[m.id] EXCEPT !.actRecvSize = 0, !.ver = m.ver]
<1>1. /\ RecvFile("BEGIN") /\ UNCHANGED <<up, store, job>>
      /\ sets' = [sets EXCEPT ![m.id] = s]
  BY DEF RecvFileBegin
<1>2. UNCHANGED <<ring, known, ghosts>>
  BY <1>1 DEF RecvFile
<1>3. /\ LinkTyped' /\ job = Idle /\ m.id \in Addr /\ m.ver \in Version
      /\ sets \in [Addr -> SetState] /\ sets[m.id] \in SetState
  BY <1>1, PartTaken
<1>4. s \in SetState
  BY <1>3 DEF SetState
<1> HIDE DEF s, m
<1>5. sets' \in [Addr -> SetState] /\ job' = Idle
  BY <1>1, <1>3, <1>4
<1>6. JobHasFile'
  BY <1>5, IdleJob
<1>7. StoreTyped' /\ RingFollows' /\ RowsHeld'
  BY <1>1, <1>2, StoreKept, RingKept, RowsKept DEF IInv, store, ghosts
<1> QED
  BY <1>3, <1>6, <1>7 DEF IInv

\* A set whose index or count goes up by one.
LEMMA SetAdvanced ==
  ASSUME NEW s \in SetState
  PROVE  /\ [s EXCEPT !.curNo = @ + 1] \in SetState
         /\ [s EXCEPT !.actRecvSize = @ + 1] \in SetState
<1>1. s.curNo \in Nat /\ s.actRecvSize \in Nat
  BY DEF SetState
<1> DEFINE n == s.curNo + 1
           k == s.actRecvSize + 1
<1>2. n \in Nat /\ k \in Nat
  BY <1>1
<1> HIDE DEF n, k
<1>3. [s EXCEPT !.curNo = n] \in SetState /\ [s EXCEPT !.actRecvSize = k] \in SetState
  BY <1>2 DEF SetState
<1> QED
  BY <1>3 DEF n, k

LEMMA BodyStep ==
  ASSUME IInv, RecvFileBody
  PROVE  IInv'
<1> DEFINE m == Head(down)
           s == [sets[m.id] EXCEPT !.actRecvSize = @ + 1]
<1>1. RecvFile("BODY") /\ UNCHANGED <<up, store, job>>
  BY DEF RecvFileBody
<1>2. sets' = [sets EXCEPT ![m.id] = s] \/ sets' = sets
  BY DEF RecvFileBody
<1>3. UNCHANGED <<ring, known, ghosts>>
  BY <1>1 DEF RecvFile
<1>4. /\ LinkTyped' /\ job = Idle /\ m.id \in Addr
      /\ sets \in [Addr -> SetState] /\ sets[m.id] \in SetState
  BY <1>1, PartTaken
<1>5. s \in SetState
  BY <1>4, SetAdvanced
<1> HIDE DEF s, m
<1>6. sets' \in [Addr -> SetState] /\ job' = Idle
  BY <1>1, <1>2, <1>4, <1>5
<1>7. JobHasFile'
  BY <1>6, IdleJob
<1>8. StoreTyped' /\ RingFollows' /\ RowsHeld'
  BY <1>1, <1>3, StoreKept, RingKept, RowsKept DEF IInv, store, ghosts
<1> QED
  BY <1>4, <1>7, <1>8 DEF IInv

LEMMA CurrentFile ==
  ASSUME NEW s \in SetState
  PROVE  /\ s.curNo \in Nat
         /\ \A rec \in get_cur_file_info(s) :
               /\ s.curNo < Len(s.files) /\ rec = s.files[s.curNo + 1]
               /\ rec.name \in File /\ rec.ver \in Version \cup {Absent}
         /\ s.curNo < Len(s.files) => get_cur_file_info(s) # {}
<1>1. s.curNo \in Nat
  BY DEF SetState
<1>2. s.curNo < Len(s.files) =>
         s.files[s.curNo + 1].name \in File /\ s.files[s.curNo + 1].ver \in Version \cup {Absent}
  BY <1>1, FileNamed
<1> QED
  BY <1>1, <1>2 DEF get_cur_file_info

LEMMA EndStep ==
  ASSUME IInv, RecvFileEnd
  PROVE  IInv'
<1> DEFINE a == Head(down).id
<1>1. RecvFile("END") /\ UNCHANGED <<up, sets, tbl, list>>
  BY DEF RecvFileEnd
<1>2. UNCHANGED <<ring, known, ghosts>>
  BY <1>1 DEF RecvFile
<1>3. /\ LinkTyped' /\ job = Idle /\ a \in Addr
      /\ sets \in [Addr -> SetState] /\ sets[a] \in SetState
  BY <1>1, PartTaken
<1>4. PICK rec \in get_cur_file_info(sets[a]) :
         \/ /\ disk' = [disk EXCEPT ![rec.name] = Torn]
            /\ dirty' = dirty \cup {rec.name}
            /\ job' = [at |-> "truncated", set |-> a]
         \/ UNCHANGED <<disk, dirty, job>>
  BY DEF RecvFileEnd
<1> HIDE DEF a
<1>5. sets[a].curNo < Len(sets[a].files) /\ rec.name \in File
  BY <1>3, CurrentFile
<1>6. StoreTyped'
  BY <1>1, <1>2, <1>4, <1>5 DEF IInv, StoreTyped, ghosts
<1>7. JobHasFile'
  <2>1. CASE job' = job
    BY <1>1, <1>3, <2>1, IdleJob
  <2>2. CASE job' = [at |-> "truncated", set |-> a]
    <3>1. /\ job'.set = a /\ job'.at = "truncated"
          /\ job' \in [at: {"idle", "wiped", "truncated", "written", "synced", "saved"}, set: Addr \cup {Null}]
      BY <1>3, <2>2
    <3> QED
      BY <1>1, <1>3, <1>5, <3>1 DEF JobHasFile
  <2> QED
    BY <1>4, <2>1, <2>2
<1>8. RingFollows' /\ RowsHeld'
  BY <1>1, <1>2, RingKept, RowsKept DEF IInv
<1> QED
  BY <1>3, <1>6, <1>7, <1>8 DEF IInv

\* The file the thread is busy with.
LEMMA BusyFile ==
  ASSUME IInv, job.at # "idle"
  PROVE  /\ job.set \in Addr /\ sets[job.set] \in SetState /\ sets \in [Addr -> SetState]
         /\ CurFile.name \in File /\ CurFile.ver \in Version \cup {Absent}
<1> DEFINE s == sets[job.set]
<1>1. job.set \in Addr /\ sets \in [Addr -> SetState] /\ s.curNo < Len(s.files)
  BY DEF IInv, JobHasFile
<1>2. s \in SetState
  BY <1>1
<1>3. CurFile = CHOOSE rec \in get_cur_file_info(s) : TRUE
  BY DEF CurFile
<1> HIDE DEF s
<1>4. \E rec \in get_cur_file_info(s) : TRUE
  BY <1>1, <1>2, CurrentFile
<1>5. CurFile \in get_cur_file_info(s)
  BY <1>3, <1>4
<1> QED
  BY <1>1, <1>2, <1>5, CurrentFile DEF s

\* The thread goes from one write to the next with the same file.
LEMMA StageKept ==
  ASSUME IInv, NEW from, NEW to \in {"written", "synced", "saved"}, from # "idle", Stage(from, to),
         sets' = sets
  PROVE  JobHasFile'
<1>1. /\ job.at # "idle"
      /\ job \in [at: {"idle", "wiped", "truncated", "written", "synced", "saved"}, set: Addr \cup {Null}]
      /\ job' = [job EXCEPT !.at = to]
  BY DEF IInv, JobHasFile, Stage
<1>2. /\ job'.set = job.set
      /\ job' \in [at: {"idle", "wiped", "truncated", "written", "synced", "saved"}, set: Addr \cup {Null}]
  BY <1>1
<1> QED
  BY <1>1, <1>2 DEF IInv, JobHasFile

LEMMA WriteStep ==
  ASSUME IInv, WriteFile
  PROVE  IInv'
<1> DEFINE s == sets[job.set]
           v == IF s.actRecvSize = SizeOf[s.ver] THEN s.ver ELSE Torn
<1>1. /\ Stage("truncated", "written") /\ disk' = [disk EXCEPT ![CurFile.name] = v]
      /\ UNCHANGED <<server, up, down, sets, ring, dirty, tbl, list, bound, known, ghosts>>
  BY DEF WriteFile
<1>2. job.at # "idle"
  BY <1>1 DEF Stage
<1>3. CurFile.name \in File /\ s \in SetState
  BY <1>2, BusyFile
<1>4. v \in Version \cup {Absent, Torn}
  BY <1>3 DEF SetState
<1> HIDE DEF v
<1>5. StoreTyped'
  BY <1>1, <1>3, <1>4 DEF IInv, StoreTyped, ghosts
<1>6. JobHasFile'
  BY <1>1, StageKept
<1>7. LinkTyped' /\ RingFollows' /\ RowsHeld'
  BY <1>1, LinkKept, RingKept, RowsKept DEF IInv, server
<1> QED
  BY <1>5, <1>6, <1>7 DEF IInv

LEMMA SyncDiskStep ==
  ASSUME IInv, SyncDisk
  PROVE  IInv'
<1>1. /\ Stage("written", "synced") /\ dirty' = {}
      /\ UNCHANGED <<server, up, down, sets, ring, disk, tbl, list, bound, known, ghosts>>
  BY DEF SyncDisk
<1>2. StoreTyped'
  BY <1>1 DEF IInv, StoreTyped, ghosts
<1>3. JobHasFile'
  BY <1>1, StageKept
<1>4. LinkTyped' /\ RingFollows' /\ RowsHeld'
  BY <1>1, LinkKept, RingKept, RowsKept DEF IInv, server
<1> QED
  BY <1>2, <1>3, <1>4 DEF IInv

LEMMA SaveStep ==
  ASSUME IInv, SaveLocalFile
  PROVE  IInv'
<1>1. /\ Stage("synced", "saved") /\ SaveRow(CurFile.name, CurFile.ver)
      /\ UNCHANGED <<server, up, down, sets, ring, disk, dirty, bound, known, ghosts>>
  BY DEF SaveLocalFile
<1>2. job.at # "idle"
  BY <1>1 DEF Stage
<1>3. CurFile.name \in File /\ CurFile.ver \in Version \cup {Absent}
  BY <1>2, BusyFile
<1>4. RowsHeld' /\ tbl' \in Rows
  BY <1>1, <1>3, RowSaved DEF IInv, StoreTyped, Rows
<1>5. StoreTyped'
  BY <1>1, <1>4 DEF IInv, StoreTyped, ghosts, Rows
<1>6. JobHasFile'
  BY <1>1, StageKept
<1>7. LinkTyped' /\ RingFollows'
  BY <1>1, LinkKept, RingKept DEF IInv, server
<1> QED
  BY <1>4, <1>5, <1>6, <1>7 DEF IInv

LEMMA NextFileStep ==
  ASSUME IInv, NextFile
  PROVE  IInv'
<1> DEFINE s == [sets[job.set] EXCEPT !.curNo = @ + 1]
<1>1. /\ job.at = "saved" /\ job' = Idle /\ ContinueWith(job.set, s, ring, known)
      /\ UNCHANGED <<server, down, store, bound, ghosts>>
  BY DEF NextFile
<1>2. job.set \in Addr /\ sets[job.set] \in SetState /\ sets \in [Addr -> SetState]
  BY <1>1, BusyFile
<1>3. s \in SetState
  BY <1>2, SetAdvanced
<1>4. ring \in Transfers /\ known \in Seq(Addr) /\ Items(ring) = known /\ up \in Seq(ToServer)
  BY DEF IInv, RingFollows, Transfers, LinkTyped
<1> HIDE DEF s
<1>5. sets' \in [Addr -> SetState] /\ up' \in Seq(ToServer) /\ RingFollows'
  BY <1>1, <1>2, <1>3, <1>4, Continued
<1>6. LinkTyped'
  BY <1>1, <1>5 DEF IInv, LinkTyped, server
<1>7. JobHasFile'
  BY <1>1, <1>5, IdleJob
<1>8. StoreTyped' /\ RowsHeld'
  BY <1>1, StoreKept, RowsKept DEF IInv, store, ghosts
<1> QED
  BY <1>5, <1>6, <1>7, <1>8 DEF IInv
-----------------------------------------------------------------------------
(* The end of the process and its start.                                     *)

LEMMA Rebooted ==
  ASSUME IInv, Reboot
  PROVE  /\ LinkTyped' /\ JobHasFile' /\ RingFollows' /\ RowsHeld'
         /\ disk' \in [File -> Version \cup {Absent, Torn}] /\ dirty' \subseteq File
         /\ tbl' \in Rows
<1>1. /\ up' = <<>> /\ down' = <<>> /\ sBusy' = FALSE /\ srv' = srv
      /\ sets' = [a \in Addr |-> NoSet] /\ job' = Idle
      /\ ring' = loop_create(ListSize, Null) /\ known' = <<>>
      /\ dirty' = {} /\ list' = localDBInit(tbl) /\ tbl' = tbl
  BY DEF Reboot
<1>2. PICK survived \in SUBSET dirty :
         disk' = [f \in File |-> IF f \in dirty \ survived THEN Torn ELSE disk[f]]
  BY DEF Reboot
<1>3. /\ tbl \in Rows /\ disk \in [File -> Version \cup {Absent, Torn}]
      /\ ListSize \in Nat \ {0} /\ Null \in Addr \cup {Null}
  BY FileSyncAssumption DEF IInv, StoreTyped, Rows
<1>4. LinkTyped'
  <2>1. up' \in Seq(ToServer) /\ down' \in Seq(ToBoard)
    BY <1>1, EmptySeq
  <2> QED
    BY <1>1, <2>1 DEF IInv, LinkTyped
<1>5. JobHasFile'
  <2>1. sets' \in [Addr -> SetState]
    BY <1>1, FreeTyped
  <2> QED
    BY <1>1, <2>1, IdleJob
<1>6. RingFollows'
  <2>1. ring' \in Transfers /\ Items(ring') = <<>>
    BY <1>1, <1>3, CreateTyped, ItemsCreated DEF Transfers
  <2>2. known' \in Seq(Addr)
    BY <1>1, EmptySeq
  <2> QED
    BY <1>1, <2>1, <2>2, RingFollowsPrimed
<1>7. RowsHeld'
  <2>1. list' \in LocalList /\ RowsOf(Items(list'), tbl')
    BY <1>1, <1>3, RowsLoaded
  <2> QED
    BY <2>1, RowsHeldPrimed
<1>8. disk' \in [File -> Version \cup {Absent, Torn}]
  BY <1>2, <1>3
<1> QED
  BY <1>1, <1>3, <1>4, <1>5, <1>6, <1>7, <1>8

LEMMA RestartStep ==
  ASSUME IInv, Restart \/ WildTransfer
  PROVE  IInv'
<1>1. Reboot /\ (lost' = lost \/ lost' = lost \cup Window) /\ (wild' = wild \/ wild' = TRUE)
  BY DEF Restart, WildTransfer
<1>2. Window \subseteq File
  <2>1. CASE job.at = "wiped"
    BY <2>1 DEF Window
  <2>2. CASE job.at \in {"truncated", "written"}
    BY <2>2 DEF Window
  <2>3. CASE job.at \notin {"wiped", "truncated", "written"}
    BY <2>3 DEF Window
  <2> QED
    BY <2>1, <2>2, <2>3
<1>3. lost' \subseteq File /\ wild' \in BOOLEAN
  BY <1>1, <1>2 DEF IInv, StoreTyped
<1>4. StoreTyped'
  BY <1>1, <1>3, Rebooted DEF StoreTyped, Rows
<1> QED
  BY <1>1, <1>4, Rebooted DEF IInv

-----------------------------------------------------------------------------
LEMMA NextKeeps == IInv /\ [Next]_vars => IInv'
<1> SUFFICES ASSUME IInv, [Next]_vars
             PROVE  IInv'
  OBVIOUS
<1>1. ASSUME NEW a \in Addr, RecvSyncFile(a) PROVE IInv'
  BY <1>1, SyncFileStep
<1>2. ASSUME NEW a \in Addr, RecvCompleteSync(a) PROVE IInv'
  BY <1>2, CompleteSyncStep
<1>3. ASSUME NEW a \in Addr, RecvUpdateFile(a) PROVE IInv'
  BY <1>3, UpdateFileStep
<1>4. CASE RecvCompleteSyncEnd
  BY <1>4, CompleteSyncEndStep
<1>5. CASE RecvFileBegin
  BY <1>5, BeginStep
<1>6. CASE RecvFileBody
  BY <1>6, BodyStep
<1>7. CASE RecvFileEnd
  BY <1>7, EndStep
<1>8. CASE WriteFile
  BY <1>8, WriteStep
<1>9. CASE SyncDisk
  BY <1>9, SyncDiskStep
<1>10. CASE SaveLocalFile
  BY <1>10, SaveStep
<1>11. CASE NextFile
  BY <1>11, NextFileStep
<1>12. CASE WildTransfer \/ Restart
  BY <1>12, RestartStep
<1>13. ASSUME NEW f \in File, ServerEdits(f) PROVE IInv'
  BY <1>13, EditStep
<1>14. ASSUME NEW f \in File, ServerUpdates(f) PROVE IInv'
  BY <1>14, UpdateStep
<1>15. CASE ServerSyncs \/ ServerSyncsAll
  BY <1>15, SyncStep DEF ServerSyncs, ServerSyncsAll
<1>16. CASE ServerAnswers
  BY <1>16, AnswerStep
<1>17. CASE ServerGivesUp \/ LinkCut
  BY <1>17, LostStep
<1>18. CASE UNCHANGED vars
  BY <1>18, LinkKept, StoreKept, JobKept, RingKept, RowsKept DEF IInv, vars
<1> QED
  BY <1>1, <1>2, <1>3, <1>4, <1>5, <1>6, <1>7, <1>8, <1>9, <1>10, <1>11, <1>12,
     <1>13, <1>14, <1>15, <1>16, <1>17, <1>18 DEF Next, Handlers

\* Every handler, edit, cut and restart keeps the types, the list of transfers
\* equal to its queue and the records in memory equal to their rows.
THEOREM Inductive == Spec => []IInv
<1>1. Init => IInv
  BY InitHolds
<1>2. IInv /\ [Next]_vars => IInv'
  BY NextKeeps
<1> QED
  BY <1>1, <1>2, PTL DEF Spec

\* The ring list of transfers (loop.c, client.c) is a queue of at most
\* ListSize - 1 sets that drops its oldest, for lists of any size and after any
\* insertions, removals and restarts.
THEOREM TransfersAreQueue == Spec => []RingIsQueue
<1>1. IInv => RingIsQueue
  <2> SUFFICES ASSUME IInv PROVE RingIsQueue
    OBVIOUS
  <2>1. /\ ring.head \in 0..ListSize - 1 /\ ring.tail \in 0..ListSize - 1
        /\ \A i \in DOMAIN ring.items : ring.items[i] \in Addr \cup {Null}
    BY DEF IInv, RingFollows, Ring
  <2>2. list.head \in 0..LocalSize - 1 /\ list.tail \in 0..LocalSize - 1
    BY DEF IInv, RowsHeld, Ring
  <2>3. job.at \in {"idle", "wiped", "truncated", "written", "synced", "saved"}
    BY DEF IInv, JobHasFile
  <2>4. TypeOK
    BY <2>1, <2>2, <2>3 DEF IInv, LinkTyped, StoreTyped, TypeOK
  <2>5. Items(ring) = known
    BY DEF IInv, RingFollows
  <2> QED
    BY <2>4, <2>5 DEF RingIsQueue
<1> QED
  BY <1>1, Inductive, PTL

\* The records by which find_file_from_local_db skips files are rows of the
\* table, one per file, for any number of files and of records: through
\* localDBAdd, localDBUpdate, evictions, localDBDelAll and localDBInit.
THEOREM RecordsMatchTable == Spec => []RecordsAreRows
<1>1. IInv => RecordsAreRows
  BY DEF IInv, RowsHeld
<1> QED
  BY <1>1, Inductive, PTL
-----------------------------------------------------------------------------
(* What is on the way, and what stands for a transfer in it.                 *)

Message == ToBoard \cup ToServer

LEMMA MessageTyped ==
  ASSUME NEW m \in Message
  PROVE  /\ m.kind \in {"SYNCFILE", "COMPLETESYNC", "UPDATEFILE", "BEGIN", "BODY", "END", "file", "fin"}
         /\ IsPart(m) => m.id \in Addr
         /\ m \in ToBoard => m.kind \notin {"file", "fin"}
         /\ m \in ToServer => m.kind \in {"file", "fin"}
BY DEF Message, ToBoard, ToServer, IsPart

LEMMA HandledTyped == IInv => Handled \in Seq(Message)
<1> SUFFICES ASSUME IInv PROVE Handled \in Seq(Message)
  OBVIOUS
<1>1. CASE job.at = "idle"
  BY <1>1 DEF Handled
<1>2. CASE job.at # "idle"
  <2> DEFINE s == sets[job.set]
  <2>1. job.set \in Addr /\ s \in SetState /\ s.curNo < Len(s.files)
    BY <1>2, BusyFile DEF IInv, JobHasFile
  <2>2. s.files \in Seq(FileRec) /\ s.files # <<>> /\ s.curNo \in Nat
    BY <2>1 DEF SetState
  <2>3. [kind |-> "COMPLETESYNC", files |-> s.files] \in Message
    BY <2>2 DEF Message, ToBoard
  <2>4. s.files[s.curNo + 1].name \in File
    BY <2>1, <2>2, FileNamed
  <2>5. Request(job.set, s.files[s.curNo + 1].name) \in Message
    BY <2>1, <2>4, RequestTyped DEF Message
  <2> HIDE DEF s
  <2> QED
    BY <1>2, <2>3, <2>5 DEF Handled, Cur, s
<1> QED
  BY <1>1, <1>2

LEMMA LinkMessages == IInv => down \in Seq(Message) /\ up \in Seq(Message)
BY DEF IInv, LinkTyped, Message

\* The places of T stand for the messages of h, d and u, one after the other.
LaidOut(T, n, h, d, u) ==
    /\ n = Len(h) + Len(d) + Len(u)
    /\ \A p \in 1..Len(h) : T[p] = Stand(h[p])
    /\ \A p \in 1..Len(d) : T[Len(h) + p] = Stand(d[p])
    /\ \A p \in 1..Len(u) : T[Len(h) + Len(d) + p] = Stand(u[p])

LEMMA ThreeJoined ==
  ASSUME NEW S, NEW h \in Seq(S), NEW d \in Seq(S), NEW u \in Seq(S)
  PROVE  /\ (h \o d) \o u \in Seq(S)
         /\ Len((h \o d) \o u) = Len(h) + Len(d) + Len(u)
         /\ \A p \in 1..Len(h) : ((h \o d) \o u)[p] = h[p]
         /\ \A p \in 1..Len(d) : ((h \o d) \o u)[Len(h) + p] = d[p]
         /\ \A p \in 1..Len(u) : ((h \o d) \o u)[Len(h) + Len(d) + p] = u[p]
<1> DEFINE g == h \o d
<1>1. /\ g \in Seq(S) /\ Len(g) = Len(h) + Len(d)
      /\ \A p \in 1..Len(h) + Len(d) : g[p] = IF p <= Len(h) THEN h[p] ELSE d[p - Len(h)]
  BY ConcatProperties
<1> HIDE DEF g
<1>2. /\ g \o u \in Seq(S) /\ Len(g \o u) = Len(g) + Len(u)
      /\ \A p \in 1..Len(g) + Len(u) : (g \o u)[p] = IF p <= Len(g) THEN g[p] ELSE u[p - Len(g)]
  <2>1. g \in Seq(S)
    BY <1>1
  <2> QED
    BY <2>1, ConcatProperties
<1>3. Len(h) \in Nat /\ Len(d) \in Nat /\ Len(u) \in Nat
  OBVIOUS
<1> DEFINE f == g \o u
<1> HIDE DEF f
<1>4. \A p \in 1..Len(h) : f[p] = h[p]
  BY <1>1, <1>2, <1>3 DEF f
<1>5. \A p \in 1..Len(d) : f[Len(h) + p] = d[p]
  BY <1>1, <1>2, <1>3 DEF f
<1>6. \A p \in 1..Len(u) : f[Len(h) + Len(d) + p] = u[p]
  BY <1>1, <1>2, <1>3 DEF f
<1> QED
  BY <1>1, <1>2, <1>4, <1>5, <1>6 DEF f, g

LEMMA FlowIs == IInv => LaidOut(Alive, Len(Flow), Handled, down, up)
<1> SUFFICES ASSUME IInv PROVE LaidOut(Alive, Len(Flow), Handled, down, up)
  OBVIOUS
<1>1. Handled \in Seq(Message) /\ down \in Seq(Message) /\ up \in Seq(Message)
  BY HandledTyped, LinkMessages
<1> DEFINE h == Handled
<1> HIDE DEF h
<1>2. Len(h) \in Nat /\ Len(down) \in Nat /\ Len(up) \in Nat
  BY <1>1 DEF h
<1>3. Flow = (h \o down) \o up /\ h \in Seq(Message)
  BY <1>1 DEF Flow, h
<1>4. /\ Len(Flow) = Len(h) + Len(down) + Len(up)
      /\ \A p \in 1..Len(h) : Flow[p] = h[p]
      /\ \A p \in 1..Len(down) : Flow[Len(h) + p] = down[p]
      /\ \A p \in 1..Len(up) : Flow[Len(h) + Len(down) + p] = up[p]
  BY <1>1, <1>3, ThreeJoined
<1>5. \A p \in 1..Len(Flow) : Alive[p] = Stand(Flow[p])
  BY DEF Alive
<1>6. \A p \in 1..Len(h) : p \in 1..Len(Flow)
  BY <1>2, <1>4
<1>7. \A p \in 1..Len(down) : Len(h) + p \in 1..Len(Flow)
  BY <1>2, <1>4
<1>8. \A p \in 1..Len(up) : Len(h) + Len(down) + p \in 1..Len(Flow)
  BY <1>2, <1>4
<1>9. LaidOut(Alive, Len(Flow), h, down, up)
  BY <1>4, <1>5, <1>6, <1>7, <1>8 DEF LaidOut
<1> QED
  BY <1>9 DEF h

LEMMA FlowIsNext == IInv' => LaidOut(Alive, Len(Flow), Handled, down, up)'
BY FlowIs, PTL
-----------------------------------------------------------------------------
\* The set at a is one of a sync after the step if it was before.
SameKind(a) == sets'[a].kind = "sync" <=> sets[a].kind = "sync"

SameKinds ==
    /\ \A p \in 1..Len(down) : IsPart(down[p]) => SameKind(down[p].id)
    /\ \A p \in 1..Len(up) : IsPart(up[p]) => SameKind(up[p].id)

LEMMA StandKept ==
  ASSUME NEW m, IsPart(m) => SameKind(m.id)
  PROVE  Stand(m)' = Stand(m)
BY DEF Stand, OfSync, IsPart, IsListing, SameKind

LEMMA LinkStands ==
  ASSUME SameKinds
  PROVE  /\ \A p \in 1..Len(down) : \A m : m = down[p] => Stand(m)' = Stand(m)
         /\ \A p \in 1..Len(up) : \A m : m = up[p] => Stand(m)' = Stand(m)
<1>1. \A m : (IsPart(m) => SameKind(m.id)) => Stand(m)' = Stand(m)
  BY StandKept
<1> QED
  BY <1>1 DEF SameKinds

\* The lengths of the three parts.
LEMMA LinkLengths ==
  IInv => Len(Handled) \in Nat /\ Len(down) \in Nat /\ Len(up) \in Nat /\ Len(Flow) \in Nat
<1> SUFFICES ASSUME IInv
             PROVE  Len(Handled) \in Nat /\ Len(down) \in Nat /\ Len(up) \in Nat /\ Len(Flow) \in Nat
  OBVIOUS
<1>1. Len(Handled) \in Nat
  BY HandledTyped
<1>2. Len(down) \in Nat /\ Len(up) \in Nat
  BY LinkMessages
<1>3. Len(Flow) = Len(Handled) + Len(down) + Len(up)
  BY FlowIs DEF LaidOut
<1> QED
  BY <1>1, <1>2, <1>3

LEMMA LinkLengthsNext ==
  IInv' => (Len(Handled) \in Nat /\ Len(down) \in Nat /\ Len(up) \in Nat /\ Len(Flow) \in Nat)'
BY LinkLengths, PTL

LEMMA IdleHandled == job.at = "idle" => Handled = <<>> /\ Len(Handled) = 0
BY DEF Handled

LEMMA IdleHandledNext == job'.at = "idle" => Handled' = <<>> /\ Len(Handled)' = 0
BY DEF Handled

LEMMA BusyHandled == job.at # "idle" => Len(Handled) = 1
BY DEF Handled


\* The message at the head of down is taken and is handled in one step, or in
\* more.
LEMMA FlowTaken ==
  ASSUME IInv, IInv', SameKinds, job.at = "idle", down # <<>>, down' = Tail(down), up' = up
  PROVE  /\ job'.at = "idle" =>
               /\ Len(Flow)' = Len(Flow) - 1
               /\ \A p \in 1..Len(Flow) - 1 : Alive'[p] = Alive[p + 1]
         /\ \A m, k : job'.at # "idle" /\ Handled' = <<k>> /\ m = Head(down) /\ Stand(k)' = Stand(m) =>
               /\ Len(Flow)' = Len(Flow)
               /\ \A p \in 1..Len(Flow) : Alive'[p] = Alive[p]
<1> DEFINE d == Len(down)
           u == Len(up)
           h == Len(Handled)'
<1>1. LaidOut(Alive, Len(Flow), Handled, down, up) /\ LaidOut(Alive, Len(Flow), Handled, down, up)'
  BY FlowIs, FlowIsNext
<1>2. /\ h \in Nat /\ d \in Nat \ {0} /\ u \in Nat /\ Len(down)' = d - 1
      /\ \A p \in 1..d - 1 : down'[p] = down[p + 1]
      /\ Head(down) = down[1]
  BY LinkLengths, LinkLengthsNext, LinkMessages, HeadTailProperties
<1>3. Handled = <<>> /\ Len(Handled) = 0
  BY IdleHandled
<1> HIDE DEF h, d, u
<1>4. \A p \in 1..d : Alive[p] = Stand(down[p])
  BY <1>1, <1>2, <1>3 DEF LaidOut, d
<1>5. \A p \in 1..u : Alive[d + p] = Stand(up[p])
  BY <1>1, <1>2, <1>3 DEF LaidOut, d, u
<1>6. \A p \in 1..d - 1 : Alive'[h + p] = Alive[p + 1]
  <2>1. \A p \in 1..d - 1 : Alive'[h + p] = Stand(down[p])'
    BY <1>1, <1>2 DEF LaidOut, h
  <2>2. \A p \in 1..d - 1 : p + 1 \in 1..d
    BY <1>2
  <2>3. \A p \in 1..d - 1 : \A m : m = down[p + 1] => Stand(m)' = Stand(m)
    BY <2>2, LinkStands DEF d
  <2> QED
    BY <1>2, <1>4, <2>1, <2>2, <2>3
<1>7. \A p \in 1..u : Alive'[h + (d - 1) + p] = Alive[d + p]
  BY <1>1, <1>2, <1>5, LinkStands, SMTT(20) DEF LaidOut, d, h, u
<1>8. Len(Flow) = d + u /\ Len(Flow)' = h + (d - 1) + u
  BY <1>1, <1>2, <1>3 DEF LaidOut, h, d, u
<1>9. ASSUME NEW p \in 1..(d - 1) + u PROVE Alive'[h + p] = Alive[p + 1]
  <2>1. CASE p \in 1..d - 1
    BY <1>6, <2>1
  <2>2. CASE p - (d - 1) \in 1..u
    <3>1. h + (d - 1) + (p - (d - 1)) = h + p /\ d + (p - (d - 1)) = p + 1
      BY <1>2
    <3> QED
      BY <1>7, <2>2, <3>1
  <2> QED
    BY <1>2, <2>1, <2>2
<1>10. ASSUME job'.at = "idle"
       PROVE  /\ Len(Flow)' = Len(Flow) - 1
              /\ \A p \in 1..Len(Flow) - 1 : Alive'[p] = Alive[p + 1]
  <2>1. h = 0
    BY <1>10, IdleHandledNext DEF h
  <2> QED
    BY <1>2, <1>8, <1>9, <2>1
<1>11. ASSUME NEW m, NEW k, job'.at # "idle", Handled' = <<k>>, m = Head(down), Stand(k)' = Stand(m)
       PROVE  /\ Len(Flow)' = Len(Flow)
              /\ \A p \in 1..Len(Flow) : Alive'[p] = Alive[p]
  <2>1. h = 1
    BY <1>11 DEF h
  <2>2. Alive'[1] = Stand(k)'
    BY <1>1, <1>11, <2>1 DEF LaidOut, h
  <2>3. Alive[1] = Stand(m)
    BY <1>2, <1>4, <1>11
  <2>4. \A p \in 1..d + u : p = 1 \/ p - 1 \in 1..(d - 1) + u
    BY <1>2
  <2>5. \A p \in 1..d + u : 1 + (p - 1) = p /\ (p - 1) + 1 = p
    BY <1>2
  <2> QED
    <3>1. Len(Flow)' = Len(Flow) /\ Len(Flow) = d + u
      BY <1>2, <1>8, <2>1
    <3>2. ASSUME NEW p \in 1..d + u, p = 1 PROVE Alive'[p] = Alive[p]
      BY <1>11, <2>2, <2>3, <3>2
    <3>3. ASSUME NEW p \in 1..d + u, p - 1 \in 1..(d - 1) + u PROVE Alive'[p] = Alive[p]
      <4>1. Alive'[h + (p - 1)] = Alive[(p - 1) + 1]
        BY <1>9, <3>3
      <4> QED
        BY <2>1, <2>5, <4>1
    <3> QED
      BY <2>4, <3>1, <3>2, <3>3
<1> QED
  BY <1>10, <1>11
-----------------------------------------------------------------------------
\* The message that was handled is gone, and k is the last one to the server.
LEMMA FlowAsked ==
  ASSUME IInv, IInv', SameKinds, job'.at = "idle", NEW k, up' = Append(up, k),
         \/ job.at = "idle" /\ down # <<>> /\ down' = Tail(down)
         \/ job.at # "idle" /\ down' = down
  PROVE  /\ Len(Flow) >= 1 /\ Len(Flow)' = Len(Flow)
         /\ \A p \in 1..Len(Flow) - 1 : Alive'[p] = Alive[p + 1]
         /\ Alive'[Len(Flow)] = Stand(k)'
<1> DEFINE h == Len(Handled)
           d == Len(down)
           u == Len(up)
           e == Len(down')
<1>1. LaidOut(Alive, Len(Flow), Handled, down, up) /\ LaidOut(Alive, Len(Flow), Handled, down, up)'
  BY FlowIs, FlowIsNext
<1>2. h \in Nat /\ d \in Nat /\ u \in Nat /\ e \in Nat
  BY LinkLengths, LinkLengthsNext
<1>3. up \in Seq(Message) /\ down \in Seq(Message) /\ up' \in Seq(Message)
  <2>1. (up \in Seq(Message))'
    BY LinkMessages, PTL
  <2> QED
    BY <2>1, LinkMessages
<1>4. Len(up)' = u + 1 /\ up'[u + 1] = k /\ \A p \in 1..u : up'[p] = up[p]
  <2> DEFINE S == {up[p] : p \in 1..Len(up)} \cup {k}
  <2>1. up \in Seq(S) /\ k \in S
    BY <1>3
  <2> HIDE DEF S
  <2> QED
    BY <2>1
<1>5. Len(Handled)' = 0
  BY IdleHandledNext
<1> HIDE DEF h, d, u, e
<1>6. h + d = e + 1 /\ \A p \in 1..e : Alive'[p] = Alive[p + 1]
  <2>1. \A p \in 1..e : Alive'[p] = Stand(down[p])'
    BY <1>1, <1>5 DEF LaidOut, e
  <2>2. CASE job.at = "idle" /\ down # <<>> /\ down' = Tail(down)
    <3>1. h = 0 /\ d = e + 1 /\ \A p \in 1..e : down'[p] = down[p + 1]
      BY <1>2, <1>3, <2>2, IdleHandled, HeadTailProperties DEF h, d, e
    <3>2. \A p \in 1..d : Alive[p] = Stand(down[p])
      BY <1>1, <1>2, <3>1 DEF LaidOut, d, h
    <3>3. \A p \in 1..e : p + 1 \in 1..d
      BY <1>2, <3>1
    <3>4. \A p \in 1..e : \A m : m = down[p + 1] => Stand(m)' = Stand(m)
      BY <3>3, LinkStands DEF d
    <3> QED
      BY <1>2, <2>1, <3>1, <3>2, <3>3, <3>4
  <2>3. CASE job.at # "idle" /\ down' = down
    <3>1. h = 1 /\ d = e
      BY <2>3, BusyHandled DEF h, d, e
    <3>2. \A p \in 1..d : Alive[1 + p] = Stand(down[p])
      BY <1>1, <3>1 DEF LaidOut, d, h
    <3>3. \A p \in 1..d : p + 1 = 1 + p
      BY <1>2
    <3> QED
      BY <1>2, <2>1, <2>3, <3>1, <3>2, <3>3, LinkStands DEF d
  <2> QED
    BY <2>2, <2>3
<1>7. \A p \in 1..u : Alive'[e + p] = Alive[(e + p) + 1]
  <2>1. \A p \in 1..u : p \in 1..u + 1 /\ (e + p) + 1 = h + d + p
    BY <1>2, <1>6
  <2>2. \A p \in 1..u : Alive'[e + p] = Stand(up[p])'
    BY <1>1, <1>2, <1>4, <1>5, <2>1 DEF LaidOut, e, u
  <2>3. \A p \in 1..u : Alive[(e + p) + 1] = Stand(up[p])
    BY <1>1, <2>1 DEF LaidOut, h, d, u
  <2> QED
    BY <1>4, <2>2, <2>3, LinkStands DEF u
<1>8. Alive'[e + (u + 1)] = Stand(k)'
  <2>1. u + 1 \in 1..u + 1
    BY <1>2
  <2> QED
    BY <1>1, <1>2, <1>4, <1>5, <2>1 DEF LaidOut, e
<1>9. Len(Flow) = e + (u + 1) /\ Len(Flow)' = e + (u + 1)
  <2>1. Len(Flow) = h + d + u
    BY <1>1 DEF LaidOut, h, d, u
  <2>2. Len(Flow)' = 0 + e + (u + 1)
    BY <1>1, <1>4, <1>5 DEF LaidOut, e
  <2> QED
    BY <1>2, <1>6, <2>1, <2>2
<1>10. ASSUME NEW p \in 1..e + u PROVE Alive'[p] = Alive[p + 1]
  <2>1. CASE p \in 1..e
    BY <1>6, <2>1
  <2>2. CASE p - e \in 1..u
    <3>1. e + (p - e) = p
      BY <1>2
    <3> QED
      BY <1>7, <2>2, <3>1
  <2> QED
    BY <1>2, <2>1, <2>2
<1> QED
  BY <1>2, <1>8, <1>9, <1>10

\* k is the last message to the board.
LEMMA FlowGrown ==
  ASSUME IInv, IInv', UNCHANGED <<sets, job, up>>, NEW k, down' = Append(down, k)
  PROVE  /\ Len(Flow)' = Len(Flow) + 1
         /\ \E c \in 1..Len(Flow) + 1 :
               /\ \A p \in 1..c - 1 : Alive'[p] = Alive[p]
               /\ Alive'[c] = Stand(k)'
               /\ \A p \in c..Len(Flow) : Alive'[p + 1] = Alive[p]
               /\ \A p \in c..Len(Flow) : \E i \in 1..Len(up) : Alive[p] = Stand(up[i])
<1> DEFINE h == Len(Handled)
           d == Len(down)
           u == Len(up)
<1>1. LaidOut(Alive, Len(Flow), Handled, down, up) /\ LaidOut(Alive, Len(Flow), Handled, down, up)'
  BY FlowIs, FlowIsNext
<1>2. h \in Nat /\ d \in Nat /\ u \in Nat
  BY LinkLengths
<1>3. Len(down)' = d + 1 /\ down'[d + 1] = k /\ \A p \in 1..d : down'[p] = down[p]
  <2> DEFINE S == {down[p] : p \in 1..Len(down)} \cup {k}
  <2>1. down \in Seq(S) /\ k \in S
    BY LinkMessages
  <2> HIDE DEF S
  <2> QED
    BY <2>1
<1>4. Handled' = Handled /\ Len(Handled)' = h
  BY DEF Handled, Cur
<1>5. \A m : Stand(m)' = Stand(m)
  BY StandKept DEF SameKind
<1> HIDE DEF h, d, u
<1>6. \A p \in 1..h : Alive'[p] = Alive[p]
  BY <1>1, <1>4, <1>5 DEF LaidOut, h
<1>7. \A p \in 1..d : Alive'[h + p] = Alive[h + p]
  <2>1. \A p \in 1..d : p \in 1..d + 1
    BY <1>2
  <2> QED
    BY <1>1, <1>3, <1>4, <1>5, <2>1 DEF LaidOut, d, h
<1>8. Alive'[h + (d + 1)] = Stand(k)'
  <2>1. d + 1 \in 1..d + 1
    BY <1>2
  <2> QED
    BY <1>1, <1>3, <1>4, <2>1 DEF LaidOut
<1>9. \A p \in 1..u : Alive'[h + (d + 1) + p] = Alive[h + d + p] /\ Alive[h + d + p] = Stand(up[p])
  BY <1>1, <1>3, <1>4, <1>5 DEF LaidOut, h, d, u
<1>10. Len(Flow) = h + d + u /\ Len(Flow)' = h + (d + 1) + u
  BY <1>1, <1>3, <1>4 DEF LaidOut, h, d, u
<1> DEFINE c == h + d + 1
<1>11. \A p \in 1..c - 1 : Alive'[p] = Alive[p]
  <2> SUFFICES ASSUME NEW p \in 1..c - 1 PROVE Alive'[p] = Alive[p]
    OBVIOUS
  <2>1. CASE p \in 1..h
    BY <1>6, <2>1
  <2>2. CASE p - h \in 1..d
    <3>1. h + (p - h) = p
      BY <1>2
    <3> QED
      BY <1>7, <2>2, <3>1
  <2> QED
    BY <1>2, <2>1, <2>2
<1>12. Alive'[c] = Stand(k)'
  BY <1>2, <1>8
<1>13. ASSUME NEW p \in c..Len(Flow)
       PROVE  Alive'[p + 1] = Alive[p] /\ \E i \in 1..u : Alive[p] = Stand(up[i])
  <2> DEFINE i == p - (h + d)
  <2>1. i \in 1..u /\ h + d + i = p /\ h + (d + 1) + i = p + 1
    BY <1>2, <1>10
  <2> HIDE DEF i
  <2> QED
    BY <1>9, <2>1
<1>14. c \in 1..Len(Flow) + 1
  BY <1>2, <1>10
<1> HIDE DEF c
<1> QED
  BY <1>2, <1>10, <1>11, <1>12, <1>13, <1>14, SMTT(20) DEF u

\* The server takes a message and appends the n messages q, of which the last
\* one stands for what that message stood for.
LEMMA FlowAnswered ==
  ASSUME IInv, IInv', UNCHANGED <<sets, job>>, up # <<>>, up' = Tail(up),
         NEW n \in Nat, NEW q \in Seq(Message), Len(q) = n, down' = down \o q,
         \A i \in 1..n - 1 : q[i].kind \in {"BEGIN", "BODY"},
         n > 0 => \A k, m : k = q[n] /\ m = Head(up) => Stand(k) = Stand(m)
  PROVE  \E c \in 1..Len(Flow) :
            /\ Len(Flow)' = Len(Flow) + n - 1
            /\ \A p \in 1..c - 1 : Alive'[p] = Alive[p]
            /\ \A p \in c..c + n - 2 : ~Stands(Alive'[p])
            /\ n > 0 => Alive'[c + n - 1] = Alive[c]
            /\ \A p \in c + 1..Len(Flow) : Alive'[p + n - 1] = Alive[p]
            /\ \A m : m = Head(up) => Alive[c] = Stand(m)
            /\ \A i \in 1..Len(up)' : c + n - 1 + i \in 1..Len(Flow)' /\ Alive'[c + n - 1 + i] = Stand(up[i])'
<1> DEFINE h == Len(Handled)
           d == Len(down)
           u == Len(up)
<1>1. LaidOut(Alive, Len(Flow), Handled, down, up) /\ LaidOut(Alive, Len(Flow), Handled, down, up)'
  BY FlowIs, FlowIsNext
<1>2. h \in Nat /\ d \in Nat /\ u \in Nat \ {0}
  BY LinkLengths, LinkMessages
<1>3. Len(up)' = u - 1 /\ Head(up) = up[1] /\ \A p \in 1..u - 1 : up'[p] = up[p + 1]
  BY LinkMessages, HeadTailProperties
<1>4. /\ Len(down)' = d + n
      /\ \A p \in 1..d : down'[p] = down[p]
      /\ \A i \in 1..n : down'[d + i] = q[i]
  <2>1. /\ Len(down \o q) = d + n
        /\ \A p \in 1..d + n : (down \o q)[p] = IF p <= d THEN down[p] ELSE q[p - d]
    BY LinkMessages, ConcatProperties
  <2> HIDE DEF d
  <2>2. \A i \in 1..n : d + i \in 1..d + n /\ ~(d + i <= d) /\ (d + i) - d = i
    BY <1>2
  <2> QED
    BY <1>2, <2>1, <2>2
<1>5. Handled' = Handled /\ Len(Handled)' = h
  BY DEF Handled, Cur
<1>6. \A m : Stand(m)' = Stand(m)
  BY StandKept DEF SameKind
<1> HIDE DEF h, d, u
<1>7. \A p \in 1..h : Alive'[p] = Alive[p]
  BY <1>1, <1>5, <1>6 DEF LaidOut, h
<1>8. \A p \in 1..d : Alive'[h + p] = Alive[h + p]
  <2>1. \A p \in 1..d : p \in 1..d + n
    BY <1>2
  <2> QED
    BY <1>1, <1>4, <1>5, <1>6, <2>1 DEF LaidOut, d, h
<1>9. \A i \in 1..n : \A k : k = q[i] => Alive'[h + (d + i)] = Stand(k)
  <2>1. \A i \in 1..n : d + i \in 1..d + n
    BY <1>2
  <2>2. \A j \in 1..d + n : Alive'[h + j] = Stand(down[j])'
    BY <1>1, <1>4, <1>5 DEF LaidOut
  <2>3. \A j \in 1..d + n : \A k : k = down'[j] => Alive'[h + j] = Stand(k)
    BY <1>6, <2>2
  <2>4. ASSUME NEW i \in 1..n, NEW k, k = q[i] PROVE Alive'[h + (d + i)] = Stand(k)
    <3>1. d + i \in 1..d + n /\ down'[d + i] = k
      BY <1>4, <2>1, <2>4
    <3> QED
      BY <2>3, <3>1
  <2> QED
    BY <2>4
<1>10. \A i \in 1..u - 1 : Alive'[h + (d + n) + i] = Alive[h + d + (i + 1)]
  <2>1. \A i \in 1..u - 1 : i + 1 \in 1..u
    BY <1>2
  <2>2. \A i \in 1..u - 1 : Alive'[h + (d + n) + i] = Stand(up[i])'
    BY <1>1, <1>3, <1>4, <1>5 DEF LaidOut
  <2>3. \A i \in 1..u - 1 : Alive[h + d + (i + 1)] = Stand(up[i + 1])
    BY <1>1, <2>1 DEF LaidOut, h, d, u
  <2> QED
    BY <1>3, <1>6, <2>2, <2>3
<1>11. Len(Flow) = h + d + u /\ Len(Flow)' = h + (d + n) + (u - 1)
  BY <1>1, <1>3, <1>4, <1>5 DEF LaidOut, h, d, u
<1> DEFINE c == h + d + 1
<1>12. c \in 1..Len(Flow) /\ Len(Flow)' = Len(Flow) + n - 1
  BY <1>2, <1>11
<1>13. \A m : m = Head(up) => Alive[c] = Stand(m)
  <2>1. 1 \in 1..u
    BY <1>2
  <2> QED
    BY <1>1, <1>3, <2>1 DEF LaidOut, h, d, u
<1>14. \A p \in 1..c - 1 : Alive'[p] = Alive[p]
  <2> SUFFICES ASSUME NEW p \in 1..c - 1 PROVE Alive'[p] = Alive[p]
    OBVIOUS
  <2>1. CASE p \in 1..h
    BY <1>7, <2>1
  <2>2. CASE p - h \in 1..d
    <3>1. h + (p - h) = p
      BY <1>2
    <3> QED
      BY <1>8, <2>2, <3>1
  <2> QED
    BY <1>2, <2>1, <2>2
<1>15. ASSUME NEW p \in c..c + n - 2 PROVE ~Stands(Alive'[p])
  <2> DEFINE i == p - (h + d)
  <2>1. i \in 1..n - 1 /\ i \in 1..n /\ h + (d + i) = p
    BY <1>2
  <2> HIDE DEF i
  <2>2. PICK k : k = q[i]
    OBVIOUS
  <2>3. Alive'[p] = Stand(k) /\ k.kind \in {"BEGIN", "BODY"}
    BY <1>9, <2>1, <2>2
  <2>4. ~Stands(Stand(k))
    BY <2>3 DEF Stands, Stand, OfSync, IsListing
  <2> QED
    BY <2>3, <2>4 DEF Stands
<1>16. n > 0 => Alive'[c + n - 1] = Alive[c]
  <2> SUFFICES ASSUME n > 0 PROVE Alive'[c + n - 1] = Alive[c]
    OBVIOUS
  <2>1. n \in 1..n /\ h + (d + n) = c + n - 1
    BY <1>2
  <2>2. PICK k, m : k = q[n] /\ m = Head(up)
    OBVIOUS
  <2>3. Alive'[c + n - 1] = Stand(k)
    BY <1>9, <2>1, <2>2
  <2> QED
    BY <1>13, <2>2, <2>3
<1>17. ASSUME NEW p \in c + 1..Len(Flow) PROVE Alive'[p + n - 1] = Alive[p]
  <2> DEFINE i == p - c
  <2>1. i \in 1..u - 1 /\ h + (d + n) + i = p + n - 1 /\ h + d + (i + 1) = p
    BY <1>2, <1>11
  <2> HIDE DEF i
  <2> QED
    BY <1>10, <2>1
<1>18. ASSUME NEW i \in 1..u - 1
       PROVE  c + n - 1 + i \in 1..Len(Flow)' /\ Alive'[c + n - 1 + i] = Stand(up[i])'
  <2>1. c + n - 1 + i \in 1..Len(Flow)' /\ h + (d + n) + i = c + n - 1 + i
    BY <1>2, <1>11
  <2>2. Alive'[h + (d + n) + i] = Stand(up[i])'
    BY <1>1, <1>3, <1>4, <1>5 DEF LaidOut
  <2> QED
    BY <2>1, <2>2
<1> HIDE DEF c
<1> QED
  BY <1>3, <1>12, <1>13, <1>14, <1>15, <1>16, <1>17, <1>18

\* What the link carried is lost.
LEMMA FlowLost ==
  ASSUME IInv, IInv', down' = <<>>, up' = <<>>
  PROVE  /\ job' = job /\ sets' = sets =>
              Len(Flow)' <= 1 /\ Len(Flow)' <= Len(Flow) /\ \A p \in 1..Len(Flow)' : Alive'[p] = Alive[p]
         /\ job'.at = "idle" => Len(Flow)' = 0
<1>1. LaidOut(Alive, Len(Flow), Handled, down, up) /\ LaidOut(Alive, Len(Flow), Handled, down, up)'
  BY FlowIs, FlowIsNext
<1>2. Len(Handled) \in Nat /\ Len(down) \in Nat /\ Len(up) \in Nat
  BY LinkLengths
<1>3. Len(Flow)' = Len(Handled)' /\ Len(Flow) >= Len(Handled)
  BY <1>1, <1>2, LinkLengthsNext DEF LaidOut
<1>4. job'.at = "idle" => Len(Flow)' = 0
  BY <1>3, IdleHandledNext
<1>5. ASSUME job' = job, sets' = sets
      PROVE  Len(Flow)' <= 1 /\ Len(Flow)' <= Len(Flow) /\ \A p \in 1..Len(Flow)' : Alive'[p] = Alive[p]
  <2>1. Handled' = Handled
    BY <1>5 DEF Handled, Cur
  <2>2. Len(Handled) <= 1
    <3>1. CASE job.at = "idle"
      BY <3>1, IdleHandled
    <3>2. CASE job.at # "idle"
      <4>1. Len(Handled) = 1
        BY <3>2, BusyHandled
      <4> QED
        BY <4>1
    <3> QED
      BY <3>1, <3>2
  <2>3. \A m : Stand(m)' = Stand(m)
    BY <1>5, StandKept DEF SameKind
  <2>4. \A p \in 1..Len(Handled) : Alive'[p] = Stand(Handled[p])' /\ Alive[p] = Stand(Handled[p])
    BY <1>1, <2>1 DEF LaidOut
  <2> QED
    BY <1>2, <1>3, <2>1, <2>2, <2>3, <2>4
<1> QED
  BY <1>4, <1>5
-----------------------------------------------------------------------------
(* From one order of what is alive to the next.                              *)

\* Each that is alive now was alive before, in the same order.
LEMMA Embedded ==
  ASSUME NEW T, NEW n \in Nat, NEW U, NEW k \in Nat, NEW g, Orderly(T, n),
         \A p \in 1..k : Stands(U[p]) => g[p] \in 1..n /\ U[p] = T[g[p]],
         \A p, q \in 1..k : p < q /\ Stands(U[p]) /\ Stands(U[q]) => g[p] < g[q],
         \A p \in 1..n : Stands(T[p]) => Right(T[p])',
         \A p, q \in 1..n : p < q /\ Stands(T[p]) /\ Stands(T[q]) => InOrder(T[p], T[q])'
  PROVE  Orderly(U, k)'
<1>1. ASSUME NEW p \in 1..k, Stands(U[p]) PROVE Right(U[p])'
  BY <1>1 DEF Stands
<1>2. ASSUME NEW p \in 1..k, NEW q \in 1..k, p < q, Stands(U[p]), Stands(U[q])
      PROVE  InOrder(U[p], U[q])'
  <2>1. g[p] \in 1..n /\ g[q] \in 1..n /\ g[p] < g[q] /\ U[p] = T[g[p]] /\ U[q] = T[g[q]]
    BY <1>2
  <2>2. Stands(T[g[p]]) /\ Stands(T[g[q]])
    BY <1>2, <2>1
  <2> QED
    BY <2>1, <2>2
<1>3. ASSUME NEW p \in 1..k, NEW q \in 1..k, NEW r \in 1..k, p < q, q < r,
             Stands(U[p]), Stands(U[q]), Stands(U[r])
      PROVE  FALSE
  <2>1. /\ g[p] \in 1..n /\ g[q] \in 1..n /\ g[r] \in 1..n /\ g[p] < g[q] /\ g[q] < g[r]
        /\ Stands(T[g[p]]) /\ Stands(T[g[q]]) /\ Stands(T[g[r]])
    BY <1>3
  <2> QED
    BY <2>1 DEF Orderly
<1> QED
  BY <1>1, <1>2, <1>3 DEF Orderly, Stands

\* One is new, and one more is alive at most.
LEMMA OneMore ==
  ASSUME NEW U, NEW k \in Nat, NEW c \in 1..k,
         \A p, q \in 1..k : p < q /\ p # c /\ q # c => ~(Stands(U[p]) /\ Stands(U[q])),
         \A p \in 1..k : Stands(U[p]) => Right(U[p])',
         \A p \in 1..c - 1 : Stands(U[p]) => InOrder(U[p], U[c])',
         \A p \in c + 1..k : Stands(U[p]) => InOrder(U[c], U[p])'
  PROVE  Orderly(U, k)'
<1>1. ASSUME NEW p \in 1..k, NEW q \in 1..k, p < q, Stands(U[p]), Stands(U[q])
      PROVE  InOrder(U[p], U[q])'
  <2>1. p = c \/ q = c
    BY <1>1
  <2>2. CASE p = c
    BY <1>1, <2>2
  <2>3. CASE q = c
    BY <1>1, <2>3
  <2> QED
    BY <2>1, <2>2, <2>3
<1>2. ASSUME NEW p \in 1..k, NEW q \in 1..k, NEW r \in 1..k, p < q, q < r,
             Stands(U[p]), Stands(U[q]), Stands(U[r])
      PROVE  FALSE
  <2>1. CASE p = c
    <3>1. q # c /\ r # c
      BY <1>2, <2>1
    <3> QED
      BY <1>2, <3>1
  <2>2. CASE q = c
    <3>1. p # c /\ r # c /\ p < r
      BY <1>2, <2>2
    <3> QED
      BY <1>2, <3>1
  <2>3. CASE p # c /\ q # c
    BY <1>2, <2>3
  <2> QED
    BY <2>1, <2>2, <2>3
<1> QED
  BY <1>1, <1>2 DEF Orderly, Stands

\* What the order of two transfers reads of a set.
SameSet(a) == sets'[a].files = sets[a].files /\ sets'[a].curNo = sets[a].curNo

LEMMA FindKept ==
  ASSUME NEW want, list' = list
  PROVE  find_file_from_local_db(want)' = find_file_from_local_db(want)
BY DEF find_file_from_local_db, localDBGetRec

LEMMA FoundKept ==
  ASSUME NEW a, list' = list, SameSet(a)
  PROVE  Found(a)' = Found(a)
<1>1. PICK want : want = Cur(a)
  OBVIOUS
<1>2. Cur(a)' = want
  BY <1>1 DEF Cur, SameSet
<1> QED
  BY <1>1, <1>2, FindKept DEF Found

LEMMA CutsTyped == BoundTyped => Cuts \in 0..MaxCuts
BY FileSyncAssumption DEF BoundTyped, Cuts

LEMMA ListedKept ==
  ASSUME IInv, BoundTyped, NEW a, StillListed(a), known' = known, Cuts' = Cuts, Pushed' => Pushed
  PROVE  StillListed(a)'
<1>1. Cuts \in Int /\ ListSize \in Nat /\ Len(known) \in Nat
  BY CutsTyped, FileSyncAssumption DEF IInv, RingFollows
<1>2. CASE Cuts >= ListSize - 1
  BY <1>2 DEF StillListed
<1>3. CASE Kept(known, a, IF Pushed THEN 1 ELSE 0)
  <2>1. PICK i \in 1..Len(known) : known[i] = a /\ Len(known) - i + (IF Pushed THEN 1 ELSE 0) <= Cuts
    BY <1>3 DEF Kept
  <2>2. Len(known') - i + (IF Pushed' THEN 1 ELSE 0) <= Cuts'
    BY <1>1, <2>1
  <2>3. Kept(known, a, IF Pushed THEN 1 ELSE 0)'
    BY <2>1, <2>2 DEF Kept
  <2> QED
    BY <2>3 DEF StillListed
<1> QED
  BY <1>2, <1>3 DEF StillListed

LEMMA RightKept ==
  ASSUME NEW x, Right(x), tbl' = tbl, Cuts' = Cuts, sBusy' = sBusy \/ Cuts >= 1,
         x.t = "set" => SameSet(x.id) /\ (StillListed(x.id) => StillListed(x.id)')
  PROVE  Right(x)'
BY DEF Right, RowsUpTo, SameSet

LEMMA InOrderKept ==
  ASSUME NEW x, NEW y, InOrder(x, y), list' = list, sBusy' = sBusy, Cuts' = Cuts,
         \A z \in {x, y} : z.t = "set" => SameSet(z.id) /\ (Saved(z.id) => Saved(z.id)')
  PROVE  InOrder(x, y)'
<1>1. \A z \in {x, y} : z.t = "set" => Found(z.id)' = Found(z.id)
  BY FoundKept
<1>2. ASSUME x.t = "set", y.t = "set"
      PROVE  /\ Older(x.id, y.id) => Older(x.id, y.id)'
             /\ Older(y.id, x.id) => Older(y.id, x.id)'
  BY <1>1, <1>2 DEF Older, NotNewer, SameSet
<1>3. x.t = "set" /\ y.t = "set" =>
         /\ x.id # y.id
         /\ (Older(x.id, y.id) \/ (Older(y.id, x.id) /\ sets[x.id].curNo # sets[y.id].curNo))'
  BY <1>2 DEF InOrder, SameSet
<1>4. y.t = "set" => \/ ~Found(y.id)'
                     \/ x.t = "set" /\ Saved(x.id)' /\ sets'[x.id].curNo = sets'[y.id].curNo
  BY <1>1 DEF InOrder, SameSet
<1>5. /\ x.t = "list" /\ y.t = "list" => NotNewer(x.files, y.files)
      /\ x.t = "set" /\ y.t = "list"  => NotNewer(sets'[x.id].files, y.files)
      /\ x.t = "list" /\ y.t = "set"  => NotNewer(sets'[y.id].files, x.files)
  BY DEF InOrder, SameSet, NotNewer
<1> QED
  BY <1>3, <1>4, <1>5 DEF InOrder, NotNewer
-----------------------------------------------------------------------------
(* Which files are found in the table of local files.                        *)

HasRecord(f) == \E k \in 1..Len(Items(list)) : Items(list)[k].name = f

LEMMA FoundIs ==
  IInv => \A want : find_file_from_local_db(want) <=> HasRecord(want.name) /\ tbl[want.name] = want.ver
<1> SUFFICES ASSUME IInv, NEW want
             PROVE  find_file_from_local_db(want) <=> HasRecord(want.name) /\ tbl[want.name] = want.ver
  OBVIOUS
<1> DEFINE k == localDBGetRec(want.name)
           q == Items(list)
<1>1. list \in LocalList /\ RowsOf(q, tbl)
  BY RowsHeldIs DEF IInv
<1>2. q \in Seq(FileRec) /\ Len(q) \in Nat
  BY <1>1 DEF RowsOf
<1>3. \/ k \in 1..Len(q) /\ q[k].name = want.name
      \/ k = 0 /\ \A j \in 1..Len(q) : q[j].name # want.name
  BY <1>1, <1>2, RecordFound
<1>4. find_file_from_local_db(want) <=> k # 0 /\ q[k].ver = want.ver
  BY DEF find_file_from_local_db
<1> HIDE DEF k, q
<1>5. k \in 1..Len(q) => k # 0
  BY <1>2
<1>6. \A j \in 1..Len(q) : q[j].ver = tbl[q[j].name]
  BY <1>1 DEF RowsOf
<1>7. HasRecord(want.name) <=> \E j \in 1..Len(q) : q[j].name = want.name
  BY DEF HasRecord, q
<1> QED
  BY <1>3, <1>4, <1>5, <1>6, <1>7

LEMMA FoundIsNext ==
  IInv' => (\A want : find_file_from_local_db(want) <=> HasRecord(want.name) /\ tbl[want.name] = want.ver)'
BY FoundIs, PTL

\* A row that is saved adds no record of another file.
LEMMA OthersSaved ==
  ASSUME IInv, NEW f \in File, NEW v \in Version \cup {Absent}, SaveRow(f, v)
  PROVE  /\ tbl'[f] = v /\ \A g \in File : g # f => tbl'[g] = tbl[g]
         /\ \A g : g # f /\ HasRecord(g)' => HasRecord(g)
<1> DEFINE k == localDBGetRec(f)
           rec == [name |-> f, ver |-> v]
           q == Items(list)
<1>1. list \in LocalList /\ RowsOf(q, tbl) /\ tbl \in Rows
  BY RowsHeldIs DEF IInv, StoreTyped, Rows
<1>2. LocalSize \in Nat \ {0} /\ q \in Seq(FileRec) /\ Len(q) \in Nat
  BY <1>1, FileSyncAssumption DEF RowsOf
<1>3. \/ k \in 1..Len(q) /\ q[k].name = f
      \/ k = 0 /\ \A j \in 1..Len(q) : q[j].name # f
  BY <1>1, <1>2, RecordFound
<1>4. /\ tbl' = [tbl EXCEPT ![f] = v]
      /\ list' = IF k # 0 THEN loop_replace(list, k, rec)
                 ELSE IF tbl[f] # Absent THEN list
                 ELSE loop_push_to_tail(list, rec)
  BY DEF SaveRow
<1>5. tbl'[f] = v /\ \A g \in File : g # f => tbl'[g] = tbl[g]
  BY <1>1, <1>4 DEF Rows
<1>6. rec.name = f /\ rec \in FileRec \cup {NoRecord}
  BY RecordTyped
<1> DEFINE p == Items(list')
<1>7. \A j \in 1..Len(p) : p[j].name = f \/ \E i \in 1..Len(q) : p[j].name = q[i].name
  <2> HIDE DEF k, rec
  <2>1. CASE k # 0
    <3>1. k \in 1..Used(LocalSize, list) /\ Len(q) = Used(LocalSize, list)
      BY <1>1, <1>2, <1>3, <2>1, ItemsAre DEF LocalList
    <3> DEFINE S == FileRec \cup {NoRecord}
    <3> HIDE DEF S
    <3>2. list \in Ring(LocalSize, S) /\ rec \in S
      BY <1>1, <1>6 DEF S, LocalList
    <3>3. /\ loop_replace(list, k, rec) \in Ring(LocalSize, S)
          /\ Used(LocalSize, loop_replace(list, k, rec)) = Used(LocalSize, list)
          /\ \A j \in 1..Used(LocalSize, list) :
                Items(loop_replace(list, k, rec))[j] = IF j = k THEN rec ELSE Items(list)[j]
      BY <1>2, <3>1, <3>2, ItemsReplaced
    <3>4. Len(Items(loop_replace(list, k, rec))) = Len(q)
      BY <1>2, <3>1, <3>3, ItemsAre
    <3> HIDE DEF p, q
    <3>5. list' = loop_replace(list, k, rec)
      BY <1>4, <2>1
    <3>6. Len(p) = Len(q) /\ \A j \in 1..Len(q) : p[j] = IF j = k THEN rec ELSE q[j]
      BY <3>1, <3>3, <3>4, <3>5 DEF p, q
    <3> QED
      BY <1>6, <3>6
  <2>2. CASE k = 0 /\ list' = list
    BY <2>2
  <2>3. CASE k = 0 /\ list' = loop_push_to_tail(list, rec)
    <3>1. \A j \in 1..Len(q) : q[j].name # f
      BY <1>3, <2>3, <1>2
    <3>2. RowsOf(q, tbl')
      <4>1. \A j \in 1..Len(q) : q[j].name \in File
        <5> HIDE DEF q
        <5>1. \A j \in 1..Len(q) : q[j] \in FileRec
          BY <1>2
        <5>2. \A r \in FileRec : r.name \in File
          BY DEF FileRec
        <5> QED
          BY <5>1, <5>2
      <4> HIDE DEF q
      <4>2. \A j \in 1..Len(q) : q[j].ver = tbl'[q[j].name]
        BY <1>1, <1>5, <3>1, <4>1 DEF RowsOf
      <4> QED
        BY <1>1, <4>2 DEF RowsOf
    <3>3. \A j \in 1..Len(Items(loop_push_to_tail(list, rec))) :
             \/ Items(loop_push_to_tail(list, rec))[j].name = f
             \/ \E i \in 1..Len(Items(list)) :
                  Items(loop_push_to_tail(list, rec))[j].name = Items(list)[i].name
      BY <1>1, <1>5, <3>1, <3>2, RowPushed DEF rec
    <3> QED
      BY <2>3, <3>3
  <2> QED
    BY <1>4, <2>1, <2>2, <2>3
<1>8. \A g : g # f /\ HasRecord(g)' => HasRecord(g)
  <2> SUFFICES ASSUME NEW g, g # f, HasRecord(g)' PROVE HasRecord(g)
    OBVIOUS
  <2>1. PICK j \in 1..Len(p) : p[j].name = g
    BY DEF HasRecord
  <2> HIDE DEF p, q
  <2>2. PICK i \in 1..Len(q) : p[j].name = q[i].name
    BY <1>7, <2>1
  <2> QED
    BY <2>1, <2>2 DEF HasRecord, q
<1> QED
  BY <1>5, <1>8

LEMMA NoneAfterDelete ==
  ASSUME IInv, localDBDelAll
  PROVE  /\ \A f \in File : tbl'[f] = Absent
         /\ \A f : ~HasRecord(f)'
<1>1. list \in LocalList /\ LocalSize \in Nat \ {0}
  BY RowsHeldIs, FileSyncAssumption DEF IInv
<1>2. list' = loop_clear(list) /\ tbl' = [f \in File |-> Absent]
  BY DEF localDBDelAll
<1>3. Items(list') = <<>>
  BY <1>1, <1>2, ItemsCleared DEF LocalList
<1>4. Len(Items(list')) = 0
  BY <1>3
<1> QED
  BY <1>2, <1>4 DEF HasRecord

\* The files that client_getFileFromSet steps over are found, the one it stops
\* at is not.
LEMMA NextMissingIs ==
  ASSUME NEW s \in SetState, s.curNo <= Len(s.files), NEW i, i = NextMissing(s)
  PROVE  /\ i \in Nat /\ s.curNo <= i /\ i <= Len(s.files)
         /\ \A j \in s.curNo..i - 1 : find_file_from_local_db(s.files[j + 1])
         /\ i < Len(s.files) => ~find_file_from_local_db(s.files[i + 1])
<1> DEFINE n == Len(s.files)
           missing == {j \in s.curNo..n - 1 : ~find_file_from_local_db(s.files[j + 1])}
<1>1. n \in Nat /\ s.curNo \in Nat
  BY DEF SetState
<1>2. i = IF missing = {} THEN n ELSE CHOOSE j \in missing : \A k \in missing : j <= k
  BY DEF NextMissing
<1>3. missing \subseteq Nat
  BY <1>1
<1>4. \A j : j \in missing <=> j \in s.curNo..n - 1 /\ ~find_file_from_local_db(s.files[j + 1])
  OBVIOUS
<1> HIDE DEF missing, n
<1>5. missing # {} => \E j \in missing : \A k \in missing : j <= k
  BY <1>3, Smallest
<1>6. \/ missing = {} /\ i = n
      \/ i \in missing /\ \A k \in missing : i <= k
  <2>1. CASE missing = {}
    BY <1>2, <2>1
  <2>2. CASE missing # {}
    <3> DEFINE m == CHOOSE j \in missing : \A k \in missing : j <= k
    <3>1. m \in missing /\ \A k \in missing : m <= k
      BY <1>5, <2>2
    <3>2. i = m
      BY <1>2, <2>2
    <3> HIDE DEF m
    <3> QED
      BY <3>1, <3>2
  <2> QED
    BY <2>1, <2>2
<1>7. i \in Nat /\ s.curNo <= i /\ i <= n
  BY <1>1, <1>4, <1>6 DEF n
<1>8. ASSUME NEW j \in s.curNo..i - 1 PROVE find_file_from_local_db(s.files[j + 1])
  <2>1. j \in s.curNo..n - 1 /\ j < i
    BY <1>1, <1>7
  <2>2. j \notin missing
    BY <1>3, <1>6, <1>7, <2>1
  <2> QED
    BY <1>4, <2>1, <2>2
<1>9. i < n => ~find_file_from_local_db(s.files[i + 1])
  BY <1>1, <1>4, <1>6
<1> QED
  BY <1>7, <1>8, <1>9 DEF n
-----------------------------------------------------------------------------
(* The place of a transfer in the queue of those that are known.             *)

Distinct(q) == \A i, j \in 1..Len(q) : q[i] = q[j] => i = j

\* a is in q, and at most c are the n to come and those after it.
KeptIn(q, a, n, c) == \E i \in 1..Len(q) : q[i] = a /\ Len(q) - i + n <= c

LEMMA KnownFits == IInv => known \in Seq(Addr) /\ Len(known) \in Nat /\ Len(known) <= ListSize - 1
<1> SUFFICES ASSUME IInv PROVE known \in Seq(Addr) /\ Len(known) \in Nat /\ Len(known) <= ListSize - 1
  OBVIOUS
<1>1. ring \in Ring(ListSize, Addr \cup {Null}) /\ known \in Seq(Addr) /\ Items(ring) = known
  BY DEF IInv, RingFollows
<1>2. ListSize \in Nat \ {0}
  BY FileSyncAssumption
<1>3. Len(known) = Used(ListSize, ring) /\ Used(ListSize, ring) \in 0..ListSize - 1
  BY <1>1, <1>2, ItemsAre, InUseTyped
<1> QED
  BY <1>1, <1>2, <1>3

\* r is q with a at its end, without the o oldest.
Pushes(q, a, r, o) ==
    /\ r \in Seq(Addr) /\ Len(r) = Len(q) + 1 - o /\ r[Len(r)] = a
    /\ \A j \in 1..Len(r) - 1 : r[j] = q[j + o]
    /\ o = 1 => Len(q) = ListSize - 1

\* g is q without its k-th element, a.
Drops(q, a, g, k) ==
    /\ q[k] = a /\ g \in Seq(Addr) /\ Len(g) = Len(q) - 1
    /\ \A j \in 1..Len(q) - 1 : g[j] = IF k <= j THEN q[j + 1] ELSE q[j]

LEMMA RememberedIs ==
  ASSUME NEW q \in Seq(Addr), NEW a \in Addr
  PROVE  \E o \in {0, 1} : Pushes(q, a, Remembered(q, a), o)
<1> DEFINE r == Remembered(q, a)
<1>1. ListSize \in Nat \ {0, 1} /\ Len(q) \in Nat
  BY FileSyncAssumption
<1> SUFFICES \E o \in {0, 1} : Pushes(q, a, r, o)
  OBVIOUS
<1> HIDE DEF r
<1>2. CASE Len(q) = ListSize - 1
  <2>1. q # <<>>
    BY <1>1, <1>2
  <2>2. Tail(q) \in Seq(Addr) /\ Len(Tail(q)) = Len(q) - 1 /\ \A j \in 1..Len(q) - 1 : Tail(q)[j] = q[j + 1]
    BY <2>1, HeadTailProperties
  <2>3. r = Append(Tail(q), a)
    BY <1>2 DEF Remembered, r
  <2>4. r \in Seq(Addr) /\ Len(r) = Len(q) /\ r[Len(q)] = a /\ \A j \in 1..Len(q) - 1 : r[j] = Tail(q)[j]
    BY <1>1, <2>2, <2>3, AppendProperties
  <2>5. Pushes(q, a, r, 1)
    BY <1>1, <1>2, <2>2, <2>4 DEF Pushes
  <2> QED
    BY <2>5
<1>3. CASE Len(q) # ListSize - 1
  <2>1. r = Append(q, a)
    BY <1>3 DEF Remembered, r
  <2>2. r \in Seq(Addr) /\ Len(r) = Len(q) + 1 /\ r[Len(q) + 1] = a /\ \A j \in 1..Len(q) : r[j] = q[j]
    BY <2>1, AppendProperties
  <2>3. \A j \in 1..Len(r) - 1 : r[j] = q[j + 0]
    BY <1>1, <2>2
  <2>4. Len(r) = Len(q) + 1 - 0 /\ r[Len(r)] = a
    BY <1>1, <2>2
  <2>5. Pushes(q, a, r, 0)
    BY <2>2, <2>3, <2>4 DEF Pushes
  <2> QED
    BY <2>5
<1> QED
  BY <1>2, <1>3

LEMMA ForgottenIs ==
  ASSUME NEW q \in Seq(Addr), Distinct(q), NEW a \in Addr
  PROVE  \/ Forgotten(q, a) = q /\ \A i \in 1..Len(q) : q[i] # a
         \/ \E k \in 1..Len(q) : Drops(q, a, Forgotten(q, a), k)
<1> DEFINE g == Forgotten(q, a)
<1>1. Len(q) \in Nat /\ DOMAIN q = 1..Len(q)
  OBVIOUS
<1> SUFFICES \/ g = q /\ \A i \in 1..Len(q) : q[i] # a
             \/ \E k \in 1..Len(q) : Drops(q, a, g, k)
  OBVIOUS
<1> HIDE DEF g
<1>2. CASE \A i \in 1..Len(q) : q[i] # a
  BY <1>1, <1>2 DEF Forgotten, g
<1>3. CASE \E i \in 1..Len(q) : q[i] = a
  <2>1. PICK k \in 1..Len(q) : q[k] = a
    BY <1>3
  <2> DEFINE u == Len(q)
  <2>2. g = [j \in 1..u - 1 |-> IF \E i \in 1..j : q[i] = a THEN q[j + 1] ELSE q[j]]
    BY <1>1, <1>3 DEF Forgotten, g
  <2> HIDE DEF u
  <2>3. \A j \in 1..u - 1 : (\E i \in 1..j : q[i] = a) <=> k <= j
    BY <1>1, <2>1 DEF Distinct, u
  <2>4. \A j \in 1..u - 1 : g[j] = IF k <= j THEN q[j + 1] ELSE q[j]
    BY <2>2, <2>3
  <2>5. \A j \in 1..u - 1 : g[j] \in Addr
    <3>1. \A j \in 1..u - 1 : j \in 1..u /\ j + 1 \in 1..u
      BY <1>1 DEF u
    <3>2. \A j \in 1..u : q[j] \in Addr
      BY DEF u
    <3> QED
      BY <2>4, <3>1, <3>2
  <2>6. u - 1 \in Nat
    BY <1>1, <2>1 DEF u
  <2>7. g = [j \in 1..u - 1 |-> g[j]]
    BY <2>2
  <2>8. g \in Seq(Addr) /\ Len(g) = u - 1
    BY <2>5, <2>6, <2>7
  <2> QED
    BY <2>1, <2>4, <2>8 DEF u, Drops
<1> QED
  BY <1>2, <1>3

\* One more sync is listed after b.
LEMMA KeptRemembered ==
  ASSUME NEW q \in Seq(Addr), Len(q) <= ListSize - 1, NEW a \in Addr, NEW b, NEW c \in Int,
         c < ListSize - 1, KeptIn(q, b, 1, c)
  PROVE  KeptIn(Remembered(q, a), b, 0, c)
<1> DEFINE r == Remembered(q, a)
<1> HIDE DEF r
<1>1. ListSize \in Nat /\ Len(q) \in Nat
  BY FileSyncAssumption
<1>2. PICK i \in 1..Len(q) : q[i] = b /\ Len(q) - i + 1 <= c
  BY DEF KeptIn
<1>3. PICK o \in {0, 1} : Pushes(q, a, r, o)
  BY RememberedIs DEF r
<1>4. i - o \in 1..Len(r) - 1 /\ (i - o) + o = i
  BY <1>1, <1>2, <1>3 DEF Pushes
<1>5. r[i - o] = b
  BY <1>2, <1>3, <1>4 DEF Pushes
<1>6. i - o \in 1..Len(r) /\ Len(r) - (i - o) + 0 <= c
  BY <1>1, <1>2, <1>3, <1>4 DEF Pushes
<1>7. KeptIn(r, b, 0, c)
  BY <1>5, <1>6 DEF KeptIn
<1> QED
  BY <1>7 DEF r

LEMMA KeptNew ==
  ASSUME NEW q \in Seq(Addr), NEW a \in Addr, NEW n \in Int, NEW c \in Int, n <= c
  PROVE  KeptIn(Remembered(q, a), a, n, c)
<1> DEFINE r == Remembered(q, a)
<1> HIDE DEF r
<1>1. PICK o \in {0, 1} : Pushes(q, a, r, o)
  BY RememberedIs DEF r
<1>2. Len(r) \in 1..Len(r) /\ Len(r) - Len(r) + n <= c
  BY <1>1, FileSyncAssumption DEF Pushes
<1>3. KeptIn(r, a, n, c)
  BY <1>1, <1>2 DEF KeptIn, Pushes
<1> QED
  BY <1>3 DEF r

LEMMA DistinctRemembered ==
  ASSUME NEW q \in Seq(Addr), Distinct(q), NEW a \in Addr, \A i \in 1..Len(q) : q[i] # a,
         NEW r, r = Remembered(q, a)
  PROVE  /\ r \in Seq(Addr) /\ Distinct(r)
         /\ \A j \in 1..Len(r) : r[j] = a \/ \E i \in 1..Len(q) : r[j] = q[i]
<1>0. PICK o \in {0, 1} : Pushes(q, a, r, o)
  BY RememberedIs
<1>1. /\ r \in Seq(Addr) /\ Len(r) = Len(q) + 1 - o /\ r[Len(r)] = a
      /\ \A j \in 1..Len(r) - 1 : r[j] = q[j + o]
  BY <1>0 DEF Pushes
<1>2. Len(q) \in Nat /\ Len(r) \in Nat
  BY <1>1
<1>3. \A j \in 1..Len(r) : j = Len(r) \/ (j \in 1..Len(r) - 1 /\ j + o \in 1..Len(q))
  BY <1>1, <1>2
<1>4. Distinct(r)
  <2> SUFFICES ASSUME NEW i \in 1..Len(r), NEW j \in 1..Len(r), r[i] = r[j] PROVE i = j
    BY DEF Distinct
  <2>1. CASE i = Len(r) /\ j = Len(r)
    BY <2>1
  <2>2. CASE i = Len(r) /\ j # Len(r)
    BY <1>1, <1>3, <2>2
  <2>3. CASE i # Len(r) /\ j = Len(r)
    BY <1>1, <1>3, <2>3
  <2>4. CASE i # Len(r) /\ j # Len(r)
    <3>1. i + o \in 1..Len(q) /\ j + o \in 1..Len(q) /\ q[i + o] = q[j + o]
      BY <1>1, <1>3, <2>4
    <3>2. i + o = j + o
      BY <3>1 DEF Distinct
    <3> QED
      BY <1>1, <3>2
  <2> QED
    BY <2>1, <2>2, <2>3, <2>4
<1> QED
  BY <1>1, <1>3, <1>4

\* The elements of g are elements of q, and a is not among them.
Without(g, q, a) == \A j \in 1..Len(g) : g[j] # a /\ \E i \in 1..Len(q) : g[j] = q[i]

LEMMA DistinctForgotten ==
  ASSUME NEW q \in Seq(Addr), Distinct(q), NEW a \in Addr, NEW g, g = Forgotten(q, a)
  PROVE  g \in Seq(Addr) /\ Distinct(g) /\ Without(g, q, a)
<1>1. CASE g = q /\ \A i \in 1..Len(q) : q[i] # a
  BY <1>1 DEF Without
<1>2. CASE \E k \in 1..Len(q) : Drops(q, a, g, k)
  <2>1. PICK k \in 1..Len(q) :
               /\ q[k] = a /\ g \in Seq(Addr) /\ Len(g) = Len(q) - 1
               /\ \A j \in 1..Len(q) - 1 : g[j] = IF k <= j THEN q[j + 1] ELSE q[j]
    BY <1>2 DEF Drops
  <2> DEFINE from(j) == IF k <= j THEN j + 1 ELSE j
  <2>2. Len(q) \in Nat
    OBVIOUS
  <2>3. \A j \in 1..Len(g) : from(j) \in 1..Len(q) /\ from(j) # k /\ g[j] = q[from(j)]
    BY <2>1, <2>2
  <2>4. \A i, j \in 1..Len(g) : from(i) = from(j) => i = j
    BY <2>1, <2>2
  <2> HIDE DEF from
  <2>5. \A j \in 1..Len(g) : g[j] # a
    BY <2>1, <2>3 DEF Distinct
  <2>6. Distinct(g)
    BY <2>3, <2>4 DEF Distinct
  <2> QED
    BY <2>1, <2>3, <2>5, <2>6 DEF Without
<1> QED
  BY <1>1, <1>2, ForgottenIs

\* a is over: with a gone, as many are after b as before, one to come included.
LEMMA KeptForgotten ==
  ASSUME NEW q \in Seq(Addr), Distinct(q), NEW a \in Addr, NEW b, a # b, NEW c \in Int, NEW n \in {0, 1},
         KeptIn(q, a, n, c), KeptIn(q, b, n, c)
  PROVE  KeptIn(Forgotten(q, a), b, 1, c)
<1> DEFINE g == Forgotten(q, a)
<1> HIDE DEF g
<1>1. PICK i \in 1..Len(q) : q[i] = b /\ Len(q) - i + n <= c
  BY DEF KeptIn
<1>2. PICK l \in 1..Len(q) : q[l] = a /\ Len(q) - l + n <= c
  BY DEF KeptIn
<1>3. PICK k \in 1..Len(q) :
               /\ q[k] = a /\ g \in Seq(Addr) /\ Len(g) = Len(q) - 1
               /\ \A j \in 1..Len(q) - 1 : g[j] = IF k <= j THEN q[j + 1] ELSE q[j]
  <2>1. \/ g = q /\ \A j \in 1..Len(q) : q[j] # a
        \/ \E k \in 1..Len(q) : Drops(q, a, g, k)
    BY ForgottenIs DEF g
  <2>2. \E k \in 1..Len(q) : Drops(q, a, g, k)
    BY <1>2, <2>1
  <2> QED
    BY <2>2 DEF Drops
<1>4. l = k /\ i # k /\ Len(q) \in Nat
  BY <1>1, <1>2, <1>3 DEF Distinct
<1>5. CASE i < k
  <2>1. i \in 1..Len(q) - 1 /\ g[i] = b
    BY <1>1, <1>3, <1>4, <1>5
  <2>2. Len(g) - i + 1 <= c
    BY <1>1, <1>3, <1>4
  <2>3. KeptIn(g, b, 1, c)
    BY <1>3, <2>1, <2>2 DEF KeptIn
  <2> QED
    BY <2>3 DEF g
<1>6. CASE k < i
  <2>1. i - 1 \in 1..Len(q) - 1 /\ k <= i - 1 /\ (i - 1) + 1 = i
    BY <1>1, <1>3, <1>4, <1>6
  <2>2. g[i - 1] = b
    BY <1>1, <1>3, <2>1
  <2>3. Len(g) - (i - 1) + 1 <= c
    BY <1>1, <1>2, <1>3, <1>4, <1>6
  <2>4. KeptIn(g, b, 1, c)
    BY <1>3, <2>1, <2>2, <2>3 DEF KeptIn
  <2> QED
    BY <2>4 DEF g
<1> QED
  BY <1>4, <1>5, <1>6
-----------------------------------------------------------------------------
(* Steps that leave the transfers what they are, and their order.            *)

LEMMA FlowElement ==
  ASSUME IInv, NEW p \in 1..Len(Flow)
  PROVE  Flow[p] \in Message /\ Alive[p] = Stand(Flow[p])
<1>1. Handled \in Seq(Message) /\ down \in Seq(Message) /\ up \in Seq(Message)
  BY HandledTyped, LinkMessages
<1>2. Flow \in Seq(Message)
  BY <1>1, ThreeJoined DEF Flow
<1> QED
  BY <1>2 DEF Alive

\* What stands for a transfer by its set names a set of a sync.
LEMMA TokenNamed ==
  ASSUME IInv, NEW p \in 1..Len(Flow), Alive[p].t = "set"
  PROVE  Alive[p].id \in Addr /\ sets[Alive[p].id].kind = "sync"
<1>1. Flow[p] \in Message /\ Alive[p] = Stand(Flow[p])
  BY FlowElement
<1>2. OfSync(Flow[p]) /\ Alive[p].id = Flow[p].id
  BY <1>1 DEF Stand
<1>3. IsPart(Flow[p])
  BY <1>2 DEF OfSync, IsPart
<1> QED
  BY <1>1, <1>2, <1>3, MessageTyped DEF OfSync

LEMMA Steady ==
  ASSUME IInv, BoundTyped, UNCHANGED <<tbl, list, known, sBusy>>, Cuts' = Cuts, Pushed' => Pushed,
         \A a : Saved(a) => Saved(a)'
  PROVE  /\ \A x : Right(x) /\ (x.t = "set" => SameSet(x.id)) => Right(x)'
         /\ \A x, y : /\ InOrder(x, y)
                      /\ x.t = "set" => SameSet(x.id)
                      /\ y.t = "set" => SameSet(y.id)
                      => InOrder(x, y)'
<1>1. \A a : StillListed(a) => StillListed(a)'
  BY ListedKept
<1>2. ASSUME NEW x, Right(x), x.t = "set" => SameSet(x.id) PROVE Right(x)'
  BY <1>1, <1>2, RightKept
<1>3. ASSUME NEW x, NEW y, InOrder(x, y), x.t = "set" => SameSet(x.id), y.t = "set" => SameSet(y.id)
      PROVE  InOrder(x, y)'
  <2>1. \A z \in {x, y} : z.t = "set" => SameSet(z.id) /\ (Saved(z.id) => Saved(z.id)')
    BY <1>3
  <2> QED
    BY <1>3, <2>1, InOrderKept
<1> QED
  BY <1>2, <1>3

LEMMA OrderlyNext ==
  ASSUME NEW U, NEW k, U = Alive', k = Len(Flow)', Orderly(U, k)'
  PROVE  Orderly(Alive, Len(Flow))'
OBVIOUS

LEMMA SteadyStep ==
  ASSUME IInv, IInv', BoundTyped, OlderAhead, UNCHANGED <<tbl, list, known, sBusy>>, Cuts' = Cuts,
         Pushed' => Pushed, \A a : Saved(a) => Saved(a)',
         \A a \in Addr : sets[a].kind = "sync" => SameSet(a), NEW g,
         \A p \in 1..Len(Flow)' : Stands(Alive'[p]) => g[p] \in 1..Len(Flow) /\ Alive'[p] = Alive[g[p]],
         \A p, q \in 1..Len(Flow)' : p < q /\ Stands(Alive'[p]) /\ Stands(Alive'[q]) => g[p] < g[q]
  PROVE  Orderly(Alive, Len(Flow))'
<1>1. PICK T, n, U, k : T = Alive /\ n = Len(Flow) /\ U = Alive' /\ k = Len(Flow)'
  OBVIOUS
<1>2. n \in Nat /\ k \in Nat /\ Orderly(T, n)
  BY <1>1, LinkLengths, LinkLengthsNext DEF OlderAhead
<1>3. \A p \in 1..n : T[p].t = "set" => SameSet(T[p].id)
  BY <1>1, TokenNamed
<1>4. /\ \A p \in 1..k : Stands(U[p]) => g[p] \in 1..n /\ U[p] = T[g[p]]
      /\ \A p, q \in 1..k : p < q /\ Stands(U[p]) /\ Stands(U[q]) => g[p] < g[q]
  BY <1>1
<1>5. \A p \in 1..n : Stands(T[p]) => Right(T[p])'
  BY <1>2, <1>3, Steady DEF Orderly
<1>6. \A p, q \in 1..n : p < q /\ Stands(T[p]) /\ Stands(T[q]) => InOrder(T[p], T[q])'
  BY <1>2, <1>3, Steady DEF Orderly
<1>7. Orderly(U, k)'
  BY <1>2, <1>4, <1>5, <1>6, Embedded
<1> QED
  BY <1>1, <1>7, OrderlyNext

LEMMA SteadyKept ==
  ASSUME IInv, IInv', BoundTyped, OlderAhead, UNCHANGED <<tbl, list, known, sBusy>>, Cuts' = Cuts,
         Pushed' => Pushed, \A a : Saved(a) => Saved(a)',
         \A a \in Addr : sets[a].kind = "sync" => SameSet(a),
         Len(Flow)' = Len(Flow), \A p \in 1..Len(Flow) : Alive'[p] = Alive[p]
  PROVE  Orderly(Alive, Len(Flow))'
<1>1. PICK n : n = Len(Flow)
  OBVIOUS
<1>2. PICK g : g = [p \in 1..n |-> p]
  OBVIOUS
<1>3. /\ \A p \in 1..Len(Flow)' : Stands(Alive'[p]) => g[p] \in 1..Len(Flow) /\ Alive'[p] = Alive[g[p]]
      /\ \A p, q \in 1..Len(Flow)' : p < q /\ Stands(Alive'[p]) /\ Stands(Alive'[q]) => g[p] < g[q]
  BY <1>1, <1>2
<1> QED
  BY <1>3, SteadyStep

LEMMA SteadyTail ==
  ASSUME IInv, IInv', BoundTyped, OlderAhead, UNCHANGED <<tbl, list, known, sBusy>>, Cuts' = Cuts,
         Pushed' => Pushed, \A a : Saved(a) => Saved(a)',
         \A a \in Addr : sets[a].kind = "sync" => SameSet(a),
         NEW n, Len(Flow)' = n \/ (Len(Flow)' = n + 1 /\ ~Stands(Alive'[n + 1])), n = Len(Flow) - 1,
         \A p \in 1..n : Alive'[p] = Alive[p + 1]
  PROVE  Orderly(Alive, Len(Flow))'
<1>1. n \in Int /\ Len(Flow) \in Nat
  BY LinkLengths
<1>2. PICK g : g = [p \in 1..n |-> p + 1]
  OBVIOUS
<1>3. \A p \in 1..Len(Flow)' : Stands(Alive'[p]) => p \in 1..n
  BY <1>1
<1>4. \A p \in 1..n : g[p] = p + 1 /\ g[p] \in 1..Len(Flow) /\ Alive'[p] = Alive[g[p]]
  BY <1>1, <1>2
<1>5. /\ \A p \in 1..Len(Flow)' : Stands(Alive'[p]) => g[p] \in 1..Len(Flow) /\ Alive'[p] = Alive[g[p]]
      /\ \A p, q \in 1..Len(Flow)' : p < q /\ Stands(Alive'[p]) /\ Stands(Alive'[q]) => g[p] < g[q]
  BY <1>3, <1>4
<1> QED
  BY <1>5, SteadyStep

LEMMA WaitingKept ==
  ASSUME IInv, Waiting, list' = list, sBusy' = sBusy, SameKinds,
         \A a \in Addr : sets[a].kind = "sync" => SameSet(a),
         \A p \in 1..Len(up)' : \/ \E q \in 1..Len(up) : up'[p] = up[q]
                                \/ \A m : m = up'[p] => ~OfSync(m)'
  PROVE  Waiting'
<1> SUFFICES ASSUME ~sBusy', NEW p \in 1..Len(up)', NEW m, m = up'[p], OfSync(m)'
             PROVE  ~Found(m.id)'
  BY DEF Waiting
<1>1. PICK q \in 1..Len(up) : m = up[q]
  OBVIOUS
<1>2. IsPart(m) /\ m.id \in Addr
  <2>1. up \in Seq(Message)
    BY LinkMessages
  <2>2. up[q] \in Message
    BY <2>1
  <2>3. IsPart(m)
    BY DEF OfSync, IsPart
  <2> QED
    BY <1>1, <2>2, <2>3, MessageTyped
<1>3. SameKind(m.id)
  BY <1>1, <1>2 DEF SameKinds
<1>4. OfSync(m)
  BY <1>3 DEF OfSync, SameKind
<1>5. ~Found(m.id)
  BY <1>1, <1>4 DEF Waiting
<1>6. SameSet(m.id)
  BY <1>2, <1>4 DEF OfSync
<1> QED
  BY <1>5, <1>6, FoundKept

LEMMA TailElements ==
  ASSUME NEW S, NEW q \in Seq(S), q # <<>>
  PROVE  /\ Tail(q) \in Seq(S) /\ Len(Tail(q)) = Len(q) - 1
         /\ Head(q) = q[1] /\ 1 \in 1..Len(q)
         /\ \A p \in 1..Len(Tail(q)) : p + 1 \in 1..Len(q) /\ Tail(q)[p] = q[p + 1]
<1>1. Len(q) \in Nat \ {0}
  OBVIOUS
<1>2. /\ Tail(q) \in Seq(S) /\ Len(Tail(q)) = Len(q) - 1 /\ Head(q) = q[1]
      /\ \A p \in 1..Len(Tail(q)) : Tail(q)[p] = q[p + 1]
  BY HeadTailProperties
<1>3. \A p \in 1..Len(q) - 1 : p + 1 \in 1..Len(q)
  BY <1>1
<1> QED
  BY <1>1, <1>2, <1>3

LEMMA AppendElements ==
  ASSUME NEW S, NEW q \in Seq(S), NEW k
  PROVE  /\ Len(Append(q, k)) = Len(q) + 1 /\ Append(q, k)[Len(q) + 1] = k
         /\ \A p \in 1..Len(q) : Append(q, k)[p] = q[p]
         /\ \A p \in 1..Len(Append(q, k)) : p \in 1..Len(q) \/ p = Len(q) + 1
<1> DEFINE R == S \cup {k}
<1>1. q \in Seq(R) /\ k \in R
  OBVIOUS
<1> HIDE DEF R
<1>2. /\ Len(Append(q, k)) = Len(q) + 1 /\ Append(q, k)[Len(q) + 1] = k
      /\ \A p \in 1..Len(q) : Append(q, k)[p] = q[p]
  BY <1>1, AppendProperties
<1> QED
  BY <1>2

LEMMA PushedKept ==
  ASSUME sBusy' = sBusy,
         \A p \in 1..Len(down)' : IsListing(down'[p]) => \E q \in 1..Len(down) : down'[p] = down[q],
         \A p \in 1..Len(up)' : up'[p].kind = "fin" => \E q \in 1..Len(up) : up'[p] = up[q]
  PROVE  Pushed' => Pushed
<1>1. CASE ~sBusy'
  BY <1>1 DEF Pushed
<1>2. ASSUME NEW p \in 1..Len(down)', IsListing(down'[p]) PROVE Pushed
  BY <1>2 DEF Pushed, IsListing
<1>3. ASSUME NEW p \in 1..Len(up)', up'[p].kind = "fin" PROVE Pushed
  BY <1>3 DEF Pushed
<1> QED
  BY <1>1, <1>2, <1>3 DEF Pushed, IsListing

\* A bound is spent.
LEMMA Spent ==
  ASSUME BoundTyped, NEW what \in {"edits", "cuts", "restarts", "updates", "wipes"}, Spend(what)
  PROVE  /\ BoundTyped'
         /\ Cuts' = IF what = "cuts" THEN Cuts + 1 ELSE Cuts
         /\ bound'.updates <= bound.updates
         /\ what = "updates" => bound'.updates < MaxUpdates
         /\ what # "updates" => bound'.updates = bound.updates
<1>1. /\ bound \in [edits: Nat, cuts: 0..MaxCuts, restarts: Nat, updates: 0..MaxUpdates, wipes: Nat, events: Nat]
      /\ MaxCuts \in Nat /\ MaxUpdates \in Nat
  BY FileSyncAssumption DEF BoundTyped
<1>2. /\ bound[what] > 0 /\ bound.events > 0
      /\ bound' = [bound EXCEPT ![what] = @ - 1, !.events = @ - 1]
  BY DEF Spend, Left
<1>3. CASE what = "edits"
  <2>1. bound' = [edits |-> bound.edits - 1, cuts |-> bound.cuts, restarts |-> bound.restarts,
                  updates |-> bound.updates, wipes |-> bound.wipes, events |-> bound.events - 1]
    BY <1>1, <1>2, <1>3
  <2>2. bound.edits > 0 /\ bound.events > 0
    BY <1>2, <1>3
  <2>3. bound.edits - 1 \in Nat /\ bound.events - 1 \in Nat
    BY <1>1, <2>2
  <2> QED
    BY <1>1, <1>3, <2>1, <2>3 DEF BoundTyped, Cuts
<1>4. CASE what = "cuts"
  <2>1. bound' = [edits |-> bound.edits, cuts |-> bound.cuts - 1, restarts |-> bound.restarts,
                  updates |-> bound.updates, wipes |-> bound.wipes, events |-> bound.events - 1]
    BY <1>1, <1>2, <1>4
  <2>2. bound.cuts > 0 /\ bound.events > 0
    BY <1>2, <1>4
  <2>3. bound.cuts - 1 \in 0..MaxCuts /\ bound.events - 1 \in Nat
    BY <1>1, <2>2
  <2> QED
    BY <1>1, <1>4, <2>1, <2>3 DEF BoundTyped, Cuts
<1>5. CASE what = "restarts"
  <2>1. bound' = [edits |-> bound.edits, cuts |-> bound.cuts, restarts |-> bound.restarts - 1,
                  updates |-> bound.updates, wipes |-> bound.wipes, events |-> bound.events - 1]
    BY <1>1, <1>2, <1>5
  <2>2. bound.restarts > 0 /\ bound.events > 0
    BY <1>2, <1>5
  <2>3. bound.restarts - 1 \in Nat /\ bound.events - 1 \in Nat
    BY <1>1, <2>2
  <2> QED
    BY <1>1, <1>5, <2>1, <2>3 DEF BoundTyped, Cuts
<1>6. CASE what = "updates"
  <2>1. bound' = [edits |-> bound.edits, cuts |-> bound.cuts, restarts |-> bound.restarts,
                  updates |-> bound.updates - 1, wipes |-> bound.wipes, events |-> bound.events - 1]
    BY <1>1, <1>2, <1>6
  <2>2. bound.updates > 0 /\ bound.events > 0
    BY <1>2, <1>6
  <2>3. bound.updates - 1 \in 0..MaxUpdates /\ bound.events - 1 \in Nat
    BY <1>1, <2>2
  <2> QED
    BY <1>1, <1>6, <2>1, <2>3 DEF BoundTyped, Cuts
<1>7. CASE what = "wipes"
  <2>1. bound' = [edits |-> bound.edits, cuts |-> bound.cuts, restarts |-> bound.restarts,
                  updates |-> bound.updates, wipes |-> bound.wipes - 1, events |-> bound.events - 1]
    BY <1>1, <1>2, <1>7
  <2>2. bound.wipes > 0 /\ bound.events > 0
    BY <1>2, <1>7
  <2>3. bound.wipes - 1 \in Nat /\ bound.events - 1 \in Nat
    BY <1>1, <2>2
  <2> QED
    BY <1>1, <1>7, <2>1, <2>3 DEF BoundTyped, Cuts
<1> QED
  BY <1>3, <1>4, <1>5, <1>6, <1>7

LEMMA BoundKept ==
  ASSUME BoundTyped, bound' = bound
  PROVE  BoundTyped' /\ Cuts' = Cuts
BY DEF BoundTyped, Cuts

\* The link, the sets and the table stay as they are.
LEMMA QuietAhead ==
  ASSUME IInv, IInv', BoundTyped, OlderAhead, Cuts' = Cuts,
         UNCHANGED <<tbl, list, known, sBusy, up, down, sets, job>>
  PROVE  OlderAhead'
<1>1. Handled' = Handled
  BY DEF Handled, Cur
<1>2. SameKinds /\ \A a : SameSet(a)
  BY DEF SameKinds, SameKind, SameSet
<1>3. Pushed' => Pushed
  BY DEF Pushed
<1>4. \A a : Saved(a) => Saved(a)'
  BY DEF Saved
<1>5. \A m : Stand(m)' = Stand(m)
  BY StandKept DEF SameKind
<1>6. Flow' = Flow
  BY <1>1 DEF Flow
<1>7. Alive' = Alive
  BY <1>5, <1>6 DEF Alive
<1>8. Orderly(Alive, Len(Flow))'
  BY <1>2, <1>3, <1>4, <1>6, <1>7, SteadyKept
<1>9. Waiting'
  BY <1>2, WaitingKept DEF OlderAhead
<1>10. job'.at = "wiped" => StillListed(job.set)'
  <2> SUFFICES ASSUME job.at = "wiped" PROVE StillListed(job.set)'
    OBVIOUS
  <2>1. PICK a : a = job.set
    OBVIOUS
  <2>2. StillListed(a)'
    BY <1>3, <2>1, ListedKept DEF OlderAhead
  <2> QED
    BY <2>1, <2>2
<1> QED
  BY <1>8, <1>9, <1>10 DEF OlderAhead
-----------------------------------------------------------------------------
(* Blocks that are in use, and steps that only take a message or go on.      *)

\* What the ring finds is known, and what is known is found.
LEMMA KnownIs ==
  ASSUME IInv, NEW a \in Addr
  PROVE  recv_file_list_get(a) <=> \E i \in 1..Len(known) : known[i] = a
<1> DEFINE k == loop_search(ring, {a})
           S == Addr \cup {Null}
<1>1. ring \in Ring(ListSize, S) /\ Items(ring) = known /\ ListSize \in Nat \ {0}
  BY FileSyncAssumption DEF IInv, RingFollows
<1>2. recv_file_list_get(a) <=> k # 0
  BY DEF recv_file_list_get
<1> HIDE DEF S, k
<1>3. \/ /\ k \in DOMAIN InUse(ring) /\ known[k] \in {a}
         /\ \A j \in DOMAIN InUse(ring) : known[j] \in {a} => k <= j
      \/ k = 0 /\ \A j \in DOMAIN InUse(ring) : known[j] \notin {a}
  <2>1. k = loop_search(ring, {a})
    BY DEF k
  <2>2. \/ /\ k \in DOMAIN InUse(ring) /\ Items(ring)[k] \in {a}
           /\ \A j \in DOMAIN InUse(ring) : Items(ring)[j] \in {a} => k <= j
        \/ k = 0 /\ \A j \in DOMAIN InUse(ring) : Items(ring)[j] \notin {a}
    BY <1>1, <2>1, SearchFinds
  <2> QED
    BY <1>1, <2>2
<1>4. DOMAIN InUse(ring) = 1..Len(known) /\ Len(known) \in Nat
  BY <1>1, InUseTyped, ItemsAre
<1> QED
  BY <1>2, <1>3, <1>4

\* A block that malloc returns is no set of a sync, and no message names it.
LEMMA FreeUnused ==
  ASSUME IInv, SetsNamed, SetsListed, NEW a \in Free
  PROVE  /\ a \in Addr /\ sets[a].kind = "free" /\ sets[a] = NoSet
         /\ \A p \in 1..Len(down) : IsPart(down[p]) => down[p].id # a
         /\ \A p \in 1..Len(up) : IsPart(up[p]) => up[p].id # a
         /\ \A i \in 1..Len(known) : known[i] # a
<1>1. a \in Addr /\ sets[a] = NoSet
  BY DEF Free
<1>2. sets[a].kind = "free"
  BY <1>1 DEF NoSet
<1> QED
  BY <1>1, <1>2 DEF SetsNamed, SetsListed

\* Only the set at a block that malloc returned changes.
LEMMA FreeTaken ==
  ASSUME IInv, SetsNamed, SetsListed, NEW a \in Free, NEW s, sets' = [sets EXCEPT ![a] = s]
  PROVE  /\ SameKinds /\ sets'[a] = s
         /\ \A b \in Addr : b # a => sets'[b] = sets[b]
         /\ \A b \in Addr : sets[b].kind = "sync" => b # a /\ SameSet(b) /\ sets'[b] = sets[b]
<1>1. /\ a \in Addr /\ sets[a].kind = "free"
      /\ \A p \in 1..Len(down) : IsPart(down[p]) => down[p].id # a
      /\ \A p \in 1..Len(up) : IsPart(up[p]) => up[p].id # a
  BY FreeUnused
<1>2. sets \in [Addr -> SetState]
  BY DEF IInv, JobHasFile
<1>3. sets'[a] = s /\ \A b \in Addr : b # a => sets'[b] = sets[b]
  BY <1>1, <1>2
<1>4. \A p \in 1..Len(down) : IsPart(down[p]) => SameKind(down[p].id)
  <2> SUFFICES ASSUME NEW p \in 1..Len(down), IsPart(down[p]) PROVE SameKind(down[p].id)
    OBVIOUS
  <2>1. down[p] \in Message
    BY LinkMessages
  <2>2. down[p].id \in Addr /\ down[p].id # a
    BY <1>1, <2>1, MessageTyped
  <2> QED
    BY <1>3, <2>2 DEF SameKind
<1>5. \A p \in 1..Len(up) : IsPart(up[p]) => SameKind(up[p].id)
  <2> SUFFICES ASSUME NEW p \in 1..Len(up), IsPart(up[p]) PROVE SameKind(up[p].id)
    OBVIOUS
  <2>1. up[p] \in Message
    BY LinkMessages
  <2>2. up[p].id \in Addr /\ up[p].id # a
    BY <1>1, <2>1, MessageTyped
  <2> QED
    BY <1>3, <2>2 DEF SameKind
<1> QED
  BY <1>1, <1>3, <1>4, <1>5 DEF SameKinds, SameSet

\* The thread goes on with the same file, and no row changes.
LEMMA StageAhead ==
  ASSUME IInv, IInv', BoundTyped, OlderAhead, NEW from \in {"truncated", "written"}, NEW to \in {"written", "synced"},
         Stage(from, to), bound' = bound, UNCHANGED <<tbl, list, known, sBusy, up, down, sets>>
  PROVE  OlderAhead'
<1>1. job.at = from /\ job'.at = to /\ job'.set = job.set
  BY DEF Stage, IInv, JobHasFile
<1>2. Handled' = Handled
  BY <1>1 DEF Handled, Cur, Request
<1>3. SameKinds /\ \A a : SameSet(a)
  BY DEF SameKinds, SameKind, SameSet
<1>4. Pushed' => Pushed
  BY DEF Pushed
<1>5. \A a : Saved(a) => Saved(a)'
  BY <1>1 DEF Saved
<1>6. \A m : Stand(m)' = Stand(m)
  BY StandKept DEF SameKind
<1>7. Flow' = Flow
  BY <1>2 DEF Flow
<1>8. Alive' = Alive
  BY <1>6, <1>7 DEF Alive
<1>9. BoundTyped' /\ Cuts' = Cuts
  BY BoundKept
<1>10. Orderly(Alive, Len(Flow))'
  BY <1>3, <1>4, <1>5, <1>7, <1>8, <1>9, SteadyKept
<1>11. Waiting'
  BY <1>3, WaitingKept DEF OlderAhead
<1> QED
  BY <1>1, <1>10, <1>11 DEF OlderAhead

\* A message is taken that changes what was received, at most.
LEMMA TakenAhead ==
  ASSUME IInv, IInv', BoundTyped, OlderAhead, job.at = "idle", job'.at = "idle",
         down # <<>>, down' = Tail(down), bound' = bound, UNCHANGED <<tbl, list, known, sBusy, up>>,
         \A a \in Addr : SameSet(a) /\ sets'[a].kind = sets[a].kind
  PROVE  OlderAhead'
<1>1. down \in Seq(Message) /\ up \in Seq(Message)
  BY LinkMessages
<1>2. \A p \in 1..Len(down)' : down'[p] = down[p + 1] /\ p + 1 \in 1..Len(down)
  BY <1>1, TailElements
<1>3. Pushed' => Pushed
  BY <1>2, PushedKept
<1>4. SameKinds
  <2>1. \A m \in Message : IsPart(m) => SameKind(m.id)
    BY MessageTyped DEF SameKind
  <2> QED
    BY <1>1, <2>1 DEF SameKinds
<1>5. \A a : Saved(a) => Saved(a)'
  BY DEF Saved
<1>6. PICK n : n = Len(Flow) - 1
  OBVIOUS
<1>7. Len(Flow)' = n /\ \A p \in 1..n : Alive'[p] = Alive[p + 1]
  BY <1>4, <1>6, FlowTaken
<1>8. Cuts' = Cuts
  BY BoundKept
<1>9. Orderly(Alive, Len(Flow))'
  BY <1>3, <1>5, <1>6, <1>7, <1>8, SteadyTail
<1>10. Waiting'
  BY <1>4, WaitingKept DEF OlderAhead
<1> QED
  BY <1>9, <1>10 DEF OlderAhead
-----------------------------------------------------------------------------
(* OlderAhead is kept: edits and updates.                                    *)

\* A thread that wipes the files goes on with it.
LEMMA WipedKept ==
  ASSUME IInv, BoundTyped, OlderAhead, known' = known, Cuts' = Cuts, Pushed' => Pushed, job' = job
  PROVE  (job.at = "wiped" => StillListed(job.set))'
<1> SUFFICES ASSUME job.at = "wiped" PROVE StillListed(job.set)'
  OBVIOUS
<1>1. PICK a : a = job.set
  OBVIOUS
<1>2. StillListed(a)'
  BY <1>1, ListedKept DEF OlderAhead
<1> QED
  BY <1>1, <1>2

LEMMA EditAhead ==
  ASSUME IInv, IInv', BoundTyped, OlderAhead, NEW f \in File, ServerEdits(f)
  PROVE  OlderAhead'
<1>1. Cuts' = Cuts
  BY Spent DEF ServerEdits
<1> QED
  BY <1>1, QuietAhead DEF ServerEdits, store

LEMMA UpdateAhead ==
  ASSUME IInv, IInv', BoundTyped, OlderAhead, NEW f \in File, ServerUpdates(f)
  PROVE  OlderAhead'
<1>1. Cuts' = Cuts
  BY Spent DEF ServerUpdates
<1>2. PICK k : k = [kind |-> "UPDATEFILE", name |-> f]
  OBVIOUS
<1>3. /\ down' = Append(down, k)
      /\ UNCHANGED <<sBusy, up, sets, tbl, list, job, known>>
  BY <1>2 DEF ServerUpdates, server, store
<1>4. SameKinds /\ \A a : SameSet(a)
  BY <1>3 DEF SameKinds, SameKind, SameSet
<1>5. \A a : Saved(a) => Saved(a)'
  BY <1>3 DEF Saved
<1>6. Pushed' => Pushed
  <2>1. down \in Seq(Message)
    BY LinkMessages
  <2>2. \A p \in 1..Len(down)' : IsListing(down'[p]) => \E q \in 1..Len(down) : down'[p] = down[q]
    BY <1>2, <1>3, <2>1, AppendElements DEF IsListing
  <2> QED
    BY <1>3, <2>2, PushedKept
<1>7. PICK n, e : n = Len(Flow) /\ e = Len(Flow)'
  OBVIOUS
<1>8. PICK c \in 1..n + 1 :
          /\ e = n + 1
          /\ \A p \in 1..c - 1 : Alive'[p] = Alive[p]
          /\ Alive'[c] = Stand(k)'
          /\ \A p \in c..n : Alive'[p + 1] = Alive[p]
  BY <1>3, <1>7, FlowGrown
<1>9. ~Stands(Alive'[c])
  <2>1. ~Stands(Stand(k)')
    BY <1>2 DEF Stands, Stand, OfSync, IsListing
  <2> QED
    BY <1>8, <2>1
<1>10. n \in Nat
  BY <1>7, LinkLengths
<1>11. PICK g : g = [p \in 1..n + 1 |-> IF p < c THEN p ELSE p - 1]
  OBVIOUS
<1>12. \A p \in 1..e : p # c => g[p] \in 1..n /\ Alive'[p] = Alive[g[p]]
  <2> SUFFICES ASSUME NEW p \in 1..e, p # c PROVE g[p] \in 1..n /\ Alive'[p] = Alive[g[p]]
    OBVIOUS
  <2>1. CASE p < c
    BY <1>8, <1>10, <1>11, <2>1
  <2>2. CASE p > c
    <3>1. g[p] = p - 1 /\ p - 1 \in c..n /\ (p - 1) + 1 = p
      BY <1>8, <1>10, <1>11, <2>2
    <3> QED
      BY <1>8, <3>1
  <2> QED
    BY <1>10, <2>1, <2>2
<1>13. \A p, q \in 1..e : p < q /\ p # c /\ q # c => g[p] < g[q]
  BY <1>8, <1>10, <1>11
<1>14. /\ \A p \in 1..Len(Flow)' : Stands(Alive'[p]) => g[p] \in 1..Len(Flow) /\ Alive'[p] = Alive[g[p]]
       /\ \A p, q \in 1..Len(Flow)' : p < q /\ Stands(Alive'[p]) /\ Stands(Alive'[q]) => g[p] < g[q]
  BY <1>7, <1>9, <1>12, <1>13
<1>15. Orderly(Alive, Len(Flow))'
  BY <1>1, <1>3, <1>4, <1>5, <1>6, <1>14, SteadyStep
<1>16. Waiting'
  BY <1>3, <1>4, WaitingKept DEF OlderAhead
<1>17. (job.at = "wiped" => StillListed(job.set))'
  BY <1>1, <1>3, <1>6, WipedKept
<1> QED
  BY <1>15, <1>16, <1>17 DEF OlderAhead

LEMMA UpdateFileAhead ==
  ASSUME IInv, IInv', BoundTyped, SetsNamed, SetsListed, OlderAhead, NEW a \in Addr, RecvUpdateFile(a)
  PROVE  OlderAhead'
<1>1. PICK s, k : /\ s = NewSet("update", <<[name |-> Head(down).name, ver |-> Absent]>>)
                  /\ k = Request(a, Head(down).name)
  OBVIOUS
<1>2. /\ job.at = "idle" /\ down # <<>> /\ down' = Tail(down) /\ a \in Free
      /\ sets' = [sets EXCEPT ![a] = s] /\ up' = Append(up, k)
      /\ UNCHANGED <<sBusy, tbl, list, job, known, bound>>
  BY <1>1 DEF RecvUpdateFile, Receive, server, store, Idle
<1>3. /\ SameKinds /\ sets'[a] = s
      /\ \A b \in Addr : sets[b].kind = "sync" => SameSet(b)
  BY <1>2, FreeTaken
<1>4. /\ k.kind = "file" /\ k.id = a /\ s.kind = "update"
  BY <1>1 DEF Request, NewSet, NoSet
<1>5. ~OfSync(k)' /\ ~Stands(Stand(k)')
  BY <1>3, <1>4 DEF OfSync, Stand, Stands, IsListing
<1>6. \A b : Saved(b) => Saved(b)'
  BY <1>2 DEF Saved
<1>7. Cuts' = Cuts
  BY <1>2, BoundKept
<1>8. down \in Seq(Message) /\ up \in Seq(Message)
  BY LinkMessages
<1>9. \A p \in 1..Len(up)' : (p \in 1..Len(up) /\ up'[p] = up[p]) \/ up'[p] = k
  BY <1>2, <1>8, AppendElements
<1>10. Pushed' => Pushed
  <2>1. \A p \in 1..Len(down)' : IsListing(down'[p]) => \E q \in 1..Len(down) : down'[p] = down[q]
    BY <1>2, <1>8, TailElements
  <2>2. \A p \in 1..Len(up)' : up'[p].kind = "fin" => \E q \in 1..Len(up) : up'[p] = up[q]
    BY <1>4, <1>9
  <2> QED
    BY <1>2, <2>1, <2>2, PushedKept
<1>11. PICK n : n = Len(Flow) - 1
  OBVIOUS
<1>12. /\ Len(Flow) \in Nat /\ Len(Flow) = n + 1 /\ Len(Flow)' = n + 1
       /\ \A p \in 1..n : Alive'[p] = Alive[p + 1]
       /\ Alive'[n + 1] = Stand(k)'
  <2>1. /\ Len(Flow) >= 1 /\ Len(Flow)' = Len(Flow)
        /\ \A p \in 1..Len(Flow) - 1 : Alive'[p] = Alive[p + 1]
        /\ Alive'[Len(Flow)] = Stand(k)'
    BY <1>2, <1>3, FlowAsked
  <2>2. Len(Flow) \in Nat
    BY LinkLengths
  <2>3. Len(Flow) = n + 1
    BY <1>11, <2>2
  <2> QED
    BY <1>11, <2>1, <2>2, <2>3
<1>13. Orderly(Alive, Len(Flow))'
  BY <1>2, <1>3, <1>5, <1>6, <1>7, <1>10, <1>11, <1>12, SteadyTail
<1>14. Waiting'
  <2>1. \A p \in 1..Len(up)' : \/ \E q \in 1..Len(up) : up'[p] = up[q]
                               \/ \A m : m = up'[p] => ~OfSync(m)'
    BY <1>5, <1>9
  <2> QED
    BY <1>2, <1>3, <2>1, WaitingKept DEF OlderAhead
<1>15. (job.at = "wiped" => StillListed(job.set))'
  BY <1>2, <1>7, <1>10, WipedKept
<1> QED
  BY <1>13, <1>14, <1>15 DEF OlderAhead
-----------------------------------------------------------------------------
(* OlderAhead is kept: the parts of a file, cuts and restarts.               *)

LEMMA PartNamed ==
  ASSUME IInv, NEW kind \in {"BEGIN", "BODY", "END"}, RecvFile(kind)
  PROVE  /\ job.at = "idle" /\ down # <<>> /\ down' = Tail(down)
         /\ Head(down) \in ToBoard /\ Head(down).kind = kind
         /\ Head(down).id \in Addr /\ Head(down).ver \in Version
         /\ sets \in [Addr -> SetState] /\ sets[Head(down).id] \in SetState
         /\ UNCHANGED <<srv, sBusy, ring, bound, known, lost, wild>>
<1>1. Receive(kind) /\ UNCHANGED <<srv, sBusy, ring, bound, known, lost, wild>>
  BY DEF RecvFile, server, ghosts
<1>2. Head(down) \in ToBoard /\ Head(down).kind = kind /\ job = Idle
  BY <1>1, Received DEF IInv
<1>3. Head(down).id \in Addr /\ Head(down).ver \in Version
  BY <1>2, BoardMessage
<1>4. sets \in [Addr -> SetState]
  BY DEF IInv, JobHasFile
<1> QED
  BY <1>1, <1>2, <1>3, <1>4 DEF Receive, Idle

\* What BEGIN and BODY change in a set.
LEMMA BeginTaken ==
  ASSUME IInv, RecvFileBegin
  PROVE  /\ job.at = "idle" /\ down # <<>> /\ down' = Tail(down) /\ Head(down).kind = "BEGIN"
         /\ Head(down).id \in Addr /\ Head(down).ver \in Version
         /\ UNCHANGED <<srv, sBusy, up, ring, bound, known, disk, dirty, tbl, list, job, lost, wild>>
         /\ \A a \in Addr : /\ SameSet(a) /\ sets'[a].kind = sets[a].kind
                            /\ a # Head(down).id => sets'[a] = sets[a]
         /\ sets'[Head(down).id].actRecvSize = 0 /\ sets'[Head(down).id].ver = Head(down).ver
<1>1. PICK m : m = Head(down)
  OBVIOUS
<1>2. /\ RecvFile("BEGIN") /\ UNCHANGED <<up, disk, dirty, tbl, list, job>>
      /\ sets' = [sets EXCEPT ![m.id] = [@ EXCEPT !.actRecvSize = 0, !.ver = m.ver]]
  BY <1>1 DEF RecvFileBegin, store
<1>3. /\ job.at = "idle" /\ down # <<>> /\ down' = Tail(down) /\ m.kind = "BEGIN"
      /\ m.id \in Addr /\ m.ver \in Version
      /\ sets \in [Addr -> SetState] /\ sets[m.id] \in SetState
      /\ UNCHANGED <<srv, sBusy, ring, bound, known, lost, wild>>
  BY <1>1, <1>2, PartNamed
<1>4. /\ sets'[m.id] = [sets[m.id] EXCEPT !.actRecvSize = 0, !.ver = m.ver]
      /\ \A a \in Addr : a # m.id => sets'[a] = sets[a]
  BY <1>2, <1>3
<1>5. /\ sets'[m.id].actRecvSize = 0 /\ sets'[m.id].ver = m.ver
      /\ SameSet(m.id) /\ sets'[m.id].kind = sets[m.id].kind
  BY <1>3, <1>4 DEF SetState, SameSet
<1>6. \A a \in Addr : SameSet(a) /\ sets'[a].kind = sets[a].kind
  BY <1>4, <1>5 DEF SameSet
<1> QED
  BY <1>1, <1>2, <1>3, <1>4, <1>5, <1>6

LEMMA BodyTaken ==
  ASSUME IInv, RecvFileBody
  PROVE  /\ job.at = "idle" /\ down # <<>> /\ down' = Tail(down) /\ Head(down).kind = "BODY"
         /\ Head(down).id \in Addr /\ Head(down).ver \in Version
         /\ UNCHANGED <<srv, sBusy, up, ring, bound, known, disk, dirty, tbl, list, job, lost, wild>>
         /\ \A a \in Addr : /\ SameSet(a) /\ sets'[a].kind = sets[a].kind /\ sets'[a].ver = sets[a].ver
                            /\ a # Head(down).id => sets'[a] = sets[a]
         /\ \A a : /\ a = Head(down).id
                   /\ sets[a].actRecvSize + 1 <= rfiSize(Cur(a)) \/ rfiSize(Cur(a)) = 0
                   => sets'[a].actRecvSize = sets[a].actRecvSize + 1
<1>1. PICK m : m = Head(down)
  OBVIOUS
<1>2. RecvFile("BODY") /\ UNCHANGED <<up, disk, dirty, tbl, list, job>>
  BY DEF RecvFileBody, store
<1>3. /\ job.at = "idle" /\ down # <<>> /\ down' = Tail(down) /\ m.kind = "BODY"
      /\ m.id \in Addr /\ m.ver \in Version
      /\ sets \in [Addr -> SetState] /\ sets[m.id] \in SetState
      /\ UNCHANGED <<srv, sBusy, ring, bound, known, lost, wild>>
  BY <1>1, <1>2, PartNamed
<1>4. PICK rec \in get_cur_file_info(sets[m.id]) :
         sets' = IF sets[m.id].actRecvSize + 1 <= rfiSize(rec) \/ rfiSize(rec) = 0
                 THEN [sets EXCEPT ![m.id] = [sets[m.id] EXCEPT !.actRecvSize = @ + 1]] ELSE sets
  BY <1>1 DEF RecvFileBody
<1>5. rec = Cur(m.id)
  BY <1>3, CurrentFile DEF Cur
<1>6. \A a \in Addr : a # m.id => sets'[a] = sets[a]
  BY <1>3, <1>4
<1>7. sets'[m.id] = [sets[m.id] EXCEPT !.actRecvSize = @ + 1] \/ sets'[m.id] = sets[m.id]
  BY <1>3, <1>4
<1>8. SameSet(m.id) /\ sets'[m.id].kind = sets[m.id].kind /\ sets'[m.id].ver = sets[m.id].ver
  BY <1>3, <1>7 DEF SetState, SameSet
<1>9. sets[m.id].actRecvSize + 1 <= rfiSize(Cur(m.id)) \/ rfiSize(Cur(m.id)) = 0
         => sets'[m.id].actRecvSize = sets[m.id].actRecvSize + 1
  BY <1>3, <1>4, <1>5 DEF SetState
<1>10. \A a \in Addr : SameSet(a) /\ sets'[a].kind = sets[a].kind /\ sets'[a].ver = sets[a].ver
  BY <1>6, <1>8 DEF SameSet
<1> QED
  BY <1>1, <1>2, <1>3, <1>6, <1>9, <1>10

\* The end of a file that fits is handled on; of one that does not it is only
\* logged.
LEMMA EndTaken ==
  ASSUME IInv, RecvFileEnd
  PROVE  /\ job.at = "idle" /\ down # <<>> /\ down' = Tail(down) /\ Head(down).kind = "END"
         /\ Head(down).id \in Addr /\ Head(down).ver \in Version
         /\ recv_file_list_get(Head(down).id)
         /\ UNCHANGED <<srv, sBusy, up, sets, ring, bound, known, tbl, list, lost, wild>>
         /\ sets[Head(down).id].curNo < Len(sets[Head(down).id].files)
         /\ \A a : a = Head(down).id =>
              IF rfiSize(Cur(a)) = sets[a].actRecvSize \/ rfiSize(Cur(a)) = 0
              THEN /\ disk' = [disk EXCEPT ![Cur(a).name] = Torn]
                   /\ dirty' = dirty \cup {Cur(a).name}
                   /\ job' = [at |-> "truncated", set |-> a]
              ELSE UNCHANGED <<disk, dirty, job>>
<1>1. PICK m : m = Head(down)
  OBVIOUS
<1>2. RecvFile("END") /\ UNCHANGED <<up, sets, tbl, list>> /\ recv_file_list_get(m.id)
  BY <1>1 DEF RecvFileEnd, RecvFile
<1>3. /\ job.at = "idle" /\ down # <<>> /\ down' = Tail(down) /\ m.kind = "END"
      /\ m.id \in Addr /\ m.ver \in Version
      /\ sets \in [Addr -> SetState] /\ sets[m.id] \in SetState
      /\ UNCHANGED <<srv, sBusy, ring, bound, known, lost, wild>>
  BY <1>1, <1>2, PartNamed
<1>4. PICK rec \in get_cur_file_info(sets[m.id]) :
             IF rfiSize(rec) = sets[m.id].actRecvSize \/ rfiSize(rec) = 0
             THEN /\ disk' = [disk EXCEPT ![rec.name] = Torn]
                  /\ dirty' = dirty \cup {rec.name}
                  /\ job' = [at |-> "truncated", set |-> m.id]
             ELSE UNCHANGED <<disk, dirty, job>>
  BY <1>1 DEF RecvFileEnd
<1>5. rec = Cur(m.id) /\ sets[m.id].curNo < Len(sets[m.id].files)
  BY <1>3, CurrentFile DEF Cur
<1> QED
  BY <1>1, <1>2, <1>3, <1>4, <1>5

LEMMA PartAhead ==
  ASSUME IInv, IInv', BoundTyped, OlderAhead, RecvFileBegin \/ RecvFileBody
  PROVE  OlderAhead'
BY BeginTaken, BodyTaken, TakenAhead

LEMMA EndAhead ==
  ASSUME IInv, IInv', BoundTyped, OlderAhead, RecvFileEnd
  PROVE  OlderAhead'
<1>1. PICK m, a : m = Head(down) /\ a = m.id
  OBVIOUS
<1>2. /\ job.at = "idle" /\ down # <<>> /\ down' = Tail(down) /\ m.kind = "END" /\ a \in Addr
      /\ UNCHANGED <<sBusy, up, sets, bound, known, tbl, list>>
      /\ job' = [at |-> "truncated", set |-> a] \/ job' = job
  BY <1>1, EndTaken
<1>3. SameKinds /\ \A b : SameSet(b) /\ sets'[b].kind = sets[b].kind
  BY <1>2 DEF SameKinds, SameKind, SameSet
<1>4. CASE job' = job
  BY <1>2, <1>3, <1>4, TakenAhead
<1>5. CASE job' = [at |-> "truncated", set |-> a]
  <2>1. job'.at = "truncated" /\ job'.set = a
    BY <1>5
  <2>2. PICK k : Handled' = <<k>> /\ k.kind = "file" /\ k.id = a
    <3>1. PICK f : f = (Cur(job.set).name)'
      OBVIOUS
    <3>2. PICK k : k = [kind |-> "file", id |-> a, name |-> f]
      OBVIOUS
    <3>3. Handled' = <<k>>
      BY <2>1, <3>1, <3>2 DEF Handled, Request
    <3> QED
      BY <3>2, <3>3
  <2>3. Stand(k)' = Stand(m)
    BY <1>1, <1>2, <2>2 DEF Stand, OfSync, IsListing
  <2>4. down \in Seq(Message)
    BY LinkMessages
  <2>5. Pushed' => Pushed
    <3>1. \A p \in 1..Len(down)' : IsListing(down'[p]) => \E q \in 1..Len(down) : down'[p] = down[q]
      BY <1>2, <2>4, TailElements
    <3> QED
      BY <1>2, <3>1, PushedKept
  <2>6. Cuts' = Cuts
    BY <1>2, BoundKept
  <2>7. \A b : Saved(b) => Saved(b)'
    BY <1>2 DEF Saved
  <2>8. Len(Flow)' = Len(Flow) /\ \A p \in 1..Len(Flow) : Alive'[p] = Alive[p]
    BY <1>1, <1>2, <1>3, <2>1, <2>2, <2>3, FlowTaken
  <2>9. Orderly(Alive, Len(Flow))'
    BY <1>2, <1>3, <2>5, <2>6, <2>7, <2>8, SteadyKept
  <2>10. Waiting'
    BY <1>2, <1>3, WaitingKept DEF OlderAhead
  <2> QED
    BY <2>1, <2>9, <2>10 DEF OlderAhead
<1> QED
  BY <1>2, <1>4, <1>5

\* Nothing is on the way.
LEMMA EmptyAhead ==
  ASSUME IInv, IInv', down' = <<>>, up' = <<>>, job'.at = "idle"
  PROVE  OlderAhead'
<1>1. Len(Flow)' = 0
  BY FlowLost
<1>2. PICK U, k : U = Alive' /\ k = Len(Flow)'
  OBVIOUS
<1>3. Orderly(U, k)'
  BY <1>1, <1>2 DEF Orderly
<1>4. Orderly(Alive, Len(Flow))'
  BY <1>2, <1>3, OrderlyNext
<1>5. Waiting'
  BY DEF Waiting
<1> QED
  BY <1>4, <1>5 DEF OlderAhead

LEMMA ListedCut ==
  ASSUME IInv, BoundTyped, NEW a, StillListed(a), known' = known, Cuts' = Cuts + 1
  PROVE  StillListed(a)'
<1>1. Cuts \in Int /\ ListSize \in Nat /\ Len(known) \in Nat
  BY CutsTyped, FileSyncAssumption DEF IInv, RingFollows
<1>2. CASE Cuts >= ListSize - 1
  BY <1>1, <1>2 DEF StillListed
<1>3. CASE Kept(known, a, IF Pushed THEN 1 ELSE 0)
  <2>1. PICK i \in 1..Len(known) : known[i] = a /\ Len(known) - i + (IF Pushed THEN 1 ELSE 0) <= Cuts
    BY <1>3 DEF Kept
  <2>2. Len(known') - i + (IF Pushed' THEN 1 ELSE 0) <= Cuts'
    BY <1>1, <2>1
  <2>3. Kept(known, a, IF Pushed THEN 1 ELSE 0)'
    BY <2>1, <2>2 DEF Kept
  <2> QED
    BY <2>3 DEF StillListed
<1> QED
  BY <1>2, <1>3 DEF StillListed

LEMMA CutAhead ==
  ASSUME IInv, IInv', BoundTyped, OlderAhead, LinkCut
  PROVE  OlderAhead'
<1>1. /\ up' = <<>> /\ down' = <<>> /\ UNCHANGED <<sets, job, known, tbl>>
      /\ Cuts' = Cuts + 1
  BY Spent DEF LinkCut, store
<1>2. PICK T, n, U, k : T = Alive /\ n = Len(Flow) /\ U = Alive' /\ k = Len(Flow)'
  OBVIOUS
<1>3. /\ n \in Nat /\ k \in Nat /\ Orderly(T, n) /\ k <= 1 /\ k <= n
      /\ \A p \in 1..k : U[p] = T[p]
  BY <1>1, <1>2, FlowLost, LinkLengths, LinkLengthsNext DEF OlderAhead
<1>4. \A x : Right(x) => Right(x)'
  <2> SUFFICES ASSUME NEW x, Right(x) PROVE Right(x)'
    OBVIOUS
  <2>1. Cuts' >= 1
    BY <1>1, CutsTyped
  <2>2. x.t = "set" => StillListed(x.id)'
    BY <1>1, ListedCut DEF Right
  <2> QED
    BY <1>1, <2>1, <2>2 DEF Right, RowsUpTo
<1>5. Orderly(U, k)'
  BY <1>3, <1>4 DEF Orderly, Stands
<1>6. Orderly(Alive, Len(Flow))'
  BY <1>2, <1>5, OrderlyNext
<1>7. Waiting'
  BY <1>1 DEF Waiting
<1>8. (job.at = "wiped" => StillListed(job.set))'
  <2> SUFFICES ASSUME job.at = "wiped" PROVE StillListed(job.set)'
    BY <1>1
  <2>1. PICK a : a = job.set
    OBVIOUS
  <2>2. StillListed(a)'
    BY <1>1, <2>1, ListedCut DEF OlderAhead
  <2> QED
    BY <1>1, <2>1, <2>2
<1> QED
  BY <1>6, <1>7, <1>8 DEF OlderAhead

LEMMA LostAhead ==
  ASSUME IInv, IInv', ServerGivesUp \/ Restart \/ WildTransfer
  PROVE  OlderAhead'
<1>1. CASE ServerGivesUp
  <2>1. down' = <<>> /\ up' = <<>> /\ job'.at = "idle"
    BY <1>1 DEF ServerGivesUp, Idle
  <2> QED
    BY <2>1, EmptyAhead
<1>2. CASE Restart \/ WildTransfer
  <2>1. down' = <<>> /\ up' = <<>> /\ job'.at = "idle"
    BY <1>2 DEF Restart, WildTransfer, Reboot, Idle
  <2> QED
    BY <2>1, EmptyAhead
<1> QED
  BY <1>1, <1>2
-----------------------------------------------------------------------------
(* OlderAhead is kept: a new sync is the youngest transfer.                  *)

\* What is on the way is being handled, or on the link.
LEMMA FlowWhere ==
  ASSUME IInv, NEW p \in 1..Len(Flow)
  PROVE  \/ job.at # "idle" /\ p = 1 /\ \A m : Handled = <<m>> => Alive[p] = Stand(m)
         \/ \E i \in 1..Len(down) : p = Len(Handled) + i /\ Alive[p] = Stand(down[i])
         \/ \E i \in 1..Len(up) : p = Len(Handled) + Len(down) + i /\ Alive[p] = Stand(up[i])
<1>1. LaidOut(Alive, Len(Flow), Handled, down, up)
  BY FlowIs
<1>2. Len(Handled) \in Nat /\ Len(down) \in Nat /\ Len(up) \in Nat
  BY LinkLengths
<1> DEFINE h == Len(Handled)
           d == Len(down)
           u == Len(up)
<1> HIDE DEF h, d, u
<1>3. p \in 1..h \/ p - h \in 1..d \/ p - h - d \in 1..u
  BY <1>1, <1>2 DEF LaidOut, h, d, u
<1>4. CASE p \in 1..h
  <2>1. job.at # "idle"
    <3>1. SUFFICES ASSUME job.at = "idle" PROVE FALSE
      OBVIOUS
    <3>2. h = 0
      BY <3>1, IdleHandled DEF h
    <3> QED
      BY <1>4, <3>2
  <2>2. h = 1
    BY <2>1, BusyHandled DEF h
  <2>3. p = 1
    BY <1>4, <2>2
  <2>4. Alive[p] = Stand(Handled[p])
    BY <1>1, <1>4 DEF LaidOut, h
  <2> QED
    BY <2>1, <2>3, <2>4
<1>5. CASE p - h \in 1..d
  <2>1. PICK i \in 1..d : i = p - h
    BY <1>5
  <2>2. p = h + i
    BY <1>2, <2>1 DEF h, d
  <2> QED
    BY <1>1, <2>1, <2>2 DEF LaidOut, h, d
<1>6. CASE p - h - d \in 1..u
  <2>1. PICK i \in 1..u : i = p - h - d
    BY <1>6
  <2>2. p = h + d + i
    BY <1>2, <2>1 DEF h, d, u
  <2> QED
    BY <1>1, <2>1, <2>2 DEF LaidOut, h, d, u
<1> QED
  BY <1>3, <1>4, <1>5, <1>6

LEMMA ListNamed ==
  ASSUME IInv, SetsListed, NEW p \in 1..Len(Flow), Alive[p].t = "list"
  PROVE  Listed(Alive[p].files)
<1>1. \A m : Stand(m).t = "list" => IsListing(m) /\ Stand(m).files = m.files
  BY DEF Stand
<1>2. CASE \E i \in 1..Len(down) : Alive[p] = Stand(down[i])
  BY <1>1, <1>2 DEF SetsListed
<1>3. CASE \E i \in 1..Len(up) : Alive[p] = Stand(up[i])
  <2>1. PICK i \in 1..Len(up) : Alive[p] = Stand(up[i])
    BY <1>3
  <2>2. up[i] \in ToServer
    BY DEF IInv, LinkTyped
  <2> QED
    BY <1>1, <2>1, <2>2, MessageTyped DEF Message, IsListing
<1>4. CASE job.at # "idle" /\ \A m : Handled = <<m>> => Alive[p] = Stand(m)
  <2>1. CASE job.at = "wiped"
    <3>1. PICK m : m = [kind |-> "COMPLETESYNC", files |-> sets[job.set].files]
      OBVIOUS
    <3>2. Alive[p] = Stand(m)
      BY <1>4, <2>1, <3>1 DEF Handled
    <3>3. sets[job.set].kind = "sync" /\ job.set \in Addr
      BY <2>1 DEF SetsListed, IInv, JobHasFile
    <3> QED
      BY <1>1, <3>1, <3>2, <3>3 DEF SetsListed
  <2>2. CASE job.at # "wiped"
    <3>1. PICK m : m = Request(job.set, Cur(job.set).name)
      OBVIOUS
    <3>2. Alive[p] = Stand(m)
      BY <1>4, <2>2, <3>1 DEF Handled
    <3> QED
      BY <1>1, <3>1, <3>2 DEF Request, IsListing
  <2> QED
    BY <2>1, <2>2
<1> QED
  BY <1>2, <1>3, <1>4, FlowWhere

LEMMA OrderLength ==
  /\ Len(Order) \in Nat \ {0} /\ DOMAIN Order = 1..Len(Order)
  /\ \A k \in 1..Len(Order) : Order[k] \in File
BY FileSyncAssumption

\* What the server lists is as new as can be.
LEMMA ListingNewest ==
  ASSUME IInv, NEW files, Listed(files)
  PROVE  NotNewer(files, Listing)
<1>1. \A k \in 1..Len(Order) : Listing[k].ver = srv[Order[k]]
  BY OrderLength DEF Listing
<1> QED
  BY <1>1 DEF NotNewer, Listed

\* Two at most are alive, and only one unless the server waits for SYNCFIN.
LEMMA OneAlive ==
  ASSUME NEW T, NEW n, Orderly(T, n), ~sBusy
  PROVE  \A p, q \in 1..n : p < q => ~(Stands(T[p]) /\ Stands(T[q]))
BY DEF Orderly, InOrder

LEMMA SyncAhead ==
  ASSUME IInv, IInv', BoundTyped, SetsListed, OlderAhead, NEW kind \in {"SYNCFILE", "COMPLETESYNC"},
         Sync(kind), Cuts' = Cuts
  PROVE  OlderAhead'
<1>1. PICK k : k = [kind |-> kind, files |-> Listing]
  OBVIOUS
<1>2. /\ down' = Append(down, k) /\ ~sBusy /\ sBusy'
      /\ UNCHANGED <<up, sets, tbl, list, job, known>>
  BY <1>1 DEF Sync, store
<1>3. SameKinds /\ \A a : SameSet(a)
  BY <1>2 DEF SameKinds, SameKind, SameSet
<1>4. \A a : Saved(a) => Saved(a)'
  BY <1>2 DEF Saved
<1>5. Pushed
  BY <1>2 DEF Pushed
<1>6. PICK T, n, U, e : T = Alive /\ n = Len(Flow) /\ U = Alive' /\ e = Len(Flow)'
  OBVIOUS
<1>7. n \in Nat /\ e \in Nat /\ Orderly(T, n)
  BY <1>6, LinkLengths, LinkLengthsNext DEF OlderAhead
<1>8. PICK c \in 1..n + 1 :
          /\ e = n + 1
          /\ \A p \in 1..c - 1 : U[p] = T[p]
          /\ U[c] = Stand(k)'
          /\ \A p \in c..n : U[p + 1] = T[p]
          /\ \A p \in c..n : \E i \in 1..Len(up) : T[p] = Stand(up[i])
  <2>1. /\ Len(Flow)' = Len(Flow) + 1
        /\ \E c \in 1..Len(Flow) + 1 :
               /\ \A p \in 1..c - 1 : Alive'[p] = Alive[p]
               /\ Alive'[c] = Stand(k)'
               /\ \A p \in c..Len(Flow) : Alive'[p + 1] = Alive[p]
               /\ \A p \in c..Len(Flow) : \E i \in 1..Len(up) : Alive[p] = Stand(up[i])
    BY <1>2, FlowGrown
  <2> QED
    BY <1>6, <2>1
<1>9. PICK y : y = U[c]
  OBVIOUS
<1>10. y.t = "list" /\ y.files = Listing
  BY <1>1, <1>8, <1>9 DEF Stand, OfSync, IsListing
<1> DEFINE g(p) == IF p < c THEN p ELSE p - 1
<1>11. \A p \in 1..e : p # c => g(p) \in 1..n /\ U[p] = T[g(p)]
  <2> SUFFICES ASSUME NEW p \in 1..e, p # c PROVE g(p) \in 1..n /\ U[p] = T[g(p)]
    OBVIOUS
  <2>1. CASE p < c
    BY <1>7, <1>8, <2>1
  <2>2. CASE p > c
    <3>1. p - 1 \in c..n /\ (p - 1) + 1 = p
      BY <1>7, <1>8, <2>2
    <3> QED
      BY <1>8, <2>2, <3>1
  <2> QED
    BY <1>7, <2>1, <2>2
<1>12. \A p, q \in 1..e : p < q /\ p # c /\ q # c => g(p) < g(q)
  BY <1>7, <1>8
<1>13. \A p \in c + 1..e : g(p) \in c..n
  BY <1>7, <1>8
<1> HIDE DEF g
<1>14. \A p, q \in 1..e : p < q /\ p # c /\ q # c => ~(Stands(U[p]) /\ Stands(U[q]))
  BY <1>2, <1>7, <1>11, <1>12, OneAlive
<1>15. \A x : x.t = "set" => SameSet(x.id) /\ (StillListed(x.id) => StillListed(x.id)')
  BY <1>2, <1>3, <1>5, ListedKept
<1>16. \A x : Right(x) => Right(x)' /\ Cuts >= 1
  <2> SUFFICES ASSUME NEW x, Right(x) PROVE Right(x)' /\ Cuts >= 1
    OBVIOUS
  <2>1. Cuts >= 1
    BY <1>2 DEF Right
  <2> QED
    BY <1>2, <1>15, <2>1, RightKept
<1>17. ASSUME NEW p \in 1..e, Stands(U[p]) PROVE Right(U[p])'
  <2>1. CASE p = c
    <3>1. \A j \in 1..Len(Order) : tbl[Order[j]] <= Listing[j].ver
      BY OrderLength DEF SetsListed, Listing
    <3>2. Right(y)'
      BY <1>2, <1>10, <3>1 DEF Right, RowsUpTo
    <3> QED
      BY <1>9, <2>1, <3>2
  <2>2. CASE p # c
    <3>1. g(p) \in 1..n /\ U[p] = T[g(p)]
      BY <1>11, <2>2
    <3>2. Right(T[g(p)])
      BY <1>7, <1>17, <3>1 DEF Orderly
    <3> QED
      BY <1>16, <3>1, <3>2
  <2> QED
    BY <2>1, <2>2
\* The listing or the set of a transfer that is alive is not newer.
<1>18. \A p \in 1..n : Stands(T[p]) => /\ T[p].t = "list" => NotNewer(T[p].files, Listing)
                                       /\ T[p].t = "set"  => NotNewer(sets[T[p].id].files, Listing)
                                       /\ Cuts >= 1
  <2> SUFFICES ASSUME NEW p \in 1..n, Stands(T[p])
               PROVE  /\ T[p].t = "list" => NotNewer(T[p].files, Listing)
                      /\ T[p].t = "set"  => NotNewer(sets[T[p].id].files, Listing)
                      /\ Cuts >= 1
    OBVIOUS
  <2>1. T[p].t = "list" => Listed(T[p].files)
    BY <1>6, ListNamed
  <2>2. T[p].t = "set" => Listed(sets[T[p].id].files)
    BY <1>6, TokenNamed DEF SetsListed
  <2>3. Cuts >= 1
    BY <1>7, <1>16 DEF Orderly
  <2> QED
    BY <2>1, <2>2, <2>3, ListingNewest
<1>19. ASSUME NEW p \in 1..c - 1, Stands(U[p]) PROVE InOrder(U[p], U[c])'
  <2>1. PICK x : x = U[p]
    OBVIOUS
  <2>2. p \in 1..n /\ U[p] = T[p]
    BY <1>7, <1>8
  <2>3. /\ x.t = "list" => NotNewer(x.files, Listing)
        /\ x.t = "set"  => NotNewer(sets[x.id].files, Listing)
        /\ Cuts >= 1
    BY <1>18, <1>19, <2>1, <2>2
  <2>4. InOrder(x, y)'
    BY <1>2, <1>10, <2>3 DEF InOrder, NotNewer
  <2> QED
    BY <1>9, <2>1, <2>4
<1>20. ASSUME NEW p \in c + 1..e, Stands(U[p]) PROVE InOrder(U[c], U[p])'
  <2>1. PICK x : x = U[p]
    OBVIOUS
  <2>2. p \in 1..e /\ p # c
    BY <1>7, <1>8
  <2>3. g(p) \in c..n /\ g(p) \in 1..n /\ x = T[g(p)]
    BY <1>11, <1>13, <2>1, <2>2
  <2>4. /\ x.t = "set"  => NotNewer(sets[x.id].files, Listing)
        /\ Cuts >= 1
    BY <1>18, <1>20, <2>1, <2>3
  <2>5. PICK i \in 1..Len(up) : x = Stand(up[i])
    BY <1>8, <2>3
  <2>6. up[i] \in ToServer
    BY DEF IInv, LinkTyped
  <2>7. up[i].kind \in {"file", "fin"}
    BY <2>6, MessageTyped DEF Message
  <2>8. x.t # "list" /\ (x.t = "set" => OfSync(up[i]) /\ x.id = up[i].id)
    BY <2>5, <2>7 DEF Stand, IsListing
  <2>9. x.t = "set" => ~Found(x.id)
    BY <1>2, <2>8 DEF OlderAhead, Waiting
  <2>10. x.t = "set" => ~Found(x.id)'
    BY <1>2, <1>3, <2>9, FoundKept
  <2>11. InOrder(y, x)'
    BY <1>2, <1>10, <2>4, <2>8, <2>10 DEF InOrder, NotNewer
  <2> QED
    BY <1>9, <2>1, <2>11
<1>21. Orderly(U, e)'
  <2>1. c \in 1..e
    BY <1>8
  <2> QED
    BY <1>7, <1>14, <1>17, <1>19, <1>20, <2>1, OneMore
<1>22. Orderly(Alive, Len(Flow))'
  BY <1>6, <1>21, OrderlyNext
<1>23. Waiting'
  BY <1>2 DEF Waiting
<1>24. (job.at = "wiped" => StillListed(job.set))'
  BY <1>2, <1>5, WipedKept
<1> QED
  BY <1>22, <1>23, <1>24 DEF OlderAhead
-----------------------------------------------------------------------------
(* OlderAhead is kept: the end of a file takes the place of its request.     *)

\* q is the answer to a request for set a, in version v.
Answer(q, a, v) ==
    /\ Len(q) = SizeOf[v] + 2
    /\ \A i \in 1..Len(q) : q[i] = [kind |-> IF i = 1 THEN "BEGIN" ELSE IF i = Len(q) THEN "END" ELSE "BODY",
                                    id |-> a, ver |-> v]

LEMMA Answered ==
  ASSUME IInv, ServerAnswers, NEW m, m = Head(up), m.kind # "fin"
  PROVE  /\ up # <<>> /\ up' = Tail(up) /\ m \in ToServer /\ m.kind = "file"
         /\ m.id \in Addr /\ m.name \in File /\ srv[m.name] \in Version /\ SizeOf[srv[m.name]] \in Nat
         /\ \E q \in Seq(ToBoard) : Answer(q, m.id, srv[m.name]) /\ down' = down \o q
         /\ UNCHANGED <<srv, sBusy, sets, ring, disk, dirty, tbl, list, job, bound, known, lost, wild>>
<1>1. up \in Seq(ToServer) /\ up # <<>> /\ up' = Tail(up) /\ down \in Seq(ToBoard)
      /\ srv \in [File -> Version]
      /\ UNCHANGED <<srv, sets, ring, disk, dirty, tbl, list, job, bound, known, lost, wild>>
  BY DEF IInv, LinkTyped, ServerAnswers, store, ghosts
<1>2. m \in ToServer
  BY <1>1, HeadTailProperties
<1>3. m.id \in Addr /\ m.name \in File /\ m.kind = "file" /\ srv[m.name] \in Version
  BY <1>1, <1>2, ServerMessage, MessageTyped DEF Message
<1>4. PICK v, size : v = srv[m.name] /\ size = SizeOf[v]
  OBVIOUS
<1>5. size \in Nat
  BY <1>3, <1>4, FileSyncAssumption
<1> DEFINE part(t) == [kind |-> t, id |-> m.id, ver |-> v]
           body == [i \in 1..size |-> part("BODY")]
<1>6. down' = ((down \o <<part("BEGIN")>>) \o body) \o <<part("END")>> /\ sBusy' = sBusy
  BY <1>4 DEF ServerAnswers
<1>7. part("BEGIN") \in ToBoard /\ part("BODY") \in ToBoard /\ part("END") \in ToBoard
  BY <1>3, <1>4 DEF ToBoard
<1>8. \A i \in 1..size : body[i] = part("BODY")
  OBVIOUS
<1>9. part("BEGIN").kind = "BEGIN"
  OBVIOUS
<1> HIDE DEF part
<1>10. body \in Seq(ToBoard) /\ Len(body) = size
  BY <1>5, <1>7
<1> HIDE DEF body
<1>11. <<part("BEGIN")>> \in Seq(ToBoard) /\ <<part("END")>> \in Seq(ToBoard)
  BY <1>7
<1> DEFINE b == <<part("BEGIN")>> \o body
           q == b \o <<part("END")>>
<1>12. b \in Seq(ToBoard) /\ Len(b) = size + 1
       /\ \A i \in 1..size + 1 : b[i] = IF i = 1 THEN part("BEGIN") ELSE part("BODY")
  <2>1. /\ b \in Seq(ToBoard) /\ Len(b) = Len(<<part("BEGIN")>>) + Len(body)
        /\ \A i \in 1..Len(<<part("BEGIN")>>) + Len(body) :
             b[i] = IF i <= Len(<<part("BEGIN")>>) THEN <<part("BEGIN")>>[i] ELSE body[i - Len(<<part("BEGIN")>>)]
    BY <1>10, <1>11, ConcatProperties
  <2>2. Len(<<part("BEGIN")>>) = 1 /\ <<part("BEGIN")>>[1] = part("BEGIN")
    OBVIOUS
  <2> HIDE DEF b
  <2>3. \A i \in 1..size + 1 : b[i] = IF i <= 1 THEN <<part("BEGIN")>>[i] ELSE body[i - 1]
    BY <1>10, <2>1, <2>2, <1>5
  <2>4. \A i \in 1..size + 1 : i = 1 \/ i - 1 \in 1..size
    BY <1>5
  <2> QED
    BY <1>5, <1>8, <1>10, <2>1, <2>2, <2>3, <2>4
<1> HIDE DEF b
<1>13. q \in Seq(ToBoard) /\ Len(q) = size + 2
       /\ \A i \in 1..size + 2 : q[i] = IF i = 1 THEN part("BEGIN")
                                       ELSE IF i = size + 2 THEN part("END") ELSE part("BODY")
  <2>1. /\ q \in Seq(ToBoard) /\ Len(q) = Len(b) + Len(<<part("END")>>)
        /\ \A i \in 1..Len(b) + Len(<<part("END")>>) :
             q[i] = IF i <= Len(b) THEN b[i] ELSE <<part("END")>>[i - Len(b)]
    BY <1>11, <1>12, ConcatProperties
  <2>2. Len(<<part("END")>>) = 1 /\ <<part("END")>>[1] = part("END")
    OBVIOUS
  <2> HIDE DEF q
  <2>3. \A i \in 1..size + 2 : q[i] = IF i <= size + 1 THEN b[i] ELSE <<part("END")>>[i - (size + 1)]
    BY <1>5, <1>12, <2>1, <2>2
  <2>4. \A i \in 1..size + 2 : i \in 1..size + 1 \/ (i = size + 2 /\ i - (size + 1) = 1)
    BY <1>5
  <2> QED
    BY <1>5, <1>12, <2>1, <2>2, <2>3, <2>4
<1>14. down' = down \o q
  <2>1. (down \o <<part("BEGIN")>>) \o body = down \o b
    BY <1>1, <1>10, <1>11, ConcatAssociative DEF b
  <2>2. (down \o b) \o <<part("END")>> = down \o q
    BY <1>1, <1>11, <1>12, ConcatAssociative, SMTT(20) DEF q
  <2> QED
    BY <1>6, <2>1, <2>2
<1> HIDE DEF q
<1>15. Answer(q, m.id, v)
  BY <1>4, <1>5, <1>13 DEF Answer, part
<1> QED
  BY <1>1, <1>2, <1>3, <1>4, <1>5, <1>6, <1>13, <1>14, <1>15

LEMMA AnswerAhead ==
  ASSUME IInv, IInv', BoundTyped, OlderAhead, ServerAnswers, Head(up).kind # "fin"
  PROVE  OlderAhead'
<1>1. PICK m, v : m = Head(up) /\ v = srv[m.name]
  OBVIOUS
<1>2. /\ up # <<>> /\ up' = Tail(up) /\ m \in ToServer /\ m.kind = "file"
      /\ m.id \in Addr /\ SizeOf[v] \in Nat
      /\ \E q \in Seq(ToBoard) : Answer(q, m.id, v) /\ down' = down \o q
      /\ UNCHANGED <<sBusy, sets, tbl, list, job, bound, known>>
  BY <1>1, Answered
<1>3. PICK q \in Seq(ToBoard) : Answer(q, m.id, v) /\ down' = down \o q
  BY <1>2
<1>4. PICK n : n = SizeOf[v] + 2
  OBVIOUS
<1>5. /\ n \in Nat /\ n > 1 /\ Len(q) = n /\ q \in Seq(Message)
      /\ \A i \in 1..n - 1 : q[i].kind \in {"BEGIN", "BODY"}
      /\ q[n].kind = "END" /\ q[n].id = m.id
  <2>1. n \in Nat /\ n > 1 /\ Len(q) = n
    BY <1>2, <1>3, <1>4 DEF Answer
  <2>2. q \in Seq(Message)
    BY DEF Message
  <2>3. \A i \in 1..n : q[i] = [kind |-> IF i = 1 THEN "BEGIN" ELSE IF i = n THEN "END" ELSE "BODY",
                                id |-> m.id, ver |-> v]
    BY <1>3, <2>1 DEF Answer
  <2>4. \A i \in 1..n - 1 : q[i].kind \in {"BEGIN", "BODY"}
    BY <2>1, <2>3
  <2>5. q[n].kind = "END" /\ q[n].id = m.id
    BY <2>1, <2>3
  <2> QED
    BY <2>1, <2>2, <2>4, <2>5
<1>6. SameKinds /\ \A a : SameSet(a)
  BY <1>2 DEF SameKinds, SameKind, SameSet
<1>7. \A a : Saved(a) => Saved(a)'
  BY <1>2 DEF Saved
<1>8. Cuts' = Cuts
  BY <1>2, BoundKept
<1>9. down \in Seq(Message) /\ up \in Seq(Message)
  BY LinkMessages
<1>10. \A p \in 1..Len(up)' : up'[p] = up[p + 1] /\ p + 1 \in 1..Len(up)
  BY <1>2, <1>9, TailElements
<1>11. Pushed' => Pushed
  <2>1. /\ Len(down \o q) = Len(down) + n
        /\ \A p \in 1..Len(down) + n : (down \o q)[p] = IF p <= Len(down) THEN down[p] ELSE q[p - Len(down)]
    BY <1>5, <1>9, ConcatProperties
  <2>2. \A p \in 1..Len(down)' : IsListing(down'[p]) => \E j \in 1..Len(down) : down'[p] = down[j]
    <3> SUFFICES ASSUME NEW p \in 1..Len(down)', IsListing(down'[p]) PROVE \E j \in 1..Len(down) : down'[p] = down[j]
      OBVIOUS
    <3>1. Len(down) \in Nat
      BY <1>9
    <3>2. CASE p <= Len(down)
      BY <1>3, <2>1, <3>1, <3>2
    <3>3. CASE p > Len(down)
      <4>1. PICK i : i = p - Len(down)
        OBVIOUS
      <4>2. i \in 1..n /\ down'[p] = q[i]
        BY <1>3, <1>5, <2>1, <3>1, <3>3, <4>1
      <4>3. q[i].kind \in {"BEGIN", "BODY", "END"}
        BY <1>5, <4>2
      <4> QED
        BY <4>2, <4>3 DEF IsListing
    <3> QED
      BY <1>3, <1>5, <2>1, <3>1, <3>2, <3>3
  <2> QED
    BY <1>2, <1>10, <2>2, PushedKept
<1>12. n > 0 => \A k, z : k = q[n] /\ z = Head(up) => Stand(k) = Stand(z)
  BY <1>1, <1>2, <1>5 DEF Stand, OfSync, IsListing
<1>13. PICK e, f : e = Len(Flow) /\ f = Len(Flow)'
  OBVIOUS
<1>14. PICK c \in 1..e :
            /\ f = e + n - 1
            /\ \A p \in 1..c - 1 : Alive'[p] = Alive[p]
            /\ \A p \in c..c + n - 2 : ~Stands(Alive'[p])
            /\ Alive'[c + n - 1] = Alive[c]
            /\ \A p \in c + 1..e : Alive'[p + n - 1] = Alive[p]
  <2>1. \E c \in 1..Len(Flow) :
            /\ Len(Flow)' = Len(Flow) + n - 1
            /\ \A p \in 1..c - 1 : Alive'[p] = Alive[p]
            /\ \A p \in c..c + n - 2 : ~Stands(Alive'[p])
            /\ n > 0 => Alive'[c + n - 1] = Alive[c]
            /\ \A p \in c + 1..Len(Flow) : Alive'[p + n - 1] = Alive[p]
            /\ \A z : z = Head(up) => Alive[c] = Stand(z)
            /\ \A i \in 1..Len(up)' : c + n - 1 + i \in 1..Len(Flow)' /\ Alive'[c + n - 1 + i] = Stand(up[i])'
    BY <1>2, <1>3, <1>5, <1>12, FlowAnswered
  <2>2. n > 0
    BY <1>5
  <2> QED
    BY <1>13, <2>1, <2>2
<1>15. e \in Nat
  BY <1>13, LinkLengths
<1>16. PICK g : g = [p \in 1..f |-> IF p < c THEN p ELSE IF p <= c + n - 1 THEN c ELSE p - (n - 1)]
  OBVIOUS
<1>17. \A p \in 1..f : Stands(Alive'[p]) => p < c \/ p >= c + n - 1
  BY <1>5, <1>14, <1>15, SMTT(20)
<1>18. \A p \in 1..f : p < c \/ p >= c + n - 1 => g[p] \in 1..e /\ Alive'[p] = Alive[g[p]]
  <2> SUFFICES ASSUME NEW p \in 1..f, p < c \/ p >= c + n - 1 PROVE g[p] \in 1..e /\ Alive'[p] = Alive[g[p]]
    OBVIOUS
  <2>1. CASE p < c
    BY <1>14, <1>15, <1>16, <2>1
  <2>2. CASE p = c + n - 1
    BY <1>5, <1>14, <1>15, <1>16, <2>2
  <2>3. CASE p > c + n - 1
    <3>1. PICK j : j = p - (n - 1)
      OBVIOUS
    <3>2. g[p] = j /\ j \in c + 1..e /\ j + n - 1 = p
      BY <1>5, <1>14, <1>15, <1>16, <2>3, <3>1
    <3> QED
      BY <1>14, <1>15, <3>2
  <2> QED
    BY <1>5, <1>14, <1>15, <2>1, <2>2, <2>3
<1>19. \A p, r \in 1..f : p < r /\ (p < c \/ p >= c + n - 1) /\ (r < c \/ r >= c + n - 1) => g[p] < g[r]
  BY <1>5, <1>14, <1>15, <1>16
<1>20. /\ \A p \in 1..Len(Flow)' : Stands(Alive'[p]) => g[p] \in 1..Len(Flow) /\ Alive'[p] = Alive[g[p]]
       /\ \A p, r \in 1..Len(Flow)' : p < r /\ Stands(Alive'[p]) /\ Stands(Alive'[r]) => g[p] < g[r]
  BY <1>13, <1>17, <1>18, <1>19
<1>21. Orderly(Alive, Len(Flow))'
  BY <1>2, <1>6, <1>7, <1>8, <1>11, <1>20, SteadyStep
<1>22. Waiting'
  BY <1>2, <1>6, <1>10, WaitingKept DEF OlderAhead
<1>23. (job.at = "wiped" => StillListed(job.set))'
  BY <1>2, <1>8, <1>11, WipedKept
<1> QED
  BY <1>21, <1>22, <1>23 DEF OlderAhead

LEMMA FinAhead ==
  ASSUME IInv, IInv', BoundTyped, OlderAhead, ServerAnswers, Head(up).kind = "fin"
  PROVE  OlderAhead'
<1>1. PICK m : m = Head(up)
  OBVIOUS
<1>2. /\ up # <<>> /\ up' = Tail(up) /\ down' = down /\ sBusy' = FALSE /\ m.kind = "fin"
      /\ UNCHANGED <<sets, tbl, list, job, bound, known>>
  BY <1>1 DEF ServerAnswers, store
<1>3. SameKinds /\ \A a : SameSet(a)
  BY <1>2 DEF SameKinds, SameKind, SameSet
<1>4. Cuts' = Cuts
  BY <1>2, BoundKept
<1>5. down \in Seq(Message) /\ up \in Seq(Message)
  BY LinkMessages
<1>6. /\ \A p \in 1..Len(up)' : up'[p] = up[p + 1] /\ p + 1 \in 1..Len(up)
      /\ up[1] = m /\ 1 \in 1..Len(up)
  BY <1>1, <1>2, <1>5, TailElements
<1>7. Pushed
  BY <1>2, <1>6 DEF Pushed
<1>8. PICK T, e, U, f : T = Alive /\ e = Len(Flow) /\ U = Alive' /\ f = Len(Flow)'
  OBVIOUS
<1>9. e \in Nat /\ f \in Nat /\ Orderly(T, e)
  BY <1>8, LinkLengths, LinkLengthsNext DEF OlderAhead
<1>10. PICK c \in 1..e :
            /\ f = e - 1
            /\ \A p \in 1..c - 1 : U[p] = T[p]
            /\ \A p \in c + 1..e : U[p - 1] = T[p]
            /\ T[c] = Stand(m)
            /\ \A i \in 1..Len(up)' : c - 1 + i \in 1..f /\ U[c - 1 + i] = Stand(up[i])'
  <2>1. down \o <<>> = down
    BY <1>5, ConcatEmptySeq
  <2>2. PICK n, q : n = 0 /\ q = <<>>
    OBVIOUS
  <2>3. n \in Nat /\ q \in Seq(Message) /\ Len(q) = n /\ down' = down \o q /\ ~(n > 0)
    BY <1>2, <2>1, <2>2
  <2>4. \A i \in 1..n - 1 : q[i].kind \in {"BEGIN", "BODY"}
    BY <2>2
  <2>5. \E c \in 1..Len(Flow) :
            /\ Len(Flow)' = Len(Flow) + n - 1
            /\ \A p \in 1..c - 1 : Alive'[p] = Alive[p]
            /\ \A p \in c..c + n - 2 : ~Stands(Alive'[p])
            /\ n > 0 => Alive'[c + n - 1] = Alive[c]
            /\ \A p \in c + 1..Len(Flow) : Alive'[p + n - 1] = Alive[p]
            /\ \A z : z = Head(up) => Alive[c] = Stand(z)
            /\ \A i \in 1..Len(up)' : c + n - 1 + i \in 1..Len(Flow)' /\ Alive'[c + n - 1 + i] = Stand(up[i])'
    BY <1>2, <2>3, <2>4, FlowAnswered
  <2>6. PICK c \in 1..e :
            /\ f = e + n - 1
            /\ \A p \in 1..c - 1 : U[p] = T[p]
            /\ \A p \in c + 1..e : U[p + n - 1] = T[p]
            /\ \A z : z = Head(up) => T[c] = Stand(z)
            /\ \A i \in 1..Len(up)' : c + n - 1 + i \in 1..f /\ U[c + n - 1 + i] = Stand(up[i])'
    BY <1>8, <2>5
  <2>7. f = e - 1
    BY <1>9, <2>2, <2>6
  <2>8. \A p \in c + 1..e : p + n - 1 = p - 1
    BY <1>9, <2>2
  <2>9. \A i \in 1..Len(up)' : c + n - 1 + i = c - 1 + i
    BY <1>9, <2>2
  <2> QED
    BY <1>1, <2>6, <2>7, <2>8, <2>9
<1>11. Stands(T[c]) /\ T[c].t = "fin"
  BY <1>2, <1>10 DEF Stands, Stand, OfSync, IsListing
<1> DEFINE g(p) == IF p < c THEN p ELSE p + 1
<1>12. \A p \in 1..f : g(p) \in 1..e /\ g(p) # c /\ U[p] = T[g(p)] /\ (g(p) < c <=> p < c)
  <2> SUFFICES ASSUME NEW p \in 1..f PROVE g(p) \in 1..e /\ g(p) # c /\ U[p] = T[g(p)] /\ (g(p) < c <=> p < c)
    OBVIOUS
  <2>1. CASE p < c
    BY <1>9, <1>10, <2>1
  <2>2. CASE p >= c
    <3>1. p + 1 \in c + 1..e /\ (p + 1) - 1 = p
      BY <1>9, <1>10, <2>2
    <3> QED
      BY <1>9, <1>10, <2>2, <3>1
  <2> QED
    BY <1>9, <2>1, <2>2
<1>13. \A p, q \in 1..f : p < q => g(p) < g(q)
  BY <1>9, <1>10
<1> HIDE DEF g
<1>14. \A p \in 1..f : Stands(U[p]) => Cuts >= 1 /\ (p >= c => InOrder(T[c], U[p]))
  <2> SUFFICES ASSUME NEW p \in 1..f, Stands(U[p]) PROVE Cuts >= 1 /\ (p >= c => InOrder(T[c], U[p]))
    OBVIOUS
  <2>1. g(p) \in 1..e /\ g(p) # c /\ U[p] = T[g(p)]
    BY <1>12
  <2>2. CASE g(p) < c
    <3>1. InOrder(T[g(p)], T[c]) /\ p < c
      BY <1>9, <1>11, <1>12, <2>1, <2>2 DEF Orderly
    <3> QED
      BY <1>9, <3>1 DEF InOrder
  <2>3. CASE g(p) > c
    <3>1. InOrder(T[c], T[g(p)])
      BY <1>9, <1>11, <2>1, <2>3 DEF Orderly
    <3> QED
      BY <2>1, <3>1 DEF InOrder
  <2> QED
    BY <1>9, <2>1, <2>2, <2>3
<1>15. \A x : x.t = "set" => SameSet(x.id) /\ (StillListed(x.id) => StillListed(x.id)')
  BY <1>2, <1>3, <1>4, <1>7, ListedKept
<1>16. ASSUME NEW p \in 1..f, Stands(U[p]) PROVE Right(U[p])'
  <2>1. g(p) \in 1..e /\ U[p] = T[g(p)]
    BY <1>12
  <2>2. Right(T[g(p)]) /\ Cuts >= 1
    BY <1>9, <1>14, <1>16, <2>1 DEF Orderly
  <2>3. \A x : Right(x) => Right(x)'
    BY <1>2, <1>4, <1>15, <2>2, RightKept
  <2> QED
    BY <2>1, <2>2, <2>3
<1>17. \A p, q \in 1..f : p < q => ~(Stands(U[p]) /\ Stands(U[q]))
  <2> SUFFICES ASSUME NEW p \in 1..f, NEW q \in 1..f, p < q, Stands(U[p]), Stands(U[q]) PROVE FALSE
    OBVIOUS
  <2>1. /\ g(p) \in 1..e /\ g(q) \in 1..e /\ g(p) < g(q) /\ g(p) # c /\ g(q) # c
        /\ Stands(T[g(p)]) /\ Stands(T[g(q)])
    BY <1>12, <1>13
  <2>2. (g(p) < g(q) /\ g(q) < c) \/ (g(p) < c /\ c < g(q)) \/ (c < g(p) /\ g(p) < g(q))
    BY <1>9, <2>1
  <2> QED
    BY <1>9, <1>11, <2>1, <2>2 DEF Orderly
<1>18. Orderly(U, f)'
  BY <1>16, <1>17 DEF Orderly, Stands
<1>19. Orderly(Alive, Len(Flow))'
  BY <1>8, <1>18, OrderlyNext
<1>20. Waiting'
  <2> SUFFICES ASSUME NEW i \in 1..Len(up)', NEW z, z = up'[i], OfSync(z)' PROVE ~Found(z.id)'
    BY DEF Waiting
  <2>1. PICK p : p = c - 1 + i
    OBVIOUS
  <2>2. p \in 1..f /\ p >= c /\ U[p] = Stand(z)'
    BY <1>9, <1>10, <2>1
  <2>3. U[p].t = "set" /\ U[p].id = z.id
    BY <2>2 DEF Stand
  <2>4. InOrder(T[c], U[p])
    BY <1>14, <2>2, <2>3 DEF Stands
  <2>5. ~Found(z.id)
    BY <1>11, <2>3, <2>4 DEF InOrder
  <2> QED
    BY <1>2, <1>3, <2>5, FoundKept
<1>21. (job.at = "wiped" => StillListed(job.set))'
  BY <1>2, <1>4, <1>7, WipedKept
<1> QED
  BY <1>19, <1>20, <1>21 DEF OlderAhead
-----------------------------------------------------------------------------
(* What the thread is busy with is ahead of everything else.                 *)

LEMMA OrderOnce == \A i, j \in 1..Len(Order) : Order[i] = Order[j] => i = j
BY OrderLength, FileSyncAssumption

\* The current file of a sync.
LEMMA CurListed ==
  ASSUME IInv, SetsListed, NEW b \in Addr, sets[b].kind = "sync", sets[b].curNo < Len(Order)
  PROVE  /\ Listed(sets[b].files) /\ sets[b].curNo \in Nat /\ sets[b].curNo + 1 \in 1..Len(Order)
         /\ Len(sets[b].files) = Len(Order)
         /\ Cur(b).name = Order[sets[b].curNo + 1] /\ Cur(b).name \in File
         /\ Cur(b).ver = sets[b].files[sets[b].curNo + 1].ver
         /\ Cur(b).ver \in Version /\ Cur(b).ver <= srv[Cur(b).name]
<1>1. PICK n : n = sets[b].curNo
  OBVIOUS
<1>2. Listed(sets[b].files)
  BY DEF SetsListed
<1>3. n \in Nat
  BY <1>1 DEF IInv, JobHasFile, SetState
<1>4. n + 1 \in 1..Len(Order)
  BY <1>1, <1>3, OrderLength
<1>5. Cur(b) = sets[b].files[n + 1]
  BY <1>1 DEF Cur
<1> QED
  BY <1>1, <1>2, <1>3, <1>4, <1>5, OrderLength DEF Listed

\* What the thread is busy with is ahead of everything.
LEMMA Front ==
  ASSUME IInv, SetsListed, job.at # "idle"
  PROVE  /\ Len(Handled) = 1 /\ 1 \in 1..Len(Flow) /\ Stands(Alive[1])
         /\ job.at # "wiped" => Alive[1].t = "set" /\ Alive[1].id = job.set
         /\ job.at = "wiped" => Alive[1].t = "list" /\ Alive[1].files = sets[job.set].files
         /\ job.set \in Addr /\ sets[job.set].kind = "sync"
<1>1. LaidOut(Alive, Len(Flow), Handled, down, up)
  BY FlowIs
<1>2. Len(Handled) = 1
  BY BusyHandled
<1>3. Alive[1] = Stand(Handled[1]) /\ 1 \in 1..Len(Flow)
  BY <1>1, <1>2, LinkLengths DEF LaidOut
<1>4. job.set \in Addr /\ sets[job.set].kind = "sync"
  BY DEF SetsListed, IInv, JobHasFile
<1>5. CASE job.at = "wiped"
  <2>1. PICK m : m = [kind |-> "COMPLETESYNC", files |-> sets[job.set].files]
    OBVIOUS
  <2>2. Handled = <<m>>
    BY <1>5, <2>1 DEF Handled
  <2>3. Stand(m).t = "list" /\ Stand(m).files = sets[job.set].files
    BY <2>1 DEF Stand, OfSync, IsListing
  <2> QED
    BY <1>2, <1>3, <1>4, <1>5, <2>2, <2>3 DEF Stands
<1>6. CASE job.at # "wiped"
  <2>1. PICK m : m = Request(job.set, Cur(job.set).name)
    OBVIOUS
  <2>2. Handled = <<m>>
    BY <1>6, <2>1 DEF Handled
  <2>3. Stand(m).t = "set" /\ Stand(m).id = job.set
    BY <1>4, <2>1 DEF Stand, OfSync, Request
  <2> QED
    BY <1>2, <1>3, <1>4, <1>6, <2>2, <2>3 DEF Stands
<1> QED
  BY <1>5, <1>6

\* The message at the head of down is the first one on the way.
LEMMA FrontTaken ==
  ASSUME IInv, job.at = "idle", down # <<>>, NEW m, m = Head(down)
  PROVE  1 \in 1..Len(Flow) /\ Alive[1] = Stand(m) /\ m = down[1] /\ 1 \in 1..Len(down) /\ m \in Message
<1>1. LaidOut(Alive, Len(Flow), Handled, down, up) /\ Len(Handled) = 0
  BY FlowIs, IdleHandled
<1>2. down \in Seq(Message)
  BY LinkMessages
<1>3. m = down[1] /\ 1 \in 1..Len(down)
  BY <1>2, TailElements
<1>4. down[1] \in Message
  BY <1>2, <1>3
<1> QED
  BY <1>1, <1>3, <1>4, LinkLengths DEF LaidOut

\* The place of a message.
LEMMA DownPlace ==
  ASSUME IInv, NEW i \in 1..Len(down)
  PROVE  \E p \in 1..Len(Flow) : p = Len(Handled) + i /\ Alive[p] = Stand(down[i])
BY FlowIs, LinkLengths DEF LaidOut

LEMMA UpPlace ==
  ASSUME IInv, NEW i \in 1..Len(up)
  PROVE  \E p \in 1..Len(Flow) : p = Len(Handled) + Len(down) + i /\ Alive[p] = Stand(up[i])
BY FlowIs, LinkLengths DEF LaidOut

\* No message on the link names the set that the thread is busy with.
LEMMA OnlyHandled ==
  ASSUME IInv, SetsListed, SetsNamed, OlderAhead, PartsTogether, job.at # "idle"
  PROVE  /\ \A p \in 1..Len(down) : IsPart(down[p]) => down[p].id # job.set
         /\ \A p \in 1..Len(up) : IsPart(up[p]) => up[p].id # job.set
<1>1. CASE job.at = "wiped"
  BY <1>1 DEF SetsNamed
<1>2. CASE job.at # "wiped"
  <2>1. PICK a : a = job.set
    OBVIOUS
  <2>2. /\ Len(Handled) = 1 /\ 1 \in 1..Len(Flow) /\ Stands(Alive[1])
        /\ Alive[1].t = "set" /\ Alive[1].id = a /\ sets[a].kind = "sync"
    BY <1>2, <2>1, Front
  <2>3. \A p \in 1..Len(Flow) : p > 1 /\ Alive[p].t = "set" => Alive[p].id # a
    <3> SUFFICES ASSUME NEW p \in 1..Len(Flow), p > 1, Alive[p].t = "set" PROVE Alive[p].id # a
      OBVIOUS
    <3>1. InOrder(Alive[1], Alive[p])
      BY <2>2, LinkLengths DEF OlderAhead, Orderly, Stands
    <3> QED
      BY <2>2, <3>1 DEF InOrder
  <2>4. \A m : m.kind \in {"END", "file"} /\ m.id = a => Stand(m).t = "set" /\ Stand(m).id = a
    BY <2>2 DEF Stand, OfSync
  <2>5. ASSUME NEW i \in 1..Len(down), down[i].kind = "END" PROVE down[i].id # a
    <3>1. PICK p \in 1..Len(Flow) : p = Len(Handled) + i /\ Alive[p] = Stand(down[i])
      BY DownPlace
    <3>2. p > 1
      BY <2>2, <3>1, LinkLengths
    <3> QED
      BY <2>3, <2>4, <2>5, <3>1, <3>2
  <2>6. ASSUME NEW i \in 1..Len(up), up[i].kind = "file" PROVE up[i].id # a
    <3>1. PICK p \in 1..Len(Flow) : p = Len(Handled) + Len(down) + i /\ Alive[p] = Stand(up[i])
      BY UpPlace
    <3>2. p > 1
      BY <2>2, <3>1, LinkLengths
    <3> QED
      BY <2>3, <2>4, <2>6, <3>1, <3>2
  <2>7. ASSUME NEW p \in 1..Len(down), IsPart(down[p]) PROVE down[p].id # a
    <3>1. down[p] \in ToBoard
      BY DEF IInv, LinkTyped
    <3>2. down[p].kind \in {"BEGIN", "BODY", "END"}
      BY <2>7, <3>1, MessageTyped DEF IsPart, Message
    <3>3. CASE down[p].kind = "END"
      BY <2>5, <3>3
    <3>4. CASE down[p].kind \in {"BEGIN", "BODY"}
      <4>1. PICK e \in 1..Len(down) : down[e].kind = "END" /\ down[e].id = down[p].id
        BY <3>4 DEF PartsTogether, Together
      <4> QED
        BY <2>5, <4>1
    <3> QED
      BY <3>2, <3>3, <3>4
  <2>8. ASSUME NEW p \in 1..Len(up), IsPart(up[p]) PROVE up[p].id # a
    <3>1. up[p] \in ToServer
      BY DEF IInv, LinkTyped
    <3>2. up[p].kind = "file"
      BY <2>8, <3>1, MessageTyped DEF IsPart, Message
    <3> QED
      BY <2>6, <3>2
  <2> QED
    BY <2>1, <2>7, <2>8
<1> QED
  BY <1>1, <1>2

\* A transfer that knows more steps over no file that b waits for.
LEMMA StepsOver ==
  ASSUME IInv, SetsListed, NEW b \in Addr, sets[b].kind = "sync", sets[b].curNo < Len(Order),
         RowsUpTo(sets[b].curNo, sets[b].files), ~Found(b),
         NEW s \in SetState, Listed(s.files), NotNewer(sets[b].files, s.files),
         s.curNo <= sets[b].curNo, NEW i, i = NextMissing(s)
  PROVE  i <= sets[b].curNo
<1>1. PICK j : j = sets[b].curNo
  OBVIOUS
<1>2. /\ j \in Nat /\ j + 1 \in 1..Len(Order) /\ Len(s.files) = Len(Order)
      /\ Cur(b).name = Order[j + 1] /\ Cur(b).ver = sets[b].files[j + 1].ver
      /\ Cur(b).ver \in Version /\ Cur(b).name \in File
  BY <1>1, CurListed DEF Listed
<1>3. s.curNo \in Nat /\ s.curNo <= Len(s.files)
  BY <1>1, <1>2, OrderLength DEF SetState
<1>4. /\ i \in Nat
      /\ \A k \in s.curNo..i - 1 : find_file_from_local_db(s.files[k + 1])
  BY <1>3, NextMissingIs
<1> SUFFICES ASSUME i > j PROVE FALSE
  BY <1>1, <1>2, <1>4
<1>5. j \in s.curNo..i - 1
  BY <1>1, <1>2, <1>3, <1>4
<1>6. s.files[j + 1].name = Order[j + 1] /\ s.files[j + 1].ver \in Version
  BY <1>2 DEF Listed
<1>7. HasRecord(Order[j + 1]) /\ tbl[Order[j + 1]] = s.files[j + 1].ver
  BY <1>4, <1>5, <1>6, FoundIs
<1>8. tbl[Order[j + 1]] <= Cur(b).ver
  BY <1>1, <1>2 DEF RowsUpTo
<1>9. Cur(b).ver <= s.files[j + 1].ver
  BY <1>2 DEF NotNewer
<1>10. tbl[Order[j + 1]] = Cur(b).ver
  <2>1. Cur(b).ver \in Nat /\ s.files[j + 1].ver \in Nat
    BY <1>2, <1>6, FileSyncAssumption
  <2> QED
    BY <1>7, <1>8, <1>9, <2>1
<1>11. Found(b)
  <2>1. PICK want : want = Cur(b)
    OBVIOUS
  <2>2. HasRecord(want.name) /\ tbl[want.name] = want.ver
    BY <1>2, <1>7, <1>10, <2>1
  <2> QED
    BY <2>1, <2>2, FoundIs DEF Found
<1> QED
  BY <1>11
-----------------------------------------------------------------------------
(* OlderAhead is kept: the row of a file is saved.                           *)

\* The row of the current file is saved.
LEMMA SaveTaken ==
  ASSUME IInv, SetsListed, sets[job.set].curNo < Len(Order), SaveLocalFile
  PROVE  /\ job.at = "synced" /\ job'.at = "saved" /\ job'.set = job.set
         /\ UNCHANGED <<srv, sBusy, up, down, sets, ring, disk, dirty, bound, known, lost, wild>>
         /\ \A f : f = Cur(job.set).name =>
               /\ tbl'[f] = Cur(job.set).ver
               /\ \A g \in File : g # f => tbl'[g] = tbl[g]
               /\ \A g : g # f /\ HasRecord(g)' => HasRecord(g)
<1>1. /\ job.at = "synced" /\ job' = [job EXCEPT !.at = "saved"] /\ SaveRow(CurFile.name, CurFile.ver)
      /\ UNCHANGED <<srv, sBusy, up, down, sets, ring, disk, dirty, bound, known, lost, wild>>
  BY DEF SaveLocalFile, Stage, server, ghosts
<1>2. /\ job'.at = "saved" /\ job'.set = job.set
      /\ job.set \in Addr /\ sets[job.set] \in SetState
      /\ sets[job.set].curNo < Len(sets[job.set].files)
  BY <1>1 DEF IInv, JobHasFile
<1>3. CurFile = Cur(job.set)
  <2>1. get_cur_file_info(sets[job.set]) = {Cur(job.set)}
    BY <1>2 DEF get_cur_file_info, Cur
  <2> QED
    BY <2>1 DEF CurFile
<1>4. CurFile.name \in File /\ CurFile.ver \in Version \cup {Absent}
  BY <1>1, BusyFile
<1>5. /\ tbl'[CurFile.name] = CurFile.ver
      /\ \A g \in File : g # CurFile.name => tbl'[g] = tbl[g]
      /\ \A g : g # CurFile.name /\ HasRecord(g)' => HasRecord(g)
  BY <1>1, <1>4, OthersSaved
<1> QED
  BY <1>1, <1>2, <1>3, <1>5

LEMMA SaveAhead ==
  ASSUME IInv, IInv', BoundTyped, SetsListed, OlderAhead, SaveLocalFile
  PROVE  OlderAhead'
<1>1. PICK a, f : a = job.set /\ f = Cur(a).name
  OBVIOUS
<1>2. PICK T, n : T = Alive /\ n = Len(Flow)
  OBVIOUS
<1>3. job.at = "synced"
  BY DEF SaveLocalFile, Stage
<1>4. /\ a \in Addr /\ sets[a].kind = "sync" /\ n \in Nat /\ 1 \in 1..n /\ Orderly(T, n)
      /\ T[1].t = "set" /\ T[1].id = a /\ Stands(T[1]) /\ Len(Handled) = 1
  BY <1>1, <1>2, <1>3, Front, LinkLengths DEF OlderAhead
<1>5. Right(T[1])
  BY <1>4 DEF Orderly
<1>6. sets[a].curNo < Len(Order)
  BY <1>4, <1>5 DEF Right
<1>7. PICK i : i = sets[a].curNo
  OBVIOUS
<1>8. /\ Listed(sets[a].files) /\ i \in Nat /\ i + 1 \in 1..Len(Order)
      /\ f = Order[i + 1] /\ f \in File /\ Cur(a).ver = sets[a].files[i + 1].ver
      /\ Cur(a).ver \in Version
  BY <1>1, <1>4, <1>6, <1>7, CurListed
<1>9. /\ job'.at = "saved" /\ job'.set = a
      /\ UNCHANGED <<sBusy, up, down, sets, bound, known>>
      /\ tbl'[f] = Cur(a).ver
      /\ \A g \in File : g # f => tbl'[g] = tbl[g]
      /\ \A g : g # f /\ HasRecord(g)' => HasRecord(g)
  BY <1>1, <1>6, SaveTaken
<1>10. \A b : SameSet(b)
  BY <1>9 DEF SameSet
<1>11. Cuts' = Cuts
  BY <1>9, BoundKept
<1>12. Pushed' => Pushed
  BY <1>9 DEF Pushed
<1>13. Alive' = T /\ Len(Flow)' = n
  <2>1. Handled' = Handled
    BY <1>1, <1>3, <1>9 DEF Handled, Cur, Request
  <2>2. Flow' = Flow
    BY <1>9, <2>1 DEF Flow
  <2>3. \A m : Stand(m)' = Stand(m)
    BY <1>9, StandKept DEF SameKind
  <2>4. Alive' = Alive
    BY <2>2, <2>3 DEF Alive
  <2> QED
    BY <1>2, <2>2, <2>4
\* Only the row of one file changes.
<1>14. \A k \in 1..Len(Order) : k # i + 1 => tbl'[Order[k]] = tbl[Order[k]]
  BY <1>8, <1>9, OrderOnce, OrderLength
<1>15. tbl'[Order[i + 1]] = sets[a].files[i + 1].ver
  BY <1>8, <1>9
<1>16. \A j, files : /\ RowsUpTo(j, files)
                     /\ i + 1 > j => sets[a].files[i + 1].ver <= files[i + 1].ver
                     => RowsUpTo(j, files)'
  BY <1>14, <1>15 DEF RowsUpTo
<1>17. \A b \in Addr : /\ sets[b].kind = "sync" /\ sets[b].curNo < Len(Order) /\ sets[b].curNo # i /\ ~Found(b)
                       => ~Found(b)'
  <2> SUFFICES ASSUME NEW b \in Addr, sets[b].kind = "sync", sets[b].curNo < Len(Order), sets[b].curNo # i,
                      Found(b)'
               PROVE  Found(b)
    OBVIOUS
  <2>1. PICK want : want = Cur(b)
    OBVIOUS
  <2>2. Cur(b)' = want
    BY <1>9, <2>1 DEF Cur
  <2>3. /\ want.name = Order[sets[b].curNo + 1] /\ want.name \in File
        /\ sets[b].curNo \in Nat /\ sets[b].curNo + 1 \in 1..Len(Order)
    BY <2>1, CurListed
  <2>4. want.name # f
    BY <1>8, <2>3, OrderOnce
  <2>5. find_file_from_local_db(want)'
    BY <2>2 DEF Found
  <2>6. HasRecord(want.name)' /\ tbl'[want.name] = want.ver
    BY <2>5, FoundIsNext
  <2>7. HasRecord(want.name) /\ tbl[want.name] = want.ver
    BY <1>9, <2>3, <2>4, <2>6
  <2> QED
    BY <2>1, <2>7, FoundIs DEF Found
<1>18. \A b : StillListed(b) => StillListed(b)'
  BY <1>9, <1>11, <1>12, ListedKept
<1>19. \A p \in 1..n : Stands(T[p]) => Right(T[p])
  BY <1>4 DEF Orderly
<1>20. \A p \in 1..n : p > 1 /\ Stands(T[p]) => InOrder(T[1], T[p])
  BY <1>4 DEF Orderly
<1>21. \A p \in 1..n : T[p].t = "set" => T[p].id \in Addr /\ sets[T[p].id].kind = "sync"
  BY <1>2, TokenNamed
<1>22. \A b : ~Saved(b)
  BY <1>3 DEF Saved
<1>23. Saved(a)'
  BY <1>9 DEF Saved
<1>24. i + 1 \in 1..Len(Order) /\ sets[a].files[i + 1].ver \in Nat
  BY <1>8, FileSyncAssumption
<1>25. ASSUME NEW p \in 1..n, Stands(T[p]) PROVE Right(T[p])'
  <2>1. PICK x : x = T[p]
    OBVIOUS
  <2> SUFFICES Right(x)'
    BY <2>1
  <2>2. Right(x) /\ (p > 1 => InOrder(T[1], x))
    BY <1>19, <1>20, <1>25, <2>1
  <2>3. ~sBusy' => Cuts' >= 1
    BY <1>9, <1>11, <2>2 DEF Right
  <2>4. CASE x.t = "list"
    <3>1. NotNewer(sets[a].files, x.files)
      BY <1>4, <2>1, <2>2, <2>4 DEF InOrder
    <3>2. RowsUpTo(0, x.files)'
      BY <1>8, <1>16, <2>2, <2>4, <3>1 DEF Right, NotNewer
    <3> QED
      BY <2>3, <2>4, <3>2 DEF Right
  <2>5. CASE x.t = "set"
    <3>1. PICK b, j, files : b = x.id /\ j = sets[b].curNo /\ files = sets[b].files
      OBVIOUS
    <3>2. b \in Addr /\ sets[b].kind = "sync"
      BY <1>21, <2>1, <2>5, <3>1
    <3>3. j < Len(Order) /\ RowsUpTo(j, files) /\ StillListed(b)
      BY <2>2, <2>5, <3>1 DEF Right
    <3>4. j \in Nat
      BY <3>1, <3>2, <3>3, CurListed
    <3>5. i + 1 > j => sets[a].files[i + 1].ver <= files[i + 1].ver
      <4>1. CASE p = 1
        BY <1>4, <1>24, <2>1, <3>1, <4>1
      <4>2. CASE p > 1
        <5>1. InOrder(T[1], x) /\ T[1].t = "set" /\ T[1].id = a /\ x.id = b
          BY <1>4, <2>2, <3>1, <4>2
        <5>2. Older(a, b) \/ (Older(b, a) /\ i # j)
          BY <1>7, <2>5, <3>1, <5>1 DEF InOrder
        <5>3. CASE Older(a, b)
          BY <1>24, <3>1, <5>3 DEF Older, NotNewer
        <5>4. CASE Older(b, a) /\ i # j
          <6>1. i <= j
            BY <1>7, <3>1, <5>4 DEF Older
          <6> QED
            BY <1>8, <3>4, <5>4, <6>1
        <5> QED
          BY <5>2, <5>3, <5>4
      <4> QED
        BY <1>4, <4>1, <4>2
    <3>6. RowsUpTo(j, files)'
      BY <1>16, <3>3, <3>5
    <3>7. /\ sets'[b].curNo = j /\ sets'[b].files = files /\ StillListed(b)'
      BY <1>9, <1>18, <3>1, <3>3
    <3>8. /\ (sets[b].curNo)' = j /\ (sets[b].files)' = files
      BY <3>7
    <3>9. RowsUpTo(sets[b].curNo, sets[b].files)'
      BY <3>6, <3>8 DEF RowsUpTo
    <3> QED
      BY <2>3, <2>5, <3>1, <3>3, <3>7, <3>9 DEF Right
  <2>6. CASE x.t \notin {"list", "set"}
    BY <2>3, <2>6 DEF Right
  <2> QED
    BY <2>4, <2>5, <2>6
<1>26. ASSUME NEW p \in 1..n, NEW q \in 1..n, p < q, Stands(T[p]), Stands(T[q])
       PROVE  InOrder(T[p], T[q])'
  <2>1. p = 1
    <3> SUFFICES ASSUME p # 1 PROVE FALSE
      OBVIOUS
    <3>1. 1 < p
      BY <1>4
    <3> QED
      BY <1>4, <1>26, <3>1 DEF Orderly
  <2>2. PICK x, y : x = T[1] /\ y = T[q]
    OBVIOUS
  <2>3. InOrder(x, y) /\ x.t = "set" /\ x.id = a /\ Right(y)
    BY <1>4, <1>19, <1>20, <1>26, <2>1, <2>2
  <2>4. CASE y.t = "set"
    <3>1. PICK b : b = y.id
      OBVIOUS
    <3>2. b \in Addr /\ sets[b].kind = "sync" /\ sets[b].curNo < Len(Order)
      BY <1>21, <2>2, <2>3, <2>4, <3>1 DEF Right
    <3>3. a # b /\ (Older(a, b) \/ (Older(b, a) /\ i # sets[b].curNo)) /\ sBusy /\ Cuts >= 1 /\ ~Found(b)
      BY <1>7, <1>22, <2>3, <2>4, <3>1 DEF InOrder
    <3>4. ~Found(b)' \/ (Saved(a)' /\ sets'[a].curNo = sets'[b].curNo)
      BY <1>7, <1>9, <1>17, <1>23, <3>2, <3>3
    <3>5. Older(a, b) => Older(a, b)'
      BY <1>9, <1>23 DEF Older, NotNewer
    <3>6. Older(b, a) /\ i # sets[b].curNo => Older(b, a)' /\ sets'[a].curNo # sets'[b].curNo
      <4> SUFFICES ASSUME Older(b, a), i # sets[b].curNo PROVE Older(b, a)' /\ sets'[a].curNo # sets'[b].curNo
        OBVIOUS
      <4>1. ~Found(b)'
        BY <1>17, <3>2, <3>3
      <4> QED
        BY <1>7, <1>9, <4>1 DEF Older, NotNewer
    <3>7. (Older(a, b) \/ (Older(b, a) /\ sets[a].curNo # sets[b].curNo))'
      BY <3>3, <3>5, <3>6
    <3>8. InOrder(x, y)'
      BY <1>9, <1>11, <2>3, <2>4, <3>1, <3>3, <3>4, <3>7 DEF InOrder
    <3> QED
      BY <2>1, <2>2, <3>8
  <2>5. CASE y.t # "set"
    <3>1. InOrder(x, y)'
      BY <1>9, <1>11, <2>3, <2>5 DEF InOrder, NotNewer
    <3> QED
      BY <2>1, <2>2, <3>1
  <2> QED
    BY <2>4, <2>5
<1>27. Orderly(T, n)'
  BY <1>4, <1>25, <1>26 DEF Orderly, Stands
<1>28. Orderly(Alive, Len(Flow))'
  BY <1>13, <1>27, OrderlyNext
<1>29. Waiting'
  <2> SUFFICES ASSUME ~sBusy', NEW j \in 1..Len(up)', NEW z, z = up'[j], OfSync(z)' PROVE ~Found(z.id)'
    BY DEF Waiting
  <2>1. j \in 1..Len(up) /\ z = up[j] /\ OfSync(z) /\ ~sBusy
    BY <1>9 DEF OfSync
  <2>2. PICK p \in 1..n : p = Len(Handled) + Len(down) + j /\ T[p] = Stand(z)
    BY <1>2, <2>1, UpPlace
  <2>3. p > 1 /\ Stands(T[p])
    BY <1>4, <2>1, <2>2, LinkLengths DEF Stands, Stand
  <2>4. InOrder(T[1], T[p])
    BY <1>20, <2>3
  <2> QED
    BY <2>1, <2>4 DEF InOrder
<1> QED
  BY <1>9, <1>28, <1>29 DEF OlderAhead
-----------------------------------------------------------------------------
(* OlderAhead is kept: a COMPLETESYNC is taken.                              *)

LEMMA KeptIs == \A q, b, n : Kept(q, b, n) <=> KeptIn(q, b, n, Cuts)
BY DEF Kept, KeptIn

LEMMA KeptIsNext == \A q, b, n : Kept(q, b, n)' <=> KeptIn(q, b, n, Cuts')
BY DEF Kept, KeptIn

\* A set is put on the list: the one that was there has one less to come.
LEMMA ListedLater ==
  ASSUME IInv, BoundTyped, Cuts' = Cuts, NEW a \in Addr, known' = Remembered(known, a),
         Pushed, ~Pushed', NEW b, StillListed(b)
  PROVE  StillListed(b)'
<1>1. Cuts \in Int /\ ListSize \in Nat /\ known \in Seq(Addr) /\ Len(known) <= ListSize - 1
  BY CutsTyped, FileSyncAssumption, KnownFits
<1>2. CASE Cuts >= ListSize - 1
  BY <1>2 DEF StillListed
<1>3. CASE ~(Cuts >= ListSize - 1)
  <2>1. PICK q, r, c : q = known /\ r = known' /\ c = Cuts
    OBVIOUS
  <2>2. Kept(q, b, 1)
    BY <1>3, <2>1 DEF StillListed
  <2>3. KeptIn(q, b, 1, c)
    BY <2>1, <2>2, KeptIs
  <2>4. KeptIn(r, b, 0, c)
    BY <1>1, <1>3, <2>1, <2>3, KeptRemembered
  <2>5. Kept(r, b, 0)'
    BY <2>1, <2>4, KeptIsNext
  <2>6. Kept(known, b, 0)'
    BY <2>1, <2>5
  <2> QED
    BY <2>6 DEF StillListed
<1> QED
  BY <1>2, <1>3

LEMMA NewListed ==
  ASSUME IInv, BoundTyped, Cuts' = Cuts, NEW a \in Addr, known' = Remembered(known, a), Pushed' => Cuts >= 1
  PROVE  StillListed(a)'
<1>1. Cuts \in Int /\ Cuts >= 0 /\ known \in Seq(Addr)
  BY CutsTyped, FileSyncAssumption, KnownFits
<1>2. PICK q, r, c, n : q = known /\ r = known' /\ c = Cuts /\ n = IF Pushed' THEN 1 ELSE 0
  OBVIOUS
<1>3. n \in Int /\ n <= c
  BY <1>1, <1>2
<1>4. KeptIn(r, a, n, c)
  BY <1>1, <1>2, <1>3, KeptNew
<1>5. Kept(r, a, n)'
  BY <1>2, <1>4, KeptIsNext
<1>6. Kept(known, a, IF Pushed THEN 1 ELSE 0)'
  BY <1>2, <1>5
<1> QED
  BY <1>6 DEF StillListed

\* A listing is taken and a set is alive: nothing else is.
LEMMA ListingTaken ==
  ASSUME IInv, OlderAhead, job.at = "idle", down # <<>>, IsListing(Head(down))
  PROVE  /\ 1 \in 1..Len(Flow) /\ Alive[1].t = "list" /\ Alive[1].files = Head(down).files
         /\ Stands(Alive[1]) /\ Right(Alive[1]) /\ Pushed
         /\ \A p \in 1..Len(Flow) : p > 1 /\ Stands(Alive[p]) => InOrder(Alive[1], Alive[p])
         /\ \A p \in 1..Len(Flow) : Alive[p].t = "set" =>
               /\ p > 1 /\ sBusy /\ Cuts >= 1
               /\ \A q \in 1..Len(down) : q > 1 => ~IsListing(down[q])
               /\ \A q \in 1..Len(up) : up[q].kind # "fin"
         /\ \A q \in 1..Len(down) : q > 1 /\ IsListing(down[q]) => Cuts >= 1
         /\ \A q \in 1..Len(up) : up[q].kind = "fin" => Cuts >= 1
         /\ ~sBusy => Cuts >= 1
<1>1. PICK m, T, n : m = Head(down) /\ T = Alive /\ n = Len(Flow)
  OBVIOUS
<1>2. 1 \in 1..n /\ T[1] = Stand(m) /\ m = down[1] /\ 1 \in 1..Len(down) /\ n \in Nat
  BY <1>1, FrontTaken, LinkLengths
<1>3. T[1].t = "list" /\ T[1].files = m.files /\ Stands(T[1])
  BY <1>1, <1>2 DEF Stand, Stands, OfSync, IsListing
<1>4. Orderly(T, n)
  BY <1>1 DEF OlderAhead
<1>5. Right(T[1]) /\ \A p \in 1..n : p > 1 /\ Stands(T[p]) => InOrder(T[1], T[p])
  BY <1>2, <1>3, <1>4 DEF Orderly
<1>6. Pushed
  BY <1>1, <1>2 DEF Pushed
<1>7. Len(Handled) = 0 /\ Len(down) \in Nat \ {0} /\ Len(up) \in Nat
  BY IdleHandled, LinkLengths, LinkMessages
<1>8. ASSUME NEW q \in 1..Len(down), q > 1, IsListing(down[q])
      PROVE  \E p \in 1..n : p > 1 /\ T[p].t = "list"
  <2>1. PICK p \in 1..n : p = Len(Handled) + q /\ T[p] = Stand(down[q])
    BY <1>1, DownPlace
  <2>2. p > 1 /\ T[p].t = "list"
    BY <1>7, <1>8, <2>1 DEF Stand, OfSync, IsListing
  <2> QED
    BY <2>2
<1>9. ASSUME NEW q \in 1..Len(up), up[q].kind = "fin"
      PROVE  \E p \in 1..n : p > 1 /\ T[p].t = "fin"
  <2>1. PICK p \in 1..n : p = Len(Handled) + Len(down) + q /\ T[p] = Stand(up[q])
    BY <1>1, UpPlace
  <2>2. p > 1 /\ T[p].t = "fin"
    BY <1>7, <1>9, <2>1 DEF Stand, OfSync, IsListing
  <2> QED
    BY <2>2
<1>10. ASSUME NEW p \in 1..n, NEW q \in 1..n, T[p].t = "set", q > 1, T[q].t \in {"list", "fin"} PROVE FALSE
  <2>1. p # q /\ p # 1
    BY <1>3, <1>10
  <2>2. Stands(T[p]) /\ Stands(T[q])
    BY <1>10 DEF Stands
  <2>3. (1 < p /\ p < q) \/ (1 < q /\ q < p)
    BY <1>2, <1>10, <2>1
  <2> QED
    BY <1>2, <1>3, <1>4, <2>2, <2>3 DEF Orderly
<1>11. ASSUME NEW p \in 1..n, p > 1, T[p].t \in {"set", "list", "fin"} PROVE sBusy /\ Cuts >= 1
  BY <1>5, <1>11 DEF InOrder, Stands
<1>12. ASSUME NEW p \in 1..n, T[p].t = "set"
       PROVE  /\ p > 1 /\ sBusy /\ Cuts >= 1
              /\ \A q \in 1..Len(down) : q > 1 => ~IsListing(down[q])
              /\ \A q \in 1..Len(up) : up[q].kind # "fin"
  <2>1. p > 1
    BY <1>2, <1>3, <1>12
  <2> QED
    BY <1>8, <1>9, <1>10, <1>11, <1>12, <2>1
<1>13. ~sBusy => Cuts >= 1
  BY <1>5 DEF Right
<1> QED
  BY <1>1, <1>2, <1>3, <1>5, <1>6, <1>8, <1>9, <1>11, <1>12, <1>13

LEMMA CompleteSyncAhead ==
  ASSUME IInv, IInv', BoundTyped, SetsNamed, SetsListed, OlderAhead, NEW a \in Addr, RecvCompleteSync(a)
  PROVE  OlderAhead'
<1>1. PICK m, s : m = Head(down) /\ s = NewSet("sync", m.files)
  OBVIOUS
<1>2. /\ job.at = "idle" /\ down # <<>> /\ down' = Tail(down) /\ m.kind = "COMPLETESYNC" /\ a \in Free
      /\ sets' = [sets EXCEPT ![a] = s] /\ known' = Remembered(known, a)
      /\ job'.at = "wiped" /\ job'.set = a
      /\ UNCHANGED <<sBusy, up, tbl, list, bound>>
  BY <1>1 DEF RecvCompleteSync, Receive, server, Idle
<1>3. /\ SameKinds /\ sets'[a] = s
      /\ \A b \in Addr : sets[b].kind = "sync" => SameSet(b)
  BY <1>2, FreeTaken
<1>4. Cuts' = Cuts
  BY <1>2, BoundKept
<1>5. down \in Seq(Message) /\ IsListing(m)
  BY <1>2, LinkMessages DEF IsListing
<1>6. \A p \in 1..Len(down)' : down'[p] = down[p + 1] /\ p + 1 \in 1..Len(down)
  BY <1>2, <1>5, TailElements
<1>7. PICK T, n, U, e : T = Alive /\ n = Len(Flow) /\ U = Alive' /\ e = Len(Flow)'
  OBVIOUS
<1>8. n \in Nat /\ e \in Nat /\ Orderly(T, n)
  BY <1>7, LinkLengths, LinkLengthsNext DEF OlderAhead
<1>9. /\ Pushed
      /\ \A p \in 1..n : T[p].t = "set" =>
               /\ sBusy
               /\ \A q \in 1..Len(down) : q > 1 => ~IsListing(down[q])
               /\ \A q \in 1..Len(up) : up[q].kind # "fin"
      /\ \A q \in 1..Len(down) : q > 1 /\ IsListing(down[q]) => Cuts >= 1
      /\ \A q \in 1..Len(up) : up[q].kind = "fin" => Cuts >= 1
      /\ ~sBusy => Cuts >= 1
  BY <1>1, <1>2, <1>5, <1>7, ListingTaken
<1>10. e = n /\ \A p \in 1..n : U[p] = T[p]
  <2>1. PICK f : f = (sets[job.set].files)'
    OBVIOUS
  <2>2. f = m.files
    BY <1>1, <1>2, <1>3, <2>1 DEF NewSet, NoSet
  <2>3. PICK k : k = [kind |-> "COMPLETESYNC", files |-> f]
    OBVIOUS
  <2>4. Handled' = <<k>>
    BY <1>2, <2>1, <2>3 DEF Handled
  <2>5. Stand(k)' = Stand(m)
    BY <1>2, <2>2, <2>3 DEF Stand, OfSync, IsListing
  <2>6. Len(Flow)' = Len(Flow) /\ \A p \in 1..Len(Flow) : Alive'[p] = Alive[p]
    BY <1>1, <1>2, <1>3, <2>4, <2>5, FlowTaken
  <2> QED
    BY <1>7, <2>6
<1>11. Pushed' => Cuts >= 1
  BY <1>2, <1>6, <1>9 DEF Pushed, IsListing
<1>12. StillListed(a)'
  BY <1>2, <1>4, <1>11, NewListed
<1>13. ASSUME NEW p \in 1..n, T[p].t = "set", StillListed(T[p].id) PROVE StillListed(T[p].id)'
  <2>1. ~Pushed'
    <3>1. \A q \in 1..Len(down)' : ~IsListing(down'[q])
      BY <1>6, <1>9, <1>13
    <3> QED
      BY <1>2, <1>9, <1>13, <3>1 DEF Pushed, IsListing
  <2>2. PICK b : b = T[p].id
    OBVIOUS
  <2>3. StillListed(b)'
    BY <1>2, <1>4, <1>9, <1>13, <2>1, <2>2, ListedLater
  <2> QED
    BY <2>2, <2>3
<1>14. \A p \in 1..n : T[p].t = "set" => SameSet(T[p].id)
  BY <1>3, <1>7, TokenNamed
<1>15. \A b : ~Saved(b)
  BY <1>2 DEF Saved
<1>16. ASSUME NEW p \in 1..n, Stands(T[p]) PROVE Right(T[p])'
  <2>1. PICK x : x = T[p]
    OBVIOUS
  <2>2. Right(x) /\ (x.t = "set" => SameSet(x.id) /\ (StillListed(x.id) => StillListed(x.id)'))
    BY <1>8, <1>13, <1>14, <1>16, <2>1 DEF Orderly
  <2>3. Right(x)'
    BY <1>2, <1>4, <2>2, RightKept
  <2> QED
    BY <2>1, <2>3
<1>17. ASSUME NEW p \in 1..n, NEW q \in 1..n, p < q, Stands(T[p]), Stands(T[q])
       PROVE  InOrder(T[p], T[q])'
  <2>1. PICK x, y : x = T[p] /\ y = T[q]
    OBVIOUS
  <2>2. InOrder(x, y)
    BY <1>8, <1>17, <2>1 DEF Orderly
  <2>3. \A z \in {x, y} : z.t = "set" => SameSet(z.id) /\ (Saved(z.id) => Saved(z.id)')
    BY <1>14, <1>15, <2>1
  <2>4. InOrder(x, y)'
    BY <1>2, <1>4, <2>2, <2>3, InOrderKept
  <2> QED
    BY <2>1, <2>4
<1>18. Orderly(T, n)'
  BY <1>8, <1>16, <1>17 DEF Orderly, Stands
<1>19. Orderly(U, e)'
  BY <1>10, <1>18 DEF Orderly
<1>20. Orderly(Alive, Len(Flow))'
  BY <1>7, <1>19, OrderlyNext
<1>21. Waiting'
  BY <1>2, <1>3, WaitingKept DEF OlderAhead
<1>22. (job.at = "wiped" => StillListed(job.set))'
  <2>1. PICK b : b = job'.set
    OBVIOUS
  <2>2. StillListed(b)'
    BY <1>2, <1>12, <2>1
  <2> QED
    BY <2>1, <2>2
<1> QED
  BY <1>20, <1>21, <1>22 DEF OlderAhead
-----------------------------------------------------------------------------
(* OlderAhead is kept: no row is left, and the first file is asked for.      *)

LEMMA NothingFound ==
  ASSUME IInv', NEW b, \A f : ~HasRecord(f)'
  PROVE  ~Found(b)'
<1>1. PICK want : want = (Cur(b))'
  OBVIOUS
<1>2. Found(b)' <=> find_file_from_local_db(want)'
  BY <1>1 DEF Found
<1> QED
  BY <1>2, FoundIsNext

LEMMA CompleteSyncEndAhead ==
  ASSUME IInv, IInv', BoundTyped, SetsNamed, SetsListed, OlderAhead, RecvCompleteSyncEnd
  PROVE  OlderAhead'
<1>1. PICK a, k : a = job.set /\ k = Request(a, sets[a].files[1].name)
  OBVIOUS
<1>2. /\ job.at = "wiped" /\ job'.at = "idle" /\ localDBDelAll /\ up' = Append(up, k)
      /\ UNCHANGED <<sBusy, down, sets, bound, known>>
  BY <1>1 DEF RecvCompleteSyncEnd, server, Idle
<1>3. SameKinds /\ \A b : SameSet(b)
  BY <1>2 DEF SameKinds, SameKind, SameSet
<1>4. Cuts' = Cuts
  BY <1>2, BoundKept
<1>5. /\ Len(Handled) = 1 /\ a \in Addr /\ sets[a].kind = "sync"
      /\ Alive[1].t = "list" /\ Alive[1].files = sets[a].files /\ 1 \in 1..Len(Flow) /\ Stands(Alive[1])
  BY <1>1, <1>2, Front
<1>6. PICK T, n, U, e : T = Alive /\ n = Len(Flow) - 1 /\ U = Alive' /\ e = Len(Flow)'
  OBVIOUS
<1>7. n \in Nat /\ Orderly(T, n + 1) /\ Len(Flow) = n + 1
  BY <1>5, <1>6, LinkLengths DEF OlderAhead
<1>8. e = n + 1 /\ (\A p \in 1..n : U[p] = T[p + 1]) /\ U[n + 1] = Stand(k)'
  <2>1. /\ Len(Flow)' = Len(Flow)
        /\ \A p \in 1..Len(Flow) - 1 : Alive'[p] = Alive[p + 1]
        /\ Alive'[Len(Flow)] = Stand(k)'
    BY <1>2, <1>3, FlowAsked
  <2> QED
    BY <1>6, <1>7, <2>1
<1>9. PICK y : y = U[n + 1]
  OBVIOUS
<1>10. y.t = "set" /\ y.id = a
  BY <1>1, <1>2, <1>5, <1>8, <1>9 DEF Stand, OfSync, Request
<1>11. /\ \A f \in File : tbl'[f] = Absent
       /\ \A b : ~Found(b)'
  BY <1>2, NoneAfterDelete, NothingFound
<1>12. \A p \in 1..n : p + 1 \in 1..n + 1 /\ p + 1 > 1
  BY <1>7
<1>13. /\ Right(T[1])
       /\ \A p \in 1..n : Stands(T[p + 1]) => Right(T[p + 1]) /\ InOrder(T[1], T[p + 1])
  BY <1>5, <1>6, <1>7, <1>12 DEF Orderly
<1>14. \A p, q \in 1..n : p < q => ~(Stands(T[p + 1]) /\ Stands(T[q + 1]))
  <2> SUFFICES ASSUME NEW p \in 1..n, NEW q \in 1..n, p < q, Stands(T[p + 1]), Stands(T[q + 1]) PROVE FALSE
    OBVIOUS
  <2>1. 1 < p + 1 /\ p + 1 < q + 1 /\ p + 1 \in 1..n + 1 /\ q + 1 \in 1..n + 1 /\ 1 \in 1..n + 1
    BY <1>7
  <2> QED
    BY <1>5, <1>6, <1>7, <2>1 DEF Orderly
<1>15. \A b \in Addr : sets[b].kind = "sync" => \A j : RowsUpTo(j, sets[b].files)'
  <2> SUFFICES ASSUME NEW b \in Addr, sets[b].kind = "sync", NEW j PROVE RowsUpTo(j, sets[b].files)'
    OBVIOUS
  <2>1. Listed(sets[b].files) /\ sets' = sets
    BY <1>2 DEF SetsListed
  <2>2. \A l \in 1..Len(Order) : sets[b].files[l].ver \in Nat /\ tbl'[Order[l]] = 0
    BY <1>11, <2>1, OrderLength, FileSyncAssumption DEF Listed, Absent
  <2>3. \A l \in 1..Len(Order) : tbl'[Order[l]] <= sets[b].files[l].ver
    BY <2>2
  <2> QED
    BY <2>1, <2>3 DEF RowsUpTo
<1>16. \A files : Listed(files) => RowsUpTo(0, files)'
  <2> SUFFICES ASSUME NEW files, Listed(files) PROVE RowsUpTo(0, files)'
    OBVIOUS
  <2>1. \A l \in 1..Len(Order) : files[l].ver \in Nat /\ tbl'[Order[l]] = 0
    BY <1>11, OrderLength, FileSyncAssumption DEF Listed, Absent
  <2>2. \A l \in 1..Len(Order) : tbl'[Order[l]] <= files[l].ver
    BY <2>1
  <2> QED
    BY <2>2 DEF RowsUpTo
<1>17. down \in Seq(Message) /\ up \in Seq(Message)
  BY LinkMessages
<1>18. Pushed' => Pushed
  <2>1. \A p \in 1..Len(down)' : IsListing(down'[p]) => \E q \in 1..Len(down) : down'[p] = down[q]
    BY <1>2
  <2>2. \A p \in 1..Len(up)' : up'[p].kind = "fin" => \E q \in 1..Len(up) : up'[p] = up[q]
    BY <1>1, <1>2, <1>17, AppendElements DEF Request
  <2> QED
    BY <1>2, <2>1, <2>2, PushedKept
<1>19. \A b : StillListed(b) => StillListed(b)'
  BY <1>2, <1>4, <1>18, ListedKept
<1>20. StillListed(a) /\ sets[a].curNo = 0 /\ 0 < Len(Order)
  BY <1>1, <1>2, OrderLength DEF OlderAhead, SetsListed
<1>21. ASSUME NEW p \in 1..e, Stands(U[p]) PROVE Right(U[p])'
  <2>1. CASE p = n + 1
    <3>1. (~sBusy => Cuts >= 1)'
      BY <1>2, <1>4, <1>13 DEF Right
    <3>2. /\ (sets[a].curNo < Len(Order))'
          /\ RowsUpTo(sets[a].curNo, sets[a].files)'
          /\ StillListed(a)'
      <4>1. \A j : j = (sets[a].curNo)' => RowsUpTo(j, sets[a].files)'
        BY <1>5, <1>15
      <4>2. RowsUpTo(sets[a].curNo, sets[a].files)'
        BY <4>1 DEF RowsUpTo
      <4> QED
        BY <1>2, <1>19, <1>20, <4>2
    <3>3. Right(y)'
      BY <1>10, <3>1, <3>2 DEF Right
    <3> QED
      BY <1>9, <2>1, <3>3
  <2>2. CASE p # n + 1
    <3>1. p \in 1..n
      BY <1>7, <1>8, <2>2
    <3>2. PICK x : x = U[p]
      OBVIOUS
    <3>3. Right(x) /\ x = T[p + 1]
      BY <1>8, <1>13, <1>21, <3>1, <3>2
    <3>4. (~sBusy => Cuts >= 1)'
      BY <1>2, <1>4, <3>3 DEF Right
    <3>5. x.t = "list" => RowsUpTo(0, x.files)'
      BY <1>6, <1>7, <1>12, <1>16, <3>1, <3>3, ListNamed
    <3>6. x.t = "set" => x.id \in Addr /\ sets[x.id].kind = "sync"
      BY <1>6, <1>7, <1>12, <3>1, <3>3, TokenNamed
    <3>7. ASSUME x.t = "set" PROVE RowsUpTo(sets[x.id].curNo, sets[x.id].files)'
      <4>1. \A j : j = (sets[x.id].curNo)' => RowsUpTo(j, sets[x.id].files)'
        BY <1>15, <3>6, <3>7
      <4> QED
        BY <4>1 DEF RowsUpTo
    <3>8. Right(x)'
      BY <1>2, <1>19, <3>3, <3>4, <3>5, <3>7 DEF Right
    <3> QED
      BY <3>2, <3>8
  <2> QED
    BY <2>1, <2>2
<1>22. ASSUME NEW p \in 1..n, T[p + 1].t = "set" PROVE T[p + 1].id # a
  <2>1. PICK q : q = p + 1
    OBVIOUS
  <2>2. q \in 1..Len(Flow) /\ q > 1
    BY <1>7, <1>12, <2>1
  <2>3. \A m : Stand(m).t = "set" => IsPart(m) /\ Stand(m).id = m.id
    BY DEF Stand, OfSync, IsPart
  <2>4. CASE \E i \in 1..Len(down) : Alive[q] = Stand(down[i])
    BY <1>1, <1>2, <1>6, <1>22, <2>1, <2>3, <2>4 DEF SetsNamed
  <2>5. CASE \E i \in 1..Len(up) : Alive[q] = Stand(up[i])
    BY <1>1, <1>2, <1>6, <1>22, <2>1, <2>3, <2>5 DEF SetsNamed
  <2> QED
    BY <2>2, <2>4, <2>5, FlowWhere
<1>23. ASSUME NEW p \in 1..n, Stands(U[p]) PROVE InOrder(U[p], U[n + 1])'
  <2>1. PICK x, z : x = U[p] /\ z = T[1]
    OBVIOUS
  <2>2. x = T[p + 1] /\ InOrder(z, x)
    BY <1>8, <1>13, <1>23, <2>1
  <2>3. z.t = "list" /\ z.files = sets[a].files
    BY <1>5, <1>6, <2>1
  <2>4. x.t = "set" => x.id # a /\ x.id \in Addr
    BY <1>6, <1>7, <1>12, <1>22, <2>2, TokenNamed
  <2>5. x.t = "set" => Older(x.id, a)'
    <3> SUFFICES ASSUME x.t = "set" PROVE Older(x.id, a)'
      OBVIOUS
    <3>1. NotNewer(sets[x.id].files, sets[a].files)
      BY <2>2, <2>3 DEF InOrder
    <3>2. sets[a].curNo <= sets[x.id].curNo
      BY <1>20, <2>4 DEF IInv, JobHasFile, SetState
    <3> QED
      BY <1>2, <1>11, <3>1, <3>2 DEF Older, NotNewer
  <2>6. x.t = "list" => NotNewer(sets[a].files, x.files)
    BY <2>2, <2>3 DEF InOrder
  <2>7. InOrder(x, y)'
    BY <1>2, <1>4, <1>10, <1>11, <2>2, <2>4, <2>5, <2>6 DEF InOrder, NotNewer
  <2> QED
    BY <1>9, <2>1, <2>7
<1>24. Orderly(U, e)'
  <2>1. PICK c : c = n + 1
    OBVIOUS
  <2>2. c \in 1..e /\ e \in Nat
    BY <1>7, <1>8, <2>1
  <2>3. \A p, q \in 1..e : p < q /\ p # c /\ q # c => ~(Stands(U[p]) /\ Stands(U[q]))
    <3> SUFFICES ASSUME NEW p \in 1..e, NEW q \in 1..e, p < q, p # c, q # c
                 PROVE  ~(Stands(U[p]) /\ Stands(U[q]))
      OBVIOUS
    <3>1. p \in 1..n /\ q \in 1..n
      BY <1>7, <1>8, <2>1
    <3> QED
      BY <1>8, <1>14, <3>1
  <2>4. \A p \in 1..c - 1 : Stands(U[p]) => InOrder(U[p], U[c])'
    BY <1>7, <1>23, <2>1
  <2>5. \A p \in c + 1..e : FALSE
    BY <1>7, <1>8, <2>1
  <2> QED
    BY <1>21, <2>2, <2>3, <2>4, <2>5, OneMore
<1>25. Orderly(Alive, Len(Flow))'
  BY <1>6, <1>24, OrderlyNext
<1>26. Waiting'
  BY <1>11 DEF Waiting
<1> QED
  BY <1>2, <1>25, <1>26 DEF OlderAhead
-----------------------------------------------------------------------------
(* OlderAhead is kept: a SYNCFILE asks for its first missing file.           *)

\* The first is gone and y is the last.
LEMMA HeadToTail ==
  ASSUME NEW T, NEW n \in Nat, NEW U, Orderly(T, n + 1), Stands(T[1]),
         \A p \in 1..n : U[p] = T[p + 1], NEW y, U[n + 1] = y, Right(y)',
         \A p \in 1..n : Stands(T[p + 1]) => Right(T[p + 1])' /\ InOrder(T[p + 1], y)'
  PROVE  Orderly(U, n + 1)'
<1>1. PICK c : c = n + 1
  OBVIOUS
<1>2. c \in 1..c /\ c \in Nat
  BY <1>1
<1>3. \A p \in 1..c : p # c => p \in 1..n
  BY <1>1
<1>4. \A p, q \in 1..c : p < q /\ p # c /\ q # c => ~(Stands(U[p]) /\ Stands(U[q]))
  <2> SUFFICES ASSUME NEW p \in 1..n, NEW q \in 1..n, p < q, Stands(T[p + 1]), Stands(T[q + 1]) PROVE FALSE
    BY <1>3
  <2>1. 1 < p + 1 /\ p + 1 < q + 1 /\ p + 1 \in 1..n + 1 /\ q + 1 \in 1..n + 1 /\ 1 \in 1..n + 1
    OBVIOUS
  <2> QED
    BY <2>1 DEF Orderly
<1>5. ASSUME NEW p \in 1..c, Stands(U[p]) PROVE Right(U[p])'
  <2>1. CASE p = c
    BY <1>1, <2>1
  <2>2. CASE p # c
    BY <1>3, <1>5, <2>2
  <2> QED
    BY <2>1, <2>2
<1>6. ASSUME NEW p \in 1..c - 1, Stands(U[p]) PROVE InOrder(U[p], U[c])'
  <2>1. p \in 1..n
    BY <1>1
  <2> QED
    BY <1>1, <1>6, <2>1
<1>7. \A p \in c + 1..c : FALSE
  BY <1>1
<1> QED
  BY <1>1, <1>2, <1>4, <1>5, <1>6, <1>7, OneMore

LEMMA HeadOrdered ==
  ASSUME NEW T, NEW n \in Nat, Orderly(T, n + 1), Stands(T[1])
  PROVE  /\ Right(T[1])
         /\ \A p \in 1..n : Stands(T[p + 1]) => Right(T[p + 1]) /\ InOrder(T[1], T[p + 1])
<1>1. 1 \in 1..n + 1 /\ \A p \in 1..n : p + 1 \in 1..n + 1 /\ 1 < p + 1
  OBVIOUS
<1> QED
  BY <1>1 DEF Orderly

\* SYNCFILE: the set is listed, and its first missing file is asked for or, when
\* there is none, it is over at once.
LEMMA SyncTaken ==
  ASSUME IInv, SetsListed, SetsNamed, NEW a \in Addr, RecvSyncFile(a),
         NEW m, m = Head(down), NEW s, s = NewSet("sync", m.files), NEW i, i = NextMissing(s)
  PROVE  /\ job.at = "idle" /\ down # <<>> /\ down' = Tail(down) /\ m.kind = "SYNCFILE" /\ a \in Free
         /\ UNCHANGED <<srv, sBusy, disk, dirty, tbl, list, job, bound, lost, wild>>
         /\ Listed(m.files) /\ s \in SetState /\ s.files = m.files /\ s.curNo = 0 /\ s.kind = "sync"
         /\ i \in Nat /\ i <= Len(Order) /\ Len(m.files) = Len(Order)
         /\ i < Len(Order) => /\ sets' = [sets EXCEPT ![a] = [s EXCEPT !.curNo = i]]
                              /\ up' = Append(up, Request(a, m.files[i + 1].name))
                              /\ known' = Remembered(known, a)
                              /\ ~find_file_from_local_db(m.files[i + 1])
         /\ ~(i < Len(Order)) => /\ sets' = [sets EXCEPT ![a] = NoSet]
                                 /\ up' = Append(up, [kind |-> "fin"])
                                 /\ known' = Forgotten(Remembered(known, a), a)
<1>1. /\ Receive("SYNCFILE") /\ a \in Free
      /\ ContinueWith(a, s, recv_file_list_insert(ring, a), Remembered(known, a))
      /\ UNCHANGED <<srv, sBusy, disk, dirty, tbl, list, job, bound, lost, wild>>
  BY DEF RecvSyncFile, server, store, ghosts
<1>2. m \in ToBoard /\ m.kind = "SYNCFILE" /\ job = Idle
  BY <1>1, Received DEF IInv
<1>3. m.files \in Seq(FileRec)
  BY <1>2, BoardMessage
<1>4. s \in SetState /\ s.files = m.files /\ s.curNo = 0 /\ s.kind = "sync"
  BY <1>3, NewSetTyped DEF NewSet, NoSet
<1>5. down # <<>> /\ down' = Tail(down) /\ job.at = "idle"
  BY <1>1 DEF Receive, Idle
<1>6. m = down[1] /\ 1 \in 1..Len(down)
  BY <1>5, FrontTaken
<1>7. Listed(m.files)
  BY <1>2, <1>6 DEF SetsListed, IsListing
<1>8. Len(m.files) = Len(Order)
  BY <1>7 DEF Listed
<1>9. s.curNo <= Len(s.files)
  BY <1>4, <1>8, OrderLength
<1>10. i \in Nat /\ i <= Len(Order) /\ (i < Len(Order) => ~find_file_from_local_db(m.files[i + 1]))
  BY <1>4, <1>8, <1>9, NextMissingIs
<1>11. CASE i < Len(Order)
  <2>1. NextMissing(s) < Len(s.files)
    BY <1>4, <1>8, <1>11
  <2>2. /\ sets' = [sets EXCEPT ![a] = [s EXCEPT !.curNo = i]]
        /\ up' = Append(up, Request(a, m.files[i + 1].name))
        /\ known' = Remembered(known, a)
    BY <1>1, <1>4, <2>1 DEF ContinueWith
  <2> QED
    BY <1>1, <1>2, <1>4, <1>5, <1>7, <1>8, <1>10, <1>11, <2>2
<1>12. CASE ~(i < Len(Order))
  <2>1. ~(NextMissing(s) < Len(s.files))
    BY <1>4, <1>8, <1>12
  <2>2. /\ sets' = [sets EXCEPT ![a] = NoSet]
        /\ up' = Append(up, [kind |-> "fin"])
        /\ known' = Forgotten(Remembered(known, a), a)
    BY <1>1, <2>1 DEF ContinueWith
  <2> QED
    BY <1>1, <1>2, <1>4, <1>5, <1>7, <1>8, <1>10, <1>12, <2>2
<1> QED
  BY <1>11, <1>12

LEMMA SyncAskedAhead ==
  ASSUME IInv, IInv', BoundTyped, SetsListed, SetsNamed, OlderAhead, NEW a \in Addr, RecvSyncFile(a),
         NEW m, m = Head(down), NEW s, s = NewSet("sync", m.files), NEW i, i = NextMissing(s), i < Len(Order)
  PROVE  OlderAhead'
<1>1. PICK k : k = Request(a, m.files[i + 1].name)
  OBVIOUS
<1>2. /\ job.at = "idle" /\ down # <<>> /\ down' = Tail(down) /\ m.kind = "SYNCFILE" /\ a \in Free
      /\ UNCHANGED <<sBusy, tbl, list, job, bound>>
      /\ Listed(m.files) /\ s \in SetState /\ s.files = m.files /\ s.curNo = 0 /\ s.kind = "sync"
      /\ i \in Nat
      /\ sets' = [sets EXCEPT ![a] = [s EXCEPT !.curNo = i]]
      /\ up' = Append(up, k) /\ known' = Remembered(known, a)
      /\ ~find_file_from_local_db(m.files[i + 1])
  BY <1>1, SyncTaken
<1>3. /\ SameKinds /\ sets'[a] = [s EXCEPT !.curNo = i]
      /\ \A b \in Addr : sets[b].kind = "sync" => SameSet(b) /\ b # a
  BY <1>2, FreeTaken
<1>4. sets'[a].kind = "sync" /\ sets'[a].files = m.files /\ sets'[a].curNo = i
  BY <1>2, <1>3 DEF SetState
<1>5. Cuts' = Cuts
  BY <1>2, BoundKept
<1>6. IsListing(m)
  BY <1>2 DEF IsListing
<1>7. PICK T, n, U : T = Alive /\ n = Len(Flow) - 1 /\ U = Alive'
  OBVIOUS
<1>8. /\ Stands(T[1]) /\ T[1].t = "list" /\ T[1].files = m.files /\ Pushed
      /\ 1 \in 1..Len(Flow)
      /\ \A p \in 1..Len(Flow) : T[p].t = "set" =>
               /\ sBusy
               /\ \A q \in 1..Len(down) : q > 1 => ~IsListing(down[q])
               /\ \A q \in 1..Len(up) : up[q].kind # "fin"
      /\ \A q \in 1..Len(down) : q > 1 /\ IsListing(down[q]) => Cuts >= 1
      /\ \A q \in 1..Len(up) : up[q].kind = "fin" => Cuts >= 1
      /\ ~sBusy => Cuts >= 1
  BY <1>2, <1>6, <1>7, ListingTaken
<1>9. n \in Nat /\ Len(Flow) = n + 1 /\ Orderly(T, n + 1)
  BY <1>7, <1>8, LinkLengths DEF OlderAhead
<1>10. Len(Flow)' = n + 1 /\ (\A p \in 1..n : U[p] = T[p + 1]) /\ U[n + 1] = Stand(k)'
  <2>1. /\ Len(Flow)' = Len(Flow)
        /\ \A p \in 1..Len(Flow) - 1 : Alive'[p] = Alive[p + 1]
        /\ Alive'[Len(Flow)] = Stand(k)'
    BY <1>2, <1>3, FlowAsked
  <2> QED
    BY <1>7, <1>9, <2>1
<1>11. PICK y : y = U[n + 1]
  OBVIOUS
<1>12. y.t = "set" /\ y.id = a
  BY <1>1, <1>4, <1>10, <1>11 DEF Stand, OfSync, Request
<1>13. /\ Right(T[1])
       /\ \A p \in 1..n : Stands(T[p + 1]) => Right(T[p + 1]) /\ InOrder(T[1], T[p + 1])
  BY <1>8, <1>9, HeadOrdered
<1>14. down \in Seq(Message) /\ up \in Seq(Message)
  BY LinkMessages
<1>15. \A p \in 1..Len(up)' : (p \in 1..Len(up) /\ up'[p] = up[p]) \/ up'[p] = k
  BY <1>2, <1>14, AppendElements
<1>16. \A p \in 1..Len(down)' : down'[p] = down[p + 1] /\ p + 1 \in 1..Len(down) /\ p + 1 > 1
  BY <1>2, <1>14, TailElements
<1>17. Pushed' => \/ ~sBusy \/ (\E q \in 1..Len(down) : q > 1 /\ IsListing(down[q]))
                  \/ (\E q \in 1..Len(up) : up[q].kind = "fin")
  <2>1. k.kind # "fin"
    BY <1>1 DEF Request
  <2> QED
    BY <1>2, <1>15, <1>16, <2>1 DEF Pushed, IsListing
<1>18. StillListed(a)'
  BY <1>2, <1>5, <1>8, <1>17, NewListed
<1>19. ASSUME NEW p \in 1..Len(Flow), T[p].t = "set", StillListed(T[p].id) PROVE StillListed(T[p].id)'
  <2>1. ~Pushed'
    BY <1>8, <1>17, <1>19
  <2>2. PICK b : b = T[p].id
    OBVIOUS
  <2>3. StillListed(b)'
    BY <1>2, <1>5, <1>8, <1>19, <2>1, <2>2, ListedLater
  <2> QED
    BY <2>2, <2>3
<1>20. \A p \in 1..Len(Flow) : T[p].t = "set" =>
          T[p].id \in Addr /\ sets[T[p].id].kind = "sync" /\ SameSet(T[p].id) /\ T[p].id # a
  BY <1>3, <1>7, TokenNamed
<1>21. ~Found(a)'
  <2>1. PICK want : want = m.files[i + 1]
    OBVIOUS
  <2>2. Cur(a)' = want
    BY <1>4, <2>1 DEF Cur
  <2>3. ~find_file_from_local_db(want)'
    BY <1>2, <2>1, FindKept
  <2> QED
    BY <2>2, <2>3 DEF Found
<1>22. \A p \in 1..n : p + 1 \in 1..Len(Flow)
  BY <1>9
<1>23. Right(y)'
  <2>1. ~sBusy' => Cuts' >= 1
    BY <1>2, <1>5, <1>8
  <2>2. RowsUpTo(0, m.files)
    BY <1>8, <1>13 DEF Right
  <2>3. RowsUpTo(sets[a].curNo, sets[a].files)'
    <3>1. \A l \in 1..Len(Order) : l > i => tbl'[Order[l]] <= m.files[l].ver
      <4>1. tbl' = tbl /\ i \in Nat /\ Len(Order) \in Nat
        BY <1>2, OrderLength
      <4>2. \A l \in 1..Len(Order) : l > 0 => tbl[Order[l]] <= m.files[l].ver
        BY <2>2 DEF RowsUpTo
      <4> QED
        BY <4>1, <4>2
    <3> QED
      BY <1>4, <3>1 DEF RowsUpTo
  <2>4. sets'[a].curNo < Len(Order)
    BY <1>4
  <2> QED
    BY <1>12, <1>18, <2>1, <2>3, <2>4 DEF Right
<1>24. ASSUME NEW p \in 1..n, Stands(T[p + 1]) PROVE Right(T[p + 1])' /\ InOrder(T[p + 1], y)'
  <2>1. PICK x, z : x = T[p + 1] /\ z = T[1]
    OBVIOUS
  <2>2. Right(x) /\ InOrder(z, x) /\ z.t = "list" /\ z.files = m.files
    BY <1>8, <1>13, <1>24, <2>1
  <2>3. x.t = "set" => /\ x.id \in Addr /\ sets[x.id].kind = "sync" /\ SameSet(x.id) /\ x.id # a
                       /\ StillListed(x.id) => StillListed(x.id)'
    BY <1>19, <1>20, <1>22, <2>1
  <2>4. Right(x)'
    BY <1>2, <1>5, <2>2, <2>3, RightKept
  <2>5. x.t = "set" => Older(x.id, a)'
    <3> SUFFICES ASSUME x.t = "set" PROVE Older(x.id, a)'
      OBVIOUS
    <3>1. PICK b : b = x.id
      OBVIOUS
    <3>2. b \in Addr /\ sets[b].kind = "sync" /\ SameSet(b)
      BY <2>3, <3>1
    <3>3. NotNewer(sets[b].files, m.files) /\ ~Found(b)
      BY <2>2, <3>1 DEF InOrder
    <3>4. sets[b].curNo < Len(Order) /\ RowsUpTo(sets[b].curNo, sets[b].files)
      BY <2>2, <3>1 DEF Right
    <3>5. s.curNo <= sets[b].curNo
      BY <1>2, <3>2, <3>4, CurListed
    <3>6. i <= sets[b].curNo
      BY <1>2, <3>2, <3>3, <3>4, <3>5, StepsOver
    <3>7. ~Found(b)'
      BY <1>2, <3>2, <3>3, FoundKept
    <3>8. sets'[b].files = sets[b].files /\ sets'[b].curNo = sets[b].curNo
      BY <3>2 DEF SameSet
    <3>9. Older(b, a)'
      BY <1>4, <3>3, <3>6, <3>7, <3>8 DEF Older, NotNewer
    <3> QED
      BY <3>1, <3>9
  <2>6. x.t = "list" => NotNewer(m.files, x.files)
    BY <2>2 DEF InOrder
  <2>7. sBusy' /\ Cuts' >= 1
    BY <1>2, <1>5, <2>2 DEF InOrder
  <2>8. InOrder(x, y)'
    BY <1>4, <1>12, <1>21, <2>3, <2>5, <2>6, <2>7 DEF InOrder, NotNewer
  <2> QED
    BY <2>1, <2>4, <2>8
<1>25. Orderly(U, n + 1)'
  BY <1>8, <1>9, <1>10, <1>11, <1>23, <1>24, HeadToTail
<1>26. Orderly(Alive, Len(Flow))'
  BY <1>7, <1>10, <1>25, OrderlyNext
<1>27. Waiting'
  <2> SUFFICES ASSUME ~sBusy', NEW j \in 1..Len(up)', NEW z, z = up'[j], OfSync(z)' PROVE ~Found(z.id)'
    BY DEF Waiting
  <2>1. CASE z = k
    BY <1>1, <1>21, <2>1 DEF Request
  <2>2. CASE j \in 1..Len(up) /\ z = up[j]
    <3>1. SameKind(z.id)
      BY <1>3, <2>2 DEF SameKinds, IsPart, OfSync
    <3>2. OfSync(z)
      BY <3>1 DEF OfSync, SameKind
    <3>3. ~Found(z.id)
      BY <1>2, <2>2, <3>2 DEF OlderAhead, Waiting
    <3>4. z.id \in Addr
      <4>1. up[j] \in Message
        BY <1>14, <2>2
      <4>2. IsPart(z)
        BY <3>2 DEF OfSync, IsPart
      <4> QED
        BY <2>2, <4>1, <4>2, MessageTyped
    <3>5. SameSet(z.id)
      BY <1>3, <3>2, <3>4 DEF OfSync
    <3> QED
      BY <1>2, <3>3, <3>5, FoundKept
  <2> QED
    BY <1>15, <2>1, <2>2
<1> QED
  BY <1>2, <1>26, <1>27 DEF OlderAhead
-----------------------------------------------------------------------------
(* OlderAhead is kept: a SYNCFILE that finds nothing missing is over.        *)

\* A set comes and goes in one step: what is listed stays listed, the sync that
\* may come next included.
LEMMA ListedThrough ==
  ASSUME IInv, BoundTyped, SetsListed, Cuts' = Cuts, NEW a \in Addr, \A i \in 1..Len(known) : known[i] # a,
         known' = Forgotten(Remembered(known, a), a), Pushed, NEW b, b # a, StillListed(b)
  PROVE  StillListed(b)'
<1>1. /\ Cuts \in Int /\ Cuts >= 0 /\ ListSize \in Nat
      /\ known \in Seq(Addr) /\ Len(known) <= ListSize - 1
  BY CutsTyped, FileSyncAssumption, KnownFits
<1>2. CASE Cuts >= ListSize - 1
  BY <1>2 DEF StillListed
<1>3. CASE ~(Cuts >= ListSize - 1)
  <2>1. PICK q, r, g, c : q = known /\ r = Remembered(q, a) /\ g = known' /\ c = Cuts
    OBVIOUS
  <2>2. KeptIn(q, b, 1, c)
    <3>1. Kept(q, b, 1)
      BY <1>3, <2>1 DEF StillListed
    <3> QED
      BY <2>1, <3>1, KeptIs
  <2>3. KeptIn(r, b, 0, c)
    BY <1>1, <1>3, <2>1, <2>2, KeptRemembered
  <2>4. KeptIn(r, a, 0, c)
    BY <1>1, <2>1, KeptNew
  <2>5. Distinct(q)
    BY <2>1 DEF SetsListed, Distinct
  <2>6. r \in Seq(Addr) /\ Distinct(r)
    BY <1>1, <2>1, <2>5, DistinctRemembered
  <2>7. KeptIn(g, b, 1, c)
    BY <1>1, <2>1, <2>3, <2>4, <2>6, KeptForgotten
  <2>8. Kept(g, b, 1)'
    BY <2>1, <2>7, KeptIsNext
  <2>9. \E i \in 1..Len(g) : g[i] = b /\ Len(g) - i + 1 <= c /\ Len(g) - i + 0 <= c
    <3>1. PICK i \in 1..Len(g) : g[i] = b /\ Len(g) - i + 1 <= c
      BY <2>7 DEF KeptIn
    <3>2. Len(g) \in Nat
      BY <1>1, <2>1, <2>6, DistinctForgotten
    <3> QED
      BY <1>1, <2>1, <3>1, <3>2
  <2>10. Kept(g, b, 0)'
    <3>1. KeptIn(g, b, 0, c)
      BY <2>9 DEF KeptIn
    <3> QED
      BY <2>1, <3>1, KeptIsNext
  <2>11. Kept(known, b, IF Pushed THEN 1 ELSE 0)'
    BY <2>1, <2>8, <2>10
  <2> QED
    BY <2>11 DEF StillListed
<1> QED
  BY <1>2, <1>3

LEMMA SyncNothingAhead ==
  ASSUME IInv, IInv', BoundTyped, SetsListed, SetsNamed, OlderAhead, NEW a \in Addr, RecvSyncFile(a),
         NEW m, m = Head(down), NEW s, s = NewSet("sync", m.files), NEW i, i = NextMissing(s), ~(i < Len(Order))
  PROVE  OlderAhead'
<1>1. PICK k : k = [kind |-> "fin"]
  OBVIOUS
<1>2. /\ job.at = "idle" /\ down # <<>> /\ down' = Tail(down) /\ m.kind = "SYNCFILE" /\ a \in Free
      /\ UNCHANGED <<sBusy, tbl, list, job, bound>>
      /\ Listed(m.files)
      /\ sets' = [sets EXCEPT ![a] = NoSet]
      /\ up' = Append(up, k) /\ known' = Forgotten(Remembered(known, a), a)
  BY <1>1, SyncTaken
<1>3. /\ SameKinds
      /\ \A b \in Addr : sets[b].kind = "sync" => SameSet(b) /\ b # a
  BY <1>2, FreeTaken
<1>4. \A j \in 1..Len(known) : known[j] # a
  BY <1>2, FreeUnused
<1>5. Cuts' = Cuts
  BY <1>2, BoundKept
<1>6. IsListing(m)
  BY <1>2 DEF IsListing
<1>7. PICK T, n, U : T = Alive /\ n = Len(Flow) - 1 /\ U = Alive'
  OBVIOUS
<1>8. /\ Stands(T[1]) /\ Pushed /\ 1 \in 1..Len(Flow) /\ T[1].t = "list"
      /\ ~sBusy => Cuts >= 1
  BY <1>2, <1>6, <1>7, ListingTaken
<1>9. n \in Nat /\ Len(Flow) = n + 1 /\ Orderly(T, n + 1)
  BY <1>7, <1>8, LinkLengths DEF OlderAhead
<1>10. Len(Flow)' = n + 1 /\ (\A p \in 1..n : U[p] = T[p + 1]) /\ U[n + 1] = Stand(k)'
  <2>1. /\ Len(Flow)' = Len(Flow)
        /\ \A p \in 1..Len(Flow) - 1 : Alive'[p] = Alive[p + 1]
        /\ Alive'[Len(Flow)] = Stand(k)'
    BY <1>2, <1>3, FlowAsked
  <2> QED
    BY <1>7, <1>9, <2>1
<1>11. PICK y : y = U[n + 1]
  OBVIOUS
<1>12. y.t = "fin"
  BY <1>1, <1>10, <1>11 DEF Stand, OfSync, IsListing
<1>13. \A p \in 1..n : Stands(T[p + 1]) => Right(T[p + 1]) /\ InOrder(T[1], T[p + 1])
  BY <1>8, <1>9, HeadOrdered
<1>14. \A p \in 1..n : p + 1 \in 1..Len(Flow)
  BY <1>9
<1>15. \A p \in 1..Len(Flow) : T[p].t = "set" => SameSet(T[p].id) /\ T[p].id # a
  BY <1>3, <1>7, TokenNamed
<1>16. Right(y)'
  BY <1>2, <1>5, <1>8, <1>12 DEF Right
<1>17. ASSUME NEW p \in 1..n, Stands(T[p + 1]) PROVE Right(T[p + 1])' /\ InOrder(T[p + 1], y)'
  <2>1. PICK x, z : x = T[p + 1] /\ z = T[1]
    OBVIOUS
  <2>2. Right(x) /\ InOrder(z, x)
    BY <1>13, <1>17, <2>1
  <2>3. x.t = "set" => /\ SameSet(x.id) /\ x.id # a
                       /\ StillListed(x.id) => StillListed(x.id)'
    BY <1>2, <1>4, <1>5, <1>8, <1>14, <1>15, <2>1, ListedThrough
  <2>4. Right(x)'
    BY <1>2, <1>5, <2>2, <2>3, RightKept
  <2>5. InOrder(x, y)'
    BY <1>2, <1>5, <1>12, <2>2 DEF InOrder
  <2> QED
    BY <2>1, <2>4, <2>5
<1>18. Orderly(U, n + 1)'
  BY <1>8, <1>9, <1>10, <1>11, <1>16, <1>17, HeadToTail
<1>19. Orderly(Alive, Len(Flow))'
  BY <1>7, <1>10, <1>18, OrderlyNext
<1>20. Waiting'
  <2>1. up \in Seq(Message)
    BY LinkMessages
  <2>2. \A p \in 1..Len(up)' : (p \in 1..Len(up) /\ up'[p] = up[p]) \/ up'[p] = k
    BY <1>2, <2>1, AppendElements
  <2>3. ~OfSync(k)'
    BY <1>1 DEF OfSync
  <2>4. \A p \in 1..Len(up)' : \/ \E q \in 1..Len(up) : up'[p] = up[q]
                               \/ \A z : z = up'[p] => ~OfSync(z)'
    BY <2>2, <2>3
  <2> QED
    BY <1>2, <1>3, <2>4, WaitingKept DEF OlderAhead
<1> QED
  BY <1>2, <1>19, <1>20 DEF OlderAhead

LEMMA SyncFileAhead ==
  ASSUME IInv, IInv', BoundTyped, SetsListed, SetsNamed, OlderAhead, NEW a \in Addr, RecvSyncFile(a)
  PROVE  OlderAhead'
<1>1. PICK m : m = Head(down)
  OBVIOUS
<1>2. PICK s : s = NewSet("sync", m.files)
  OBVIOUS
<1>3. PICK i : i = NextMissing(s)
  OBVIOUS
<1>4. CASE i < Len(Order)
  BY <1>1, <1>2, <1>3, <1>4, SyncAskedAhead
<1>5. CASE ~(i < Len(Order))
  BY <1>1, <1>2, <1>3, <1>5, SyncNothingAhead
<1> QED
  BY <1>4, <1>5
-----------------------------------------------------------------------------
(* OlderAhead is kept: a transfer is over after its last file.               *)

\* The set with its index moved on by one.
Advanced(set) == [set EXCEPT !.curNo = @ + 1]

\* The transfer moves on to its next missing file, or it is over.
LEMMA NextTaken ==
  ASSUME IInv, SetsListed, OlderAhead, NextFile, NEW a, a = job.set,
         NEW s, s = Advanced(sets[a]), NEW i, i = NextMissing(s)
  PROVE  /\ job.at = "saved" /\ job'.at = "idle" /\ job' = Idle /\ a \in Addr /\ sets[a].kind = "sync"
         /\ UNCHANGED <<srv, sBusy, down, disk, dirty, tbl, list, bound, lost, wild>>
         /\ sets[a].curNo \in Nat /\ sets[a].curNo < Len(Order) /\ Listed(sets[a].files)
         /\ s \in SetState /\ s.files = sets[a].files /\ s.curNo = sets[a].curNo + 1 /\ s.kind = "sync"
         /\ i \in Nat /\ s.curNo <= i /\ i <= Len(Order)
         /\ i < Len(Order) => /\ sets' = [sets EXCEPT ![a] = [s EXCEPT !.curNo = i]]
                              /\ up' = Append(up, Request(a, sets[a].files[i + 1].name))
                              /\ known' = known
                              /\ ~find_file_from_local_db(sets[a].files[i + 1])
         /\ ~(i < Len(Order)) => /\ sets' = [sets EXCEPT ![a] = NoSet]
                                 /\ up' = Append(up, [kind |-> "fin"])
                                 /\ known' = Forgotten(known, a)
<1>1. /\ job.at = "saved" /\ job' = Idle /\ ContinueWith(a, s, ring, known)
      /\ UNCHANGED <<srv, sBusy, down, disk, dirty, tbl, list, bound, lost, wild>>
  BY DEF NextFile, server, store, ghosts, Advanced
<1>2. /\ 1 \in 1..Len(Flow) /\ Stands(Alive[1]) /\ Alive[1].t = "set" /\ Alive[1].id = a
      /\ a \in Addr /\ sets[a].kind = "sync"
  BY <1>1, Front
<1>3. Right(Alive[1])
  BY <1>2 DEF OlderAhead, Orderly
<1>4. sets[a].curNo < Len(Order)
  BY <1>2, <1>3 DEF Right
<1>5. Listed(sets[a].files) /\ sets[a].curNo \in Nat /\ Len(sets[a].files) = Len(Order)
  BY <1>2, <1>4, CurListed
<1>6. sets[a] \in SetState
  BY <1>2 DEF IInv, JobHasFile
<1>7. s \in SetState /\ s.files = sets[a].files /\ s.curNo = sets[a].curNo + 1 /\ s.kind = "sync"
  BY <1>2, <1>5, <1>6 DEF SetState, Advanced
<1>8. s.curNo <= Len(s.files) /\ Len(s.files) = Len(Order)
  BY <1>4, <1>5, <1>7, OrderLength
<1>9. /\ i \in Nat /\ s.curNo <= i /\ i <= Len(Order)
      /\ i < Len(Order) => ~find_file_from_local_db(sets[a].files[i + 1])
  <2>1. /\ i \in Nat /\ s.curNo <= i /\ i <= Len(s.files)
        /\ i < Len(s.files) => ~find_file_from_local_db(s.files[i + 1])
    BY <1>7, <1>8, NextMissingIs
  <2>2. s.files = sets[a].files /\ Len(s.files) = Len(Order)
    BY <1>7, <1>8
  <2> QED
    BY <2>1, <2>2
<1>10. job'.at = "idle"
  BY <1>1 DEF Idle
<1>11. CASE i < Len(Order)
  <2>1. NextMissing(s) < Len(s.files)
    BY <1>8, <1>11
  <2>2. /\ sets' = [sets EXCEPT ![a] = [s EXCEPT !.curNo = i]]
        /\ up' = Append(up, Request(a, sets[a].files[i + 1].name))
        /\ known' = known
    BY <1>1, <1>7, <2>1 DEF ContinueWith
  <2> QED
    BY <1>1, <1>2, <1>4, <1>5, <1>7, <1>9, <1>10, <1>11, <2>2
<1>12. CASE ~(i < Len(Order))
  <2>1. ~(NextMissing(s) < Len(s.files))
    BY <1>8, <1>12
  <2>2. /\ sets' = [sets EXCEPT ![a] = NoSet]
        /\ up' = Append(up, [kind |-> "fin"])
        /\ known' = Forgotten(known, a)
    BY <1>1, <2>1 DEF ContinueWith
  <2> QED
    BY <1>1, <1>2, <1>4, <1>5, <1>7, <1>9, <1>10, <1>12, <2>2
<1> QED
  BY <1>11, <1>12

\* With a gone, what is listed stays listed, the sync that may come next included.
LEMMA ListedWithout ==
  ASSUME IInv, BoundTyped, SetsListed, Cuts' = Cuts, NEW a \in Addr, StillListed(a),
         known' = Forgotten(known, a), NEW b, b # a, StillListed(b)
  PROVE  StillListed(b)'
<1>1. /\ Cuts \in Int /\ Cuts >= 0 /\ ListSize \in Nat
      /\ known \in Seq(Addr) /\ Len(known) <= ListSize - 1
  BY CutsTyped, FileSyncAssumption, KnownFits
<1>2. CASE Cuts >= ListSize - 1
  BY <1>2 DEF StillListed
<1>3. CASE ~(Cuts >= ListSize - 1)
  <2>1. PICK q, g, c, n : q = known /\ g = known' /\ c = Cuts /\ n = IF Pushed THEN 1 ELSE 0
    OBVIOUS
  <2>2. KeptIn(q, a, n, c) /\ KeptIn(q, b, n, c)
    <3>1. Kept(q, a, n) /\ Kept(q, b, n)
      BY <1>3, <2>1 DEF StillListed
    <3> QED
      BY <2>1, <3>1, KeptIs
  <2>3. Distinct(q) /\ q \in Seq(Addr) /\ n \in {0, 1} /\ g = Forgotten(q, a)
    BY <1>1, <2>1 DEF SetsListed, Distinct
  <2>4. KeptIn(g, b, 1, c)
    BY <1>1, <2>1, <2>2, <2>3, KeptForgotten
  <2>5. Kept(g, b, 1)'
    BY <2>1, <2>4, KeptIsNext
  <2>6. \E i \in 1..Len(g) : g[i] = b /\ Len(g) - i + 1 <= c /\ Len(g) - i + 0 <= c
    <3>1. PICK i \in 1..Len(g) : g[i] = b /\ Len(g) - i + 1 <= c
      BY <2>4 DEF KeptIn
    <3>2. Len(g) \in Nat
      BY <2>3, DistinctForgotten
    <3> QED
      BY <1>1, <2>1, <3>1, <3>2
  <2>7. Kept(g, b, 0)'
    <3>1. KeptIn(g, b, 0, c)
      BY <2>6 DEF KeptIn
    <3> QED
      BY <2>1, <3>1, KeptIsNext
  <2>8. Kept(known, b, IF Pushed THEN 1 ELSE 0)'
    BY <2>1, <2>5, <2>7
  <2> QED
    BY <2>8 DEF StillListed
<1> QED
  BY <1>2, <1>3

LEMMA NextOverAhead ==
  ASSUME IInv, IInv', BoundTyped, SetsListed, SetsNamed, OlderAhead, PartsTogether, NextFile, NEW a, a = job.set,
         NEW s, s = Advanced(sets[a]), NEW i, i = NextMissing(s), ~(i < Len(Order))
  PROVE  OlderAhead'
<1>1. PICK k : k = [kind |-> "fin"]
  OBVIOUS
<1>2. /\ job.at = "saved" /\ job'.at = "idle" /\ a \in Addr /\ sets[a].kind = "sync"
      /\ UNCHANGED <<sBusy, down, tbl, list, bound>>
      /\ sets' = [sets EXCEPT ![a] = NoSet]
      /\ up' = Append(up, k) /\ known' = Forgotten(known, a)
  BY <1>1, NextTaken
<1>3. \A b \in Addr : b # a => SameSet(b) /\ sets'[b] = sets[b]
  BY <1>2 DEF SameSet, IInv, JobHasFile
<1>4. /\ \A p \in 1..Len(down) : IsPart(down[p]) => down[p].id # a /\ down[p].id \in Addr
      /\ \A p \in 1..Len(up) : IsPart(up[p]) => up[p].id # a /\ up[p].id \in Addr
  <2>1. down \in Seq(Message) /\ up \in Seq(Message)
    BY LinkMessages
  <2>2. /\ \A p \in 1..Len(down) : IsPart(down[p]) => down[p].id \in Addr
        /\ \A p \in 1..Len(up) : IsPart(up[p]) => up[p].id \in Addr
    BY <2>1, MessageTyped
  <2> QED
    BY <1>2, <2>2, OnlyHandled
<1>5. SameKinds
  BY <1>3, <1>4 DEF SameKinds, SameKind
<1>6. Cuts' = Cuts
  BY <1>2, BoundKept
<1>7. PICK T, n, U : T = Alive /\ n = Len(Flow) - 1 /\ U = Alive'
  OBVIOUS
<1>8. Stands(T[1]) /\ T[1].t = "set" /\ T[1].id = a /\ 1 \in 1..Len(Flow)
  BY <1>2, <1>7, Front
<1>9. n \in Nat /\ Len(Flow) = n + 1 /\ Orderly(T, n + 1)
  BY <1>7, <1>8, LinkLengths DEF OlderAhead
<1>10. Len(Flow)' = n + 1 /\ (\A p \in 1..n : U[p] = T[p + 1]) /\ U[n + 1] = Stand(k)'
  <2>1. /\ Len(Flow)' = Len(Flow)
        /\ \A p \in 1..Len(Flow) - 1 : Alive'[p] = Alive[p + 1]
        /\ Alive'[Len(Flow)] = Stand(k)'
    BY <1>2, <1>5, FlowAsked
  <2> QED
    BY <1>7, <1>9, <2>1
<1>11. PICK y : y = U[n + 1]
  OBVIOUS
<1>12. y.t = "fin"
  BY <1>1, <1>10, <1>11 DEF Stand, OfSync, IsListing
<1>13. /\ Right(T[1])
       /\ \A p \in 1..n : Stands(T[p + 1]) => Right(T[p + 1]) /\ InOrder(T[1], T[p + 1])
  BY <1>8, <1>9, HeadOrdered
<1>14. \A p \in 1..n : p + 1 \in 1..Len(Flow)
  BY <1>9
<1>15. \A p \in 1..Len(Flow) : T[p].t = "set" => T[p].id \in Addr
  BY <1>7, TokenNamed
<1>16. Right(y)'
  BY <1>2, <1>6, <1>12, <1>13 DEF Right
<1>17. StillListed(a)
  BY <1>8, <1>13 DEF Right
<1>18. ASSUME NEW p \in 1..n, Stands(T[p + 1]) PROVE Right(T[p + 1])' /\ InOrder(T[p + 1], y)'
  <2>1. PICK x, z : x = T[p + 1] /\ z = T[1]
    OBVIOUS
  <2>2. Right(x) /\ InOrder(z, x) /\ z.t = "set" /\ z.id = a
    BY <1>8, <1>13, <1>18, <2>1
  <2>3. x.t = "set" => x.id \in Addr /\ x.id # a
    BY <1>14, <1>15, <2>1, <2>2 DEF InOrder
  <2>4. x.t = "set" => SameSet(x.id) /\ (StillListed(x.id) => StillListed(x.id)')
    BY <1>2, <1>3, <1>6, <1>17, <2>3, ListedWithout
  <2>5. Right(x)'
    BY <1>2, <1>6, <2>2, <2>4, RightKept
  <2>6. InOrder(x, y)'
    BY <1>2, <1>6, <1>12, <2>2 DEF InOrder
  <2> QED
    BY <2>1, <2>5, <2>6
<1>19. Orderly(U, n + 1)'
  BY <1>8, <1>9, <1>10, <1>11, <1>16, <1>18, HeadToTail
<1>20. Orderly(Alive, Len(Flow))'
  BY <1>7, <1>10, <1>19, OrderlyNext
<1>21. Waiting'
  <2> SUFFICES ASSUME ~sBusy', NEW j \in 1..Len(up)', NEW z, z = up'[j], OfSync(z)' PROVE ~Found(z.id)'
    BY DEF Waiting
  <2>1. z # k
    BY <1>1 DEF OfSync
  <2>2. j \in 1..Len(up) /\ z = up[j]
    <3>1. up \in Seq(Message)
      BY LinkMessages
    <3>2. (j \in 1..Len(up) /\ up'[j] = up[j]) \/ up'[j] = k
      BY <1>2, <3>1, AppendElements
    <3> QED
      BY <2>1, <3>2
  <2>3. IsPart(z)
    BY DEF OfSync, IsPart
  <2>4. SameSet(z.id) /\ OfSync(z)
    BY <1>3, <1>4, <2>2, <2>3 DEF OfSync
  <2>5. ~Found(z.id)
    BY <1>2, <2>2, <2>4 DEF OlderAhead, Waiting
  <2> QED
    BY <1>2, <2>4, <2>5, FoundKept
<1> QED
  BY <1>2, <1>20, <1>21 DEF OlderAhead
-----------------------------------------------------------------------------
(* OlderAhead is kept: the next file is asked for.                           *)

LEMMA NextAskedAhead ==
  ASSUME IInv, IInv', BoundTyped, SetsListed, SetsNamed, OlderAhead, PartsTogether, NextFile, NEW a, a = job.set,
         NEW s, s = Advanced(sets[a]), NEW i, i = NextMissing(s), i < Len(Order)
  PROVE  OlderAhead'
<1>1. PICK k : k = Request(a, sets[a].files[i + 1].name)
  OBVIOUS
<1>2. /\ job.at = "saved" /\ job'.at = "idle" /\ a \in Addr /\ sets[a].kind = "sync"
      /\ UNCHANGED <<sBusy, down, tbl, list, bound>>
      /\ sets[a].curNo \in Nat /\ sets[a].curNo < Len(Order) /\ Listed(sets[a].files)
      /\ s \in SetState /\ s.files = sets[a].files /\ s.curNo = sets[a].curNo + 1 /\ s.kind = "sync"
      /\ i \in Nat /\ s.curNo <= i
      /\ sets' = [sets EXCEPT ![a] = [s EXCEPT !.curNo = i]]
      /\ up' = Append(up, k) /\ known' = known
      /\ ~find_file_from_local_db(sets[a].files[i + 1])
  BY <1>1, NextTaken, SMTT(20)
<1>3. \A b \in Addr : b # a => SameSet(b) /\ sets'[b] = sets[b]
  BY <1>2 DEF SameSet, IInv, JobHasFile
<1>4. sets'[a].kind = "sync" /\ sets'[a].files = sets[a].files /\ sets'[a].curNo = i
  <2>1. sets'[a] = [s EXCEPT !.curNo = i]
    BY <1>2 DEF IInv, JobHasFile
  <2> QED
    BY <1>2, <2>1 DEF SetState
<1>5. /\ \A p \in 1..Len(down) : IsPart(down[p]) => down[p].id # a /\ down[p].id \in Addr
      /\ \A p \in 1..Len(up) : IsPart(up[p]) => up[p].id # a /\ up[p].id \in Addr
  <2>1. down \in Seq(Message) /\ up \in Seq(Message)
    BY LinkMessages
  <2>2. /\ \A p \in 1..Len(down) : IsPart(down[p]) => down[p].id \in Addr
        /\ \A p \in 1..Len(up) : IsPart(up[p]) => up[p].id \in Addr
    BY <2>1, MessageTyped
  <2> QED
    BY <1>2, <2>2, OnlyHandled
<1>6. SameKinds
  BY <1>3, <1>5 DEF SameKinds, SameKind
<1>7. Cuts' = Cuts
  BY <1>2, BoundKept
<1>8. PICK T, n, U : T = Alive /\ n = Len(Flow) - 1 /\ U = Alive'
  OBVIOUS
<1>9. Stands(T[1]) /\ T[1].t = "set" /\ T[1].id = a /\ 1 \in 1..Len(Flow)
  BY <1>2, <1>8, Front
<1>10. n \in Nat /\ Len(Flow) = n + 1 /\ Orderly(T, n + 1)
  BY <1>8, <1>9, LinkLengths DEF OlderAhead
<1>11. Len(Flow)' = n + 1 /\ (\A p \in 1..n : U[p] = T[p + 1]) /\ U[n + 1] = Stand(k)'
  <2>1. /\ Len(Flow)' = Len(Flow)
        /\ \A p \in 1..Len(Flow) - 1 : Alive'[p] = Alive[p + 1]
        /\ Alive'[Len(Flow)] = Stand(k)'
    BY <1>2, <1>6, FlowAsked
  <2> QED
    BY <1>8, <1>10, <2>1
<1>12. PICK y : y = U[n + 1]
  OBVIOUS
<1>13. y.t = "set" /\ y.id = a
  BY <1>1, <1>4, <1>11, <1>12 DEF Stand, OfSync, Request
<1>14. /\ Right(T[1])
       /\ \A p \in 1..n : Stands(T[p + 1]) => Right(T[p + 1]) /\ InOrder(T[1], T[p + 1])
  BY <1>9, <1>10, HeadOrdered
<1>15. \A p \in 1..n : p + 1 \in 1..Len(Flow)
  BY <1>10
<1>16. \A p \in 1..Len(Flow) : T[p].t = "set" => T[p].id \in Addr /\ sets[T[p].id].kind = "sync"
  BY <1>8, TokenNamed
<1>17. up \in Seq(Message) /\ \A p \in 1..Len(up)' : (p \in 1..Len(up) /\ up'[p] = up[p]) \/ up'[p] = k
  <2>1. up \in Seq(Message)
    BY LinkMessages
  <2> QED
    BY <1>2, <2>1, AppendElements
<1>18. Pushed' => Pushed
  <2>1. k.kind # "fin"
    BY <1>1 DEF Request
  <2> QED
    BY <1>2, <1>17, <2>1 DEF Pushed
<1>19. \A b : StillListed(b) => StillListed(b)'
  BY <1>2, <1>7, <1>18, ListedKept
<1>20. ~Found(a)'
  <2>1. PICK want : want = sets[a].files[i + 1]
    OBVIOUS
  <2>2. Cur(a)' = want
    BY <1>4, <2>1 DEF Cur
  <2>3. ~find_file_from_local_db(want)'
    BY <1>2, <2>1, FindKept
  <2> QED
    BY <2>2, <2>3 DEF Found
<1>21. Right(y)'
  <2>1. ~sBusy' => Cuts' >= 1
    BY <1>2, <1>7, <1>14 DEF Right
  <2>2. RowsUpTo(sets[a].curNo, sets[a].files) /\ StillListed(a)
    BY <1>9, <1>14 DEF Right
  <2>3. RowsUpTo(sets[a].curNo, sets[a].files)'
    <3>1. \A l \in 1..Len(Order) : l > i => tbl'[Order[l]] <= sets[a].files[l].ver
      <4>1. tbl' = tbl /\ i \in Nat /\ Len(Order) \in Nat /\ sets[a].curNo \in Nat /\ sets[a].curNo < i
        BY <1>2, OrderLength
      <4>2. \A l \in 1..Len(Order) : l > sets[a].curNo => tbl[Order[l]] <= sets[a].files[l].ver
        BY <2>2 DEF RowsUpTo
      <4> QED
        BY <4>1, <4>2
    <3> QED
      BY <1>4, <3>1 DEF RowsUpTo
  <2>4. sets'[a].curNo < Len(Order) /\ StillListed(a)'
    BY <1>4, <1>19, <2>2
  <2> QED
    BY <1>13, <2>1, <2>3, <2>4 DEF Right
<1>22. ASSUME NEW p \in 1..n, Stands(T[p + 1]) PROVE Right(T[p + 1])' /\ InOrder(T[p + 1], y)'
  <2>1. PICK x, z : x = T[p + 1] /\ z = T[1]
    OBVIOUS
  <2>2. Right(x) /\ InOrder(z, x) /\ z.t = "set" /\ z.id = a
    BY <1>9, <1>14, <1>22, <2>1
  <2>3. x.t = "set" => x.id \in Addr /\ sets[x.id].kind = "sync" /\ x.id # a /\ SameSet(x.id)
    BY <1>3, <1>15, <1>16, <2>1, <2>2 DEF InOrder
  <2>4. Right(x)'
    BY <1>2, <1>7, <1>19, <2>2, <2>3, RightKept
  <2>5. x.t = "set" => (Older(x.id, a) \/ (Older(a, x.id) /\ sets[x.id].curNo # sets[a].curNo))'
    <3> SUFFICES ASSUME x.t = "set" PROVE (Older(x.id, a) \/ (Older(a, x.id) /\ sets[x.id].curNo # sets[a].curNo))'
      OBVIOUS
    <3>1. PICK b : b = x.id
      OBVIOUS
    <3>2. b \in Addr /\ sets[b].kind = "sync" /\ SameSet(b) /\ b # a
      BY <2>3, <3>1
    <3>3. /\ Older(a, b) \/ (Older(b, a) /\ sets[a].curNo # sets[b].curNo)
          /\ sets[b].curNo < Len(Order) /\ RowsUpTo(sets[b].curNo, sets[b].files)
      BY <2>2, <3>1 DEF InOrder, Right
    <3>4. sets[b].curNo \in Nat
      BY <3>2, <3>3, CurListed
    <3>5. sets'[b].files = sets[b].files /\ sets'[b].curNo = sets[b].curNo
      BY <3>2 DEF SameSet
    <3>6. CASE Older(a, b)
      <4>1. sets[b].curNo < i
        BY <1>2, <3>4, <3>6 DEF Older
      <4>2. Older(a, b)'
        BY <1>2, <1>4, <1>20, <3>4, <3>5, <3>6, <4>1 DEF Older, NotNewer
      <4> QED
        BY <1>2, <1>4, <3>1, <3>4, <3>5, <4>1, <4>2
    <3>7. CASE Older(b, a) /\ sets[a].curNo # sets[b].curNo
      <4>1. NotNewer(sets[b].files, s.files) /\ s.curNo <= sets[b].curNo
        BY <1>2, <3>4, <3>7 DEF Older
      <4>2. ~Found(b)
        BY <1>2, <3>2, <3>7 DEF Older, Saved
      <4>3. i <= sets[b].curNo
        BY <1>2, <3>2, <3>3, <4>1, <4>2, StepsOver
      <4>4. ~Found(b)'
        BY <1>2, <3>2, <4>2, FoundKept
      <4>5. Older(b, a)'
        BY <1>4, <3>5, <3>7, <4>3, <4>4 DEF Older, NotNewer
      <4> QED
        BY <3>1, <4>5
    <3> QED
      BY <3>3, <3>6, <3>7
  <2>6. x.t = "list" => NotNewer(sets[a].files, x.files)
    BY <2>2 DEF InOrder
  <2>7. sBusy' /\ Cuts' >= 1
    BY <1>2, <1>7, <2>2 DEF InOrder
  <2>8. InOrder(x, y)'
    BY <1>4, <1>13, <1>20, <2>3, <2>5, <2>6, <2>7 DEF InOrder, NotNewer
  <2> QED
    BY <2>1, <2>4, <2>8
<1>23. Orderly(U, n + 1)'
  BY <1>9, <1>10, <1>11, <1>12, <1>21, <1>22, HeadToTail
<1>24. Orderly(Alive, Len(Flow))'
  BY <1>8, <1>11, <1>23, OrderlyNext
<1>25. Waiting'
  <2> SUFFICES ASSUME ~sBusy', NEW j \in 1..Len(up)', NEW z, z = up'[j], OfSync(z)' PROVE ~Found(z.id)'
    BY DEF Waiting
  <2>1. CASE z = k
    BY <1>1, <1>20, <2>1 DEF Request
  <2>2. CASE j \in 1..Len(up) /\ z = up[j]
    <3>1. IsPart(z)
      BY DEF OfSync, IsPart
    <3>2. SameSet(z.id) /\ OfSync(z)
      BY <1>3, <1>5, <2>2, <3>1 DEF OfSync
    <3>3. ~Found(z.id)
      BY <1>2, <2>2, <3>2 DEF OlderAhead, Waiting
    <3> QED
      BY <1>2, <3>2, <3>3, FoundKept
  <2> QED
    BY <1>17, <2>1, <2>2
<1> QED
  BY <1>2, <1>24, <1>25 DEF OlderAhead

LEMMA NextFileAhead ==
  ASSUME IInv, IInv', BoundTyped, SetsListed, SetsNamed, OlderAhead, PartsTogether, NextFile
  PROVE  OlderAhead'
<1>1. PICK a : a = job.set
  OBVIOUS
<1>2. PICK s : s = Advanced(sets[a])
  OBVIOUS
<1>3. PICK i : i = NextMissing(s)
  OBVIOUS
<1>4. CASE i < Len(Order)
  BY <1>1, <1>2, <1>3, <1>4, NextAskedAhead
<1>5. CASE ~(i < Len(Order))
  BY <1>1, <1>2, <1>3, <1>5, NextOverAhead
<1> QED
  BY <1>4, <1>5
-----------------------------------------------------------------------------
(* The parts of an answer stay together.                                     *)

\* A part that is on the way to the board.
LEMMA PartIs ==
  ASSUME NEW d \in Seq(ToBoard), NEW p \in 1..Len(d), d[p].kind \in {"BEGIN", "BODY", "END"}
  PROVE  d[p] \in ToBoard /\ d[p].id \in Addr /\ d[p].ver \in Version /\ SizeOf[d[p].ver] \in Nat
<1>1. d[p] \in ToBoard
  OBVIOUS
<1>2. d[p].id \in Addr /\ d[p].ver \in Version
  BY <1>1, BoardMessage
<1> QED
  BY <1>1, <1>2, FileSyncAssumption

LEMMA TogetherTail ==
  ASSUME NEW d \in Seq(ToBoard), d # <<>>, Together(d)
  PROVE  Together(Tail(d))
<1>1. PICK t, n : t = Tail(d) /\ n = Len(t)
  OBVIOUS
<1>2. n \in Nat /\ Len(d) = n + 1 /\ \A p \in 1..n : p + 1 \in 1..n + 1 /\ t[p] = d[p + 1]
  BY <1>1, TailElements
<1>3. ASSUME NEW e \in 1..n, t[e].kind = "END", NEW p \in 1..e - 1
      PROVE  /\ p >= e - SizeOf[t[e].ver] => t[p] = Part("BODY", t[e])
             /\ p = e - SizeOf[t[e].ver] - 1 => t[p] = Part("BEGIN", t[e])
  <2>1. PICK m, z : m = d[e + 1] /\ z = SizeOf[m.ver]
    OBVIOUS
  <2>2. e + 1 \in 1..Len(d) /\ t[e] = m /\ m.kind = "END" /\ p \in 1..n /\ t[p] = d[p + 1]
    BY <1>2, <1>3, <2>1
  <2>3. z \in Nat
    BY <2>1, <2>2, PartIs
  <2>4. p + 1 \in 1..(e + 1) - 1
    BY <1>2
  <2>5. /\ p + 1 >= (e + 1) - z => d[p + 1] = Part("BODY", m)
        /\ p + 1 = (e + 1) - z - 1 => d[p + 1] = Part("BEGIN", m)
    BY <2>1, <2>2, <2>4 DEF Together
  <2>6. (p >= e - z => p + 1 >= (e + 1) - z) /\ (p = e - z - 1 => p + 1 = (e + 1) - z - 1)
    BY <1>2, <2>3
  <2> QED
    BY <2>1, <2>2, <2>5, <2>6
<1>4. ASSUME NEW p \in 1..n, t[p].kind \in {"BEGIN", "BODY"}
      PROVE  \E e \in 1..n : /\ p < e /\ t[e].kind = "END" /\ t[e].id = t[p].id
                             /\ t[e].ver = t[p].ver /\ p >= e - SizeOf[t[e].ver] - 1
  <2>1. p + 1 \in 1..Len(d) /\ t[p] = d[p + 1]
    BY <1>2
  <2>2. PICK e \in 1..Len(d) : /\ p + 1 < e /\ d[e].kind = "END" /\ d[e].id = t[p].id
                               /\ d[e].ver = t[p].ver /\ p + 1 >= e - SizeOf[d[e].ver] - 1
    BY <1>4, <2>1 DEF Together
  <2>3. PICK z \in Nat : z = SizeOf[d[e].ver]
    BY <2>2, PartIs
  <2>4. /\ e - 1 \in 1..n /\ (e - 1) + 1 = e /\ p < e - 1
        /\ p >= (e - 1) - SizeOf[d[e].ver] - 1
    <3>1. e \in 1..n + 1 /\ p \in 1..n /\ p + 1 < e /\ p + 1 >= e - z - 1
      BY <1>2, <2>2, <2>3
    <3>2. e - 1 \in 1..n /\ (e - 1) + 1 = e /\ p < e - 1 /\ p >= (e - 1) - z - 1
      BY <1>2, <2>3, <3>1, SMTT(20)
    <3> QED
      BY <2>3, <3>2
  <2>5. t[e - 1] = d[e]
    BY <1>2, <2>4
  <2> QED
    BY <2>2, <2>4, <2>5
<1> QED
  BY <1>1, <1>3, <1>4 DEF Together

LEMMA TogetherAppend ==
  ASSUME NEW d \in Seq(ToBoard), Together(d), NEW k, ~IsPart(k)
  PROVE  Together(Append(d, k))
<1>1. PICK t, n : t = Append(d, k) /\ n = Len(d)
  OBVIOUS
<1>2. /\ n \in Nat /\ Len(t) = n + 1 /\ t[n + 1] = k
      /\ \A p \in 1..n : t[p] = d[p]
      /\ \A p \in 1..n + 1 : p \in 1..n \/ p = n + 1
  BY <1>1, AppendElements
<1>3. \A p \in 1..n + 1 : IsPart(t[p]) => p \in 1..n
  BY <1>2
<1>4. ASSUME NEW e \in 1..n, t[e].kind = "END", NEW p \in 1..e - 1
      PROVE  /\ p >= e - SizeOf[t[e].ver] => t[p] = Part("BODY", t[e])
             /\ p = e - SizeOf[t[e].ver] - 1 => t[p] = Part("BEGIN", t[e])
  <2>1. p \in 1..n
    BY <1>2
  <2>2. t[p] = d[p] /\ t[e] = d[e]
    BY <1>2, <2>1
  <2> QED
    BY <1>1, <1>4, <2>2 DEF Together
<1>5. ASSUME NEW p \in 1..n, t[p].kind \in {"BEGIN", "BODY"}
      PROVE  \E e \in 1..n : /\ p < e /\ t[e].kind = "END" /\ t[e].id = t[p].id
                             /\ t[e].ver = t[p].ver /\ p >= e - SizeOf[t[e].ver] - 1
  <2>1. t[p] = d[p]
    BY <1>2
  <2>2. PICK e \in 1..n : /\ p < e /\ d[e].kind = "END" /\ d[e].id = t[p].id
                          /\ d[e].ver = t[p].ver /\ p >= e - SizeOf[d[e].ver] - 1
    BY <1>1, <1>5, <2>1 DEF Together
  <2>3. t[e] = d[e]
    BY <1>2
  <2> QED
    BY <2>2, <2>3
<1>6. \A e \in 1..n : e \in 1..n + 1
  BY <1>2
<1>7. \A p \in 1..n + 1 : t[p].kind \in {"BEGIN", "BODY", "END"} => p \in 1..n
  BY <1>3 DEF IsPart
<1>8. \A p \in 1..n + 1 : t[p].kind \in {"BEGIN", "BODY"} =>
          \E e \in 1..n + 1 : /\ p < e /\ t[e].kind = "END" /\ t[e].id = t[p].id
                              /\ t[e].ver = t[p].ver /\ p >= e - SizeOf[t[e].ver] - 1
  <2> SUFFICES ASSUME NEW p \in 1..n + 1, t[p].kind \in {"BEGIN", "BODY"}
               PROVE  \E e \in 1..n + 1 : /\ p < e /\ t[e].kind = "END" /\ t[e].id = t[p].id
                                          /\ t[e].ver = t[p].ver /\ p >= e - SizeOf[t[e].ver] - 1
    OBVIOUS
  <2>1. p \in 1..n
    BY <1>7
  <2> QED
    BY <1>5, <1>6, <2>1
<1> QED
  BY <1>1, <1>2, <1>4, <1>7, <1>8 DEF Together

\* The server's answer comes as a whole.
LEMMA TogetherAnswer ==
  ASSUME NEW d \in Seq(ToBoard), Together(d), NEW q \in Seq(ToBoard), NEW a, NEW v \in Version, Answer(q, a, v)
  PROVE  Together(d \o q)
<1>1. PICK t, n, z : t = d \o q /\ n = Len(d) /\ z = SizeOf[v]
  OBVIOUS
<1>2. n \in Nat /\ z \in Nat /\ Len(q) = z + 2
  BY <1>1, FileSyncAssumption DEF Answer
<1>3. /\ Len(t) = n + (z + 2)
      /\ \A p \in 1..n + (z + 2) : t[p] = IF p <= n THEN d[p] ELSE q[p - n]
  <2>1. /\ Len(d \o q) = Len(d) + Len(q)
        /\ \A p \in 1..Len(d) + Len(q) : (d \o q)[p] = IF p <= Len(d) THEN d[p] ELSE q[p - Len(d)]
    BY ConcatProperties
  <2>2. d \o q = t /\ Len(d) = n /\ Len(q) = z + 2
    BY <1>1, <1>2
  <2> QED
    BY <2>1, <2>2
<1>4. \A p \in 1..n : p \in 1..n + (z + 2) /\ t[p] = d[p]
  BY <1>2, <1>3
<1>5. PICK c : c = n + (z + 2)
  OBVIOUS
<1>6. \A p \in 1..c : p > n =>
         /\ t[p] = [kind |-> IF p = n + 1 THEN "BEGIN" ELSE IF p = c THEN "END" ELSE "BODY", id |-> a, ver |-> v]
         /\ t[p].id = a /\ t[p].ver = v
         /\ p = n + 1 => t[p].kind = "BEGIN" /\ t[p] = [kind |-> "BEGIN", id |-> a, ver |-> v]
         /\ p # n + 1 /\ p # c => t[p].kind = "BODY" /\ t[p] = [kind |-> "BODY", id |-> a, ver |-> v]
         /\ p # n + 1 /\ p = c => t[p].kind = "END" /\ t[p] = [kind |-> "END", id |-> a, ver |-> v]
  <2> SUFFICES ASSUME NEW p \in 1..c, p > n
               PROVE  /\ t[p] = [kind |-> IF p = n + 1 THEN "BEGIN" ELSE IF p = c THEN "END" ELSE "BODY",
                                 id |-> a, ver |-> v]
                      /\ t[p].id = a /\ t[p].ver = v
                      /\ p = n + 1 => t[p].kind = "BEGIN" /\ t[p] = [kind |-> "BEGIN", id |-> a, ver |-> v]
                      /\ p # n + 1 /\ p # c => t[p].kind = "BODY" /\ t[p] = [kind |-> "BODY", id |-> a, ver |-> v]
                      /\ p # n + 1 /\ p = c => t[p].kind = "END" /\ t[p] = [kind |-> "END", id |-> a, ver |-> v]
    OBVIOUS
  <2>1. p - n \in 1..z + 2 /\ (p - n = 1 <=> p = n + 1) /\ (p - n = z + 2 <=> p = c) /\ ~(p <= n)
    BY <1>2, <1>5
  <2>2. t[p] = q[p - n]
    BY <1>3, <1>5, <2>1
  <2>3. q[p - n] = [kind |-> IF p - n = 1 THEN "BEGIN" ELSE IF p - n = z + 2 THEN "END" ELSE "BODY",
                    id |-> a, ver |-> v]
    BY <1>2, <2>1 DEF Answer
  <2> QED
    BY <2>1, <2>2, <2>3
<1>7. c \in 1..c /\ c > n /\ c > n + 1 /\ n + 1 = c - z - 1 /\ Len(t) = c
  BY <1>2, <1>3, <1>5
<1>8. t[c] = [kind |-> "END", id |-> a, ver |-> v] /\ t[c].kind = "END" /\ t[c].id = a /\ t[c].ver = v
  BY <1>6, <1>7
<1>9. ASSUME NEW e \in 1..c, t[e].kind = "END", NEW p \in 1..e - 1
      PROVE  /\ p >= e - SizeOf[t[e].ver] => t[p] = Part("BODY", t[e])
             /\ p = e - SizeOf[t[e].ver] - 1 => t[p] = Part("BEGIN", t[e])
  <2>1. CASE e <= n
    <3>1. e \in 1..n /\ p \in 1..n
      BY <1>2, <2>1
    <3>2. t[p] = d[p] /\ t[e] = d[e]
      BY <1>4, <3>1
    <3> QED
      BY <1>1, <1>9, <3>1, <3>2 DEF Together
  <2>2. CASE e > n
    <3>1. e = c
      BY <1>6, <1>9, <2>2
    <3>2. p \in 1..c /\ p # c
      BY <1>5, <1>2, <3>1
    <3>3. p >= c - z => p > n /\ p # n + 1
      BY <1>2, <1>5, <3>2
    <3>4. p = c - z - 1 => p > n /\ p = n + 1
      BY <1>2, <1>5, <3>2
    <3>5. p >= c - z => t[p] = [kind |-> "BODY", id |-> a, ver |-> v]
      BY <1>6, <3>2, <3>3
    <3>6. p = c - z - 1 => t[p] = [kind |-> "BEGIN", id |-> a, ver |-> v]
      BY <1>6, <3>2, <3>4
    <3> QED
      BY <1>1, <1>8, <3>1, <3>5, <3>6 DEF Part
  <2> QED
    BY <1>2, <1>5, <2>1, <2>2
<1>10. ASSUME NEW p \in 1..c, t[p].kind \in {"BEGIN", "BODY"}
       PROVE  \E e \in 1..c : /\ p < e /\ t[e].kind = "END" /\ t[e].id = t[p].id
                              /\ t[e].ver = t[p].ver /\ p >= e - SizeOf[t[e].ver] - 1
  <2>1. CASE p <= n
    <3>1. p \in 1..n
      BY <1>2, <2>1
    <3>2. t[p] = d[p]
      BY <1>4, <3>1
    <3>3. PICK e \in 1..n : /\ p < e /\ d[e].kind = "END" /\ d[e].id = t[p].id
                            /\ d[e].ver = t[p].ver /\ p >= e - SizeOf[d[e].ver] - 1
      BY <1>1, <1>10, <3>1, <3>2 DEF Together
    <3>4. t[e] = d[e] /\ e \in 1..c
      BY <1>4, <1>5
    <3> QED
      BY <3>3, <3>4
  <2>2. CASE p > n
    <3>1. t[p].id = a /\ t[p].ver = v /\ p # c
      BY <1>6, <1>8, <1>10, <2>2
    <3>2. p < c /\ p >= c - z - 1
      BY <1>2, <1>5, <2>2, <3>1
    <3> QED
      BY <1>1, <1>7, <1>8, <3>1, <3>2
  <2> QED
    BY <1>2, <1>5, <2>1, <2>2
<1> QED
  BY <1>1, <1>7, <1>9, <1>10 DEF Together

LEMMA BoundStep ==
  ASSUME BoundTyped, Next
  PROVE  /\ BoundTyped' /\ bound'.updates <= bound.updates /\ Cuts' >= Cuts
         /\ bound.updates \in 0..MaxUpdates /\ bound'.updates \in 0..MaxUpdates
<1>1. Cuts \in Nat /\ bound.updates \in 0..MaxUpdates
  BY CutsTyped, FileSyncAssumption DEF BoundTyped
<1>2. CASE bound' = bound
  <2>1. BoundTyped' /\ Cuts' = Cuts
    BY <1>2, BoundKept
  <2> QED
    BY <1>1, <1>2, <2>1, FileSyncAssumption
<1>3. ASSUME NEW what \in {"edits", "cuts", "restarts", "updates", "wipes"}, Spend(what)
      PROVE  /\ BoundTyped' /\ bound'.updates <= bound.updates /\ Cuts' >= Cuts
             /\ bound'.updates \in 0..MaxUpdates
  <2>1. /\ BoundTyped' /\ bound'.updates <= bound.updates
        /\ Cuts' = IF what = "cuts" THEN Cuts + 1 ELSE Cuts
    BY <1>3, Spent
  <2>2. bound'.updates \in 0..MaxUpdates
    BY <2>1 DEF BoundTyped
  <2> QED
    BY <1>1, <2>1, <2>2
<1>4. bound' = bound \/ \E what \in {"edits", "cuts", "restarts", "updates", "wipes"} : Spend(what)
  BY DEF Next, Handlers, RecvSyncFile, RecvCompleteSync, RecvUpdateFile, RecvCompleteSyncEnd, RecvFileBegin,
         RecvFileBody, RecvFileEnd, RecvFile, WriteFile, SyncDisk, SaveLocalFile, NextFile, WildTransfer,
         ServerEdits, ServerUpdates, ServerSyncs, ServerSyncsAll, ServerAnswers, ServerGivesUp, LinkCut, Restart
<1> QED
  BY <1>1, <1>2, <1>3, <1>4

\* A message that is handled is the first one, and the rest stays.
LEMMA DownTaken ==
  ASSUME IInv, job = Idle, down # <<>>, down' = Tail(down)
  PROVE  /\ down \in Seq(ToBoard) /\ down' \in Seq(ToBoard) /\ Head(down) = down[1] /\ 1 \in 1..Len(down)
         /\ Len(down) \in Nat /\ Len(down') = Len(down) - 1
         /\ \A p \in 1..Len(down') : p + 1 \in 1..Len(down) /\ down'[p] = down[p + 1]
<1>1. down \in Seq(ToBoard)
  BY DEF IInv, LinkTyped
<1> QED
  BY <1>1, TailElements

LEMMA PartsStep ==
  ASSUME IInv, PartsTogether, Next
  PROVE  PartsTogether'
<1>1. down \in Seq(ToBoard) /\ Together(down)
  BY DEF IInv, LinkTyped, PartsTogether
<1>2. PICK d : d = down'
  OBVIOUS
<1> SUFFICES Together(d)
  BY <1>2 DEF PartsTogether, Together
<1>3. CASE down # <<>> /\ down' = Tail(down)
  BY <1>1, <1>2, <1>3, TogetherTail
<1>4. CASE down' = down
  BY <1>1, <1>2, <1>4
<1>5. CASE down' = <<>>
  BY <1>2, <1>5 DEF Together
<1>6. ASSUME NEW k, down' = Append(down, k), ~IsPart(k) PROVE Together(d)
  BY <1>1, <1>2, <1>6, TogetherAppend
<1>7. ASSUME NEW f \in File, ServerUpdates(f) PROVE Together(d)
  BY <1>6, <1>7 DEF ServerUpdates, IsPart
<1>8. ASSUME NEW kind \in {"SYNCFILE", "COMPLETESYNC"}, Sync(kind) PROVE Together(d)
  BY <1>6, <1>8 DEF Sync, IsPart
<1>9. CASE ServerAnswers
  <2>1. PICK m : m = Head(up)
    OBVIOUS
  <2>2. CASE m.kind = "fin"
    BY <1>4, <1>9, <2>1, <2>2 DEF ServerAnswers
  <2>3. CASE m.kind # "fin"
    <3>1. m.id \in Addr /\ srv[m.name] \in Version
      BY <1>9, <2>1, <2>3, Answered
    <3>2. PICK q \in Seq(ToBoard) : Answer(q, m.id, srv[m.name]) /\ down' = down \o q
      BY <1>9, <2>1, <2>3, Answered
    <3> QED
      BY <1>1, <1>2, <3>1, <3>2, TogetherAnswer
  <2> QED
    BY <2>2, <2>3
<1>10. CASE Handlers
  <2>1. (down # <<>> /\ down' = Tail(down)) \/ down' = down \/ down' = <<>>
    BY <1>10 DEF Handlers, RecvSyncFile, RecvCompleteSync, RecvUpdateFile, RecvCompleteSyncEnd, RecvFileBegin,
         RecvFileBody, RecvFileEnd, RecvFile, Receive, WriteFile, SyncDisk, SaveLocalFile, NextFile,
         WildTransfer, Reboot
  <2> QED
    BY <1>3, <1>4, <1>5, <2>1
<1>11. CASE ServerSyncs \/ ServerSyncsAll
  BY <1>8, <1>11 DEF ServerSyncs, ServerSyncsAll
<1>12. CASE ServerGivesUp \/ LinkCut \/ Restart \/ \E f \in File : ServerEdits(f)
  BY <1>4, <1>5, <1>12 DEF ServerGivesUp, LinkCut, Restart, Reboot, ServerEdits
<1> QED
  BY <1>7, <1>9, <1>10, <1>11, <1>12 DEF Next

\* The next message is part of the answer whose end is e, if that is near.
LEMMA NearEnd ==
  ASSUME IInv, PartsTogether, NEW e \in 1..Len(down), down[e].kind = "END", e >= 2,
         e <= SizeOf[down[e].ver] + 2
  PROVE  /\ down[1].id = down[e].id /\ down[1].ver = down[e].ver
         /\ e <= SizeOf[down[e].ver] + 1 => down[1].kind = "BODY"
         /\ e = SizeOf[down[e].ver] + 2 => down[1].kind = "BEGIN"
<1>1. PICK z : z = SizeOf[down[e].ver]
  OBVIOUS
<1>2. down \in Seq(ToBoard) /\ z \in Nat
  BY <1>1, PartIs DEF IInv, LinkTyped
<1>3. /\ 1 \in 1..e - 1 /\ (e <= z + 1 => 1 >= e - z) /\ (e = z + 2 => 1 = e - z - 1)
      /\ e <= z + 1 \/ e = z + 2
  BY <1>1, <1>2
<1>4. /\ 1 >= e - z => down[1] = Part("BODY", down[e])
      /\ 1 = e - z - 1 => down[1] = Part("BEGIN", down[e])
  BY <1>1, <1>3 DEF PartsTogether, Together
<1> QED
  BY <1>1, <1>2, <1>3, <1>4 DEF Part
-----------------------------------------------------------------------------
(* What the handlers make of the sets, and of what is listed.                *)

\* COMPLETESYNC: the set is listed and the files are gone.
LEMMA CompleteTaken ==
  ASSUME IInv, SetsListed, NEW a \in Addr, RecvCompleteSync(a), NEW m, m = Head(down)
  PROVE  /\ job = Idle /\ down # <<>> /\ down' = Tail(down) /\ m.kind = "COMPLETESYNC" /\ a \in Free
         /\ m = down[1] /\ 1 \in 1..Len(down) /\ Listed(m.files)
         /\ \E s \in SetState : /\ sets' = [sets EXCEPT ![a] = s]
                                /\ s.kind = "sync" /\ s.files = m.files /\ s.curNo = 0
         /\ known' = Remembered(known, a) /\ dirty' = {} /\ job'.at = "wiped" /\ job'.set = a
         /\ UNCHANGED <<srv, sBusy, up, tbl, list, bound, lost, wild>>
<1>1. /\ job = Idle /\ down # <<>> /\ down' = Tail(down) /\ m.kind = "COMPLETESYNC" /\ a \in Free
      /\ sets' = [sets EXCEPT ![a] = NewSet("sync", m.files)]
      /\ known' = Remembered(known, a) /\ dirty' = {} /\ job'.at = "wiped" /\ job'.set = a
      /\ UNCHANGED <<srv, sBusy, up, tbl, list, bound, lost, wild>>
  BY DEF RecvCompleteSync, Receive, server, ghosts
<1>2. m = down[1] /\ 1 \in 1..Len(down) /\ down[1] \in ToBoard
  BY <1>1, DownTaken
<1>3. m.files \in Seq(FileRec)
  BY <1>1, <1>2, BoardMessage
<1>4. Listed(m.files)
  BY <1>1, <1>2 DEF SetsListed, IsListing
<1>5. PICK s : s = NewSet("sync", m.files)
  OBVIOUS
<1>6. s \in SetState /\ s.kind = "sync" /\ s.files = m.files /\ s.curNo = 0
  BY <1>3, <1>5, NewSetTyped DEF NewSet, NoSet
<1> QED
  BY <1>1, <1>2, <1>4, <1>5, <1>6

\* UPDATEFILE: a set of its own, and a request.
LEMMA UpdateTaken ==
  ASSUME IInv, NEW a \in Addr, RecvUpdateFile(a), NEW m, m = Head(down)
  PROVE  /\ job = Idle /\ down # <<>> /\ down' = Tail(down) /\ m.kind = "UPDATEFILE" /\ a \in Free
         /\ m = down[1] /\ 1 \in 1..Len(down)
         /\ \E s : sets' = [sets EXCEPT ![a] = s] /\ s.kind = "update"
         /\ up' = Append(up, Request(a, m.name))
         /\ UNCHANGED <<srv, sBusy, disk, dirty, tbl, list, job, bound, known, lost, wild>>
<1>1. /\ job = Idle /\ down # <<>> /\ down' = Tail(down) /\ m.kind = "UPDATEFILE" /\ a \in Free
      /\ sets' = [sets EXCEPT ![a] = NewSet("update", <<[name |-> m.name, ver |-> Absent]>>)]
      /\ up' = Append(up, Request(a, m.name))
      /\ UNCHANGED <<srv, sBusy, disk, dirty, tbl, list, job, bound, known, lost, wild>>
  BY DEF RecvUpdateFile, Receive, server, store, ghosts
<1>2. m = down[1] /\ 1 \in 1..Len(down)
  BY <1>1, DownTaken
<1>3. NewSet("update", <<[name |-> m.name, ver |-> Absent]>>).kind = "update"
  BY DEF NewSet, NoSet
<1> QED
  BY <1>1, <1>2, <1>3

\* The rows are gone as well, and the first file is asked for.
LEMMA CompleteEndTaken ==
  ASSUME IInv, RecvCompleteSyncEnd
  PROVE  /\ job.at = "wiped" /\ job' = Idle /\ job'.at = "idle"
         /\ \A f \in File : tbl'[f] = Absent
         /\ up' = Append(up, Request(job.set, sets[job.set].files[1].name))
         /\ UNCHANGED <<srv, sBusy, down, sets, ring, disk, dirty, bound, known, lost, wild>>
BY NoneAfterDelete DEF RecvCompleteSyncEnd, Idle, server, ghosts

\* A transfer that has ended, or not begun, has none of the blocks in Free.
LEMMA SetTaken ==
  ASSUME IInv, NEW a \in Addr, NEW s, sets' = [sets EXCEPT ![a] = s]
  PROVE  sets'[a] = s /\ \A b \in Addr : b # a => sets'[b] = sets[b] /\ SameSet(b)
BY DEF IInv, JobHasFile, SameSet

LEMMA ServerGrows ==
  ASSUME IInv, Next
  PROVE  \A f \in File : srv[f] \in Nat /\ srv'[f] \in Nat /\ srv[f] <= srv'[f]
<1>1. IInv'
  BY NextKeeps
<1>2. \A f \in File : srv[f] \in Nat /\ srv'[f] \in Nat
  BY <1>1, FileSyncAssumption DEF IInv, LinkTyped
<1>3. ASSUME NEW f \in File, ServerEdits(f) PROVE \A g \in File : srv[g] <= srv'[g]
  <2>1. srv \in [File -> Version]
    BY DEF IInv, LinkTyped
  <2> QED
    BY <1>2, <1>3, <2>1 DEF ServerEdits
<1>4. (\E f \in File : ServerEdits(f)) \/ srv' = srv
  BY DEF Next, Handlers, RecvSyncFile, RecvCompleteSync, RecvUpdateFile, RecvCompleteSyncEnd, RecvFileBegin,
         RecvFileBody, RecvFileEnd, RecvFile, WriteFile, SyncDisk, SaveLocalFile, NextFile, WildTransfer, Reboot,
         ServerUpdates, Sync, ServerSyncs, ServerSyncsAll, ServerAnswers, ServerGivesUp, LinkCut, Restart, server
<1> QED
  BY <1>2, <1>3, <1>4

LEMMA ListedGrows ==
  ASSUME IInv, Next, NEW files, Listed(files)
  PROVE  Listed(files)'
<1>1. \A k \in 1..Len(Order) : srv[Order[k]] \in Nat /\ srv'[Order[k]] \in Nat /\ srv[Order[k]] <= srv'[Order[k]]
  BY ServerGrows, OrderLength
<1>2. \A v \in Version : v \in Nat
  BY FileSyncAssumption
<1>3. \A k \in 1..Len(Order) : files[k].ver \in Version /\ files[k].ver <= srv[Order[k]]
  BY DEF Listed
<1>4. \A k \in 1..Len(Order) : files[k].ver <= srv'[Order[k]]
  BY <1>1, <1>2, <1>3
<1> QED
  BY <1>4 DEF Listed

\* What is listed after a step: what was, and what is as it should be.
LEMMA ListedStep ==
  ASSUME IInv, Next, SetsListed,
         \A a \in Addr : sets'[a].kind = "sync" =>
             (sets[a].kind = "sync" /\ SameSet(a)) \/ (\A x : x = sets'[a].files => Listed(x)),
         \A p \in 1..Len(down') : IsListing(down'[p]) =>
             (\E q \in 1..Len(down) : down'[p] = down[q]) \/ (\A x : x = down'[p].files => Listed(x)),
         \A f \in File : tbl'[f] <= srv[f],
         job'.at # "idle" => sets'[job'.set].kind = "sync",
         job'.at = "wiped" => sets'[job'.set].curNo = 0,
         \A i, j \in 1..Len(known') : sets'[known'[i]].kind = "sync" /\ (known'[i] = known'[j] => i = j)
  PROVE  SetsListed'
<1>1. \A x : Listed(x) => Listed(x)'
  BY ListedGrows
<1>2. ASSUME NEW a \in Addr, sets'[a].kind = "sync", NEW x, x = sets'[a].files PROVE Listed(x)'
  <2>1. Listed(x)
    BY <1>2 DEF SetsListed, SameSet
  <2> QED
    BY <1>1, <2>1
<1>3. ASSUME NEW p \in 1..Len(down'), IsListing(down'[p]), NEW x, x = down'[p].files PROVE Listed(x)'
  <2>1. Listed(x)
    BY <1>3 DEF SetsListed
  <2> QED
    BY <1>1, <2>1
<1>4. \A f \in File : tbl'[f] <= srv'[f]
  <2> SUFFICES ASSUME NEW f \in File PROVE tbl'[f] <= srv'[f]
    OBVIOUS
  <2>1. tbl'[f] \in Nat
    <3>1. IInv'
      BY NextKeeps
    <3> QED
      BY <3>1, FileSyncAssumption DEF IInv, StoreTyped, Absent
  <2>2. srv[f] \in Nat /\ srv'[f] \in Nat /\ srv[f] <= srv'[f]
    BY ServerGrows
  <2> QED
    BY <2>1, <2>2
<1>5. \A a \in Addr : sets'[a].kind = "sync" => Listed(sets[a].files)'
  <2> SUFFICES ASSUME NEW a \in Addr, sets'[a].kind = "sync" PROVE Listed(sets[a].files)'
    OBVIOUS
  <2>1. PICK x : x = sets'[a].files
    OBVIOUS
  <2>2. Listed(x)'
    BY <1>2, <2>1
  <2> QED
    BY <2>1, <2>2 DEF Listed
<1>6. \A p \in 1..Len(down') : IsListing(down'[p]) => \A m : m = down'[p] => Listed(m.files)'
  <2> SUFFICES ASSUME NEW p \in 1..Len(down'), IsListing(down'[p]), NEW m, m = down'[p] PROVE Listed(m.files)'
    OBVIOUS
  <2>1. PICK x : x = m.files
    OBVIOUS
  <2>2. Listed(x)'
    BY <1>3, <2>1
  <2> QED
    BY <2>1, <2>2
<1>7. (\A p \in 1..Len(down) : IsListing(down[p]) => Listed(down[p].files))'
  BY <1>6 DEF Listed, IsListing
<1> QED
  BY <1>4, <1>5, <1>7 DEF SetsListed
-----------------------------------------------------------------------------
(* Where the messages on the way come from.                                  *)

\* Where a message to the board comes from.
OldDown(m)    == \E q \in 1..Len(down) : m = down[q]
UpdateDown(m) == (\E f \in File : ServerUpdates(f)) /\ m.kind = "UPDATEFILE"
SyncDown(m)   == (\E kind \in {"SYNCFILE", "COMPLETESYNC"} : Sync(kind)) /\ IsListing(m) /\ m.files = Listing
AnswerDown(m) == /\ ServerAnswers /\ Head(up).kind # "fin"
                 /\ m.kind \in {"BEGIN", "BODY", "END"} /\ m.id = Head(up).id /\ m.ver = srv[Head(up).name]

LEMMA DownMessages ==
  ASSUME IInv, Next, NEW p \in 1..Len(down'), NEW m, m = down'[p]
  PROVE  OldDown(m) \/ UpdateDown(m) \/ SyncDown(m) \/ AnswerDown(m)
<1>1. down \in Seq(ToBoard)
  BY DEF IInv, LinkTyped
<1>2. CASE down # <<>> /\ down' = Tail(down)
  BY <1>1, <1>2, TailElements DEF OldDown
<1>3. CASE down' = down
  BY <1>3 DEF OldDown
<1>4. CASE down' = <<>>
  BY <1>4
<1>5. ASSUME NEW k, down' = Append(down, k) PROVE OldDown(m) \/ m = k
  <2>1. p \in 1..Len(down) \/ p = Len(down) + 1
    BY <1>1, <1>5, AppendElements
  <2>2. CASE p \in 1..Len(down)
    BY <1>1, <1>5, <2>2, AppendElements DEF OldDown
  <2>3. CASE p = Len(down) + 1
    BY <1>1, <1>5, <2>3, AppendElements
  <2> QED
    BY <2>1, <2>2, <2>3
<1>6. ASSUME NEW f \in File, ServerUpdates(f) PROVE OldDown(m) \/ UpdateDown(m)
  <2>1. PICK k : k = [kind |-> "UPDATEFILE", name |-> f]
    OBVIOUS
  <2>2. down' = Append(down, k) /\ k.kind = "UPDATEFILE"
    BY <1>6, <2>1 DEF ServerUpdates
  <2> QED
    BY <1>5, <1>6, <2>2 DEF UpdateDown
<1>7. ASSUME NEW kind \in {"SYNCFILE", "COMPLETESYNC"}, Sync(kind) PROVE OldDown(m) \/ SyncDown(m)
  <2>1. PICK k : k = [kind |-> kind, files |-> Listing]
    OBVIOUS
  <2>2. down' = Append(down, k) /\ IsListing(k) /\ k.files = Listing
    BY <1>7, <2>1 DEF Sync, IsListing
  <2> QED
    BY <1>5, <1>7, <2>2 DEF SyncDown
<1>8. CASE ServerAnswers
  <2>1. PICK k : k = Head(up)
    OBVIOUS
  <2>2. CASE k.kind = "fin"
    BY <1>3, <1>8, <2>1, <2>2 DEF ServerAnswers
  <2>3. CASE k.kind # "fin"
    <3>1. PICK v, z : v = srv[k.name] /\ z = SizeOf[v]
      OBVIOUS
    <3>2. z \in Nat
      BY <1>8, <2>1, <2>3, <3>1, Answered
    <3>3. PICK q \in Seq(ToBoard) : Answer(q, k.id, v) /\ down' = down \o q
      BY <1>8, <2>1, <2>3, <3>1, Answered
    <3>4. /\ Len(q) \in Nat /\ Len(down) \in Nat /\ Len(down') = Len(down) + Len(q)
          /\ \A j \in 1..Len(down) + Len(q) : down'[j] = IF j <= Len(down) THEN down[j] ELSE q[j - Len(down)]
      BY <1>1, <3>3, ConcatProperties
    <3>5. CASE p <= Len(down)
      BY <3>4, <3>5 DEF OldDown
    <3>6. CASE p > Len(down)
      <4>1. p - Len(down) \in 1..Len(q) /\ m = q[p - Len(down)]
        BY <3>4, <3>6
      <4>2. m.kind \in {"BEGIN", "BODY", "END"} /\ m.id = k.id /\ m.ver = v
        <5>1. PICK i \in 1..Len(q) : m = q[i]
          BY <4>1
        <5>2. PICK t : t = IF i = 1 THEN "BEGIN" ELSE IF i = Len(q) THEN "END" ELSE "BODY"
          OBVIOUS
        <5>3. m = [kind |-> t, id |-> k.id, ver |-> v] /\ t \in {"BEGIN", "BODY", "END"}
          BY <3>3, <5>1, <5>2 DEF Answer
        <5> QED
          BY <5>3
      <4> QED
        BY <1>8, <2>1, <2>3, <3>1, <4>2 DEF AnswerDown
    <3> QED
      BY <3>4, <3>5, <3>6
  <2> QED
    BY <2>2, <2>3
<1>9. CASE Handlers
  <2>1. (down # <<>> /\ down' = Tail(down)) \/ down' = down \/ down' = <<>>
    BY <1>9 DEF Handlers, RecvSyncFile, RecvCompleteSync, RecvUpdateFile, RecvCompleteSyncEnd, RecvFileBegin,
         RecvFileBody, RecvFileEnd, RecvFile, Receive, WriteFile, SyncDisk, SaveLocalFile, NextFile,
         WildTransfer, Reboot
  <2> QED
    BY <1>2, <1>3, <1>4, <2>1
<1>10. CASE ServerSyncs \/ ServerSyncsAll
  BY <1>7, <1>10 DEF ServerSyncs, ServerSyncsAll
<1>11. CASE ServerGivesUp \/ LinkCut \/ Restart \/ \E f \in File : ServerEdits(f)
  BY <1>3, <1>4, <1>11 DEF ServerGivesUp, LinkCut, Restart, Reboot, ServerEdits
<1> QED
  BY <1>6, <1>8, <1>9, <1>10, <1>11 DEF Next

\* Where a message to the server comes from.
OldUp(m) == \E q \in 1..Len(up) : m = up[q]
NewUp(m) ==
    \/ m.kind = "fin"
    \/ \E a \in Addr :
         /\ m.kind = "file" /\ m.id = a
         /\ \/ /\ RecvSyncFile(a) /\ m.name = Cur(a).name' /\ sets'[a].kind = "sync"
            \/ RecvUpdateFile(a)
            \/ RecvCompleteSyncEnd /\ a = job.set /\ m.name = sets[a].files[1].name
            \/ NextFile /\ a = job.set /\ m.name = Cur(a).name' /\ sets'[a].kind = "sync"

LEMMA UpMessages ==
  ASSUME IInv, SetsListed, SetsNamed, OlderAhead, Next, NEW p \in 1..Len(up'), NEW m, m = up'[p]
  PROVE  OldUp(m) \/ NewUp(m)
<1>1. up \in Seq(ToServer)
  BY DEF IInv, LinkTyped
<1>2. ASSUME NEW k, up' = Append(up, k) PROVE OldUp(m) \/ m = k
  <2>1. p \in 1..Len(up) \/ p = Len(up) + 1
    BY <1>1, <1>2, AppendElements
  <2>2. CASE p \in 1..Len(up)
    BY <1>1, <1>2, <2>2, AppendElements DEF OldUp
  <2>3. CASE p = Len(up) + 1
    BY <1>1, <1>2, <2>3, AppendElements
  <2> QED
    BY <2>1, <2>2, <2>3
<1>3. CASE up # <<>> /\ up' = Tail(up)
  BY <1>1, <1>3, TailElements DEF OldUp
<1>4. CASE up' = up \/ up' = <<>>
  BY <1>4 DEF OldUp
<1>5. ASSUME NEW a \in Addr, RecvSyncFile(a) PROVE OldUp(m) \/ NewUp(m)
  <2>1. PICK c : c = Head(down)
    OBVIOUS
  <2>2. PICK s : s = NewSet("sync", c.files)
    OBVIOUS
  <2>3. PICK i : i = NextMissing(s)
    OBVIOUS
  <2>4. s \in SetState /\ s.kind = "sync" /\ s.files = c.files /\ a \in Free
    BY <1>5, <2>1, <2>2, <2>3, SyncTaken
  <2>5. CASE i < Len(Order)
    <3>1. PICK k : k = Request(a, c.files[i + 1].name)
      OBVIOUS
    <3>2. sets' = [sets EXCEPT ![a] = [s EXCEPT !.curNo = i]] /\ up' = Append(up, k)
      BY <1>5, <2>1, <2>2, <2>3, <2>5, <3>1, SyncTaken
    <3>3. sets'[a] = [s EXCEPT !.curNo = i]
      BY <2>4, <3>2, FreeTaken
    <3>4. sets'[a].kind = "sync" /\ sets'[a].files = c.files /\ sets'[a].curNo = i
      BY <2>4, <3>3 DEF SetState
    <3>5. Cur(a).name' = c.files[i + 1].name
      BY <3>4 DEF Cur
    <3>6. k.kind = "file" /\ k.id = a /\ k.name = Cur(a).name'
      BY <3>1, <3>5 DEF Request
    <3> QED
      BY <1>2, <1>5, <3>2, <3>4, <3>6 DEF NewUp
  <2>6. CASE ~(i < Len(Order))
    <3>1. PICK k : k = [kind |-> "fin"]
      OBVIOUS
    <3>2. up' = Append(up, k)
      BY <1>5, <2>1, <2>2, <2>3, <2>6, <3>1, SyncTaken
    <3> QED
      BY <1>2, <3>1, <3>2 DEF NewUp
  <2> QED
    BY <2>5, <2>6
<1>6. CASE NextFile
  <2>1. PICK a : a = job.set
    OBVIOUS
  <2>2. PICK s : s = Advanced(sets[a])
    OBVIOUS
  <2>3. PICK i : i = NextMissing(s)
    OBVIOUS
  <2>4. s \in SetState /\ s.kind = "sync" /\ s.files = sets[a].files /\ a \in Addr
    BY <1>6, <2>1, <2>2, <2>3, NextTaken
  <2>5. CASE i < Len(Order)
    <3>1. PICK k : k = Request(a, sets[a].files[i + 1].name)
      OBVIOUS
    <3>2. sets' = [sets EXCEPT ![a] = [s EXCEPT !.curNo = i]] /\ up' = Append(up, k)
      BY <1>6, <2>1, <2>2, <2>3, <2>5, <3>1, NextTaken, SMTT(20)
    <3>3. sets'[a] = [s EXCEPT !.curNo = i]
      BY <2>4, <3>2, SetTaken
    <3>4. sets'[a].kind = "sync" /\ sets'[a].files = sets[a].files /\ sets'[a].curNo = i
      BY <2>4, <3>3 DEF SetState
    <3>5. Cur(a).name' = sets[a].files[i + 1].name
      BY <3>4 DEF Cur
    <3>6. k.kind = "file" /\ k.id = a /\ k.name = Cur(a).name'
      BY <3>1, <3>5 DEF Request
    <3> QED
      BY <1>2, <1>6, <2>1, <2>4, <3>2, <3>4, <3>6 DEF NewUp
  <2>6. CASE ~(i < Len(Order))
    <3>1. PICK k : k = [kind |-> "fin"]
      OBVIOUS
    <3>2. up' = Append(up, k)
      BY <1>6, <2>1, <2>2, <2>3, <2>6, <3>1, NextTaken
    <3> QED
      BY <1>2, <3>1, <3>2 DEF NewUp
  <2> QED
    BY <2>5, <2>6
<1>7. ASSUME NEW a \in Addr, RecvUpdateFile(a) PROVE OldUp(m) \/ NewUp(m)
  <2>1. PICK k : k = Request(a, Head(down).name)
    OBVIOUS
  <2>2. up' = Append(up, k) /\ k.kind = "file" /\ k.id = a
    BY <1>7, <2>1 DEF RecvUpdateFile, Request
  <2> QED
    BY <1>2, <1>7, <2>2 DEF NewUp
<1>8. CASE RecvCompleteSyncEnd
  <2>1. PICK a, k : a = job.set /\ k = Request(a, sets[a].files[1].name)
    OBVIOUS
  <2>2. up' = Append(up, k) /\ k.kind = "file" /\ k.id = a /\ k.name = sets[a].files[1].name
    BY <1>8, <2>1 DEF RecvCompleteSyncEnd, Request
  <2>3. a \in Addr
    BY <1>8, <2>1 DEF RecvCompleteSyncEnd, IInv, JobHasFile
  <2> QED
    BY <1>2, <1>8, <2>1, <2>2, <2>3 DEF NewUp
<1>9. CASE ServerAnswers
  BY <1>3, <1>9 DEF ServerAnswers
<1>10. CASE \/ \E a \in Addr : RecvCompleteSync(a)
            \/ RecvFileBegin \/ RecvFileBody \/ RecvFileEnd \/ WriteFile \/ SyncDisk \/ SaveLocalFile
            \/ WildTransfer \/ ServerSyncs \/ ServerSyncsAll \/ ServerGivesUp \/ LinkCut \/ Restart
            \/ \E f \in File : ServerEdits(f) \/ ServerUpdates(f)
  <2>1. up' = up \/ up' = <<>>
    BY <1>10 DEF RecvCompleteSync, RecvFileBegin, RecvFileBody, RecvFileEnd, WriteFile, SyncDisk, SaveLocalFile,
         WildTransfer, Reboot, ServerSyncs, ServerSyncsAll, Sync, ServerGivesUp, LinkCut, Restart,
         ServerEdits, ServerUpdates
  <2> QED
    BY <1>4, <2>1
<1> QED
  BY <1>5, <1>6, <1>7, <1>8, <1>9, <1>10 DEF Next, Handlers
-----------------------------------------------------------------------------
(* SetsListed is kept.                                                       *)

\* Only syncs bring listings, and the listing they bring is up to date.
LEMMA ListingsFrom ==
  ASSUME IInv, Next, NEW p \in 1..Len(down'), IsListing(down'[p])
  PROVE  \/ \E q \in 1..Len(down) : down'[p] = down[q]
         \/ \A x : x = down'[p].files => Listed(x)
<1>1. PICK m : m = down'[p]
  OBVIOUS
<1>2. OldDown(m) \/ UpdateDown(m) \/ SyncDown(m) \/ AnswerDown(m)
  BY <1>1, DownMessages
<1>3. m.kind \in {"SYNCFILE", "COMPLETESYNC"}
  BY <1>1 DEF IsListing
<1>4. CASE SyncDown(m)
  <2>1. PICK x : x = Listing
    OBVIOUS
  <2>2. Len(x) = Len(Order) /\ \A k \in 1..Len(Order) : x[k].name = Order[k] /\ x[k].ver = srv[Order[k]]
    BY <2>1, OrderLength DEF Listing
  <2>3. \A k \in 1..Len(Order) : srv[Order[k]] \in Version /\ srv[Order[k]] <= srv[Order[k]]
    <3>1. \A f \in File : srv[f] \in Version
      BY DEF IInv, LinkTyped
    <3>2. \A v \in Version : v <= v
      BY FileSyncAssumption
    <3> QED
      BY <3>1, <3>2, OrderLength
  <2>4. Listed(x)
    BY <2>2, <2>3 DEF Listed
  <2> QED
    BY <1>1, <1>4, <2>1, <2>4 DEF SyncDown
<1> QED
  BY <1>1, <1>2, <1>3, <1>4 DEF OldDown, UpdateDown, AnswerDown

\* The sets stay what they are, and the list of transfers as well.
LEMMA ListedQuiet ==
  ASSUME IInv, Next, SetsListed,
         \A a \in Addr : sets'[a].kind = "sync" => sets[a].kind = "sync" /\ SameSet(a),
         \A a \in Addr : sets[a].kind = "sync" => sets'[a].kind = "sync" /\ SameSet(a),
         \A f \in File : tbl'[f] <= srv[f], known' = known,
         job'.at # "idle" => job'.set \in Addr /\ sets[job'.set].kind = "sync",
         job'.at = "wiped" => job' = job
  PROVE  SetsListed'
<1>1. \A p \in 1..Len(down') : IsListing(down'[p]) =>
          (\E q \in 1..Len(down) : down'[p] = down[q]) \/ (\A x : x = down'[p].files => Listed(x))
  BY ListingsFrom
<1>2. known \in Seq(Addr)
  BY KnownFits
<1>3. \A i, j \in 1..Len(known') : sets'[known'[i]].kind = "sync" /\ (known'[i] = known'[j] => i = j)
  BY <1>2 DEF SetsListed
<1>4. job'.at = "wiped" => sets'[job'.set].curNo = 0
  BY DEF SetsListed, SameSet
<1> QED
  BY <1>1, <1>3, <1>4, ListedStep

LEMMA ListedReset ==
  ASSUME IInv, Next, SetsListed, Reboot
  PROVE  SetsListed'
<1>1. \A a \in Addr : sets'[a].kind # "sync"
  BY DEF Reboot, NoSet
<1>2. down' = <<>> /\ known' = <<>> /\ job'.at = "idle" /\ tbl' = tbl
  BY DEF Reboot, Idle
<1>3. /\ \A p \in 1..Len(down') : FALSE
      /\ \A i \in 1..Len(known') : FALSE
  BY <1>2
<1>4. \A f \in File : tbl'[f] <= srv[f]
  BY <1>2 DEF SetsListed
<1> QED
  BY <1>1, <1>2, <1>3, <1>4, ListedStep

\* A new set of a sync.
LEMMA ListedNew ==
  ASSUME IInv, Next, SetsListed, SetsNamed, NEW a \in Free, NEW s, sets' = [sets EXCEPT ![a] = s],
         s.kind = "sync", Listed(s.files), known' = Remembered(known, a), tbl' = tbl,
         job'.at # "idle" => job'.set = a /\ s.curNo = 0, job.at = "idle"
  PROVE  SetsListed'
<1>1. /\ a \in Addr /\ sets'[a] = s
      /\ \A b \in Addr : b # a => sets'[b] = sets[b]
      /\ \A i \in 1..Len(known) : known[i] # a
  BY FreeUnused, FreeTaken
<1>2. \A p \in 1..Len(down') : IsListing(down'[p]) =>
          (\E q \in 1..Len(down) : down'[p] = down[q]) \/ (\A x : x = down'[p].files => Listed(x))
  BY ListingsFrom
<1>3. \A b \in Addr : sets'[b].kind = "sync" =>
             (sets[b].kind = "sync" /\ SameSet(b)) \/ (\A x : x = sets'[b].files => Listed(x))
  BY <1>1 DEF SameSet
<1>4. \A i, j \in 1..Len(known') : sets'[known'[i]].kind = "sync" /\ (known'[i] = known'[j] => i = j)
  <2>1. PICK q, r : q = known /\ r = known'
    OBVIOUS
  <2>2. q \in Seq(Addr) /\ Distinct(q) /\ \A i \in 1..Len(q) : q[i] \in Addr /\ sets[q[i]].kind = "sync" /\ q[i] # a
    BY <1>1, <2>1, KnownFits DEF SetsListed, Distinct
  <2>3. r = Remembered(q, a)
    BY <2>1
  <2>4. Distinct(r) /\ \A j \in 1..Len(r) : r[j] = a \/ \E i \in 1..Len(q) : r[j] = q[i]
    BY <1>1, <2>2, <2>3, DistinctRemembered
  <2>5. \A j \in 1..Len(r) : sets'[r[j]].kind = "sync"
    BY <1>1, <2>2, <2>4
  <2> QED
    BY <2>1, <2>4, <2>5 DEF Distinct
<1>5. \A f \in File : tbl'[f] <= srv[f]
  BY DEF SetsListed
<1>6. job'.at # "idle" => sets'[job'.set].kind = "sync" /\ sets'[job'.set].curNo = 0
  BY <1>1
<1> QED
  BY <1>2, <1>3, <1>4, <1>5, <1>6, ListedStep

\* A set of a sync is over.
LEMMA ListedOver ==
  ASSUME IInv, Next, SetsListed, NEW a \in Addr, sets' = [sets EXCEPT ![a] = NoSet], tbl' = tbl, job'.at = "idle",
         NEW q \in Seq(Addr), Distinct(q), \A i \in 1..Len(q) : q[i] = a \/ sets[q[i]].kind = "sync",
         known' = Forgotten(q, a)
  PROVE  SetsListed'
<1>1. /\ sets'[a].kind = "free" /\ \A b \in Addr : b # a => sets'[b] = sets[b]
  <2>1. PICK s : s = NoSet
    OBVIOUS
  <2>2. sets' = [sets EXCEPT ![a] = s]
    BY <2>1
  <2>3. sets'[a] = s /\ \A b \in Addr : b # a => sets'[b] = sets[b]
    BY <2>2, SetTaken
  <2>4. s.kind = "free"
    BY <2>1 DEF NoSet
  <2> QED
    BY <2>3, <2>4
<1>2. \A p \in 1..Len(down') : IsListing(down'[p]) =>
          (\E i \in 1..Len(down) : down'[p] = down[i]) \/ (\A x : x = down'[p].files => Listed(x))
  BY ListingsFrom
<1>3. \A b \in Addr : sets'[b].kind = "sync" =>
             (sets[b].kind = "sync" /\ SameSet(b)) \/ (\A x : x = sets'[b].files => Listed(x))
  BY <1>1 DEF SameSet
<1>4. \A i, j \in 1..Len(known') : sets'[known'[i]].kind = "sync" /\ (known'[i] = known'[j] => i = j)
  <2>1. PICK g : g = known' /\ g = Forgotten(q, a)
    OBVIOUS
  <2>2. Distinct(g) /\ \A j \in 1..Len(g) : g[j] # a /\ \E i \in 1..Len(q) : g[j] = q[i]
    <3>1. Distinct(g) /\ Without(g, q, a)
      BY <2>1, DistinctForgotten
    <3> QED
      BY <3>1 DEF Without
  <2>3. \A j \in 1..Len(g) : sets'[g[j]].kind = "sync"
    <3>1. \A i \in 1..Len(q) : q[i] \in Addr
      OBVIOUS
    <3> QED
      BY <1>1, <2>2, <3>1
  <2> QED
    BY <2>1, <2>2, <2>3 DEF Distinct
<1>5. \A f \in File : tbl'[f] <= srv[f]
  BY DEF SetsListed
<1> QED
  BY <1>2, <1>3, <1>4, <1>5, ListedStep

LEMMA KnownDistinct ==
  ASSUME IInv, SetsListed
  PROVE  /\ known \in Seq(Addr) /\ Distinct(known)
         /\ \A i \in 1..Len(known) : known[i] \in Addr /\ sets[known[i]].kind = "sync"
BY KnownFits DEF SetsListed, Distinct

LEMMA SyncFileListed ==
  ASSUME IInv, SetsListed, SetsNamed, Next, NEW a \in Addr, RecvSyncFile(a)
  PROVE  SetsListed'
<1>1. PICK m : m = Head(down)
  OBVIOUS
<1>2. PICK s : s = NewSet("sync", m.files)
  OBVIOUS
<1>3. PICK i : i = NextMissing(s)
  OBVIOUS
<1>4. /\ job.at = "idle" /\ a \in Free /\ tbl' = tbl /\ job' = job
      /\ Listed(m.files) /\ s \in SetState /\ s.files = m.files /\ s.kind = "sync"
  BY <1>1, <1>2, <1>3, SyncTaken
<1>5. CASE i < Len(Order)
  <2>1. PICK t : t = [s EXCEPT !.curNo = i]
    OBVIOUS
  <2>2. sets' = [sets EXCEPT ![a] = t] /\ known' = Remembered(known, a)
    BY <1>1, <1>2, <1>3, <1>5, <2>1, SyncTaken
  <2>3. t.kind = "sync" /\ t.files = m.files
    BY <1>4, <2>1 DEF SetState
  <2> QED
    BY <1>4, <2>2, <2>3, ListedNew
<1>6. CASE ~(i < Len(Order))
  <2>1. PICK q : q = Remembered(known, a)
    OBVIOUS
  <2>2. sets' = [sets EXCEPT ![a] = NoSet] /\ known' = Forgotten(q, a)
    BY <1>1, <1>2, <1>3, <1>6, <2>1, SyncTaken
  <2>3. \A j \in 1..Len(known) : known[j] # a
    BY <1>4, FreeUnused
  <2>4. q \in Seq(Addr) /\ Distinct(q) /\ \A j \in 1..Len(q) : q[j] = a \/ \E k \in 1..Len(known) : q[j] = known[k]
    BY <2>1, <2>3, KnownDistinct, DistinctRemembered
  <2>5. \A j \in 1..Len(q) : q[j] = a \/ sets[q[j]].kind = "sync"
    BY <2>4, KnownDistinct
  <2> QED
    BY <1>4, <2>2, <2>4, <2>5, ListedOver
<1> QED
  BY <1>5, <1>6

LEMMA NextFileListed ==
  ASSUME IInv, SetsListed, OlderAhead, Next, NextFile
  PROVE  SetsListed'
<1>1. PICK a : a = job.set
  OBVIOUS
<1>2. PICK s : s = Advanced(sets[a])
  OBVIOUS
<1>3. PICK i : i = NextMissing(s)
  OBVIOUS
<1>4. /\ job'.at = "idle" /\ a \in Addr /\ tbl' = tbl /\ down' = down
      /\ Listed(sets[a].files) /\ s \in SetState /\ s.files = sets[a].files /\ s.kind = "sync"
  BY <1>1, <1>2, <1>3, NextTaken
<1>5. CASE i < Len(Order)
  <2>1. PICK t : t = [s EXCEPT !.curNo = i]
    OBVIOUS
  <2>2. sets' = [sets EXCEPT ![a] = t] /\ known' = known
    BY <1>1, <1>2, <1>3, <1>5, <2>1, NextTaken, SMTT(20)
  <2>3. t.kind = "sync" /\ t.files = sets[a].files
    BY <1>4, <2>1 DEF SetState
  <2>4. sets'[a] = t /\ \A b \in Addr : b # a => sets'[b] = sets[b]
    BY <1>4, <2>2, SetTaken
  <2>5. \A b \in Addr : sets'[b].kind = "sync" =>
             (sets[b].kind = "sync" /\ SameSet(b)) \/ (\A x : x = sets'[b].files => Listed(x))
    BY <1>4, <2>3, <2>4 DEF SameSet
  <2>6. \A p \in 1..Len(down') : IsListing(down'[p]) =>
             (\E q \in 1..Len(down) : down'[p] = down[q]) \/ (\A x : x = down'[p].files => Listed(x))
    BY ListingsFrom
  <2>7. \A j, k \in 1..Len(known') : sets'[known'[j]].kind = "sync" /\ (known'[j] = known'[k] => j = k)
    BY <2>2, <2>3, <2>4, KnownDistinct DEF Distinct
  <2>8. \A f \in File : tbl'[f] <= srv[f]
    BY <1>4 DEF SetsListed
  <2> QED
    BY <1>4, <2>5, <2>6, <2>7, <2>8, ListedStep
<1>6. CASE ~(i < Len(Order))
  <2>1. PICK q : q = known
    OBVIOUS
  <2>2. sets' = [sets EXCEPT ![a] = NoSet] /\ known' = Forgotten(q, a)
    BY <1>1, <1>2, <1>3, <1>6, <2>1, NextTaken
  <2>3. q \in Seq(Addr) /\ Distinct(q) /\ \A j \in 1..Len(q) : q[j] = a \/ sets[q[j]].kind = "sync"
    BY <2>1, KnownDistinct
  <2> QED
    BY <1>4, <2>2, <2>3, ListedOver
<1> QED
  BY <1>5, <1>6

\* The current file of a set that the thread is busy with.
LEMMA BusyListed ==
  ASSUME IInv, SetsListed, job.at # "idle"
  PROVE  /\ job.set \in Addr /\ sets[job.set].kind = "sync" /\ sets[job.set].curNo < Len(Order)
         /\ CurFile = Cur(job.set)
<1>1. job.set \in Addr /\ sets[job.set].curNo < Len(sets[job.set].files) /\ sets[job.set].kind = "sync"
  BY DEF IInv, JobHasFile, SetsListed
<1>2. Len(sets[job.set].files) = Len(Order)
  BY <1>1 DEF SetsListed, Listed
<1>3. get_cur_file_info(sets[job.set]) = {Cur(job.set)}
  BY <1>1 DEF get_cur_file_info, Cur
<1> QED
  BY <1>1, <1>2, <1>3 DEF CurFile

LEMMA ListedKeeps ==
  ASSUME IInv, SetsListed, SetsNamed, OlderAhead, Next
  PROVE  SetsListed'
<1>1. ASSUME NEW a \in Addr, RecvSyncFile(a) PROVE SetsListed'
  BY <1>1, SyncFileListed
<1>2. ASSUME NEW a \in Addr, RecvCompleteSync(a) PROVE SetsListed'
  <2>1. PICK m : m = Head(down)
    OBVIOUS
  <2>2. /\ job = Idle /\ a \in Free /\ Listed(m.files) /\ tbl' = tbl
        /\ known' = Remembered(known, a) /\ job'.set = a
    BY <1>2, <2>1, CompleteTaken
  <2>3. PICK s \in SetState : /\ sets' = [sets EXCEPT ![a] = s]
                              /\ s.kind = "sync" /\ s.files = m.files /\ s.curNo = 0
    BY <1>2, <2>1, CompleteTaken
  <2>4. job.at = "idle"
    BY <2>2 DEF Idle
  <2> QED
    BY <2>2, <2>3, <2>4, ListedNew
<1>3. \A f \in File : tbl[f] <= srv[f]
  BY DEF SetsListed
<1>4. job.at # "idle" => job.set \in Addr /\ sets[job.set].kind = "sync"
  BY BusyListed
<1>5. ASSUME \A a \in Addr : sets'[a].kind = "sync" => sets[a].kind = "sync" /\ SameSet(a),
             \A a \in Addr : sets[a].kind = "sync" => sets'[a].kind = "sync" /\ SameSet(a),
             known' = known, tbl' = tbl, job' = job
      PROVE  SetsListed'
  BY <1>3, <1>4, <1>5, ListedQuiet
<1>6. ASSUME sets' = sets, known' = known, tbl' = tbl, job' = job PROVE SetsListed'
  BY <1>5, <1>6 DEF SameSet
<1>7. ASSUME NEW a \in Addr, RecvUpdateFile(a) PROVE SetsListed'
  <2>1. a \in Free /\ UNCHANGED <<tbl, job, known>>
    BY <1>7, UpdateTaken
  <2>2. PICK s : sets' = [sets EXCEPT ![a] = s] /\ s.kind = "update"
    BY <1>7, UpdateTaken
  <2>3. /\ sets'[a] = s
        /\ \A b \in Addr : b # a => sets'[b] = sets[b]
        /\ \A b \in Addr : sets[b].kind = "sync" => b # a /\ SameSet(b) /\ sets'[b] = sets[b]
    BY <2>1, <2>2, FreeTaken
  <2> QED
    BY <1>5, <2>1, <2>2, <2>3
<1>8. CASE RecvCompleteSyncEnd
  <2>1. UNCHANGED <<sets, known>> /\ job'.at = "idle" /\ \A f \in File : tbl'[f] = Absent
    BY <1>8, CompleteEndTaken
  <2>2. \A f \in File : tbl'[f] <= srv[f]
    BY <2>1, ServerGrows DEF Absent
  <2>3. \A a \in Addr : SameSet(a)
    BY <2>1 DEF SameSet
  <2> QED
    BY <2>1, <2>2, <2>3, ListedQuiet
<1>9. CASE RecvFileBegin
  BY <1>5, <1>9, BeginTaken
<1>10. CASE RecvFileBody
  BY <1>5, <1>10, BodyTaken
<1>11. CASE RecvFileEnd
  <2>1. PICK a : a = Head(down).id
    OBVIOUS
  <2>2. /\ a \in Addr /\ recv_file_list_get(a) /\ UNCHANGED <<sets, known, tbl>>
        /\ job' = [at |-> "truncated", set |-> a] \/ job' = job
    BY <1>11, <2>1, EndTaken
  <2>3. sets[a].kind = "sync"
    BY <2>2, KnownIs, KnownDistinct
  <2>4. \A b \in Addr : SameSet(b)
    BY <2>2 DEF SameSet
  <2> QED
    BY <1>3, <1>4, <2>2, <2>3, <2>4, ListedQuiet
<1>12. ASSUME NEW from \in {"truncated", "written"}, NEW to \in {"written", "synced"}, Stage(from, to),
              UNCHANGED <<sets, known, tbl>>
       PROVE  SetsListed'
  <2>1. job.at = from /\ job'.at = to /\ job'.set = job.set
    BY <1>12 DEF Stage, IInv, JobHasFile
  <2>2. \A b \in Addr : SameSet(b)
    BY <1>12 DEF SameSet
  <2> QED
    BY <1>3, <1>4, <1>12, <2>1, <2>2, ListedQuiet
<1>13. CASE WriteFile \/ SyncDisk
  BY <1>12, <1>13 DEF WriteFile, SyncDisk
<1>14. CASE SaveLocalFile
  <2>1. job.at # "idle"
    BY <1>14 DEF SaveLocalFile, Stage
  <2>2. PICK a, f : a = job.set /\ f = Cur(a).name
    OBVIOUS
  <2>3. a \in Addr /\ sets[a].kind = "sync" /\ sets[a].curNo < Len(Order)
    BY <2>1, <2>2, BusyListed
  <2>4. /\ job'.at = "saved" /\ job'.set = a /\ UNCHANGED <<sets, known>>
        /\ tbl'[f] = Cur(a).ver /\ \A g \in File : g # f => tbl'[g] = tbl[g]
    BY <1>14, <2>2, <2>3, SaveTaken
  <2>5. Cur(a).ver <= srv[f]
    BY <2>2, <2>3, CurListed
  <2>6. \A g \in File : tbl'[g] <= srv[g]
    BY <1>3, <2>4, <2>5
  <2>7. \A b \in Addr : SameSet(b)
    BY <2>4 DEF SameSet
  <2> QED
    BY <2>3, <2>4, <2>6, <2>7, ListedQuiet
<1>15. CASE NextFile
  BY <1>15, NextFileListed
<1>16. CASE WildTransfer \/ Restart
  BY <1>16, ListedReset DEF WildTransfer, Restart
<1>17. CASE ServerSyncs \/ ServerSyncsAll \/ ServerAnswers \/ ServerGivesUp \/ LinkCut
            \/ \E f \in File : ServerEdits(f) \/ ServerUpdates(f)
  BY <1>6, <1>17 DEF ServerSyncs, ServerSyncsAll, Sync, ServerAnswers, ServerGivesUp, LinkCut,
                     ServerEdits, ServerUpdates, store
<1> QED
  BY <1>1, <1>2, <1>7, <1>8, <1>9, <1>10, <1>11, <1>13, <1>14, <1>15, <1>16, <1>17 DEF Next, Handlers
-----------------------------------------------------------------------------
(* SetsNamed is kept.                                                        *)

\* The set at b is what it was, what was received of its current file apart.
Stays(b) == sets'[b].kind = sets[b].kind /\ SameSet(b)

LEMMA PartsTyped ==
  ASSUME IInv
  PROVE  /\ \A p \in 1..Len(down) : IsPart(down[p]) => down[p].id \in Addr
         /\ \A p \in 1..Len(up) : IsPart(up[p]) => up[p].id \in Addr
<1>1. down \in Seq(Message) /\ up \in Seq(Message)
  BY LinkMessages
<1> QED
  BY <1>1, MessageTyped

\* No step takes a set away from a message that is on the way.
LEMMA NamedStay ==
  ASSUME IInv, SetsListed, SetsNamed, OlderAhead, PartsTogether, Next, ~Reboot
  PROVE  /\ \A p \in 1..Len(down) : IsPart(down[p]) => Stays(down[p].id)
         /\ \A p \in 1..Len(up) : IsPart(up[p]) => Stays(up[p].id)
<1>1. CASE \A b \in Addr : Stays(b)
  BY <1>1, PartsTyped
<1>2. ASSUME NEW a, \A b \in Addr : b # a => Stays(b),
             \A p \in 1..Len(down) : IsPart(down[p]) => down[p].id # a,
             \A p \in 1..Len(up) : IsPart(up[p]) => up[p].id # a
      PROVE  /\ \A p \in 1..Len(down) : IsPart(down[p]) => Stays(down[p].id)
             /\ \A p \in 1..Len(up) : IsPart(up[p]) => Stays(up[p].id)
  BY <1>2, PartsTyped
<1>3. ASSUME NEW a \in Free, NEW s, sets' = [sets EXCEPT ![a] = s]
      PROVE  /\ \A p \in 1..Len(down) : IsPart(down[p]) => Stays(down[p].id)
             /\ \A p \in 1..Len(up) : IsPart(up[p]) => Stays(up[p].id)
  <2>1. a \in Addr
    BY FreeUnused
  <2>2. \A b \in Addr : b # a => Stays(b)
    BY <1>3, <2>1, SetTaken DEF Stays
  <2>3. /\ \A p \in 1..Len(down) : IsPart(down[p]) => down[p].id # a
        /\ \A p \in 1..Len(up) : IsPart(up[p]) => up[p].id # a
    BY FreeUnused
  <2> QED
    BY <1>2, <2>2, <2>3
<1>4. ASSUME NEW a \in Addr, RecvSyncFile(a) \/ RecvCompleteSync(a) \/ RecvUpdateFile(a)
      PROVE  a \in Free /\ \E s : sets' = [sets EXCEPT ![a] = s]
  BY <1>4 DEF RecvSyncFile, RecvCompleteSync, RecvUpdateFile, ContinueWith
<1>5. CASE \E a \in Addr : RecvSyncFile(a) \/ RecvCompleteSync(a) \/ RecvUpdateFile(a)
  BY <1>3, <1>4, <1>5
<1>6. CASE NextFile
  <2>1. PICK a : a = job.set
    OBVIOUS
  <2>2. job.at # "idle" /\ ContinueWith(a, [sets[a] EXCEPT !.curNo = @ + 1], ring, known)
    BY <1>6, <2>1 DEF NextFile
  <2>3. PICK s : sets' = [sets EXCEPT ![a] = s]
    BY <2>2 DEF ContinueWith
  <2>4. a \in Addr
    BY <2>1, <2>2, BusyListed
  <2>5. \A b \in Addr : b # a => Stays(b)
    BY <2>3, <2>4, SetTaken DEF Stays
  <2>6. /\ \A p \in 1..Len(down) : IsPart(down[p]) => down[p].id # a
        /\ \A p \in 1..Len(up) : IsPart(up[p]) => up[p].id # a
    BY <2>1, <2>2, OnlyHandled
  <2> QED
    BY <1>2, <2>5, <2>6
<1>7. CASE RecvFileBegin
  BY <1>1, <1>7, BeginTaken DEF Stays
<1>8. CASE RecvFileBody
  BY <1>1, <1>8, BodyTaken DEF Stays
<1>9. CASE sets' = sets
  BY <1>1, <1>9 DEF Stays, SameSet
<1>10. CASE RecvCompleteSyncEnd \/ RecvFileEnd \/ WriteFile \/ SyncDisk \/ SaveLocalFile
            \/ ServerSyncs \/ ServerSyncsAll \/ ServerAnswers \/ ServerGivesUp \/ LinkCut
            \/ \E f \in File : ServerEdits(f) \/ ServerUpdates(f)
  BY <1>9, <1>10 DEF RecvCompleteSyncEnd, RecvFileEnd, WriteFile, SyncDisk, SaveLocalFile, ServerSyncs, ServerSyncsAll,
                     Sync, ServerAnswers, ServerGivesUp, LinkCut, ServerEdits, ServerUpdates
<1>11. CASE WildTransfer \/ Restart
  BY <1>11 DEF WildTransfer, Restart
<1> QED
  BY <1>5, <1>6, <1>7, <1>8, <1>10, <1>11 DEF Next, Handlers

LEMMA WipedFrom ==
  ASSUME IInv, Next, job'.at = "wiped"
  PROVE  \/ job' = job
         \/ \E a \in Addr : RecvCompleteSync(a) /\ job'.set = a
<1>1. CASE Handlers
  <2>1. ASSUME NEW from, NEW to \in {"written", "synced", "saved"}, Stage(from, to) PROVE FALSE
    BY <2>1 DEF Stage, IInv, JobHasFile
  <2>2. CASE WriteFile \/ SyncDisk \/ SaveLocalFile
    BY <2>1, <2>2 DEF WriteFile, SyncDisk, SaveLocalFile
  <2>3. CASE RecvFileEnd
    <3>1. job' = [at |-> "truncated", set |-> Head(down).id] \/ job' = job
      BY <2>3, EndTaken
    <3> QED
      BY <3>1
  <2>4. CASE RecvCompleteSyncEnd \/ NextFile \/ WildTransfer
    BY <2>4 DEF RecvCompleteSyncEnd, NextFile, WildTransfer, Reboot, Idle
  <2>5. CASE RecvFileBegin \/ RecvFileBody
    BY <2>5, BeginTaken, BodyTaken
  <2>6. CASE \E a \in Addr : RecvSyncFile(a) \/ RecvCompleteSync(a) \/ RecvUpdateFile(a)
    BY <2>6 DEF RecvSyncFile, RecvCompleteSync, RecvUpdateFile
  <2> QED
    BY <1>1, <2>2, <2>3, <2>4, <2>5, <2>6 DEF Handlers
<1>2. CASE ServerSyncs \/ ServerSyncsAll \/ ServerAnswers \/ ServerGivesUp \/ LinkCut
            \/ \E f \in File : ServerEdits(f) \/ ServerUpdates(f)
  BY <1>2 DEF ServerSyncs, ServerSyncsAll, Sync, ServerAnswers, ServerGivesUp, LinkCut, ServerEdits, ServerUpdates
<1>3. CASE Restart
  BY <1>3 DEF Restart, Reboot, Idle
<1> QED
  BY <1>1, <1>2, <1>3 DEF Next

LEMMA NamedKeeps ==
  ASSUME IInv, SetsListed, SetsNamed, OlderAhead, PartsTogether, Next
  PROVE  SetsNamed'
<1>1. CASE Reboot
  <2>1. down' = <<>> /\ up' = <<>>
    BY <1>1 DEF Reboot
  <2> QED
    BY <2>1 DEF SetsNamed
<1>2. CASE ~Reboot
  <2>1. /\ \A p \in 1..Len(down) : IsPart(down[p]) => Stays(down[p].id)
        /\ \A p \in 1..Len(up) : IsPart(up[p]) => Stays(up[p].id)
    BY <1>2, NamedStay
  <2>2. ASSUME NEW m, AnswerDown(m)
        PROVE  \E q \in 1..Len(up) : up[q].kind = "file" /\ m.id = up[q].id /\ sets' = sets /\ job' = job
    <3>1. PICK k : k = Head(up)
      OBVIOUS
    <3>2. up # <<>> /\ k.kind = "file" /\ sets' = sets /\ job' = job
      BY <2>2, <3>1, Answered DEF AnswerDown
    <3>3. up[1] = k /\ 1 \in 1..Len(up)
      <4>1. up \in Seq(Message)
        BY LinkMessages
      <4> QED
        BY <3>1, <3>2, <4>1, TailElements
    <3> QED
      BY <2>2, <3>1, <3>2, <3>3 DEF AnswerDown
  <2>3. ASSUME NEW p \in 1..Len(down'), NEW m, m = down'[p], IsPart(m)
        PROVE  \/ \E q \in 1..Len(down) : m = down[q]
               \/ \E q \in 1..Len(up) : up[q].kind = "file" /\ m.id = up[q].id /\ sets' = sets /\ job' = job
    <3>1. OldDown(m) \/ UpdateDown(m) \/ SyncDown(m) \/ AnswerDown(m)
      BY <2>3, DownMessages
    <3>2. ~UpdateDown(m) /\ ~SyncDown(m)
      BY <2>3 DEF UpdateDown, SyncDown, IsPart, IsListing
    <3> QED
      BY <2>2, <3>1, <3>2 DEF OldDown
  <2>4. ASSUME NEW p \in 1..Len(down'), NEW m, m = down'[p], IsPart(m)
        PROVE  sets'[m.id].kind # "free"
    <3>1. CASE \E q \in 1..Len(down) : m = down[q]
      BY <2>1, <2>4, <3>1 DEF SetsNamed, Stays
    <3>2. CASE \E q \in 1..Len(up) : up[q].kind = "file" /\ m.id = up[q].id /\ sets' = sets
      BY <3>2 DEF SetsNamed, IsPart
    <3> QED
      BY <2>3, <2>4, <3>1, <3>2
  <2>5. ASSUME NEW p \in 1..Len(up'), NEW m, m = up'[p], IsPart(m)
        PROVE  OldUp(m) \/ (m.kind = "file" /\ NewUp(m))
    <3>1. m.kind # "fin"
      BY <2>5 DEF IsPart
    <3>2. OldUp(m) \/ NewUp(m)
      BY <2>5, UpMessages
    <3> QED
      BY <3>1, <3>2 DEF NewUp
  <2>6. ASSUME NEW p \in 1..Len(up'), NEW m, m = up'[p], IsPart(m)
        PROVE  sets'[m.id].kind # "free" /\ (sets'[m.id].kind = "sync" => m.name = Cur(m.id).name')
    <3>1. CASE OldUp(m)
      <4>1. Stays(m.id) /\ sets[m.id].kind # "free" /\ (sets[m.id].kind = "sync" => m.name = Cur(m.id).name)
        BY <2>1, <2>6, <3>1 DEF OldUp, SetsNamed
      <4> QED
        BY <4>1 DEF Stays, SameSet, Cur
    <3>2. CASE m.kind = "file" /\ NewUp(m)
      <4>1. PICK a \in Addr :
               /\ m.id = a
               /\ \/ /\ RecvSyncFile(a) /\ m.name = Cur(a).name' /\ sets'[a].kind = "sync"
                  \/ RecvUpdateFile(a)
                  \/ RecvCompleteSyncEnd /\ a = job.set /\ m.name = sets[a].files[1].name
                  \/ NextFile /\ a = job.set /\ m.name = Cur(a).name' /\ sets'[a].kind = "sync"
        BY <3>2 DEF NewUp
      <4>2. CASE m.name = Cur(a).name' /\ sets'[a].kind = "sync"
        BY <4>1, <4>2
      <4>3. CASE RecvUpdateFile(a)
        <5>1. a \in Free
          BY <4>3, UpdateTaken
        <5>2. PICK s : sets' = [sets EXCEPT ![a] = s] /\ s.kind = "update"
          BY <4>3, UpdateTaken
        <5>3. sets'[a] = s
          BY <5>1, <5>2, FreeTaken
        <5> QED
          BY <4>1, <5>2, <5>3
      <4>4. CASE RecvCompleteSyncEnd /\ a = job.set /\ m.name = sets[a].files[1].name
        <5>1. job.at = "wiped" /\ sets' = sets
          BY <4>4, CompleteEndTaken
        <5>2. sets[a].kind = "sync" /\ sets[a].curNo = 0
          BY <4>4, <5>1 DEF SetsListed
        <5>3. sets'[a].curNo + 1 = 1
          BY <5>1, <5>2
        <5>4. Cur(a).name' = sets[a].files[1].name
          BY <5>1, <5>3 DEF Cur
        <5> QED
          BY <4>1, <4>4, <5>1, <5>2, <5>4
      <4> QED
        BY <4>1, <4>2, <4>3, <4>4
    <3> QED
      BY <2>5, <2>6, <3>1, <3>2
  <2>7. ASSUME job'.at = "wiped"
        PROVE  /\ \A p \in 1..Len(down') : \A m : m = down'[p] /\ IsPart(m) => m.id # job'.set
               /\ \A p \in 1..Len(up') : \A m : m = up'[p] /\ IsPart(m) => m.id # job'.set
    <3>1. PICK a : a = job'.set
      OBVIOUS
    <3>2. \/ job' = job
          \/ RecvCompleteSync(a) /\ a \in Addr
      BY <2>7, <3>1, WipedFrom
    <3>3. /\ \A p \in 1..Len(down) : IsPart(down[p]) => down[p].id # a
          /\ \A p \in 1..Len(up) : IsPart(up[p]) => up[p].id # a
      <4>1. CASE job' = job
        BY <2>7, <3>1, <4>1 DEF SetsNamed
      <4>2. CASE RecvCompleteSync(a) /\ a \in Addr
        <5>1. a \in Free
          BY <4>2 DEF RecvCompleteSync
        <5> QED
          BY <5>1, FreeUnused
      <4> QED
        BY <3>2, <4>1, <4>2
    <3>4. ASSUME NEW p \in 1..Len(down'), NEW m, m = down'[p], IsPart(m) PROVE m.id # a
      <4>1. \/ \E q \in 1..Len(down) : m = down[q]
            \/ \E q \in 1..Len(up) : up[q].kind = "file" /\ m.id = up[q].id
        BY <2>3, <3>4
      <4> QED
        BY <3>3, <3>4, <4>1 DEF IsPart
    <3>5. ASSUME NEW p \in 1..Len(up'), NEW m, m = up'[p], IsPart(m) PROVE m.id # a
      <4>1. ~(\E b \in Addr : RecvSyncFile(b) \/ RecvUpdateFile(b)) /\ ~RecvCompleteSyncEnd /\ ~NextFile
        BY <2>7 DEF RecvSyncFile, RecvUpdateFile, RecvCompleteSyncEnd, NextFile, Receive, Idle
      <4>2. OldUp(m)
        BY <2>5, <3>5, <4>1 DEF NewUp
      <4> QED
        BY <3>3, <3>5, <4>2 DEF OldUp
    <3> QED
      BY <3>1, <3>4, <3>5
  <2>8. (\A p \in 1..Len(down) : IsPart(down[p]) => sets[down[p].id].kind # "free")'
    BY <2>4 DEF IsPart
  <2>9. (\A p \in 1..Len(up) : IsPart(up[p]) =>
          /\ sets[up[p].id].kind # "free"
          /\ sets[up[p].id].kind = "sync" => up[p].name = Cur(up[p].id).name)'
    BY <2>6 DEF IsPart, Cur
  <2>10. (job.at = "wiped" =>
          /\ \A p \in 1..Len(down) : IsPart(down[p]) => down[p].id # job.set
          /\ \A p \in 1..Len(up) : IsPart(up[p]) => up[p].id # job.set)'
    BY <2>7 DEF IsPart
  <2> QED
    BY <2>8, <2>9, <2>10 DEF SetsNamed
<1> QED
  BY <1>1, <1>2
-----------------------------------------------------------------------------
(* AnswersFit is kept: of an answer as new as the listing, all is counted.   *)

\* Whatever asks or answers for a file of a sync.
LEMMA OnWay ==
  ASSUME IInv, OlderAhead
  PROVE  /\ \A p \in 1..Len(down) : OfSync(down[p]) => Right(Stand(down[p]))
         /\ \A p \in 1..Len(up) : OfSync(up[p]) => Right(Stand(up[p]))
<1>1. ASSUME NEW m, OfSync(m) PROVE Stands(Stand(m))
  BY <1>1 DEF Stands, Stand
<1>2. \A p \in 1..Len(Flow) : Stands(Alive[p]) => Right(Alive[p])
  BY DEF OlderAhead, Orderly
<1>3. ASSUME NEW p \in 1..Len(down), OfSync(down[p]) PROVE Right(Stand(down[p]))
  BY <1>1, <1>2, <1>3, DownPlace
<1>4. ASSUME NEW p \in 1..Len(up), OfSync(up[p]) PROVE Right(Stand(up[p]))
  BY <1>1, <1>2, <1>4, UpPlace
<1> QED
  BY <1>3, <1>4

\* Its set has a current file, and is on the list.
LEMMA RightSet ==
  ASSUME NEW m, OfSync(m), Right(Stand(m))
  PROVE  /\ sets[m.id].curNo < Len(Order) /\ StillListed(m.id)
         /\ RowsUpTo(sets[m.id].curNo, sets[m.id].files)
<1>1. Stand(m).t = "set" /\ Stand(m).id = m.id
  BY DEF Stand
<1> QED
  BY <1>1 DEF Right

\* No step but BEGIN and BODY changes a set that a message to the board names.
LEMMA PartSets ==
  ASSUME IInv, SetsListed, SetsNamed, OlderAhead, PartsTogether, Next, ~Reboot,
         ~RecvFileBegin, ~RecvFileBody
  PROVE  \A p \in 1..Len(down) : IsPart(down[p]) => sets'[down[p].id] = sets[down[p].id]
<1>1. CASE sets' = sets
  BY <1>1
<1>2. ASSUME NEW a \in Addr, NEW s, sets' = [sets EXCEPT ![a] = s],
             \A p \in 1..Len(down) : IsPart(down[p]) => down[p].id # a
      PROVE  \A p \in 1..Len(down) : IsPart(down[p]) => sets'[down[p].id] = sets[down[p].id]
  BY <1>2, SetTaken, PartsTyped
<1>3. ASSUME NEW a \in Addr, RecvSyncFile(a) \/ RecvCompleteSync(a) \/ RecvUpdateFile(a)
      PROVE  a \in Free /\ \E s : sets' = [sets EXCEPT ![a] = s]
  BY <1>3 DEF RecvSyncFile, RecvCompleteSync, RecvUpdateFile, ContinueWith
<1>4. CASE \E a \in Addr : RecvSyncFile(a) \/ RecvCompleteSync(a) \/ RecvUpdateFile(a)
  BY <1>2, <1>3, <1>4, FreeUnused
<1>5. CASE NextFile
  <2>1. PICK a : a = job.set
    OBVIOUS
  <2>2. job.at # "idle" /\ ContinueWith(a, [sets[a] EXCEPT !.curNo = @ + 1], ring, known)
    BY <1>5, <2>1 DEF NextFile
  <2>3. PICK s : sets' = [sets EXCEPT ![a] = s]
    BY <2>2 DEF ContinueWith
  <2>4. a \in Addr
    BY <2>1, <2>2, BusyListed
  <2>5. \A p \in 1..Len(down) : IsPart(down[p]) => down[p].id # a
    BY <2>1, <2>2, OnlyHandled
  <2> QED
    BY <1>2, <2>3, <2>4, <2>5
<1>6. CASE RecvCompleteSyncEnd \/ RecvFileEnd \/ WriteFile \/ SyncDisk \/ SaveLocalFile
            \/ ServerSyncs \/ ServerSyncsAll \/ ServerAnswers \/ ServerGivesUp \/ LinkCut
            \/ \E f \in File : ServerEdits(f) \/ ServerUpdates(f)
  BY <1>1, <1>6 DEF RecvCompleteSyncEnd, RecvFileEnd, WriteFile, SyncDisk, SaveLocalFile, ServerSyncs, ServerSyncsAll,
                     Sync, ServerAnswers, ServerGivesUp, LinkCut, ServerEdits, ServerUpdates
<1>7. CASE WildTransfer \/ Restart
  BY <1>7 DEF WildTransfer, Restart
<1> QED
  BY <1>4, <1>5, <1>6, <1>7 DEF Next, Handlers

\* An answer that fits goes on fitting, as the server's versions only grow.
LEMMA FitsStay ==
  ASSUME IInv, SetsListed, Next, NEW a \in Addr, sets[a].kind = "sync", sets[a].curNo < Len(Order),
         Stays(a), NEW v \in Version, Fits(a, v)
  PROVE  Fits(a, v)'
<1>1. Cur(a)' = Cur(a)
  BY DEF Stays, SameSet, Cur
<1>2. Cur(a).name \in File /\ Cur(a).ver \in Version
  BY CurListed
<1>3. srv[Cur(a).name] \in Nat /\ srv'[Cur(a).name] \in Nat /\ srv[Cur(a).name] <= srv'[Cur(a).name]
  BY <1>2, ServerGrows
<1>4. v \in Nat
  BY FileSyncAssumption
<1>5. Cur(a).ver <= v /\ v <= srv[Cur(a).name]
  BY DEF Fits
<1>6. v <= srv'[Cur(a).name]
  BY <1>3, <1>4, <1>5
<1> QED
  BY <1>1, <1>5, <1>6 DEF Fits

EndFits(e) ==
  down[e].kind = "END" /\ OfSync(down[e]) =>
     /\ Fits(down[e].id, down[e].ver)
     /\ e <= SizeOf[down[e].ver] + 1 => Got(down[e].id, down[e].ver, e - 1)

\* The end of an answer keeps fitting, wherever it is on the link.
LEMMA EndKept ==
  ASSUME IInv, SetsListed, OlderAhead, AnswersFit, Next,
         NEW e \in 1..Len(down), NEW f \in 1..Len(down'), down'[f] = down[e],
         IsPart(down[e]) => Stays(down[e].id),
         down[e].kind = "END" /\ OfSync(down[e]) /\ f <= SizeOf[down[e].ver] + 1 =>
            (\A a, v : a = down[e].id /\ v = down[e].ver => Got(a, v, f - 1)')
  PROVE  \A x : x = f => EndFits(x)'
<1>1. SUFFICES ASSUME down[e].kind = "END", sets'[down[e].id].kind = "sync"
               PROVE  \A x : x = f => EndFits(x)'
  BY DEF EndFits, OfSync
<1>2. PICK m : m = down[e]
  OBVIOUS
<1>3. PICK a : a = m.id
  OBVIOUS
<1>4. PICK v : v = m.ver
  OBVIOUS
<1>5. a \in Addr /\ v \in Version
  BY <1>1, <1>2, <1>3, <1>4, PartIs DEF IInv, LinkTyped
<1>6. Stays(a)
  BY <1>1, <1>2, <1>3 DEF IsPart
<1>7. sets[a].kind = "sync" /\ OfSync(m)
  BY <1>1, <1>2, <1>3, <1>6 DEF Stays, OfSync
<1>8. Fits(a, v)
  BY <1>1, <1>2, <1>3, <1>4, <1>7 DEF AnswersFit
<1>9. sets[a].curNo < Len(Order)
  BY <1>2, <1>3, <1>7, OnWay, RightSet
<1>10. Fits(a, v)'
  BY <1>5, <1>6, <1>7, <1>8, <1>9, FitsStay
<1>11. f <= SizeOf[v] + 1 => Got(a, v, f - 1)'
  BY <1>1, <1>2, <1>3, <1>4, <1>7
<1>12. down'[f] = m
  BY <1>2
<1> QED
  BY <1>3, <1>4, <1>10, <1>11, <1>12 DEF EndFits

\* A message is taken: every end comes one place nearer.
LEMMA EndsTaken ==
  ASSUME IInv, SetsListed, OlderAhead, AnswersFit, Next, job = Idle, down # <<>>, down' = Tail(down),
         \A p \in 1..Len(down) : IsPart(down[p]) => Stays(down[p].id),
         \A e \in 2..Len(down) : down[e].kind = "END" /\ OfSync(down[e]) /\ e <= SizeOf[down[e].ver] + 2 =>
            (\A a, v : a = down[e].id /\ v = down[e].ver => Got(a, v, e - 2)')
  PROVE  \A f \in 1..Len(down') : EndFits(f)'
<1>1. SUFFICES ASSUME NEW f \in 1..Len(down') PROVE EndFits(f)'
  OBVIOUS
<1>2. down \in Seq(ToBoard) /\ Len(down) \in Nat /\ f + 1 \in 1..Len(down) /\ down'[f] = down[f + 1]
  BY <1>1, DownTaken
<1>3. PICK e \in 1..Len(down) : e = f + 1
  BY <1>2
<1>4. e \in 2..Len(down) /\ e - 2 = f - 1 /\ f \in Nat /\ down'[f] = down[e]
  BY <1>1, <1>2, <1>3
<1>5. ASSUME down[e].kind = "END", f <= SizeOf[down[e].ver] + 1 PROVE e <= SizeOf[down[e].ver] + 2
  <2>1. SizeOf[down[e].ver] \in Nat
    BY <1>2, <1>3, <1>5, PartIs
  <2> QED
    BY <1>3, <1>4, <1>5, <2>1
<1>6. down[e].kind = "END" /\ OfSync(down[e]) /\ f <= SizeOf[down[e].ver] + 1 =>
            (\A a, v : a = down[e].id /\ v = down[e].ver => Got(a, v, f - 1)')
  BY <1>4, <1>5
<1>7. IsPart(down[e]) => Stays(down[e].id)
  BY <1>3
<1>8. PICK x : x = f
  OBVIOUS
<1>9. \A y : y = f => EndFits(y)'
  BY <1>4, <1>6, <1>7, EndKept
<1> QED
  BY <1>9

\* A message is taken that is no part of an answer.
LEMMA EndsOther ==
  ASSUME IInv, SetsListed, OlderAhead, PartsTogether, AnswersFit, Next, job = Idle, down # <<>>, down' = Tail(down),
         \A p \in 1..Len(down) : IsPart(down[p]) => Stays(down[p].id),
         Head(down).kind \notin {"BEGIN", "BODY"}
  PROVE  \A f \in 1..Len(down') : EndFits(f)'
<1>1. Head(down) = down[1]
  BY DownTaken
<1>2. ASSUME NEW e \in 2..Len(down), down[e].kind = "END", e <= SizeOf[down[e].ver] + 2 PROVE FALSE
  <2>1. e \in 1..Len(down) /\ e >= 2
    OBVIOUS
  <2>2. SizeOf[down[e].ver] \in Nat
    BY <1>2, <2>1, PartIs DEF IInv, LinkTyped
  <2>3. e <= SizeOf[down[e].ver] + 1 \/ e = SizeOf[down[e].ver] + 2
    BY <1>2, <2>1, <2>2
  <2> QED
    BY <1>1, <1>2, <2>1, <2>3, NearEnd
<1> QED
  BY <1>2, EndsTaken

LEMMA EndsBegin ==
  ASSUME IInv, SetsListed, OlderAhead, PartsTogether, AnswersFit, Next, RecvFileBegin
  PROVE  \A f \in 1..Len(down') : EndFits(f)'
<1>1. PICK h : h = Head(down)
  OBVIOUS
<1>2. /\ job = Idle /\ down # <<>> /\ down' = Tail(down) /\ h.kind = "BEGIN"
      /\ sets'[h.id].actRecvSize = 0 /\ sets'[h.id].ver = h.ver
  BY <1>1, BeginTaken DEF RecvFileBegin, RecvFile, Receive
<1>3. \A p \in 1..Len(down) : IsPart(down[p]) => Stays(down[p].id)
  BY BeginTaken, PartsTyped DEF Stays
<1>4. h = down[1]
  BY <1>1, <1>2, DownTaken
<1>5. ASSUME NEW e \in 2..Len(down), down[e].kind = "END", e <= SizeOf[down[e].ver] + 2,
             NEW a, NEW v, a = down[e].id, v = down[e].ver
      PROVE  Got(a, v, e - 2)'
  <2>1. e \in 1..Len(down) /\ e >= 2 /\ e \in Int
    OBVIOUS
  <2>2. SizeOf[v] \in Nat
    BY <1>5, <2>1, PartIs DEF IInv, LinkTyped
  <2>3. h.id = a /\ h.ver = v /\ ~(e <= SizeOf[v] + 1)
    BY <1>2, <1>4, <1>5, <2>1, NearEnd
  <2>4. SizeOf[v] - (e - 2) = 0
    BY <1>5, <2>1, <2>2, <2>3
  <2> QED
    BY <1>2, <2>3, <2>4 DEF Got
<1> QED
  BY <1>2, <1>3, <1>5, EndsTaken

LEMMA EndsBody ==
  ASSUME IInv, SetsListed, OlderAhead, PartsTogether, AnswersFit, Next, RecvFileBody
  PROVE  \A f \in 1..Len(down') : EndFits(f)'
<1>1. PICK h : h = Head(down)
  OBVIOUS
<1>2. /\ job = Idle /\ down # <<>> /\ down' = Tail(down) /\ h.kind = "BODY" /\ h.id \in Addr
      /\ sets'[h.id].ver = sets[h.id].ver /\ SameSet(h.id)
      /\ \A b : /\ b = h.id
                /\ sets[b].actRecvSize + 1 <= rfiSize(Cur(b)) \/ rfiSize(Cur(b)) = 0
                => sets'[b].actRecvSize = sets[b].actRecvSize + 1
  BY <1>1, BodyTaken DEF RecvFileBody, RecvFile, Receive
<1>3. \A p \in 1..Len(down) : IsPart(down[p]) => Stays(down[p].id)
  BY BodyTaken, PartsTyped DEF Stays
<1>4. h = down[1]
  BY <1>1, <1>2, DownTaken
<1>5. ASSUME NEW e \in 2..Len(down), down[e].kind = "END", OfSync(down[e]), e <= SizeOf[down[e].ver] + 2,
             NEW a, NEW v, a = down[e].id, v = down[e].ver
      PROVE  Got(a, v, e - 2)'
  <2>1. e \in 1..Len(down) /\ e >= 2 /\ e \in Int
    OBVIOUS
  <2>2. v \in Version /\ SizeOf[v] \in Nat
    BY <1>5, <2>1, PartIs DEF IInv, LinkTyped
  <2>3. h.id = a /\ ~(e = SizeOf[v] + 2)
    BY <1>2, <1>4, <1>5, <2>1, NearEnd
  <2>4. e <= SizeOf[v] + 1
    BY <1>5, <2>1, <2>2, <2>3
  <2>5. Got(a, v, e - 1)
    BY <1>5, <2>1, <2>4 DEF AnswersFit
  <2>6. Cur(a)' = Cur(a)
    BY <1>2, <2>3 DEF SameSet, Cur
  <2>7. sets'[a].ver = v
    BY <1>2, <2>3, <2>5 DEF Got
  <2>8. ASSUME Cur(a).ver = v PROVE sets'[a].actRecvSize = SizeOf[v] - (e - 2)
    <3>1. rfiSize(Cur(a)) = SizeOf[v]
      BY <2>2, <2>8, FileSyncAssumption DEF rfiSize, Absent
    <3>2. sets[a].actRecvSize = SizeOf[v] - (e - 1)
      BY <2>5, <2>8 DEF Got
    <3>3. sets[a].actRecvSize + 1 <= rfiSize(Cur(a))
      BY <2>1, <2>2, <3>1, <3>2
    <3>4. sets'[a].actRecvSize = sets[a].actRecvSize + 1
      BY <1>2, <2>3, <3>3
    <3> QED
      BY <2>1, <2>2, <3>2, <3>4
  <2> QED
    BY <2>6, <2>7, <2>8 DEF Got
<1> QED
  BY <1>2, <1>3, <1>5, EndsTaken

\* What is on the link stays in its place, and what is appended fits.
LEMMA EndsGrown ==
  ASSUME IInv, SetsListed, OlderAhead, AnswersFit, Next, Len(down) <= Len(down'), Len(down') \in Nat,
         \A p \in 1..Len(down) : down'[p] = down[p],
         \A p \in 1..Len(down) : IsPart(down[p]) => sets'[down[p].id] = sets[down[p].id],
         \A p \in 1..Len(down') : p \notin 1..Len(down) => \A x : x = p => EndFits(x)'
  PROVE  \A f \in 1..Len(down') : EndFits(f)'
<1>1. SUFFICES ASSUME NEW f \in 1..Len(down') PROVE \A x : x = f => EndFits(x)'
  OBVIOUS
<1>2. CASE f \notin 1..Len(down)
  BY <1>1, <1>2
<1>3. CASE f \in 1..Len(down)
  <2>1. down'[f] = down[f]
    BY <1>3
  <2>2. IsPart(down[f]) => Stays(down[f].id)
    BY <1>3 DEF Stays, SameSet
  <2>3. ASSUME down[f].kind = "END", OfSync(down[f]), f <= SizeOf[down[f].ver] + 1,
               NEW a, NEW v, a = down[f].id, v = down[f].ver
        PROVE  Got(a, v, f - 1)'
    <3>1. sets'[a] = sets[a]
      BY <1>3, <2>3 DEF IsPart
    <3>2. Got(a, v, f - 1)
      BY <1>3, <2>3 DEF AnswersFit
    <3> QED
      BY <3>1, <3>2 DEF Got, Cur
  <2> QED
    BY <1>1, <1>3, <2>1, <2>2, <2>3, EndKept
<1> QED
  BY <1>2, <1>3

\* The server answers with the version that it has.
LEMMA EndsAnswered ==
  ASSUME IInv, SetsListed, SetsNamed, OlderAhead, PartsTogether, AnswersFit, Next, ServerAnswers
  PROVE  \A f \in 1..Len(down') : EndFits(f)'
<1>1. PICK m : m = Head(up)
  OBVIOUS
<1>2. up # <<>> /\ up' = Tail(up) /\ sets' = sets /\ srv' = srv /\ Len(down) \in Nat /\ down \in Seq(ToBoard)
  <2>1. up # <<>> /\ up' = Tail(up) /\ sets' = sets /\ srv' = srv
    BY ZenonT(20) DEF ServerAnswers
  <2>2. down \in Seq(ToBoard)
    BY DEF IInv, LinkTyped
  <2> QED
    BY <2>1, <2>2, LenProperties
<1>3. \A p \in 1..Len(down) : IsPart(down[p]) => sets'[down[p].id] = sets[down[p].id]
  BY <1>2
<1>4. CASE m.kind = "fin"
  <2>1. down' = down
    BY <1>1, <1>4 DEF ServerAnswers
  <2> QED
    BY <1>2, <1>3, <2>1, EndsGrown
<1>5. CASE m.kind # "fin"
  <2>1. m.kind = "file" /\ m.id \in Addr /\ m.name \in File
    BY <1>1, <1>5, Answered
  <2>2. PICK v : v = srv[m.name]
    OBVIOUS
  <2>3. v \in Version /\ SizeOf[v] \in Nat
    BY <1>1, <1>5, <2>2, Answered
  <2>4. PICK q \in Seq(ToBoard) : Answer(q, m.id, v) /\ down' = down \o q
    BY <1>1, <1>5, <2>2, Answered
  <2>5. /\ Len(down') = Len(down) + Len(q) /\ Len(q) \in Nat
        /\ \A p \in 1..Len(down) : down'[p] = down[p]
        /\ \A p \in 1..Len(q) : down'[Len(down) + p] = q[p]
    BY <1>2, <2>4, ConcatProperties
  <2>6. Len(down) <= Len(down') /\ Len(down') \in Nat
    BY <1>2, <2>5
  <2>7. m = up[1] /\ 1 \in 1..Len(up)
    <3>1. up \in Seq(Message)
      BY LinkMessages
    <3> QED
      BY <1>1, <1>2, <3>1, TailElements
  <2>8. ASSUME sets[m.id].kind = "sync" PROVE Fits(m.id, v)
    <3>1. OfSync(m)
      BY <2>1, <2>8 DEF OfSync
    <3>2. sets[m.id].curNo < Len(Order)
      BY <2>7, <3>1, OnWay, RightSet
    <3>3. m.name = Cur(m.id).name
      BY <2>1, <2>7, <2>8 DEF SetsNamed, IsPart
    <3>4. Cur(m.id).ver <= srv[Cur(m.id).name] /\ srv[m.name] \in Nat
      BY <2>1, <2>2, <2>3, <2>8, <3>2, CurListed, FileSyncAssumption
    <3> QED
      BY <2>2, <3>3, <3>4 DEF Fits
  <2>9. ASSUME NEW p \in 1..Len(down'), p \notin 1..Len(down), NEW x, x = p
        PROVE  EndFits(x)'
    <3>1. PICK i \in 1..Len(q) : p = Len(down) + i
      <4>1. p - Len(down) \in 1..Len(q) /\ p = Len(down) + (p - Len(down))
        <5>1. PICK n, l : n = Len(down) /\ l = Len(q)
          OBVIOUS
        <5>2. n \in Nat /\ l \in Nat /\ p \in 1..n + l /\ p \notin 1..n
          BY <1>2, <2>5, <2>9, <5>1
        <5>3. p - n \in 1..l /\ p = n + (p - n)
          BY <5>2
        <5> QED
          BY <5>1, <5>3
      <4> QED
        BY <4>1
    <3>2. PICK k : k = IF i = 1 THEN "BEGIN" ELSE IF i = Len(q) THEN "END" ELSE "BODY"
      OBVIOUS
    <3>3. down'[p] = [kind |-> k, id |-> m.id, ver |-> v]
      BY <2>4, <2>5, <3>1, <3>2 DEF Answer
    <3>4. SUFFICES ASSUME k = "END", sets[m.id].kind = "sync" PROVE EndFits(x)'
      BY <1>2, <2>9, <3>3 DEF EndFits, OfSync
    <3>5. i = SizeOf[v] + 2
      BY <2>4, <3>2, <3>4 DEF Answer
    <3>6. ~(p <= SizeOf[v] + 1)
      BY <1>2, <2>3, <3>1, <3>5
    <3>7. Fits(m.id, v)'
      BY <1>2, <2>8, <3>4 DEF Fits, Cur
    <3> QED
      BY <2>9, <3>3, <3>6, <3>7 DEF EndFits
  <2> QED
    BY <1>3, <2>5, <2>6, <2>9, EndsGrown
<1> QED
  BY <1>4, <1>5

\* Another message is appended.
LEMMA EndsAppended ==
  ASSUME IInv, SetsListed, OlderAhead, AnswersFit, Next, sets' = sets,
         NEW k, k.kind # "END", down' = Append(down, k)
  PROVE  \A f \in 1..Len(down') : EndFits(f)'
<1>1. down \in Seq(Message) /\ Len(down) \in Nat
  BY LinkMessages
<1>2. /\ Len(down') = Len(down) + 1 /\ down'[Len(down) + 1] = k
      /\ \A p \in 1..Len(down) : down'[p] = down[p]
  BY <1>1, AppendElements
<1>3. ASSUME NEW p \in 1..Len(down'), p \notin 1..Len(down), NEW x, x = p
      PROVE  EndFits(x)'
  <2>1. down'[x] = k
    BY <1>1, <1>2, <1>3
  <2> QED
    BY <2>1 DEF EndFits
<1> QED
  BY <1>1, <1>2, <1>3, EndsGrown

LEMMA TruncatedFrom ==
  ASSUME IInv, Next, job'.at = "truncated"
  PROVE  RecvFileEnd \/ (job' = job /\ sets' = sets)
<1>1. CASE Handlers
  <2>1. ASSUME NEW from, NEW to \in {"written", "synced", "saved"}, Stage(from, to) PROVE FALSE
    BY <2>1 DEF Stage, IInv, JobHasFile
  <2>2. CASE WriteFile \/ SyncDisk \/ SaveLocalFile
    BY <2>1, <2>2 DEF WriteFile, SyncDisk, SaveLocalFile
  <2>3. CASE RecvCompleteSyncEnd \/ NextFile \/ WildTransfer
    BY <2>3 DEF RecvCompleteSyncEnd, NextFile, WildTransfer, Reboot, Idle
  <2>4. CASE RecvFileBegin \/ RecvFileBody
    BY <2>4, BeginTaken, BodyTaken
  <2>5. CASE \E a \in Addr : RecvSyncFile(a) \/ RecvCompleteSync(a) \/ RecvUpdateFile(a)
    BY <2>5 DEF RecvSyncFile, RecvCompleteSync, RecvUpdateFile, Receive, Idle
  <2> QED
    BY <1>1, <2>2, <2>3, <2>4, <2>5 DEF Handlers
<1>2. CASE ServerSyncs \/ ServerSyncsAll \/ ServerAnswers \/ ServerGivesUp \/ LinkCut
            \/ \E f \in File : ServerEdits(f) \/ ServerUpdates(f)
  BY <1>2 DEF ServerSyncs, ServerSyncsAll, Sync, ServerAnswers, ServerGivesUp, LinkCut, ServerEdits, ServerUpdates
<1>3. CASE Restart
  BY <1>3 DEF Restart, Reboot, Idle
<1> QED
  BY <1>1, <1>2, <1>3 DEF Next

\* What the thread writes has been received as it should.
LEMMA TruncatedFits ==
  ASSUME IInv, SetsListed, OlderAhead, AnswersFit, Next, job'.at = "truncated"
  PROVE  \A a : a = job'.set => \E v \in Version : Fits(a, v)' /\ Got(a, v, 0)'
<1>1. PICK a : a = job'.set
  OBVIOUS
<1>2. CASE RecvFileEnd
  <2>1. PICK h : h = Head(down)
    OBVIOUS
  <2>2. /\ job.at = "idle" /\ down # <<>> /\ h.kind = "END" /\ h.id \in Addr /\ h.ver \in Version
        /\ recv_file_list_get(h.id) /\ sets' = sets /\ srv' = srv
        /\ job' = [at |-> "truncated", set |-> h.id] \/ job' = job
    BY <1>2, <2>1, EndTaken
  <2>3. a = h.id
    BY <1>1, <2>2
  <2>4. sets[a].kind = "sync"
    BY <2>2, <2>3, KnownIs, KnownDistinct
  <2>5. h = down[1] /\ 1 \in 1..Len(down)
    BY <2>1, <2>2, FrontTaken
  <2>6. OfSync(h)
    BY <2>2, <2>3, <2>4 DEF OfSync
  <2>7. SizeOf[h.ver] \in Nat
    BY <2>2, FileSyncAssumption
  <2>8. Fits(a, h.ver) /\ Got(a, h.ver, 1 - 1)
    BY <2>2, <2>3, <2>5, <2>6, <2>7 DEF AnswersFit
  <2>9. Fits(a, h.ver)' /\ Got(a, h.ver, 0)'
    BY <2>2, <2>8 DEF Fits, Got, Cur
  <2> QED
    BY <1>1, <2>2, <2>9
<1>3. CASE job' = job /\ sets' = sets
  <2>1. PICK v \in Version : Fits(a, v) /\ Got(a, v, 0)
    BY <1>1, <1>3 DEF AnswersFit
  <2>2. a \in Addr /\ sets[a].kind = "sync" /\ sets[a].curNo < Len(Order)
    BY <1>1, <1>3, BusyListed
  <2>3. Stays(a)
    BY <1>3 DEF Stays, SameSet
  <2>4. Fits(a, v)'
    BY <2>1, <2>2, <2>3, FitsStay
  <2>5. Got(a, v, 0)'
    BY <1>3, <2>1 DEF Got, Cur
  <2> QED
    BY <1>1, <2>4, <2>5
<1> QED
  BY <1>2, <1>3, TruncatedFrom

LEMMA AnswersKeeps ==
  ASSUME IInv, SetsListed, SetsNamed, OlderAhead, PartsTogether, AnswersFit, Next
  PROVE  AnswersFit'
<1>1. ASSUME down' = <<>> PROVE \A f \in 1..Len(down') : EndFits(f)'
  BY <1>1
<1>2. ASSUME ~Reboot, ~RecvFileBegin, ~RecvFileBody, down' = down PROVE \A f \in 1..Len(down') : EndFits(f)'
  <2>1. \A p \in 1..Len(down) : IsPart(down[p]) => sets'[down[p].id] = sets[down[p].id]
    BY <1>2, PartSets
  <2>2. Len(down) \in Nat
    BY DEF IInv, LinkTyped
  <2> QED
    BY <1>2, <2>1, <2>2, EndsGrown
<1>3. ASSUME ~Reboot, job = Idle, down # <<>>, down' = Tail(down), Head(down).kind \notin {"BEGIN", "BODY"}
      PROVE  \A f \in 1..Len(down') : EndFits(f)'
  BY <1>3, NamedStay, EndsOther
<1>4. ASSUME Handlers, ~Reboot PROVE \A f \in 1..Len(down') : EndFits(f)'
  <2>1. ASSUME NEW kind \in {"SYNCFILE", "COMPLETESYNC", "UPDATEFILE", "END"}, Receive(kind)
        PROVE  \A f \in 1..Len(down') : EndFits(f)'
    BY <1>3, <1>4, <2>1 DEF Receive
  <2>2. CASE \E a \in Addr : RecvSyncFile(a) \/ RecvCompleteSync(a) \/ RecvUpdateFile(a)
    BY <2>1, <2>2 DEF RecvSyncFile, RecvCompleteSync, RecvUpdateFile
  <2>3. CASE RecvFileEnd
    BY <2>1, <2>3 DEF RecvFileEnd, RecvFile
  <2>4. CASE RecvFileBegin
    BY <2>4, EndsBegin
  <2>5. CASE RecvFileBody
    BY <2>5, EndsBody
  <2>6. CASE RecvCompleteSyncEnd \/ WriteFile \/ SyncDisk \/ SaveLocalFile \/ NextFile
    <3>1. down' = down
      BY <2>6 DEF RecvCompleteSyncEnd, WriteFile, SyncDisk, SaveLocalFile, NextFile
    <3> QED
      BY <1>2, <1>4, <2>4, <2>5, <3>1
  <2>7. CASE WildTransfer
    BY <1>4, <2>7 DEF WildTransfer
  <2> QED
    BY <1>4, <2>2, <2>3, <2>4, <2>5, <2>6, <2>7 DEF Handlers
<1>5. ASSUME NEW f \in File, ServerUpdates(f) PROVE \A g \in 1..Len(down') : EndFits(g)'
  <2>1. PICK k : k = [kind |-> "UPDATEFILE", name |-> f]
    OBVIOUS
  <2>2. k.kind # "END" /\ down' = Append(down, k) /\ sets' = sets
    BY <1>5, <2>1 DEF ServerUpdates
  <2> QED
    BY <2>2, EndsAppended
<1>6. ASSUME NEW kind \in {"SYNCFILE", "COMPLETESYNC"}, Sync(kind) PROVE \A g \in 1..Len(down') : EndFits(g)'
  <2>1. PICK k : k = [kind |-> kind, files |-> Listing]
    OBVIOUS
  <2>2. k.kind # "END" /\ down' = Append(down, k) /\ sets' = sets
    BY <1>6, <2>1 DEF Sync
  <2> QED
    BY <2>2, EndsAppended
<1>7. ASSUME ServerSyncs \/ ServerSyncsAll PROVE \A g \in 1..Len(down') : EndFits(g)'
  BY <1>6, <1>7 DEF ServerSyncs, ServerSyncsAll
<1>8. ASSUME ServerAnswers PROVE \A g \in 1..Len(down') : EndFits(g)'
  BY <1>8, EndsAnswered
<1>9. ASSUME \/ ServerGivesUp
             \/ \E f \in File : ServerEdits(f)
      PROVE  \A g \in 1..Len(down') : EndFits(g)'
  <2>1. sets' = sets /\ down' = down
    BY <1>9 DEF ServerGivesUp, ServerEdits
  <2>2. Len(down) \in Nat
    BY DEF IInv, LinkTyped
  <2> QED
    BY <2>1, <2>2, EndsGrown
<1>10. ASSUME LinkCut \/ Restart \/ Reboot PROVE \A g \in 1..Len(down') : EndFits(g)'
  BY <1>1, <1>10 DEF LinkCut, Restart, Reboot
<1>11. \A g \in 1..Len(down') : EndFits(g)'
  BY <1>4, <1>5, <1>7, <1>8, <1>9, <1>10 DEF Next
<1>12. (\A e \in 1..Len(down) : EndFits(e))'
  BY <1>11
<1>13. (job.at = "truncated" => \E v \in Version : Fits(job.set, v) /\ Got(job.set, v, 0))'
  BY TruncatedFits
<1>14. (\A e \in 1..Len(down) : down[e].kind = "END" /\ OfSync(down[e]) =>
          /\ Fits(down[e].id, down[e].ver)
          /\ e <= SizeOf[down[e].ver] + 1 => Got(down[e].id, down[e].ver, e - 1))'
  BY <1>12 DEF EndFits
<1> QED
  BY <1>13, <1>14 DEF AnswersFit
-----------------------------------------------------------------------------
(* OnDisk is kept: a file, sync(1), then the row.                            *)

\* The thread, the disk and the rows stay as they are.
LEMMA DiskQuiet ==
  ASSUME OnDisk, UNCHANGED <<srv, disk, dirty, tbl, lost, job>>,
         job.at # "idle" => \A a : a = job.set => Cur(a)' = Cur(a)
  PROVE  OnDisk'
<1>1. PICK a : a = job.set
  OBVIOUS
<1>2. job.at # "idle" => Cur(a)' = Cur(a)
  BY <1>1
<1>3. /\ \A f \in dirty : job.at \in {"truncated", "written"} /\ f = Cur(a).name
      /\ job.at \in {"written", "synced"} /\ Cur(a).ver = srv[Cur(a).name] =>
            disk[Cur(a).name] = srv[Cur(a).name]
      /\ \A f \in File \ lost :
            tbl[f] = srv[f] /\ job.at # "wiped" /\ ~(job.at = "truncated" /\ f = Cur(a).name) =>
               disk[f] = srv[f]
  BY <1>1 DEF OnDisk
<1>4. (/\ \A f \in dirty : job.at \in {"truncated", "written"} /\ f = Cur(a).name
      /\ job.at \in {"written", "synced"} /\ Cur(a).ver = srv[Cur(a).name] =>
            disk[Cur(a).name] = srv[Cur(a).name]
      /\ \A f \in File \ lost :
            tbl[f] = srv[f] /\ job.at # "wiped" /\ ~(job.at = "truncated" /\ f = Cur(a).name) =>
               disk[f] = srv[f])'
  <2>1. job' = job /\ srv' = srv /\ disk' = disk /\ dirty' = dirty /\ tbl' = tbl /\ lost' = lost
    OBVIOUS
  <2> QED
    BY <1>2, <1>3, <2>1
<1>5. job'.set = a
  BY <1>1
<1> QED
  BY <1>4, <1>5 DEF OnDisk

\* A row of a version that the server had is no row of its next one.
LEMMA DiskEdit ==
  ASSUME IInv, SetsListed, OnDisk, NEW f \in File, ServerEdits(f)
  PROVE  OnDisk'
<1>1. PICK v \in Version : v > srv[f] /\ srv' = [srv EXCEPT ![f] = v]
  BY DEF ServerEdits
<1>2. UNCHANGED <<sets, disk, dirty, tbl, job, lost>>
  BY DEF ServerEdits, store, ghosts
<1>3. srv \in [File -> Version] /\ \A g \in File : srv[g] \in Nat
  BY FileSyncAssumption DEF IInv, LinkTyped
<1>4. srv'[f] = v /\ v > srv[f] /\ v \in Nat /\ \A g \in File : g # f => srv'[g] = srv[g]
  BY <1>1, <1>3, FileSyncAssumption
<1>5. tbl[f] <= srv[f] /\ tbl[f] \in Nat
  BY FileSyncAssumption DEF SetsListed, IInv, StoreTyped, Absent
<1>6. tbl[f] # srv'[f]
  BY <1>3, <1>4, <1>5
<1>7. PICK a : a = job.set
  OBVIOUS
<1>8. Cur(a)' = Cur(a)
  BY <1>2 DEF Cur
<1>9. (job.at \in {"written", "synced"} /\ Cur(a).ver = srv[Cur(a).name] =>
            disk[Cur(a).name] = srv[Cur(a).name])'
  <2>1. SUFFICES ASSUME job.at \in {"written", "synced"}, Cur(a).ver = srv'[Cur(a).name]
                 PROVE  disk[Cur(a).name] = srv'[Cur(a).name]
    BY <1>2, <1>8
  <2>2. Cur(a).name \in File /\ Cur(a).ver \in Version /\ Cur(a).ver <= srv[Cur(a).name]
    BY <1>7, <2>1, BusyListed, CurListed
  <2>3. Cur(a).name # f
    <3>1. ASSUME Cur(a).name = f PROVE FALSE
      <4>1. Cur(a).ver = v /\ Cur(a).ver <= srv[f]
        BY <1>4, <2>1, <2>2, <3>1
      <4> QED
        BY <1>3, <1>4, <4>1
    <3> QED
      BY <3>1
  <2>4. srv'[Cur(a).name] = srv[Cur(a).name]
    BY <1>4, <2>2, <2>3
  <2> QED
    BY <1>7, <2>1, <2>4 DEF OnDisk
<1>10. (\A g \in File \ lost :
          tbl[g] = srv[g] /\ job.at # "wiped" /\ ~(job.at = "truncated" /\ g = Cur(a).name) =>
             disk[g] = srv[g])'
  <2>1. SUFFICES ASSUME NEW g \in File \ lost, tbl[g] = srv'[g], job.at # "wiped",
                        ~(job.at = "truncated" /\ g = Cur(a).name)
                 PROVE  disk[g] = srv'[g]
    BY <1>2, <1>8
  <2>2. srv'[g] = srv[g]
    BY <1>4, <1>6, <2>1
  <2> QED
    BY <1>7, <2>1, <2>2 DEF OnDisk
<1>11. (\A g \in dirty : job.at \in {"truncated", "written"} /\ g = Cur(a).name)'
  <2>1. \A g \in dirty : job.at \in {"truncated", "written"} /\ g = Cur(a).name
    BY <1>7 DEF OnDisk
  <2> QED
    BY <1>2, <1>8, <2>1
<1>12. job'.set = a
  BY <1>2, <1>7
<1> QED
  BY <1>9, <1>10, <1>11, <1>12 DEF OnDisk

\* All files are gone, and then all rows.
LEMMA DiskWiped ==
  ASSUME IInv, SetsListed, OnDisk, RecvCompleteSyncEnd \/ \E a \in Addr : RecvCompleteSync(a)
  PROVE  OnDisk'
<1>1. CASE RecvCompleteSyncEnd
  <2>1. job.at = "wiped" /\ job'.at = "idle" /\ srv' = srv /\ dirty' = dirty /\ \A f \in File : tbl'[f] = Absent
    BY <1>1, CompleteEndTaken
  <2>2. dirty = {}
    BY <2>1 DEF OnDisk
  <2>3. \A f \in File : tbl'[f] # srv'[f]
    BY <2>1, FileSyncAssumption DEF IInv, LinkTyped, Absent
  <2> QED
    BY <2>1, <2>2, <2>3 DEF OnDisk
<1>2. CASE \E a \in Addr : RecvCompleteSync(a)
  <2>1. dirty' = {} /\ job'.at = "wiped"
    BY <1>2 DEF RecvCompleteSync
  <2> QED
    BY <2>1 DEF OnDisk
<1> QED
  BY <1>1, <1>2

\* The end of a file: its data are being written.
LEMMA DiskEnd ==
  ASSUME IInv, OnDisk, RecvFileEnd
  PROVE  OnDisk'
<1>1. PICK a : a = Head(down).id
  OBVIOUS
<1>2. /\ job.at = "idle" /\ UNCHANGED <<srv, sets, tbl, lost>>
      /\ IF rfiSize(Cur(a)) = sets[a].actRecvSize \/ rfiSize(Cur(a)) = 0
         THEN /\ disk' = [disk EXCEPT ![Cur(a).name] = Torn]
              /\ dirty' = dirty \cup {Cur(a).name}
              /\ job' = [at |-> "truncated", set |-> a]
         ELSE UNCHANGED <<disk, dirty, job>>
  BY <1>1, EndTaken
<1>3. CASE UNCHANGED <<disk, dirty, job>>
  BY <1>2, <1>3, DiskQuiet
<1>4. CASE /\ disk' = [disk EXCEPT ![Cur(a).name] = Torn]
           /\ dirty' = dirty \cup {Cur(a).name}
           /\ job' = [at |-> "truncated", set |-> a]
  <2>1. dirty = {}
    BY <1>2 DEF OnDisk
  <2>2. Cur(a)' = Cur(a) /\ job'.at = "truncated" /\ job'.set = a
    BY <1>2, <1>4 DEF Cur
  <2>3. disk \in [File -> Version \cup {Absent, Torn}]
    BY DEF IInv, StoreTyped
  <2>4. \A f \in File : f # Cur(a).name => disk'[f] = disk[f]
    BY <1>4, <2>3
  <2>5. \A f \in File \ lost : tbl[f] = srv[f] => disk[f] = srv[f]
    BY <1>2 DEF OnDisk
  <2>6. (\A f \in dirty : job.at \in {"truncated", "written"} /\ f = Cur(a).name)'
    BY <1>4, <2>1, <2>2
  <2>7. (\A f \in File \ lost : tbl[f] = srv[f] /\ ~(f = Cur(a).name) => disk[f] = srv[f])'
    BY <1>2, <2>2, <2>4, <2>5
  <2> QED
    BY <2>2, <2>6, <2>7 DEF OnDisk
<1> QED
  BY <1>2, <1>3, <1>4

\* No row is newer than what the thread is writing.
LEMMA FrontRows ==
  ASSUME IInv, SetsListed, OlderAhead, job.at \notin {"idle", "wiped"}, NEW a, a = job.set
  PROVE  tbl[Cur(a).name] <= Cur(a).ver
<1>1. 1 \in 1..Len(Flow) /\ Stands(Alive[1]) /\ Alive[1].t = "set" /\ Alive[1].id = a
  BY Front
<1>2. Right(Alive[1])
  BY <1>1 DEF OlderAhead, Orderly
<1>3. RowsUpTo(sets[a].curNo, sets[a].files)
  BY <1>1, <1>2 DEF Right
<1>4. /\ a \in Addr /\ sets[a].kind = "sync" /\ sets[a].curNo < Len(Order)
  BY BusyListed
<1>5. PICK k : k = sets[a].curNo + 1
  OBVIOUS
<1>6. /\ sets[a].curNo \in Nat /\ k \in 1..Len(Order) /\ Cur(a).name = Order[k] /\ Cur(a).ver = sets[a].files[k].ver
  BY <1>4, <1>5, CurListed
<1>7. k > sets[a].curNo
  BY <1>5, <1>6
<1> QED
  BY <1>3, <1>6, <1>7 DEF RowsUpTo

\* All that was received is written.
LEMMA DiskWritten ==
  ASSUME IInv, SetsListed, OlderAhead, AnswersFit, OnDisk, WriteFile
  PROVE  OnDisk'
<1>1. PICK a : a = job.set
  OBVIOUS
<1>2. job.at = "truncated" /\ job' = [job EXCEPT !.at = "written"]
  BY DEF WriteFile, Stage
<1>3. a \in Addr /\ sets[a].kind = "sync" /\ sets[a].curNo < Len(Order) /\ CurFile = Cur(a)
  BY <1>1, <1>2, BusyListed
<1>4. PICK d : d = IF sets[a].actRecvSize = SizeOf[sets[a].ver] THEN sets[a].ver ELSE Torn
  OBVIOUS
<1>5. disk' = [disk EXCEPT ![Cur(a).name] = d] /\ UNCHANGED <<srv, sets, dirty, tbl, lost>>
  BY <1>1, <1>3, <1>4 DEF WriteFile, server, ghosts
<1>6. job'.at = "written" /\ job'.set = a
  BY <1>1, <1>2 DEF IInv, JobHasFile
<1>7. disk \in [File -> Version \cup {Absent, Torn}] /\ Cur(a).name \in File /\ Cur(a).ver \in Version
      /\ Cur(a).ver <= srv[Cur(a).name] /\ srv[Cur(a).name] \in Version
  BY <1>3, CurListed DEF IInv, StoreTyped, LinkTyped
<1>8. disk'[Cur(a).name] = d /\ \A f \in File : f # Cur(a).name => disk'[f] = disk[f]
  BY <1>5, <1>7
<1>9. Cur(a)' = Cur(a)
  BY <1>5 DEF Cur
<1>10. PICK v \in Version : Fits(a, v) /\ Got(a, v, 0)
  BY <1>1, <1>2 DEF AnswersFit
<1>11. ASSUME Cur(a).ver = srv[Cur(a).name] PROVE d = srv[Cur(a).name]
  <2>1. v \in Nat /\ Cur(a).ver \in Nat /\ Cur(a).ver <= v /\ v <= srv[Cur(a).name]
    BY <1>7, <1>10, FileSyncAssumption DEF Fits
  <2>2. v = srv[Cur(a).name] /\ v = Cur(a).ver
    BY <1>11, <2>1
  <2>3. sets[a].ver = v /\ sets[a].actRecvSize = SizeOf[v] - 0
    BY <1>10, <2>2 DEF Got
  <2>4. SizeOf[v] - 0 = SizeOf[v]
    BY FileSyncAssumption
  <2> QED
    BY <1>4, <2>2, <2>3, <2>4
<1>12. tbl[Cur(a).name] = srv[Cur(a).name] => Cur(a).ver = srv[Cur(a).name]
  <2>1. tbl[Cur(a).name] <= Cur(a).ver
    BY <1>1, <1>2, FrontRows
  <2> QED
    BY <1>7, <2>1, FileSyncAssumption
<1>13. \A f \in File \ lost : tbl[f] = srv[f] => disk'[f] = srv[f]
  <2>1. \A f \in File \ lost : f # Cur(a).name /\ tbl[f] = srv[f] => disk[f] = srv[f]
    BY <1>1, <1>2 DEF OnDisk
  <2> QED
    BY <1>8, <1>11, <1>12, <2>1
<1>14. \A f \in dirty : f = Cur(a).name
  BY <1>1 DEF OnDisk
<1>15. (\A f \in dirty : job.at \in {"truncated", "written"} /\ f = Cur(a).name)'
  BY <1>5, <1>6, <1>9, <1>14
<1>16. (Cur(a).ver = srv[Cur(a).name] => disk[Cur(a).name] = srv[Cur(a).name])'
  BY <1>5, <1>8, <1>9, <1>11
<1>17. (\A f \in File \ lost : tbl[f] = srv[f] => disk[f] = srv[f])'
  BY <1>5, <1>13
<1> QED
  BY <1>6, <1>15, <1>16, <1>17 DEF OnDisk

\* The data are on the disk.
LEMMA DiskSynced ==
  ASSUME IInv, OnDisk, SyncDisk
  PROVE  OnDisk'
<1>1. PICK a : a = job.set
  OBVIOUS
<1>2. job.at = "written" /\ job' = [job EXCEPT !.at = "synced"] /\ dirty' = {}
      /\ UNCHANGED <<srv, sets, disk, tbl, lost>>
  BY DEF SyncDisk, Stage, server, ghosts
<1>3. job'.at = "synced" /\ job'.set = a
  BY <1>1, <1>2 DEF IInv, JobHasFile
<1>4. Cur(a)' = Cur(a)
  BY <1>2 DEF Cur
<1>5. Cur(a).ver = srv[Cur(a).name] => disk[Cur(a).name] = srv[Cur(a).name]
  BY <1>1, <1>2 DEF OnDisk
<1>6. \A f \in File \ lost : tbl[f] = srv[f] => disk[f] = srv[f]
  BY <1>2 DEF OnDisk
<1>7. (Cur(a).ver = srv[Cur(a).name] => disk[Cur(a).name] = srv[Cur(a).name])'
  BY <1>2, <1>4, <1>5
<1>8. (\A f \in File \ lost : tbl[f] = srv[f] => disk[f] = srv[f])'
  BY <1>2, <1>6
<1> QED
  BY <1>2, <1>3, <1>7, <1>8 DEF OnDisk

\* The row follows its file.
LEMMA DiskSaved ==
  ASSUME IInv, SetsListed, OnDisk, SaveLocalFile
  PROVE  OnDisk'
<1>1. PICK a : a = job.set
  OBVIOUS
<1>2. job.at = "synced"
  BY DEF SaveLocalFile, Stage
<1>3. sets[a].curNo < Len(Order)
  BY <1>1, <1>2, BusyListed
<1>4. /\ job'.at = "saved" /\ UNCHANGED <<srv, sets, disk, dirty, lost>>
      /\ tbl'[Cur(a).name] = Cur(a).ver /\ \A g \in File : g # Cur(a).name => tbl'[g] = tbl[g]
  BY <1>1, <1>3, SaveTaken
<1>5. dirty = {}
  BY <1>2 DEF OnDisk
<1>6. Cur(a).ver = srv[Cur(a).name] => disk[Cur(a).name] = srv[Cur(a).name]
  BY <1>1, <1>2 DEF OnDisk
<1>7. \A f \in File \ lost : tbl[f] = srv[f] => disk[f] = srv[f]
  BY <1>2 DEF OnDisk
<1>8. \A f \in File \ lost : tbl'[f] = srv[f] => disk[f] = srv[f]
  BY <1>4, <1>6, <1>7
<1>9. (\A f \in File \ lost : tbl[f] = srv[f] => disk[f] = srv[f])'
  BY <1>4, <1>8
<1> QED
  BY <1>4, <1>5, <1>9 DEF OnDisk

LEMMA DiskNext ==
  ASSUME OnDisk, NextFile
  PROVE  OnDisk'
<1>1. job.at = "saved" /\ job'.at = "idle" /\ UNCHANGED <<srv, disk, dirty, tbl, lost>>
  BY DEF NextFile, store, server, ghosts, Idle
<1>2. dirty = {}
  BY <1>1 DEF OnDisk
<1>3. \A f \in File \ lost : tbl[f] = srv[f] => disk[f] = srv[f]
  BY <1>1 DEF OnDisk
<1>4. (\A f \in File \ lost : tbl[f] = srv[f] => disk[f] = srv[f])'
  BY <1>1, <1>3
<1> QED
  BY <1>1, <1>2, <1>4 DEF OnDisk

\* A restart: what it may damage is in a window, or has no row of that version.
LEMMA DiskReboot ==
  ASSUME IInv, SetsListed, OnDisk, Reboot, lost \subseteq lost',
         lost' = lost \cup Window \/ job.at = "idle"
  PROVE  OnDisk'
<1>1. PICK a : a = job.set
  OBVIOUS
<1>2. job'.at = "idle" /\ dirty' = {} /\ srv' = srv /\ tbl' = tbl
  BY DEF Reboot, Idle
<1>3. \A f \in File : f \notin dirty => disk'[f] = disk[f]
  BY DEF Reboot
<1>4. /\ \A f \in dirty : job.at \in {"truncated", "written"} /\ f = Cur(a).name
      /\ \A f \in File \ lost :
            tbl[f] = srv[f] /\ job.at # "wiped" /\ ~(job.at = "truncated" /\ f = Cur(a).name) =>
               disk[f] = srv[f]
  BY <1>1 DEF OnDisk
<1>5. \A f \in File : srv[f] \in Nat /\ srv[f] # Absent
  BY FileSyncAssumption DEF IInv, LinkTyped, Absent
<1>6. ASSUME NEW f \in File \ lost', tbl[f] = srv[f] PROVE disk'[f] = srv[f]
  <2>1. f \notin lost /\ f \in File
    BY <1>6
  <2>2. CASE job.at = "wiped"
    <3>1. Window = {g \in File : tbl[g] # Absent}
      BY <2>2 DEF Window
    <3>2. f \in Window
      BY <1>5, <1>6, <3>1
    <3> QED
      BY <1>6, <2>2, <3>2
  <2>3. CASE job.at \in {"truncated", "written"}
    <3>1. Window = {Cur(a).name} \cap {g \in File : tbl[g] >= Cur(a).ver}
      BY <1>1, <2>3, BusyListed DEF Window
    <3>2. a \in Addr /\ sets[a].kind = "sync" /\ sets[a].curNo < Len(Order)
      BY <1>1, <2>3, BusyListed
    <3>3. Cur(a).ver \in Version /\ Cur(a).ver <= srv[Cur(a).name]
      BY <3>2, CurListed
    <3>4. f # Cur(a).name
      <4>1. ASSUME f = Cur(a).name PROVE FALSE
        <5>1. tbl[f] >= Cur(a).ver
          BY <1>5, <1>6, <3>3, <4>1, FileSyncAssumption
        <5>2. f \in Window
          BY <2>1, <3>1, <4>1, <5>1
        <5> QED
          BY <1>6, <2>3, <5>2
      <4> QED
        BY <4>1
    <3> QED
      BY <1>3, <1>4, <1>6, <2>1, <2>3, <3>4
  <2>4. CASE job.at \notin {"wiped", "truncated", "written"}
    BY <1>3, <1>4, <1>6, <2>1, <2>4
  <2> QED
    BY <2>2, <2>3, <2>4
<1>7. (\A f \in File \ lost : tbl[f] = srv[f] => disk[f] = srv[f])'
  BY <1>2, <1>6
<1> QED
  BY <1>2, <1>7 DEF OnDisk

LEMMA DiskKeeps ==
  ASSUME IInv, SetsListed, OlderAhead, AnswersFit, OnDisk, Next
  PROVE  OnDisk'
<1>1. CASE \E a \in Addr : RecvSyncFile(a) \/ RecvUpdateFile(a)
  <2>1. job.at = "idle" /\ UNCHANGED <<srv, disk, dirty, tbl, lost, job>>
    BY <1>1 DEF RecvSyncFile, RecvUpdateFile, Receive, Idle, server, store, ghosts
  <2> QED
    BY <2>1, DiskQuiet
<1>2. CASE RecvFileBegin
  <2>1. job.at = "idle" /\ UNCHANGED <<srv, disk, dirty, tbl, lost, job>>
    BY <1>2, BeginTaken
  <2> QED
    BY <2>1, DiskQuiet
<1>3. CASE RecvFileBody
  <2>1. job.at = "idle" /\ UNCHANGED <<srv, disk, dirty, tbl, lost, job>>
    BY <1>3, BodyTaken
  <2> QED
    BY <2>1, DiskQuiet
<1>4. ASSUME UNCHANGED <<srv, disk, dirty, tbl, lost, job, sets>> PROVE OnDisk'
  BY <1>4, DiskQuiet DEF Cur
<1>5. CASE ServerSyncs \/ ServerSyncsAll \/ \E f \in File : ServerUpdates(f)
  BY <1>4, <1>5 DEF ServerSyncs, ServerSyncsAll, Sync, ServerUpdates, server, store, ghosts
<1>6. CASE ServerAnswers \/ ServerGivesUp \/ LinkCut
  BY <1>4, <1>6 DEF ServerAnswers, ServerGivesUp, LinkCut, server, store, ghosts
<1>7. CASE \E f \in File : ServerEdits(f)
  BY <1>7, DiskEdit
<1>8. CASE Restart
  <2>1. Reboot /\ lost' = lost \cup Window
    BY <1>8 DEF Restart
  <2> QED
    BY <2>1, DiskReboot
<1>9. CASE WildTransfer
  <2>1. Reboot /\ lost' = lost /\ job.at = "idle"
    BY <1>9 DEF WildTransfer, Idle
  <2> QED
    BY <2>1, DiskReboot
<1> QED
  BY <1>1, <1>2, <1>3, <1>5, <1>6, <1>7, <1>8, <1>9, DiskWiped, DiskEnd, DiskWritten, DiskSynced, DiskSaved, DiskNext
     DEF Next, Handlers
-----------------------------------------------------------------------------
(* UpdatesCounted is kept: a NULL set needs an UPDATEFILE or an overrun.     *)

\* A sync that is named on the link is on the list, unless it was overrun.
LEMMA PartListed ==
  ASSUME IInv, SetsNamed, OlderAhead, PartsTogether
  PROVE  /\ \A p \in 1..Len(down) : IsPart(down[p]) /\ sets[down[p].id].kind = "sync" =>
               recv_file_list_get(down[p].id) \/ Cuts >= ListSize - 1
         /\ \A p \in 1..Len(up) : IsPart(up[p]) /\ sets[up[p].id].kind = "sync" =>
               recv_file_list_get(up[p].id) \/ Cuts >= ListSize - 1
<1>1. ASSUME NEW m, OfSync(m), Right(Stand(m)), m.id \in Addr
      PROVE  recv_file_list_get(m.id) \/ Cuts >= ListSize - 1
  <2>1. StillListed(m.id)
    BY <1>1, RightSet
  <2> QED
    BY <1>1, <2>1, KnownIs DEF StillListed, Kept
<1>2. down \in Seq(ToBoard) /\ up \in Seq(ToServer)
  BY DEF IInv, LinkTyped
<1>3. ASSUME NEW p \in 1..Len(down), IsPart(down[p]), sets[down[p].id].kind = "sync"
      PROVE  recv_file_list_get(down[p].id) \/ Cuts >= ListSize - 1
  <2>1. \E e \in 1..Len(down) : down[e].kind = "END" /\ down[e].id = down[p].id
    <3>1. down[p] \in ToBoard
      BY <1>2
    <3>2. down[p].kind # "file"
      BY <3>1, MessageTyped DEF Message
    <3>3. CASE down[p].kind = "END"
      BY <3>3
    <3>4. CASE down[p].kind \in {"BEGIN", "BODY"}
      BY <3>4 DEF PartsTogether, Together
    <3> QED
      BY <1>3, <3>2, <3>3, <3>4 DEF IsPart
  <2>2. PICK e \in 1..Len(down) : down[e].kind = "END" /\ down[e].id = down[p].id
    BY <2>1
  <2>3. OfSync(down[e])
    BY <1>3, <2>2 DEF OfSync
  <2>4. Right(Stand(down[e])) /\ down[e].id \in Addr
    BY <2>2, <2>3, OnWay, PartsTyped DEF IsPart
  <2> QED
    BY <1>1, <2>2, <2>3, <2>4
<1>4. ASSUME NEW p \in 1..Len(up), IsPart(up[p]), sets[up[p].id].kind = "sync"
      PROVE  recv_file_list_get(up[p].id) \/ Cuts >= ListSize - 1
  <2>1. up[p].kind = "file"
    <3>1. up[p] \in ToServer
      BY <1>2
    <3>2. up[p].kind \in {"file", "fin"}
      BY <3>1, MessageTyped DEF Message
    <3> QED
      BY <1>4, <3>2 DEF IsPart
  <2>2. OfSync(up[p])
    BY <1>4, <2>1 DEF OfSync
  <2>3. Right(Stand(up[p])) /\ up[p].id \in Addr
    BY <1>4, <2>2, OnWay, PartsTyped
  <2> QED
    BY <1>1, <2>2, <2>3
<1> QED
  BY <1>3, <1>4

\* A set of UPDATEFILE comes from that command.
LEMMA UpdateFrom ==
  ASSUME IInv, SetsListed, SetsNamed, OlderAhead, Next, NEW a \in Addr, sets'[a].kind = "update"
  PROVE  sets[a].kind = "update" \/ RecvUpdateFile(a)
<1>1. ASSUME NEW b \in Addr, NEW s, sets' = [sets EXCEPT ![b] = s], s.kind # "update" PROVE sets[a].kind = "update"
  BY <1>1, SetTaken
<1>2. ASSUME NEW b \in Addr, RecvSyncFile(b) PROVE sets[a].kind = "update"
  <2>1. PICK s : s = NewSet("sync", Head(down).files)
    OBVIOUS
  <2>2. s.kind = "sync"
    BY <2>1 DEF NewSet, NoSet
  <2>3. PICK l, q : ContinueWith(b, s, l, q)
    BY <1>2, <2>1 DEF RecvSyncFile
  <2>4. sets' = [sets EXCEPT ![b] = [s EXCEPT !.curNo = NextMissing(s)]] \/ sets' = [sets EXCEPT ![b] = NoSet]
    BY <2>3 DEF ContinueWith
  <2>5. s \in [kind : {"sync"}, files : {s.files}, curNo : {s.curNo}, actRecvSize : {s.actRecvSize}, ver : {s.ver}]
    BY <2>1 DEF NewSet, NoSet
  <2>6. [s EXCEPT !.curNo = NextMissing(s)].kind = "sync" /\ NoSet.kind = "free"
    BY <2>5 DEF NoSet
  <2>7. CASE sets' = [sets EXCEPT ![b] = NoSet]
    BY <1>1, <2>6, <2>7
  <2>8. CASE sets' = [sets EXCEPT ![b] = [s EXCEPT !.curNo = NextMissing(s)]]
    <3>1. PICK t : t = [s EXCEPT !.curNo = NextMissing(s)]
      OBVIOUS
    <3>2. t.kind # "update" /\ sets' = [sets EXCEPT ![b] = t]
      BY <2>6, <2>8, <3>1
    <3> QED
      BY <1>1, <3>2
  <2> QED
    BY <2>4, <2>7, <2>8
<1>3. ASSUME NEW b \in Addr, RecvCompleteSync(b) PROVE sets[a].kind = "update"
  BY <1>1, <1>3, CompleteTaken
<1>4. ASSUME NEW b \in Addr, RecvUpdateFile(b) PROVE sets[a].kind = "update" \/ RecvUpdateFile(a)
  <2>1. PICK m : m = Head(down)
    OBVIOUS
  <2>2. PICK s : sets' = [sets EXCEPT ![b] = s] /\ s.kind = "update"
    BY <1>4, <2>1, UpdateTaken
  <2>3. CASE a = b
    BY <1>4, <2>3
  <2>4. CASE a # b
    <3>1. sets'[a] = sets[a]
      BY <1>4, <2>2, <2>4, SetTaken
    <3> QED
      BY <3>1
  <2> QED
    BY <2>3, <2>4
<1>5. CASE NextFile
  <2>1. PICK b : b = job.set
    OBVIOUS
  <2>2. b \in Addr /\ sets[b].kind = "sync" /\ sets[b] \in SetState
    <3>1. job.at # "idle"
      BY <1>5 DEF NextFile
    <3>2. b \in Addr /\ sets[b].kind = "sync"
      BY <2>1, <3>1, BusyListed
    <3> QED
      BY <3>2 DEF IInv, JobHasFile
  <2>3. PICK s : s = Advanced(sets[b])
    OBVIOUS
  <2>4. s \in SetState /\ s.kind = "sync"
    BY <2>2, <2>3 DEF Advanced, SetState
  <2>5. ContinueWith(b, s, ring, known)
    BY <1>5, <2>1, <2>3 DEF NextFile, Advanced
  <2>6. PICK t : t = [s EXCEPT !.curNo = NextMissing(s)]
    OBVIOUS
  <2>7. t.kind = "sync" /\ NoSet.kind = "free"
    BY <2>4, <2>6 DEF SetState, NoSet
  <2>8. sets' = [sets EXCEPT ![b] = t] \/ sets' = [sets EXCEPT ![b] = NoSet]
    BY <2>5, <2>6 DEF ContinueWith
  <2> QED
    BY <1>1, <2>2, <2>7, <2>8
<1>6. CASE RecvFileBegin \/ RecvFileBody
  BY <1>6, BeginTaken, BodyTaken
<1>7. CASE RecvCompleteSyncEnd \/ RecvFileEnd \/ WriteFile \/ SyncDisk \/ SaveLocalFile
            \/ ServerSyncs \/ ServerSyncsAll \/ ServerAnswers \/ ServerGivesUp \/ LinkCut
            \/ \E f \in File : ServerEdits(f) \/ ServerUpdates(f)
  <2>1. sets' = sets
    BY <1>7 DEF RecvCompleteSyncEnd, RecvFileEnd, WriteFile, SyncDisk, SaveLocalFile, ServerSyncs, ServerSyncsAll,
                     Sync, ServerAnswers, ServerGivesUp, LinkCut, ServerEdits, ServerUpdates
  <2> QED
    BY <2>1
<1>8. CASE WildTransfer \/ Restart
  <2>1. sets' = [b \in Addr |-> NoSet]
    BY <1>8 DEF WildTransfer, Restart, Reboot
  <2> QED
    BY <2>1 DEF NoSet
<1> QED
  BY <1>2, <1>3, <1>4, <1>5, <1>6, <1>7, <1>8 DEF Next, Handlers

\* A NULL set is used by UPDATEFILE, and by an overrun.
LEMMA WildCounted ==
  ASSUME IInv, SetsListed, SetsNamed, OlderAhead, PartsTogether, UpdatesCounted, WildTransfer
  PROVE  bound.updates < MaxUpdates \/ Cuts >= ListSize - 1
<1>1. PICK h : h = Head(down)
  OBVIOUS
<1>2. job.at = "idle" /\ down # <<>> /\ h.kind \in {"BEGIN", "BODY", "END"} /\ ~recv_file_list_get(h.id)
  BY <1>1 DEF WildTransfer, Idle
<1>3. h = down[1] /\ 1 \in 1..Len(down) /\ IsPart(h)
  BY <1>1, <1>2, FrontTaken DEF IsPart
<1>4. h.id \in Addr /\ sets[h.id].kind # "free"
  BY <1>3, PartsTyped DEF SetsNamed
<1>5. sets[h.id].kind \in {"sync", "update"}
  BY <1>4 DEF IInv, JobHasFile, SetState
<1>6. CASE sets[h.id].kind = "update"
  BY <1>4, <1>6 DEF UpdatesCounted
<1>7. CASE sets[h.id].kind = "sync"
  BY <1>2, <1>3, <1>7, PartListed
<1> QED
  BY <1>5, <1>6, <1>7

LEMMA CutsTypedNext == (BoundTyped => Cuts \in 0..MaxCuts)'
BY CutsTyped, PTL

LEMMA CountedKeeps ==
  ASSUME IInv, BoundTyped, SetsListed, SetsNamed, OlderAhead, PartsTogether, UpdatesCounted, Next
  PROVE  UpdatesCounted'
<1>1. /\ bound'.updates <= bound.updates /\ Cuts' >= Cuts
      /\ bound.updates \in 0..MaxUpdates /\ bound'.updates \in 0..MaxUpdates
  BY BoundStep
<1>2. bound.updates < MaxUpdates => bound'.updates < MaxUpdates
  BY <1>1, FileSyncAssumption
<1>3. Cuts >= ListSize - 1 => Cuts' >= ListSize - 1
  <2>1. Cuts \in Int /\ Cuts' \in Int /\ ListSize \in Int
    BY BoundStep, CutsTyped, CutsTypedNext, FileSyncAssumption
  <2> QED
    BY <1>1, <2>1
<1>4. ASSUME NEW a \in Addr, sets'[a].kind = "update" PROVE bound'.updates < MaxUpdates
  <2>1. CASE sets[a].kind = "update"
    BY <1>2, <2>1 DEF UpdatesCounted
  <2>2. CASE RecvUpdateFile(a)
    <3>1. PICK m : m = Head(down)
      OBVIOUS
    <3>2. m.kind = "UPDATEFILE" /\ m = down[1] /\ 1 \in 1..Len(down)
      BY <2>2, <3>1, UpdateTaken
    <3> QED
      BY <1>2, <3>2 DEF UpdatesCounted
  <2> QED
    BY <1>4, <2>1, <2>2, UpdateFrom
<1>5. ASSUME NEW p \in 1..Len(down'), NEW m, m = down'[p], m.kind = "UPDATEFILE" PROVE bound'.updates < MaxUpdates
  <2>1. CASE OldDown(m)
    BY <1>2, <1>5, <2>1 DEF OldDown, UpdatesCounted
  <2>2. CASE UpdateDown(m)
    <3>1. Spend("updates")
      BY <2>2 DEF UpdateDown, ServerUpdates
    <3> QED
      BY <3>1, Spent
  <2>3. ~SyncDown(m) /\ ~AnswerDown(m)
    BY <1>5 DEF SyncDown, AnswerDown, IsListing
  <2> QED
    BY <1>5, <2>1, <2>2, <2>3, DownMessages
<1>6. ASSUME wild' PROVE bound'.updates < MaxUpdates \/ Cuts' >= ListSize - 1
  <2>1. CASE wild' = wild
    BY <1>2, <1>3, <1>6, <2>1 DEF UpdatesCounted
  <2>2. CASE WildTransfer
    BY <1>2, <1>3, <2>2, WildCounted
  <2>3. wild' = wild \/ WildTransfer
    BY DEF Next, Handlers, RecvSyncFile, RecvCompleteSync, RecvUpdateFile, RecvCompleteSyncEnd, RecvFileBegin,
       RecvFileBody, RecvFileEnd, RecvFile, WriteFile, SyncDisk, SaveLocalFile, NextFile, ServerEdits, ServerUpdates,
       ServerSyncs, ServerSyncsAll, Sync, ServerAnswers, ServerGivesUp, LinkCut, Restart, ghosts
  <2> QED
    BY <2>1, <2>2, <2>3
<1>7. (\A a \in Addr : sets[a].kind = "update" => bound.updates < MaxUpdates)'
  BY <1>4
<1>8. (\A p \in 1..Len(down) : down[p].kind = "UPDATEFILE" => bound.updates < MaxUpdates)'
  BY <1>5
<1>9. (wild => bound.updates < MaxUpdates \/ Cuts >= ListSize - 1)'
  BY <1>6
<1> QED
  BY <1>7, <1>8, <1>9 DEF UpdatesCounted
-----------------------------------------------------------------------------
(* FlowInv is kept by every step, and what follows from it.                  *)

LEMMA OlderKeeps ==
  ASSUME IInv, IInv', BoundTyped, SetsListed, SetsNamed, OlderAhead, PartsTogether, Next
  PROVE  OlderAhead'
<1>1. CASE \E a \in Addr : RecvSyncFile(a) \/ RecvCompleteSync(a) \/ RecvUpdateFile(a)
  BY <1>1, SyncFileAhead, CompleteSyncAhead, UpdateFileAhead
<1>2. CASE RecvCompleteSyncEnd
  BY <1>2, CompleteSyncEndAhead
<1>3. CASE RecvFileBegin \/ RecvFileBody
  BY <1>3, PartAhead
<1>4. CASE RecvFileEnd
  BY <1>4, EndAhead
<1>5. CASE WriteFile
  <2>1. Stage("truncated", "written") /\ bound' = bound /\ UNCHANGED <<tbl, list, known, sBusy, up, down, sets>>
    BY <1>5 DEF WriteFile, server
  <2> QED
    BY <2>1, StageAhead
<1>6. CASE SyncDisk
  <2>1. Stage("written", "synced") /\ bound' = bound /\ UNCHANGED <<tbl, list, known, sBusy, up, down, sets>>
    BY <1>6 DEF SyncDisk, server
  <2> QED
    BY <2>1, StageAhead
<1>7. CASE SaveLocalFile
  BY <1>7, SaveAhead
<1>8. CASE NextFile
  BY <1>8, NextFileAhead
<1>9. CASE ServerGivesUp \/ Restart \/ WildTransfer
  BY <1>9, LostAhead
<1>10. CASE \E f \in File : ServerEdits(f) \/ ServerUpdates(f)
  BY <1>10, EditAhead, UpdateAhead
<1>11. CASE ServerSyncs
  <2>1. Sync("SYNCFILE") /\ Cuts' = Cuts
    BY <1>11, BoundKept DEF ServerSyncs
  <2> QED
    BY <2>1, SyncAhead
<1>12. CASE ServerSyncsAll
  <2>1. Sync("COMPLETESYNC") /\ Cuts' = Cuts
    BY <1>12, Spent DEF ServerSyncsAll
  <2> QED
    BY <2>1, SyncAhead
<1>13. CASE ServerAnswers
  BY <1>13, AnswerAhead, FinAhead
<1>14. CASE LinkCut
  BY <1>14, CutAhead
<1> QED
  BY <1>1, <1>2, <1>3, <1>4, <1>5, <1>6, <1>7, <1>8, <1>9, <1>10, <1>11, <1>12, <1>13, <1>14 DEF Next, Handlers

LEMMA FlowInit == Init => FlowInv
<1> SUFFICES ASSUME Init PROVE FlowInv
  OBVIOUS
<1>1. IInv
  BY InitHolds
<1>2. up = <<>> /\ down = <<>> /\ job.at = "idle" /\ Len(up) = 0 /\ Len(down) = 0 /\ known = <<>> /\ Len(known) = 0
  BY DEF Init, Idle
<1>3. \A a \in Addr : sets[a].kind = "free"
  BY DEF Init, NoSet
<1>4. \A f \in File : tbl[f] = 0 /\ srv[f] = 1
  BY DEF Init, Absent
<1>5. BoundTyped
  BY FileSyncAssumption DEF Init, BoundTyped
<1>6. SetsListed
  BY <1>2, <1>3, <1>4 DEF SetsListed
<1>7. SetsNamed
  BY <1>2 DEF SetsNamed
<1>8. Len(Flow) = 0
  BY <1>2 DEF Flow, Handled
<1>9. OlderAhead
  BY <1>2, <1>8 DEF OlderAhead, Orderly, Waiting
<1>10. PartsTogether
  BY <1>2 DEF PartsTogether, Together
<1>11. AnswersFit
  BY <1>2 DEF AnswersFit
<1>12. OnDisk
  <2>1. dirty = {}
    BY DEF Init
  <2> QED
    BY <1>2, <1>4, <2>1 DEF OnDisk
<1>13. UpdatesCounted
  <2>1. wild = FALSE
    BY DEF Init
  <2> QED
    BY <1>2, <1>3, <2>1 DEF UpdatesCounted
<1> QED
  BY <1>5, <1>6, <1>7, <1>9, <1>10, <1>11, <1>12, <1>13 DEF FlowInv

LEMMA FlowStep == IInv /\ IInv' /\ FlowInv /\ [Next]_vars => FlowInv'
<1> SUFFICES ASSUME IInv, IInv', FlowInv, [Next]_vars PROVE FlowInv'
  OBVIOUS
<1>1. /\ BoundTyped /\ SetsListed /\ SetsNamed /\ OlderAhead
      /\ PartsTogether /\ AnswersFit /\ OnDisk /\ UpdatesCounted
  BY DEF FlowInv
<1>2. CASE Next
  <2>1. BoundTyped'
    BY <1>1, <1>2, BoundStep
  <2>2. SetsListed'
    BY <1>1, <1>2, ListedKeeps
  <2>3. SetsNamed'
    BY <1>1, <1>2, NamedKeeps
  <2>4. OlderAhead'
    BY <1>1, <1>2, OlderKeeps
  <2>5. PartsTogether'
    BY <1>1, <1>2, PartsStep
  <2>6. AnswersFit'
    BY <1>1, <1>2, AnswersKeeps
  <2>7. OnDisk'
    BY <1>1, <1>2, DiskKeeps
  <2>8. UpdatesCounted'
    BY <1>1, <1>2, CountedKeeps
  <2> QED
    BY <2>1, <2>2, <2>3, <2>4, <2>5, <2>6, <2>7, <2>8 DEF FlowInv
<1>3. CASE UNCHANGED vars
  <2>1. /\ srv' = srv /\ sBusy' = sBusy /\ up' = up /\ down' = down /\ sets' = sets /\ ring' = ring
        /\ disk' = disk /\ dirty' = dirty /\ tbl' = tbl /\ list' = list /\ job' = job /\ bound' = bound
        /\ known' = known /\ lost' = lost /\ wild' = wild
    BY <1>3 DEF vars
  <2>2. BoundTyped' /\ Cuts' = Cuts
    BY <1>1, <2>1, BoundKept
  <2>3. SetsListed'
    BY <1>1, <2>1 DEF SetsListed, IsListing, Listed
  <2>4. SetsNamed'
    BY <1>1, <2>1 DEF SetsNamed, IsPart, Cur
  <2>5. OlderAhead'
    BY <1>1, <2>1, <2>2, QuietAhead
  <2>6. PartsTogether'
    BY <1>1, <2>1 DEF PartsTogether, Together, Part
  <2>7. AnswersFit'
    BY <1>1, <2>1 DEF AnswersFit, OfSync, Fits, Got, Cur
  <2>8. OnDisk'
    BY <1>1, <2>1, DiskQuiet DEF Cur
  <2>9. UpdatesCounted'
    BY <1>1, <2>1, <2>2 DEF UpdatesCounted
  <2> QED
    BY <2>2, <2>3, <2>4, <2>5, <2>6, <2>7, <2>8, <2>9 DEF FlowInv
<1> QED
  BY <1>2, <1>3

\* What is on the way stays in order: two transfers alive at most, the older
\* one ahead, through every edit, cut, restart and new sync.
THEOREM FlowHolds == Spec => []FlowInv
<1>1. Init => FlowInv
  BY FlowInit
<1>2. IInv /\ IInv' /\ FlowInv /\ [Next]_vars => FlowInv'
  BY FlowStep
<1> QED
  BY <1>1, <1>2, Inductive, PTL DEF Spec

\* client_pg_syncFile (clipg.c:110): what find_file_from_local_db skips, because
\* its row has the server's version, is on disk as that version, for any number
\* of files, versions, edits, cuts and restarts, and lists of any size; a
\* restart in one of the two windows apart.
THEOREM SkippedAreThere == Spec => []SkippedFilesAreThere
<1>1. FlowInv => SkippedFilesAreThere
  BY DEF FlowInv, OnDisk, SkippedFilesAreThere
<1> QED
  BY <1>1, FlowHolds, PTL

\* clirecvcmd5srv.c:1273: what asks or answers for a file of a sync names a set
\* that recv_file_list_get finds, for lists of any size, unless as many cuts as
\* it has places have let that many syncs push it out; and no NULL set is used
\* but by UPDATEFILE and by such an overrun.
THEOREM TransfersAreKnown == Spec => []TransfersKnown
<1>1. IInv /\ FlowInv => TransfersKnown
  <2> SUFFICES ASSUME IInv, FlowInv PROVE TransfersKnown
    OBVIOUS
  <2>1. SetsNamed /\ OlderAhead /\ PartsTogether /\ UpdatesCounted
    BY DEF FlowInv
  <2> DEFINE known_(m) == \/ sets[m.id].kind = "update" \/ Cuts >= ListSize - 1
                          \/ sets[m.id].kind = "sync" /\ recv_file_list_get(m.id)
  <2>2. ASSUME NEW m, m.id \in Addr, sets[m.id].kind # "free",
               sets[m.id].kind = "sync" => recv_file_list_get(m.id) \/ Cuts >= ListSize - 1
        PROVE  known_(m)
    <3>1. sets[m.id].kind \in {"sync", "update"}
      BY <2>2 DEF IInv, JobHasFile, SetState
    <3> QED
      BY <2>2, <3>1
  <2>3. ASSUME NEW j \in DOMAIN up, up[j].kind = "file" PROVE known_(up[j])
    <3>1. j \in 1..Len(up) /\ IsPart(up[j])
      BY <2>3 DEF IsPart, IInv, LinkTyped
    <3>2. up[j].id \in Addr /\ sets[up[j].id].kind # "free"
      BY <2>1, <3>1, PartsTyped DEF SetsNamed
    <3>3. sets[up[j].id].kind = "sync" => recv_file_list_get(up[j].id) \/ Cuts >= ListSize - 1
      BY <2>1, <3>1, PartListed
    <3> QED
      BY <2>2, <3>2, <3>3
  <2>4. ASSUME NEW j \in DOMAIN down, down[j].kind \in {"BEGIN", "BODY", "END"} PROVE known_(down[j])
    <3>1. j \in 1..Len(down) /\ IsPart(down[j])
      BY <2>4 DEF IsPart, IInv, LinkTyped
    <3>2. down[j].id \in Addr /\ sets[down[j].id].kind # "free"
      BY <2>1, <3>1, PartsTyped DEF SetsNamed
    <3>3. sets[down[j].id].kind = "sync" => recv_file_list_get(down[j].id) \/ Cuts >= ListSize - 1
      BY <2>1, <3>1, PartListed
    <3> QED
      BY <2>2, <3>2, <3>3
  <2>5. wild => bound.updates < MaxUpdates \/ Cuts >= ListSize - 1
    BY <2>1 DEF UpdatesCounted
  <2> QED
    BY <2>3, <2>4, <2>5 DEF TransfersKnown, Cuts
<1> QED
  BY <1>1, Inductive, FlowHolds, PTL
=============================================================================
