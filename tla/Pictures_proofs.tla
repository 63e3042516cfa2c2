--------------------------- MODULE Pictures_proofs ---------------------------
(* The safety properties of Pictures, for any modules, slots and callers.    *)
(* IInv of Pictures is kept by every step; the properties follow from it.    *)
EXTENDS Pictures, LoopList_proofs, SequenceTheorems

-----------------------------------------------------------------------------
(* The table that dbpattern_configLoad fills.                                *)

LEMMA TableIsRing == Table = Ring(TableSize, Pattern)
BY DEF Table, Ring, PtnId

\* The rows of module m, the first k of them pushed, as load[k] of LoadRows.
RowsPushed(m) ==
    CHOOSE load : load = [k \in 0..Len(Rows[m]) |->
        IF k = 0 THEN loop_create(TableSize, Garbage)
        ELSE loop_push_to_tail(load[k - 1], [id |-> k - 1, bmpName |-> Rows[m][k]])]

LEMMA LoadedRows ==
  ASSUME NEW m \in Module
  PROVE  LoadRows(m) = RowsPushed(m)[Len(Rows[m])]
BY DEF LoadRows, RowsPushed

\* The recursion is well founded: such a function exists.
LEMMA RowsArePushed ==
  ASSUME NEW m \in Module
  PROVE  /\ RowsPushed(m)[0] = loop_create(TableSize, Garbage)
         /\ \A k \in 1..Len(Rows[m]) : RowsPushed(m)[k] =
               loop_push_to_tail(RowsPushed(m)[k - 1], [id |-> k - 1, bmpName |-> Rows[m][k]])
<1> DEFINE n == Len(Rows[m])
           F(load, k) == IF k = 0 THEN loop_create(TableSize, Garbage)
                         ELSE loop_push_to_tail(load[k - 1], [id |-> k - 1, bmpName |-> Rows[m][k]])
           T == {j \in 0..n : \E load : load = [k \in 0..j |-> F(load, k)]}
<1>1. n \in Nat
  BY PicturesAssumption
<1>2. 0 \in T
  <2> DEFINE g == [k \in 0..0 |-> loop_create(TableSize, Garbage)]
  <2>1. g = [k \in 0..0 |-> F(g, k)]
    OBVIOUS
  <2> HIDE DEF g, F
  <2>2. \E load : load = [k \in 0..0 |-> F(load, k)]
    BY <2>1
  <2>3. 0 \in 0..n
    BY <1>1
  <2> QED
    BY <2>2, <2>3
<1>3. ASSUME NEW j \in 0..n - 1, j \in T
      PROVE  j + 1 \in T
  <2>1. PICK g : g = [k \in 0..j |-> F(g, k)]
    BY <1>3
  <2> DEFINE h == [k \in 0..j + 1 |-> IF k = j + 1 THEN F(g, k) ELSE g[k]]
  <2> HIDE DEF F
  <2>2. ASSUME NEW k \in 0..j + 1
        PROVE  h[k] = F(h, k)
    <3>1. CASE k = 0
      <4>1. h[k] = g[k] /\ g[k] = F(g, k)
        BY <2>1, <3>1
      <4> QED
        BY <3>1, <4>1 DEF F
    <3>2. CASE k # 0
      <4>1. k - 1 \in 0..j
        BY <3>2
      <4>2. h[k - 1] = g[k - 1]
        BY <4>1
      <4>3. F(h, k) = F(g, k)
        BY <4>2 DEF F
      <4>4. h[k] = F(g, k)
        <5>1. CASE k = j + 1
          BY <5>1
        <5>2. CASE k \in 0..j
          BY <2>1, <5>2
        <5> QED
          BY <5>1, <5>2
      <4> QED
        BY <4>3, <4>4
    <3> QED
      BY <3>1, <3>2
  <2>3. h = [k \in 0..j + 1 |-> F(h, k)]
    BY <2>2
  <2> HIDE DEF h
  <2>4. j + 1 \in 0..n
    BY <1>1
  <2> QED
    BY <2>3, <2>4
<1>4. n \in T
  <2> HIDE DEF T, n, F
  <2>1. 0..n \subseteq T
    BY <1>1, <1>2, <1>3, SegmentSet
  <2> QED
    BY <1>1, <2>1
<1>5. \E load : load = [k \in 0..n |-> F(load, k)]
  BY <1>4
<1>6. RowsPushed(m) = [k \in 0..n |-> F(RowsPushed(m), k)]
  BY <1>5 DEF RowsPushed
<1>7. \A k \in 0..n : RowsPushed(m)[k] = F(RowsPushed(m), k)
  <2> DEFINE R == RowsPushed(m)
  <2> HIDE DEF R, F
  <2>1. R = [k \in 0..n |-> F(R, k)]
    BY <1>6 DEF R
  <2>2. \A k \in 0..n : R[k] = F(R, k)
    BY <2>1
  <2> QED
    BY <2>2 DEF R
<1>8. F(RowsPushed(m), 0) = loop_create(TableSize, Garbage)
  OBVIOUS
<1>9. ASSUME NEW k \in 1..n
      PROVE  F(RowsPushed(m), k) =
                loop_push_to_tail(RowsPushed(m)[k - 1], [id |-> k - 1, bmpName |-> Rows[m][k]])
  BY <1>1
<1>10. RowsPushed(m)[0] = loop_create(TableSize, Garbage)
  <2> HIDE DEF F
  <2> QED
    BY <1>1, <1>7, <1>8
<1>11. ASSUME NEW k \in 1..n
       PROVE  RowsPushed(m)[k] =
                loop_push_to_tail(RowsPushed(m)[k - 1], [id |-> k - 1, bmpName |-> Rows[m][k]])
  <2> HIDE DEF F
  <2>1. k \in 0..n
    BY <1>1
  <2> QED
    BY <1>7, <1>9, <2>1
<1> QED
  BY <1>10, <1>11

LEMMA GarbageTyped == Garbage \in Pattern
BY DEF Garbage, Pattern, Name

LEMMA RowTyped ==
  ASSUME NEW m \in Module, NEW k \in 1..Len(Rows[m])
  PROVE  Rows[m][k] \in Picture /\ [id |-> k - 1, bmpName |-> Rows[m][k]] \in Pattern
<1>1. Rows[m][k] \in Picture
  BY PicturesAssumption
<1> QED
  BY <1>1 DEF Pattern, Name

\* Whatever number of rows is pushed, the table stays one.
LEMMA PushedTyped ==
  ASSUME NEW m \in Module
  PROVE  \A k \in 0..Len(Rows[m]) : RowsPushed(m)[k] \in Table
<1> DEFINE n == Len(Rows[m])
           R == RowsPushed(m)
           T == {k \in 0..n : R[k] \in Table}
<1>1. n \in Nat /\ TableSize \in Nat \ {0}
  BY PicturesAssumption
<1>2. 0 \in T
  <2>1. R[0] \in Table
    BY <1>1, RowsArePushed, CreateTyped, GarbageTyped, TableIsRing
  <2> QED
    BY <1>1, <2>1
<1>3. ASSUME NEW k \in 0..n - 1, k \in T
      PROVE  k + 1 \in T
  <2>1. k + 1 \in 1..n /\ (k + 1) - 1 = k
    BY <1>1
  <2> DEFINE row == [id |-> k, bmpName |-> Rows[m][k + 1]]
  <2>2. row \in Pattern
    BY <2>1, RowTyped
  <2>3. R[k + 1] = loop_push_to_tail(R[k], row)
    BY <2>1, RowsArePushed
  <2> HIDE DEF row, R
  <2>4. R[k] \in Table
    BY <1>3
  <2>5. R[k + 1] \in Table
    BY <1>1, <2>2, <2>3, <2>4, PushTyped, TableIsRing
  <2> QED
    BY <2>1, <2>5
<1>4. 0..n \subseteq T
  <2> HIDE DEF T, n
  <2> QED
    BY <1>1, <1>2, <1>3, SegmentSet
<1> QED
  BY <1>4

LEMMA LoadTyped ==
  ASSUME NEW m \in Module
  PROVE  LoadRows(m) \in Table /\ Count(m) \in 0..TableSize
<1>1. Len(Rows[m]) \in 0..TableSize
  BY PicturesAssumption
<1> QED
  BY <1>1, LoadedRows, PushedTyped DEF Count

\* A table with room for all its rows has row k at offset k from its head.
LEMMA LoadedInOrder ==
  ASSUME NEW m \in Module, Count(m) < TableSize
  PROVE  \A k \in 0..Count(m) - 1 :
            loop_get_from_head(LoadRows(m), k, Garbage) = [id |-> k, bmpName |-> Rows[m][k + 1]]
<1> DEFINE n == Len(Rows[m])
           R == RowsPushed(m)
           row(j) == [id |-> j, bmpName |-> Rows[m][j + 1]]
           Filled(k) == /\ R[k].head = 0 /\ R[k].tail = k
                        /\ \A j \in 0..k - 1 : R[k].items[j] = row(j)
           T == {k \in 0..n : Filled(k)}
<1>1. n \in Nat /\ TableSize \in Nat \ {0} /\ n < TableSize
  BY PicturesAssumption DEF Count
<1>2. 0 \in T
  <2>1. R[0] = loop_create(TableSize, Garbage)
    BY RowsArePushed
  <2>2. R[0].head = 0 /\ R[0].tail = 0
    BY <2>1 DEF loop_create
  <2> HIDE DEF R, row
  <2>3. Filled(0)
    BY <2>2
  <2> QED
    BY <1>1, <2>3
<1>3. ASSUME NEW k \in 0..n - 1, k \in T
      PROVE  k + 1 \in T
  <2>1. k + 1 \in 1..n /\ (k + 1) - 1 = k /\ k \in 0..n
    BY <1>1
  <2>2. R[k + 1] = loop_push_to_tail(R[k], row(k))
    BY <2>1, RowsArePushed
  <2>3. R[k] \in Ring(TableSize, Pattern)
    BY <2>1, PushedTyped, TableIsRing
  <2> HIDE DEF R, row
  <2>4. Filled(k)
    BY <1>3
  <2>5. k \in 0..TableSize - 1 /\ k # TableSize - 1
    BY <1>1
  <2>6. Succ(R[k], k) = k + 1
    BY <1>1, <2>3, <2>5, SuccTyped
  <2>7. R[k].head = 0 /\ R[k].tail = k /\ k + 1 # 0
    BY <2>4
  <2>8. R[k + 1].head = 0 /\ R[k + 1].tail = k + 1
        /\ R[k + 1].items = [R[k].items EXCEPT ![k] = row(k)]
    BY <1>1, <2>2, <2>3, <2>6, <2>7, PushFields
  <2>9. ASSUME NEW j \in 0..k
        PROVE  R[k + 1].items[j] = row(j)
    <3>1. R[k].items \in [0..TableSize - 1 -> Pattern] /\ j \in 0..TableSize - 1
      BY <1>1, <2>3, <2>5 DEF Ring
    <3>2. CASE j = k
      BY <2>8, <3>1, <3>2
    <3>3. CASE j # k
      <4>1. j \in 0..k - 1
        BY <3>3
      <4> QED
        BY <2>4, <2>8, <3>1, <3>3, <4>1
    <3> QED
      BY <3>2, <3>3
  <2>10. Filled(k + 1)
    BY <2>1, <2>8, <2>9
  <2> QED
    BY <2>1, <2>10
<1>4. n \in T
  <2> HIDE DEF T, n
  <2>1. 0..n \subseteq T
    BY <1>1, <1>2, <1>3, SegmentSet
  <2> QED
    BY <1>1, <2>1
<1>5. Filled(n) /\ LoadRows(m) = R[n] /\ R[n] \in Table
  BY <1>1, <1>4, LoadedRows, PushedTyped
<1>6. ASSUME NEW k \in 0..n - 1
      PROVE  loop_get_from_head(LoadRows(m), k, Garbage) = row(k)
  <2> HIDE DEF R, row
  <2>1. R[n].head = 0 /\ R[n].items[k] = row(k)
    BY <1>5
  <2>2. R[n].head + k = k
    BY <2>1
  <2>3. k \in DOMAIN R[n].items
    BY <1>1, <1>5 DEF Table, PtnId
  <2> QED
    BY <1>5, <2>1, <2>2, <2>3 DEF loop_get_from_head
<1> QED
  BY <1>6 DEF Count

-----------------------------------------------------------------------------
(* What is looked up: the slots, and the patterns.                           *)

LEMMA FreeSlot ==
  ASSUME FirstFree # -1
  PROVE  FirstFree \in Slot /\ move_ptn_info[FirstFree] = None
<1> DEFINE free == {i \in Slot : move_ptn_info[i] = None}
<1>1. free \subseteq Nat /\ free # {}
  BY PicturesAssumption DEF Slot, FirstFree
<1>2. \E i \in free : \A j \in free : i <= j
  BY <1>1, Smallest
<1>3. FirstFree = CHOOSE i \in free : \A j \in free : i <= j
  BY <1>1 DEF FirstFree
<1>4. FirstFree \in free
  BY <1>2, <1>3
<1> QED
  BY <1>4

LEMMA PositionOfName ==
  ASSUME NEW n, move_ptn_getPostionByName(n) # -1
  PROVE  /\ move_ptn_getPostionByName(n) \in Slot
         /\ move_ptn_info[move_ptn_getPostionByName(n)] = n
<1> DEFINE hits == {i \in Slot : move_ptn_info[i] = n}
<1>1. hits \subseteq Nat /\ hits # {}
  BY PicturesAssumption DEF Slot, move_ptn_getPostionByName
<1>2. \E i \in hits : \A j \in hits : i <= j
  BY <1>1, Smallest
<1>3. move_ptn_getPostionByName(n) = CHOOSE i \in hits : \A j \in hits : i <= j
  BY <1>1 DEF move_ptn_getPostionByName
<1>4. move_ptn_getPostionByName(n) \in hits
  BY <1>2, <1>3
<1> QED
  BY <1>4

LEMMA PatternById ==
  ASSUME conns \in Table, NEW i
  PROVE  Named(dbModuleGetPatternById(i)) \in Name
<1> DEFINE accepted == {r \in Held(conns) : r.id = i}
           k == loop_search(conns, accepted)
<1>1. conns \in Ring(TableSize, Pattern) /\ TableSize \in Nat \ {0}
  BY PicturesAssumption, TableIsRing
<1>2. CASE k = 0
  <2>1. dbModuleGetPatternById(i) = Garbage
    BY <1>2 DEF dbModuleGetPatternById
  <2> QED
    BY <2>1, GarbageTyped DEF Named, Pattern, Name
<1>3. CASE k # 0
  <2>1. k \in DOMAIN InUse(conns)
    BY <1>1, <1>3, SearchFinds
  <2>2. Items(conns)[k] \in Pattern
    BY <1>1, <2>1, ItemsTyped
  <2>3. dbModuleGetPatternById(i) = Items(conns)[k]
    BY <1>3 DEF dbModuleGetPatternById
  <2> QED
    BY <2>2, <2>3 DEF Named, Pattern, Name
<1> QED
  BY <1>2, <1>3

LEMMA PictureTyped ==
  ASSUME conns \in Table, NEW t, task[t].loopId \in Nat
  PROVE  PictureOf(t) \in Name
<1>1. loop_get_from_head(conns, task[t].loopId, Garbage) \in Pattern
  BY PicturesAssumption, TableIsRing, GarbageTyped, GetTyped
<1> QED
  BY <1>1 DEF PictureOf, dbModuleGetPatternByLoopId, Named, Pattern, Name

-----------------------------------------------------------------------------
(* The invariant, part by part.                                              *)

LEMMA Constants ==
  /\ TableSize \in Nat \ {0, 1} /\ Slots \in Nat \ {0} /\ MaxLoads \in Nat /\ MaxShows \in Nat
  /\ None \notin Picture /\ Torn \notin Name
BY PicturesAssumption DEF Name, None, Torn

\* A transfer that begins takes the semaphore and touches its own slot alone.
LEMMA BeginEffect ==
  ASSUME Typed, NEW who, NEW i \in Slot, NEW bmpName \in Picture, BeginDownload(who, i, bmpName)
  PROVE  /\ s_semaphore = Free /\ s_semaphore' = who /\ failed' = failed
         /\ ddr' \in [Slot -> Name \cup {Torn}]
         /\ \A j \in Slot : j # i => ddr'[j] = ddr[j]
BY DEF Typed, BeginDownload, Send

\* One that ends leaves its picture in its slot, or the slot counted as failed.
LEMMA EndEffect ==
  ASSUME Typed, NEW i \in Slot, NEW bmpName \in Picture, EndDownload(i, bmpName)
  PROVE  /\ s_semaphore' = Free /\ ddr' \in [Slot -> Name \cup {Torn}]
         /\ \A j \in Slot : j # i => ddr'[j] = ddr[j] /\ (j \in failed' <=> j \in failed)
         /\ i \notin failed' => ddr'[i] = bmpName
<1>1. CASE Brought(i, bmpName)
  BY <1>1 DEF Typed, EndDownload, Brought, Name
<1>2. CASE NotBrought(i)
  BY <1>2 DEF Typed, EndDownload, NotBrought
<1> QED
  BY <1>1, <1>2 DEF EndDownload

LEMMA NoTaskTyped ==
  /\ [NoTask EXCEPT !.at = "start"] \in TaskState
  /\ [NoTask EXCEPT !.at = "end"] \in TaskState
BY Constants DEF NoTask, TaskState, Busy, Name

LEMMA NextPatternTyped ==
  ASSUME Typed, NEW t \in Task, task[t].loopId < task[t].ptnNum
  PROVE  NextPattern(t) \in TaskState
<1>1. task[t] \in TaskState
  BY DEF Typed
<1>2. task[t].loopId + 1 \in 0..TableSize
  BY <1>1, Constants DEF TaskState
<1> QED
  BY <1>1, <1>2 DEF NextPattern, TaskState, Name

LEMMA TypedStep ==
  ASSUME IInv, Next
  PROVE  Typed'
<1>0. Typed /\ BusyWithPicture /\ OneLoad /\ SendersWait
  BY DEF IInv
<1>1. ASSUME NEW t \in Task, TaskStart(t) PROVE Typed'
  <2>1. [task[t] EXCEPT !.at = "pick", !.ptnNum = cur_conns] \in TaskState
    BY <1>0 DEF Typed, TaskState
  <2> QED
    BY <1>0, <1>1, <2>1 DEF Typed, TaskStart, StepTask, table, slots, memory, ghost
<1>2. ASSUME NEW t \in Task, TaskPick(t) PROVE Typed'
  <2>1. task[t] \in TaskState /\ task[t].loopId < task[t].ptnNum
    BY <1>0, <1>2 DEF TaskPick, GoesOn, Typed
  <2>2. PictureOf(t) \in Name
    BY <1>0, <2>1, PictureTyped DEF Typed, TaskState
  <2>3. wild' \in BOOLEAN /\ crashed' \in BOOLEAN
    BY <1>0, <1>2 DEF TaskPick, WildRead, Own, Typed
  <2>4. \/ task' = [task EXCEPT ![t] = NextPattern(t)]
        \/ FirstFree # -1 /\ task' = [task EXCEPT ![t] = Picked(t)]
    BY <1>2 DEF TaskPick, StepTask, Skips
  <2>5. NextPattern(t) \in TaskState
    BY <1>0, <2>1, NextPatternTyped
  <2>6. FirstFree # -1 => Picked(t) \in TaskState
    BY <2>1, <2>2, FreeSlot DEF TaskState, Busy, Picked
  <2>7. task' \in [Task -> TaskState]
    BY <1>0, <2>4, <2>5, <2>6 DEF Typed
  <2> QED
    BY <1>0, <1>2, <2>3, <2>7 DEF Typed, TaskPick, table, slots, memory
<1>3. ASSUME NEW t \in Task, TaskDownload(t) PROVE Typed'
  <2>1. task[t] \in TaskState /\ task[t].loopId < task[t].ptnNum /\ task[t].slot \in Slot
        /\ task[t].bmpName \in Picture
    BY <1>0, <1>3 DEF TaskDownload, Typed, BusyWithPicture, Busy
  <2>2. NextPattern(t) \in TaskState /\ At(t, "down") \in TaskState
    BY <1>0, <2>1, NextPatternTyped DEF TaskState, Busy, At
  <2>3. task' \in [Task -> TaskState]
    BY <1>0, <1>3, <2>2 DEF Typed, TaskDownload, StepTask
  <2>4. s_semaphore' \in Task \cup {Fpga, Free} /\ ddr' \in [Slot -> Name \cup {Torn}]
    <3>1. CASE BeginDownload(t, task[t].slot, task[t].bmpName)
      <4>1. s_semaphore' = t /\ ddr' \in [Slot -> Name \cup {Torn}]
        BY <1>0, <2>1, <3>1, BeginEffect
      <4> QED
        BY <4>1
    <3>2. CASE RefuseDownload(t)
      BY <1>0, <3>2 DEF Typed, RefuseDownload, memory
    <3> QED
      BY <1>3, <3>1, <3>2 DEF TaskDownload
  <2> QED
    BY <1>0, <1>3, <2>3, <2>4 DEF Typed, TaskDownload, table, ghost
<1>4. ASSUME NEW t \in Task, TaskDownloaded(t) PROVE Typed'
  <2>1. task[t] \in TaskState
    BY <1>0 DEF Typed
  <2>2. task[t].bmpName \in Picture /\ task[t].slot \in Slot /\ At(t, "note") \in TaskState
    BY <1>0, <1>4, <2>1 DEF TaskDownloaded, BusyWithPicture, TaskState, Busy, At
  <2>3. s_semaphore' = Free /\ ddr' \in [Slot -> Name \cup {Torn}]
    BY <1>0, <1>4, <2>2, EndEffect DEF TaskDownloaded
  <2> QED
    BY <1>0, <1>4, <2>2, <2>3 DEF Typed, TaskDownloaded, StepTask, table, ghost
<1>5. ASSUME NEW t \in Task, TaskNote(t) PROVE Typed'
  <2>1. task[t] \in TaskState /\ task[t].loopId < task[t].ptnNum /\ task[t].slot \in Slot
    BY <1>0, <1>5 DEF TaskNote, Typed, BusyWithPicture, Busy, memory
  <2>2. task[t].bmpName \in Name /\ NextPattern(t) \in TaskState
    BY <1>0, <2>1, NextPatternTyped DEF TaskState
  <2> QED
    BY <1>0, <1>5, <2>2 DEF Typed, TaskNote, Note, StepTask, table, ghost, memory
<1>6. ASSUME NEW t \in Task, TaskEnd(t) PROVE Typed'
  BY <1>0, <1>6, NoTaskTyped DEF Typed, TaskEnd, StepTask, table, slots, memory, ghost
<1>7. ASSUME FpgaSequence PROVE Typed'
  <2>1. queue' \in Seq(Message)
    BY <1>0, <1>7, HeadTailProperties DEF Typed, FpgaSequence
  <2>2. caller' \in [Caller -> Loading \cup {"idle", "wait"}]
    BY <1>0, <1>7 DEF Typed, FpgaSequence, Answer, Loading
  <2> QED
    BY <1>0, <1>7, <2>1, <2>2 DEF Typed, FpgaSequence, table, slots, memory, ghost
<1>8. ASSUME FpgaFind PROVE Typed'
  <2>1. queue' \in Seq(Message) /\ Head(queue) \in Message
    BY <1>0, <1>8, HeadTailProperties DEF Typed, FpgaFind
  <2>2. caller' \in [Caller -> Loading \cup {"idle", "wait"}]
    BY <1>0, <1>8 DEF Typed, FpgaFind, Answer
  <2>3. Wanted \in Name /\ Head(queue).from \in Caller
    BY <1>0, <2>1, PatternById DEF Typed, Message, Wanted
  <2>4. \/ fpga' = fpga
        \/ \E pos \in Slot : fpga' = Photo("show", pos)
        \/ fpga' = Photo("obtain", s32ForcePostion)
    BY <1>8, PositionOfName DEF FpgaFind
  <2>5. \A pos \in Slot : Photo("show", pos) \in FpgaState /\ Photo("obtain", pos) \in FpgaState
    BY <2>3 DEF Photo, FpgaState, Busy
  <2>6. fpga' \in FpgaState
    BY <1>0, <2>4, <2>5 DEF Typed
  <2>7. wild' \in BOOLEAN /\ crashed' \in BOOLEAN
    BY <1>0, <1>8 DEF FpgaFind, WildRead, Typed
  <2> QED
    BY <1>0, <1>8, <2>1, <2>2, <2>6, <2>7 DEF Typed, FpgaFind, table, slots, memory
<1>9. ASSUME FpgaDownload PROVE Typed'
  <2>1. fpga' \in FpgaState
    BY <1>0, <1>9 DEF Typed, FpgaDownload, FpgaState, Busy
  <2>2. s_semaphore' \in Task \cup {Fpga, Free} /\ ddr' \in [Slot -> Name \cup {Torn}]
    BY <1>0, <1>9, BeginEffect DEF Typed, BusyWithPicture, Busy, FpgaDownload, RefuseDownload, memory
  <2> QED
    BY <1>0, <1>9, <2>1, <2>2 DEF Typed, FpgaDownload, table, ghost
<1>10. ASSUME FpgaDownloaded PROVE Typed'
  <2>1. fpga' \in FpgaState /\ fpga.bmpName \in Picture /\ fpga.slot \in Slot
    BY <1>0, <1>10 DEF Typed, BusyWithPicture, FpgaDownloaded, FpgaState, Busy
  <2>2. s_semaphore' = Free /\ ddr' \in [Slot -> Name \cup {Torn}]
    BY <1>0, <1>10, <2>1, EndEffect DEF FpgaDownloaded
  <2> QED
    BY <1>0, <1>10, <2>1, <2>2 DEF Typed, FpgaDownloaded, table, ghost
<1>11. ASSUME FpgaNote PROVE Typed'
  <2>1. fpga' \in FpgaState /\ fpga.bmpName \in Name
    BY <1>0, <1>11 DEF Typed, FpgaNote, FpgaState, Busy, memory
  <2>2. s32ForcePostion' \in Slot
    BY <1>0, <1>11, Constants DEF Typed, FpgaNote, NextForce, Slot, memory
  <2> QED
    BY <1>0, <1>11, <2>1, <2>2 DEF Typed, FpgaNote, Note, table, ghost, memory
<1>12. ASSUME FpgaShow PROVE Typed'
  <2>1. fpga' \in FpgaState /\ screen' \in Screen
    BY <1>0, <1>12 DEF Typed, FpgaShow, FpgaState, Screen, NoPhoto, Name
  <2>2. caller' \in [Caller -> Loading \cup {"idle", "wait"}]
    BY <1>0, <1>12 DEF Typed, FpgaShow, Answer
  <2> QED
    BY <1>0, <1>12, <2>1, <2>2 DEF Typed, FpgaShow, table, slots, memory, ghost
<1>13. ASSUME NEW c \in Caller, client_pg_showPtn(c) PROVE Typed'
  <2>1. PICK i \in PtnId : queue' = Append(queue, [cmd |-> "SET_PHOTO", from |-> c, ptnId |-> i])
    BY <1>13 DEF client_pg_showPtn
  <2>2. [cmd |-> "SET_PHOTO", from |-> c, ptnId |-> i] \in Message
    BY DEF Message, PtnId
  <2>3. queue' \in Seq(Message)
    BY <1>0, <2>1, <2>2 DEF Typed
  <2>4. caller' \in [Caller -> Loading \cup {"idle", "wait"}]
    BY <1>0, <1>13 DEF Typed, client_pg_showPtn, Go
  <2>5. shows' \in 0..MaxShows
    BY <1>0, <1>13, Constants DEF Typed, client_pg_showPtn
  <2> QED
    BY <1>0, <1>13, <2>3, <2>4, <2>5 DEF Typed, client_pg_showPtn, table, slots, memory, ghost
<1>14. ASSUME NEW c \in Caller, LoadClose(c) PROVE Typed'
  <2>1. caller' \in [Caller -> Loading \cup {"idle", "wait"}]
    BY <1>0, <1>14 DEF Typed, LoadClose, Go, Loading
  <2>2. loads' \in 0..MaxLoads
    BY <1>0, <1>14, Constants DEF Typed, LoadClose
  <2> QED
    BY <1>0, <1>14, <2>1, <2>2 DEF Typed, LoadClose, slots, memory, ghost
<1>15. ASSUME NEW c \in Caller, LoadOpen(c) PROVE Typed'
  <2>1. conns' \in Table /\ cur_conns' \in 0..TableSize
    BY <1>15, LoadTyped DEF LoadOpen
  <2> DEFINE msg == [cmd |-> "SET_SEQ", from |-> c, ptnId |-> -1]
  <2>2. msg \in Message /\ (queue' = queue \/ queue' = Append(queue, msg))
    BY <1>15 DEF Message, LoadOpen
  <2> HIDE DEF msg
  <2>3. queue' \in Seq(Message)
    BY <1>0, <2>2 DEF Typed
  <2>4. caller' \in [Caller -> Loading \cup {"idle", "wait"}]
    BY <1>0, <1>15 DEF Typed, LoadOpen, Go, Loading
  <2> QED
    BY <1>0, <1>15, <2>1, <2>3, <2>4 DEF Typed, LoadOpen, slots, memory, ghost
<1>16. ASSUME NEW c \in Caller, LoadStop(c) PROVE Typed'
  <2>1. caller' \in [Caller -> Loading \cup {"idle", "wait"}] /\ s_taskStop' \in BOOLEAN
    BY <1>0, <1>16 DEF Typed, LoadStop, Go, Loading
  <2> QED
    BY <1>0, <1>16, <2>1 DEF Typed, LoadStop, table, slots, memory, ghost
<1>17. ASSUME NEW c \in Caller, LoadJoin(c) PROVE Typed'
  <2>1. caller' \in [Caller -> Loading \cup {"idle", "wait"}] /\ s_taskStop' \in BOOLEAN
    BY <1>0, <1>17 DEF Typed, LoadJoin, Go, Loading
  <2> QED
    BY <1>0, <1>17, <2>1 DEF Typed, LoadJoin, table, slots, memory, ghost
<1>18. ASSUME NEW c \in Caller, LoadWipe(c) PROVE Typed'
  <2>1. caller' \in [Caller -> Loading \cup {"idle", "wait"}]
    BY <1>0, <1>18 DEF Typed, LoadWipe, Go, Loading, memory
  <2>2. screen' \in Screen /\ move_ptn_info' \in [Slot -> Name]
    BY <1>0, <1>18 DEF Typed, LoadWipe, Screen, Name, memory
  <2> QED
    BY <1>0, <1>18, <2>1, <2>2 DEF Typed, LoadWipe, table, memory
<1>19. ASSUME NEW c \in Caller, LoadCreate(c) PROVE Typed'
  <2>1. caller' \in [Caller -> Loading \cup {"idle", "wait"}]
    BY <1>0, <1>19 DEF Typed, LoadCreate, Go
  <2>2. task' \in [Task -> TaskState]
    BY <1>0, <1>19, NoTaskTyped DEF Typed, OneLoad, LoadCreate, StepTask, Loading
  <2> QED
    BY <1>0, <1>19, <2>1, <2>2 DEF Typed, LoadCreate, table, slots, memory, ghost
<1> QED
  BY <1>1, <1>2, <1>3, <1>4, <1>5, <1>6, <1>7, <1>8, <1>9, <1>10, <1>11, <1>12, <1>13, <1>14,
     <1>15, <1>16, <1>17, <1>18, <1>19 DEF Next, TaskStep, FpgaStep, LoadStep

\* A step of task t leaves the others as they were.
LEMMA TaskSet ==
  ASSUME Typed, NEW t \in Task, NEW new, StepTask(t, new)
  PROVE  task'[t] = new /\ \A u \in Task : u # t => task'[u] = task[u]
BY DEF Typed, StepTask

LEMMA NextPatternFields ==
  ASSUME Typed, NEW t \in Task
  PROVE  /\ NextPattern(t).at = "pick" /\ NextPattern(t).ptnNum = task[t].ptnNum
         /\ NextPattern(t).slot = -1
BY DEF Typed, TaskState, NextPattern

LEMMA PickedFields ==
  ASSUME Typed, NEW t \in Task
  PROVE  /\ Picked(t).at = "obtain" /\ Picked(t).slot = FirstFree
         /\ Picked(t).bmpName = PictureOf(t)
         /\ Picked(t).loopId = task[t].loopId /\ Picked(t).ptnNum = task[t].ptnNum
BY DEF Typed, TaskState, Picked

LEMMA AtFields ==
  ASSUME Typed, NEW t \in Task, NEW to
  PROVE  /\ At(t, to).at = to /\ At(t, to).slot = task[t].slot /\ At(t, to).bmpName = task[t].bmpName
         /\ At(t, to).loopId = task[t].loopId /\ At(t, to).ptnNum = task[t].ptnNum
BY DEF Typed, TaskState, At

LEMMA BusyStep ==
  ASSUME IInv, Next
  PROVE  BusyWithPicture'
<1> DEFINE Ok(t) == task[t].at \in Busy => /\ task[t].slot \in Slot /\ task[t].bmpName \in Picture
                                           /\ task[t].loopId < task[t].ptnNum
           FOk   == /\ fpga.at \in Busy => fpga.slot \in Slot
                    /\ fpga.at # "idle" => fpga.from \in Caller /\ fpga.bmpName \in Picture
<1>0. Typed /\ (\A u \in Task : Ok(u)) /\ FOk
  BY DEF IInv, BusyWithPicture
<1>a. (\A u \in Task : Ok(u)') /\ FOk' => BusyWithPicture'
  BY DEF BusyWithPicture
<1>b. ASSUME NEW t \in Task, NEW new, StepTask(t, new), fpga' = fpga,
             new.at \in Busy => new.slot \in Slot /\ new.bmpName \in Picture /\ new.loopId < new.ptnNum
      PROVE  BusyWithPicture'
  <2>1. task'[t] = new /\ \A u \in Task : u # t => task'[u] = task[u]
    BY <1>0, <1>b, TaskSet
  <2>2. ASSUME NEW u \in Task PROVE Ok(u)'
    BY <1>0, <1>b, <2>1
  <2>3. FOk'
    BY <1>0, <1>b
  <2> QED
    BY <1>a, <2>2, <2>3
<1>c. ASSUME task' = task, FOk' PROVE BusyWithPicture'
  BY <1>0, <1>a, <1>c
<1>d. ASSUME task' = task, fpga' = fpga PROVE BusyWithPicture'
  BY <1>0, <1>a, <1>d
<1>e. \A x \in {"none", "start", "pick", "end"} : x \notin Busy
  BY DEF Busy
<1> HIDE DEF Ok
<1>1. ASSUME NEW t \in Task, TaskStart(t) PROVE BusyWithPicture'
  <2> DEFINE new == [task[t] EXCEPT !.at = "pick", !.ptnNum = cur_conns]
  <2>1. new.at = "pick" /\ StepTask(t, new) /\ fpga' = fpga
    BY <1>0, <1>1 DEF TaskStart, Typed, TaskState
  <2> HIDE DEF new
  <2> QED
    BY <1>b, <1>e, <2>1
<1>2. ASSUME NEW t \in Task, TaskPick(t) PROVE BusyWithPicture'
  <2>1. CASE StepTask(t, NextPattern(t))
    BY <1>0, <1>2, <1>b, <1>e, <2>1, NextPatternFields DEF TaskPick
  <2>2. CASE StepTask(t, Picked(t)) /\ ~Skips(PictureOf(t))
    <3>1. PictureOf(t) \in Picture /\ FirstFree \in Slot
      BY <1>0, <2>2, PictureTyped, FreeSlot DEF Skips, Typed, TaskState, Name
    <3> QED
      BY <1>0, <1>2, <1>b, <2>2, <3>1, PickedFields DEF TaskPick, GoesOn
  <2> QED
    BY <1>2, <2>1, <2>2 DEF TaskPick
<1>3. ASSUME NEW t \in Task, TaskDownload(t) PROVE BusyWithPicture'
  <2>1. CASE StepTask(t, NextPattern(t))
    BY <1>0, <1>3, <1>b, <1>e, <2>1, NextPatternFields DEF TaskDownload
  <2>2. CASE StepTask(t, At(t, "down"))
    BY <1>0, <1>3, <1>b, <2>2, AtFields DEF TaskDownload, Ok, Busy
  <2> QED
    BY <1>3, <2>1, <2>2 DEF TaskDownload
<1>4. ASSUME NEW t \in Task, TaskDownloaded(t) PROVE BusyWithPicture'
  BY <1>0, <1>4, <1>b, AtFields DEF TaskDownloaded, Ok, Busy
<1>5. ASSUME NEW t \in Task, TaskNote(t) PROVE BusyWithPicture'
  BY <1>0, <1>5, <1>b, <1>e, NextPatternFields DEF TaskNote, memory
<1>6. ASSUME NEW t \in Task, TaskEnd(t) PROVE BusyWithPicture'
  <2>1. [NoTask EXCEPT !.at = "end"].at = "end"
    BY DEF NoTask
  <2> QED
    BY <1>6, <1>b, <1>e, <2>1 DEF TaskEnd
<1>7. ASSUME FpgaSequence PROVE BusyWithPicture'
  BY <1>7, <1>d DEF FpgaSequence
<1>8. ASSUME FpgaFind PROVE BusyWithPicture'
  <2>1. Head(queue) \in Message
    BY <1>0, <1>8, HeadTailProperties DEF Typed, FpgaFind
  <2>2. Wanted \in Name /\ Head(queue).from \in Caller
    BY <1>0, <2>1, PatternById DEF Typed, Message, Wanted
  <2>3. \/ fpga' = fpga
        \/ Wanted # None /\ \E pos \in Slot, at \in {"show", "obtain"} : fpga' = Photo(at, pos)
    BY <1>0, <1>8, PositionOfName DEF FpgaFind, Typed
  <2>4. FOk'
    BY <1>0, <2>2, <2>3 DEF Photo, Name
  <2> QED
    BY <1>8, <1>c, <2>4 DEF FpgaFind
<1>9. ASSUME FpgaDownload PROVE BusyWithPicture'
  <2>1. FOk'
    BY <1>0, <1>9 DEF FpgaDownload, Typed, FpgaState, Busy
  <2> QED
    BY <1>9, <1>c, <2>1 DEF FpgaDownload
<1>10. ASSUME FpgaDownloaded PROVE BusyWithPicture'
  <2>1. FOk'
    BY <1>0, <1>10 DEF FpgaDownloaded, Typed, FpgaState, Busy
  <2> QED
    BY <1>10, <1>c, <2>1 DEF FpgaDownloaded
<1>11. ASSUME FpgaNote PROVE BusyWithPicture'
  <2>1. FOk'
    BY <1>0, <1>11 DEF FpgaNote, Typed, FpgaState, Busy, memory
  <2> QED
    BY <1>11, <1>c, <2>1 DEF FpgaNote, memory
<1>12. ASSUME FpgaShow PROVE BusyWithPicture'
  BY <1>12, <1>c DEF FpgaShow, NoPhoto, Busy
<1>13. ASSUME NEW c \in Caller, client_pg_showPtn(c) PROVE BusyWithPicture'
  BY <1>13, <1>d DEF client_pg_showPtn
<1>14. ASSUME NEW c \in Caller, LoadClose(c) PROVE BusyWithPicture'
  BY <1>14, <1>d DEF LoadClose
<1>15. ASSUME NEW c \in Caller, LoadOpen(c) \/ LoadStop(c) \/ LoadJoin(c) \/ LoadWipe(c)
       PROVE  BusyWithPicture'
  BY <1>15, <1>d DEF LoadOpen, LoadStop, LoadJoin, LoadWipe, memory
<1>16. ASSUME NEW c \in Caller, LoadCreate(c) PROVE BusyWithPicture'
  <2>1. loads \in Task
    BY <1>16 DEF IInv, OneLoad, LoadCreate, Loading
  <2>2. [NoTask EXCEPT !.at = "start"].at = "start"
    BY DEF NoTask
  <2> QED
    BY <1>16, <1>b, <1>e, <2>1, <2>2 DEF LoadCreate
<1> QED
  BY <1>1, <1>2, <1>3, <1>4, <1>5, <1>6, <1>7, <1>8, <1>9, <1>10, <1>11, <1>12, <1>13, <1>14,
     <1>15, <1>16 DEF Next, TaskStep, FpgaStep, LoadStep

LEMMA SemaphoreStep ==
  ASSUME IInv, Next
  PROVE  SemaphoreWithSender' /\ TornIsSent'
<1> DEFINE Sent == SemaphoreWithSender /\ TornIsSent
<1>0. Typed /\ BusyWithPicture /\ SemaphoreWithSender /\ TornIsSent /\ OneLoad
  BY DEF IInv
<1>n. (\A t \in Task : t # Fpga /\ t # Free) /\ Fpga # Free
  BY Constants DEF Task, Fpga, Free
<1>b. ASSUME NEW t \in Task, NEW new, StepTask(t, new), task[t].at # "down", new.at # "down",
             UNCHANGED <<fpga, s_semaphore, ddr, failed>>
      PROVE  Sent'
  <2>1. task'[t] = new /\ \A u \in Task : u # t => task'[u] = task[u]
    BY <1>0, <1>b, TaskSet
  <2>2. SemaphoreWithSender'
    BY <1>0, <1>b, <2>1 DEF SemaphoreWithSender
  <2>3. TornIsSent'
    BY <1>0, <1>b, <2>1 DEF TornIsSent
  <2> QED
    BY <2>2, <2>3
<1>c. ASSUME UNCHANGED <<task, s_semaphore, ddr, failed>>, fpga.at # "down", fpga'.at # "down"
      PROVE  Sent'
  BY <1>0, <1>c DEF SemaphoreWithSender, TornIsSent
<1>d. ASSUME UNCHANGED <<task, fpga, s_semaphore, ddr, failed>>
      PROVE  Sent'
  BY <1>0, <1>d DEF SemaphoreWithSender, TornIsSent
<1>1. ASSUME NEW t \in Task, TaskStart(t) PROVE Sent'
  <2> DEFINE new == [task[t] EXCEPT !.at = "pick", !.ptnNum = cur_conns]
  <2>1. new.at = "pick" /\ StepTask(t, new) /\ task[t].at = "start"
    BY <1>0, <1>1 DEF TaskStart, Typed, TaskState
  <2> HIDE DEF new, Sent
  <2> QED
    BY <1>1, <1>b, <2>1 DEF TaskStart, slots, memory
<1>2. ASSUME NEW t \in Task, TaskPick(t) PROVE Sent'
  <2> HIDE DEF Sent
  <2> QED
    BY <1>0, <1>2, <1>b, NextPatternFields, PickedFields DEF TaskPick, slots, memory
<1>3. ASSUME NEW t \in Task, TaskDownload(t) PROVE Sent'
  <2>1. CASE StepTask(t, NextPattern(t)) /\ RefuseDownload(t)
    <3> HIDE DEF Sent
    <3> QED
      BY <1>0, <1>3, <1>b, <2>1, NextPatternFields DEF TaskDownload, RefuseDownload, memory
  <2>2. CASE StepTask(t, At(t, "down")) /\ BeginDownload(t, task[t].slot, task[t].bmpName)
    <3>1. /\ task'[t].at = "down" /\ task'[t].slot = task[t].slot
          /\ \A u \in Task : u # t => task'[u] = task[u]
      BY <1>0, <2>2, TaskSet, AtFields
    <3>2. fpga' = fpga /\ s_semaphore = Free /\ s_semaphore' = t /\ failed' = failed
          /\ \A j \in Slot : j # task[t].slot => ddr'[j] = ddr[j]
      BY <1>0, <1>3, <2>2, BeginEffect DEF TaskDownload, BusyWithPicture, Busy
    <3>3. fpga.at # "down" /\ \A u \in Task : task[u].at # "down"
      BY <1>0, <1>n, <3>2 DEF SemaphoreWithSender
    <3>4. SemaphoreWithSender'
      BY <1>n, <3>1, <3>2, <3>3 DEF SemaphoreWithSender
    <3>5. \A i \in Slot \ failed : ddr'[i] = Torn => i = task[t].slot
      BY <1>0, <3>2, <3>3 DEF TornIsSent, Typed
    <3>6. TornIsSent'
      BY <3>1, <3>2, <3>5 DEF TornIsSent
    <3> QED
      BY <3>4, <3>6
  <2> QED
    BY <1>3, <2>1, <2>2 DEF TaskDownload
<1>4. ASSUME NEW t \in Task, TaskDownloaded(t) PROVE Sent'
  <2>1. task'[t].at = "note" /\ \A u \in Task : u # t => task'[u] = task[u]
    BY <1>0, <1>4, TaskSet, AtFields DEF TaskDownloaded
  <2>2. /\ fpga' = fpga /\ task[t].at = "down" /\ s_semaphore' = Free
        /\ task[t].slot \in Slot /\ task[t].bmpName \in Picture
        /\ EndDownload(task[t].slot, task[t].bmpName)
    BY <1>0, <1>4 DEF TaskDownloaded, EndDownload, BusyWithPicture, Busy
  <2>3. s_semaphore = t /\ fpga.at # "down" /\ \A u \in Task : u # t => task[u].at # "down"
    BY <1>0, <1>n, <2>2 DEF SemaphoreWithSender
  <2>4. SemaphoreWithSender'
    BY <1>n, <2>1, <2>2, <2>3 DEF SemaphoreWithSender
  <2>5. task[t].bmpName # Torn
    BY <2>2, Constants DEF Name
  <2>6. \A i \in Slot \ failed' : ddr'[i] # Torn
    BY <1>0, <2>2, <2>3, <2>5, EndEffect DEF TornIsSent
  <2>7. TornIsSent'
    BY <2>6 DEF TornIsSent
  <2> QED
    BY <2>4, <2>7
<1>5. ASSUME NEW t \in Task, TaskNote(t) PROVE Sent'
  <2> HIDE DEF Sent
  <2> QED
    BY <1>0, <1>5, <1>b, NextPatternFields DEF TaskNote, memory
<1>6. ASSUME NEW t \in Task, TaskEnd(t) PROVE Sent'
  <2>1. [NoTask EXCEPT !.at = "end"].at = "end"
    BY DEF NoTask
  <2> HIDE DEF Sent
  <2> QED
    BY <1>6, <1>b, <2>1 DEF TaskEnd, slots, memory
<1>8. ASSUME FpgaFind PROVE Sent'
  <2>1. fpga.at = "idle" /\ (fpga' = fpga \/ \E at \in {"show", "obtain"}, pos \in Slot \cup {-1} :
                                                 fpga' = Photo(at, pos))
    BY <1>0, <1>8, PositionOfName DEF FpgaFind, Typed
  <2>2. fpga.at # "down" /\ fpga'.at # "down"
    BY <2>1 DEF Photo
  <2> QED
    BY <1>8, <1>c, <2>2 DEF FpgaFind, slots, memory
<1>9. ASSUME FpgaDownload PROVE Sent'
  <2>1. CASE RefuseDownload(Fpga) /\ fpga' = [fpga EXCEPT !.at = "show", !.slot = -1]
    BY <1>0, <1>9, <1>c, <2>1 DEF FpgaDownload, RefuseDownload, Typed, FpgaState, memory
  <2>2. CASE BeginDownload(Fpga, fpga.slot, fpga.bmpName) /\ fpga' = [fpga EXCEPT !.at = "down"]
    <3>1. fpga'.at = "down" /\ fpga'.slot = fpga.slot
      BY <1>0, <2>2 DEF Typed, FpgaState
    <3>2. task' = task /\ s_semaphore = Free /\ s_semaphore' = Fpga /\ failed' = failed
          /\ \A j \in Slot : j # fpga.slot => ddr'[j] = ddr[j]
      BY <1>0, <1>9, <2>2, BeginEffect DEF FpgaDownload, BusyWithPicture, Busy
    <3>3. fpga.at # "down" /\ \A u \in Task : task[u].at # "down"
      BY <1>0, <1>9, <1>n, <3>2 DEF SemaphoreWithSender, FpgaDownload
    <3>4. SemaphoreWithSender'
      BY <1>n, <3>1, <3>2, <3>3 DEF SemaphoreWithSender
    <3>5. \A i \in Slot \ failed : ddr'[i] = Torn => i = fpga.slot
      BY <1>0, <3>2, <3>3 DEF TornIsSent, Typed
    <3>6. TornIsSent'
      BY <3>1, <3>2, <3>5 DEF TornIsSent
    <3> QED
      BY <3>4, <3>6
  <2> QED
    BY <1>9, <2>1, <2>2 DEF FpgaDownload
<1>10. ASSUME FpgaDownloaded PROVE Sent'
  <2>1. fpga'.at = "note" /\ task' = task
    BY <1>0, <1>10 DEF FpgaDownloaded, Typed, FpgaState
  <2>2. /\ fpga.at = "down" /\ s_semaphore' = Free /\ fpga.slot \in Slot /\ fpga.bmpName \in Picture
        /\ EndDownload(fpga.slot, fpga.bmpName)
    BY <1>0, <1>10 DEF FpgaDownloaded, EndDownload, BusyWithPicture, Busy
  <2>3. s_semaphore = Fpga /\ \A u \in Task : task[u].at # "down"
    BY <1>0, <1>n, <2>2 DEF SemaphoreWithSender
  <2>5. SemaphoreWithSender'
    BY <1>n, <2>1, <2>2, <2>3 DEF SemaphoreWithSender
  <2>6. fpga.bmpName # Torn
    BY <2>2, Constants DEF Name
  <2>7. \A i \in Slot \ failed' : ddr'[i] # Torn
    BY <1>0, <2>2, <2>3, <2>6, EndEffect DEF TornIsSent
  <2>8. TornIsSent'
    BY <2>7 DEF TornIsSent
  <2> QED
    BY <2>5, <2>8
<1>11. ASSUME FpgaNote PROVE Sent'
  BY <1>0, <1>11, <1>c DEF FpgaNote, Typed, FpgaState, memory
<1>12. ASSUME FpgaShow PROVE Sent'
  BY <1>0, <1>12, <1>c DEF FpgaShow, NoPhoto, slots, memory
<1>13. ASSUME NEW c \in Caller, client_pg_showPtn(c) \/ LoadClose(c) \/ LoadOpen(c) \/ LoadStop(c)
                                \/ LoadJoin(c) \/ LoadWipe(c)
       PROVE  Sent'
  BY <1>13, <1>d DEF client_pg_showPtn, LoadClose, LoadOpen, LoadStop, LoadJoin, LoadWipe, slots, memory
<1>14. ASSUME FpgaSequence PROVE Sent'
  BY <1>14, <1>d DEF FpgaSequence, slots, memory
<1>16. ASSUME NEW c \in Caller, LoadCreate(c) PROVE Sent'
  <2>1. loads \in Task /\ task[loads].at = "none"
    BY <1>0, <1>16 DEF OneLoad, LoadCreate, Loading
  <2>2. [NoTask EXCEPT !.at = "start"].at = "start"
    BY DEF NoTask
  <2> HIDE DEF Sent
  <2> QED
    BY <1>16, <1>b, <2>1, <2>2 DEF LoadCreate, slots, memory
<1> QED
  BY <1>1, <1>2, <1>3, <1>4, <1>5, <1>6, <1>8, <1>9, <1>10, <1>11, <1>12, <1>13, <1>14,
     <1>16 DEF Next, TaskStep, FpgaStep, LoadStep

LEMMA EndFields ==
  [NoTask EXCEPT !.at = "end"].at = "end" /\ [NoTask EXCEPT !.at = "start"].at = "start"
BY DEF NoTask

\* The two ways a message to show a pattern goes on: it is answered at once, or
\* the picture is known and the fpga task has a slot for it.
LEMMA FindEffect ==
  ASSUME IInv, FpgaFind
  PROVE  /\ fpga.at = "idle" /\ queue # <<>> /\ queue' = Tail(queue)
         /\ Head(queue) \in Message /\ Head(queue).cmd = "SET_PHOTO" /\ Head(queue).from \in Caller
         /\ \/ /\ fpga' = fpga /\ raced' = raced
               /\ caller' = [caller EXCEPT ![Head(queue).from] = "idle"]
            \/ /\ Wanted \in Picture /\ caller' = caller
               /\ \/ raced' = raced /\ \E pos \in Slot : /\ move_ptn_info[pos] = Wanted
                                                         /\ fpga' = Photo("show", pos)
                  \/ fpga' = Photo("obtain", s32ForcePostion) /\ Choose(s32ForcePostion)
<1>1. Typed
  BY DEF IInv
<1>2. fpga.at = "idle" /\ queue # <<>> /\ queue' = Tail(queue) /\ Head(queue).cmd = "SET_PHOTO"
  BY DEF FpgaFind
<1>3. Head(queue) \in Message
  BY <1>1, <1>2, HeadTailProperties DEF Typed
<1>4. Head(queue).from \in Caller /\ Wanted \in Name
  BY <1>1, <1>3, PatternById DEF Typed, Message, Wanted
<1>5. \/ /\ fpga' = fpga /\ raced' = raced
         /\ caller' = [caller EXCEPT ![Head(queue).from] = "idle"]
      \/ /\ Wanted # None /\ caller' = caller
         /\ \/ raced' = raced /\ \E pos \in Slot : /\ move_ptn_info[pos] = Wanted
                                                   /\ fpga' = Photo("show", pos)
            \/ fpga' = Photo("obtain", s32ForcePostion) /\ Choose(s32ForcePostion)
  BY PositionOfName DEF FpgaFind, Answer
<1> QED
  BY <1>2, <1>3, <1>4, <1>5 DEF Name

LEMMA OneLoadStep ==
  ASSUME IInv, Next
  PROVE  OneLoad'
<1>0. Typed /\ OneLoad /\ SendersWait
  BY DEF IInv
<1>b. ASSUME NEW t \in Task, NEW new, StepTask(t, new), task[t].at # "none", new.at # "none",
             UNCHANGED <<caller, loads>>
      PROVE  OneLoad'
  <2>1. task'[t] = new /\ \A u \in Task : u # t => task'[u] = task[u]
    BY <1>0, <1>b, TaskSet
  <2> QED
    BY <1>0, <1>b, <2>1 DEF OneLoad
<1>c. ASSUME NEW c \in Caller, NEW to, caller' = [caller EXCEPT ![c] = to],
             to \in Loading => caller[c] \in Loading, UNCHANGED <<task, loads>>
      PROVE  OneLoad'
  <2>1. \A d \in Caller : caller'[d] \in Loading => caller[d] \in Loading
    BY <1>0, <1>c DEF Typed
  <2> QED
    BY <1>0, <1>c, <2>1 DEF OneLoad
<1>d. ASSUME UNCHANGED <<task, loads, caller>>
      PROVE  OneLoad'
  BY <1>0, <1>d DEF OneLoad
<1>e. "idle" \notin Loading /\ "wait" \notin Loading
      /\ \A x \in {"open", "sequence", "stop", "join", "wipe", "create"} : x \in Loading
  BY DEF Loading
<1>1. ASSUME NEW t \in Task, TaskStart(t) PROVE OneLoad'
  <2> DEFINE new == [task[t] EXCEPT !.at = "pick", !.ptnNum = cur_conns]
  <2>1. new.at = "pick" /\ StepTask(t, new) /\ task[t].at = "start"
    BY <1>0, <1>1 DEF TaskStart, Typed, TaskState
  <2> HIDE DEF new
  <2> QED
    BY <1>1, <1>b, <2>1 DEF TaskStart, table
<1>2. ASSUME NEW t \in Task, TaskPick(t) PROVE OneLoad'
  BY <1>0, <1>2, <1>b, NextPatternFields, PickedFields DEF TaskPick, table
<1>3. ASSUME NEW t \in Task, TaskDownload(t) PROVE OneLoad'
  BY <1>0, <1>3, <1>b, NextPatternFields, AtFields DEF TaskDownload, table
<1>4. ASSUME NEW t \in Task, TaskDownloaded(t) PROVE OneLoad'
  BY <1>0, <1>4, <1>b, AtFields DEF TaskDownloaded, table
<1>5. ASSUME NEW t \in Task, TaskNote(t) PROVE OneLoad'
  BY <1>0, <1>5, <1>b, NextPatternFields DEF TaskNote, table, memory
<1>6. ASSUME NEW t \in Task, TaskEnd(t) PROVE OneLoad'
  BY <1>6, <1>b, EndFields DEF TaskEnd, table
<1>7. ASSUME FpgaSequence PROVE OneLoad'
  <2>1. Head(queue).from \in Caller /\ caller[Head(queue).from] = "sequence"
    <3>1. Head(queue) = queue[1] /\ 1 \in DOMAIN queue /\ Head(queue) \in Message
      BY <1>0, <1>7, HeadTailProperties DEF Typed, FpgaSequence
    <3> QED
      BY <1>0, <1>7, <3>1 DEF SendersWait, FpgaSequence, Message
  <2> QED
    BY <1>7, <1>c, <1>e, <2>1 DEF FpgaSequence, Answer, table
<1>8. ASSUME FpgaFind PROVE OneLoad'
  <2>1. UNCHANGED <<task, loads>>
    BY <1>8 DEF FpgaFind, table
  <2> QED
    BY <1>8, <1>c, <1>d, <1>e, <2>1, FindEffect
<1>9. ASSUME FpgaDownload \/ FpgaDownloaded \/ FpgaNote PROVE OneLoad'
  BY <1>9, <1>d DEF FpgaDownload, FpgaDownloaded, FpgaNote, table, memory
<1>12. ASSUME FpgaShow PROVE OneLoad'
  <2>1. fpga.from \in Caller
    BY <1>12 DEF IInv, BusyWithPicture, FpgaShow
  <2> QED
    BY <1>12, <1>c, <1>e, <2>1 DEF FpgaShow, Answer, table
<1>13. ASSUME NEW c \in Caller, client_pg_showPtn(c) PROVE OneLoad'
  BY <1>13, <1>c, <1>e DEF client_pg_showPtn, Go, table
<1>14. ASSUME NEW c \in Caller, LoadClose(c) PROVE OneLoad'
  <2>1. caller' = [caller EXCEPT ![c] = "open"] /\ c \in Loader /\ task' = task
        /\ loads' = loads + 1 /\ loads < MaxLoads
    BY <1>14 DEF LoadClose, Go
  <2>2. \A d \in Caller : caller[d] \notin Loading
    BY <1>0, <1>14, <1>e DEF OneLoad, LoadClose
  <2>3. \A d \in Caller : caller'[d] \in Loading => d = c
    BY <1>0, <2>1, <2>2 DEF Typed
  <2>4. loads' \in Task /\ task[loads'].at = "none"
    BY <1>0, <2>1, Constants DEF OneLoad, Task, Typed
  <2>5. \A t \in Task : t > loads' => t > loads
    BY <1>0, <2>1 DEF Typed, Task
  <2> QED
    BY <1>0, <2>1, <2>3, <2>4, <2>5 DEF OneLoad
<1>15. ASSUME NEW c \in Caller, LoadOpen(c) PROVE OneLoad'
  BY <1>15, <1>c, <1>e DEF LoadOpen, Go
<1>16. ASSUME NEW c \in Caller, LoadStop(c) \/ LoadJoin(c) \/ LoadWipe(c) PROVE OneLoad'
  BY <1>16, <1>c, <1>e DEF LoadStop, LoadJoin, LoadWipe, Go, table, memory
<1>17. ASSUME NEW c \in Caller, LoadCreate(c) PROVE OneLoad'
  <2>1. caller' = [caller EXCEPT ![c] = "idle"] /\ loads' = loads /\ caller[c] \in Loading
        /\ StepTask(loads, [NoTask EXCEPT !.at = "start"])
    BY <1>17, <1>e DEF LoadCreate, Go, table
  <2>2. loads \in Task /\ \A d \in Caller : caller[d] \in Loading => d = c
    BY <1>0, <2>1 DEF OneLoad
  <2>3. \A d \in Caller : caller'[d] \notin Loading
    BY <1>0, <1>e, <2>1, <2>2 DEF Typed
  <2>4. \A u \in Task : u # loads => task'[u] = task[u]
    BY <1>0, <2>1, <2>2, TaskSet
  <2>5. \A u \in Task : u > loads => u # loads
    BY <2>2 DEF Task
  <2> QED
    BY <1>0, <2>1, <2>3, <2>4, <2>5 DEF OneLoad
<1> QED
  BY <1>1, <1>2, <1>3, <1>4, <1>5, <1>6, <1>7, <1>8, <1>9, <1>12, <1>13, <1>14,
     <1>15, <1>16, <1>17 DEF Next, TaskStep, FpgaStep, LoadStep

LEMMA SendersStep ==
  ASSUME IInv, Next
  PROVE  SendersWait'
<1>0. Typed /\ OneLoad /\ SendersWait /\ BusyWithPicture
  BY DEF IInv
<1>q. queue \in Seq(Message) /\ \A k \in DOMAIN queue : queue[k] \in Message
                                /\ caller[queue[k].from] \in {"wait", "sequence"}
  BY <1>0 DEF Typed, SendersWait
<1>b. ASSUME UNCHANGED <<queue, caller>>, fpga'.at # "idle" => fpga.at # "idle" /\ fpga'.from = fpga.from
      PROVE  SendersWait'
  BY <1>0, <1>b DEF SendersWait
\* A caller that does not wait for the fpga task goes on.
<1>c. ASSUME NEW c \in Caller, NEW to, caller' = [caller EXCEPT ![c] = to],
             caller[c] \notin {"wait", "sequence"}, UNCHANGED <<queue, fpga>>
      PROVE  SendersWait'
  <2>1. \A d \in Caller : caller[d] \in {"wait", "sequence"} => caller'[d] = caller[d]
    BY <1>0, <1>c DEF Typed
  <2>2. \A k \in DOMAIN queue : queue[k].from \in Caller
    BY <1>q DEF Message
  <2> QED
    BY <1>0, <1>c, <1>q, <2>1, <2>2 DEF SendersWait, BusyWithPicture
\* ... and sends a message to it.
<1>d. ASSUME NEW c \in Caller, NEW to, caller' = [caller EXCEPT ![c] = to],
             caller[c] \notin {"wait", "sequence"}, fpga' = fpga,
             NEW msg, queue' = Append(queue, msg), msg.from = c,
             to = IF msg.cmd = "SET_SEQ" THEN "sequence" ELSE "wait"
      PROVE  SendersWait'
  <2>1. \A d \in Caller : caller[d] \in {"wait", "sequence"} => d # c /\ caller'[d] = caller[d]
    BY <1>0, <1>c, <1>d DEF Typed
  <2>2. \A k \in DOMAIN queue : queue[k].from \in Caller
    BY <1>q DEF Message
  <2>3. \A k \in DOMAIN queue : queue[k].from # c /\ caller'[queue[k].from] = caller[queue[k].from]
    BY <1>q, <2>1, <2>2
  <2>4. /\ DOMAIN queue' = DOMAIN queue \cup {Len(queue) + 1}
        /\ queue'[Len(queue) + 1] = msg
        /\ \A k \in DOMAIN queue : queue'[k] = queue[k]
    BY <1>q, <1>d, AppendProperties
  <2>5. caller'[c] = to
    BY <1>0, <1>d DEF Typed
  <2>6. \A k \in DOMAIN queue' :
           caller'[queue'[k].from] = IF queue'[k].cmd = "SET_SEQ" THEN "sequence" ELSE "wait"
    BY <1>0, <1>d, <2>3, <2>4, <2>5 DEF SendersWait
  <2>7. \A j, k \in DOMAIN queue' : queue'[j].from = queue'[k].from => j = k
    BY <1>0, <1>d, <2>3, <2>4 DEF SendersWait
  <2>8. fpga'.at # "idle" => caller'[fpga'.from] = "wait" /\ \A k \in DOMAIN queue' : queue'[k].from # fpga'.from
    BY <1>0, <1>d, <2>1, <2>4 DEF SendersWait, BusyWithPicture
  <2> QED
    BY <2>6, <2>7, <2>8 DEF SendersWait
\* The fpga task takes the first message of the queue.
<1>e. ASSUME queue # <<>>, queue' = Tail(queue), fpga.at = "idle",
             \A d \in Caller : d # Head(queue).from => caller'[d] = caller[d],
             fpga'.at # "idle" => fpga'.from = Head(queue).from /\ caller'[Head(queue).from] = "wait"
      PROVE  SendersWait'
  <2>1. /\ Head(queue) = queue[1] /\ 1 \in DOMAIN queue
        /\ \A k \in DOMAIN queue' : /\ k + 1 \in DOMAIN queue /\ k + 1 # 1
                                    /\ queue'[k] = queue[k + 1]
    BY <1>q, <1>e, HeadTailProperties
  <2>2. \A k \in DOMAIN queue' : /\ queue'[k].from # Head(queue).from
                                 /\ queue'[k].from \in Caller
    BY <1>0, <1>q, <2>1 DEF SendersWait, Message
  <2>3. \A k \in DOMAIN queue' :
           caller'[queue'[k].from] = IF queue'[k].cmd = "SET_SEQ" THEN "sequence" ELSE "wait"
    BY <1>0, <1>e, <2>1, <2>2 DEF SendersWait
  <2>4. \A j, k \in DOMAIN queue' : queue'[j].from = queue'[k].from => j = k
    <3> SUFFICES ASSUME NEW j \in DOMAIN queue', NEW k \in DOMAIN queue',
                        queue'[j].from = queue'[k].from
                 PROVE  j = k
      OBVIOUS
    <3>1. j + 1 = k + 1
      BY <1>0, <2>1 DEF SendersWait
    <3>2. j \in Nat /\ k \in Nat
      BY <1>q, <1>e, HeadTailProperties
    <3> QED
      BY <3>1, <3>2
  <2> QED
    BY <1>e, <2>2, <2>3, <2>4 DEF SendersWait
<1>1. ASSUME NEW t \in Task, TaskStep(t) PROVE SendersWait'
  BY <1>1, <1>b DEF TaskStep, TaskStart, TaskPick, TaskDownload, TaskDownloaded, TaskNote, TaskEnd, memory
<1>2. ASSUME FpgaSequence PROVE SendersWait'
  <2>1. \A d \in Caller : d # Head(queue).from => caller'[d] = caller[d]
    BY <1>0, <1>2 DEF FpgaSequence, Answer, Typed
  <2> QED
    BY <1>2, <1>e, <2>1 DEF FpgaSequence
<1>3. ASSUME FpgaFind PROVE SendersWait'
  <2>1. /\ fpga.at = "idle" /\ queue # <<>> /\ queue' = Tail(queue)
        /\ Head(queue).cmd = "SET_PHOTO" /\ Head(queue).from \in Caller
    BY <1>3, FindEffect
  <2>2. \/ fpga' = fpga /\ caller' = [caller EXCEPT ![Head(queue).from] = "idle"]
        \/ caller' = caller /\ \E at, pos : fpga' = Photo(at, pos)
    BY <1>3, FindEffect
  <2>3. \A d \in Caller : d # Head(queue).from => caller'[d] = caller[d]
    BY <1>0, <2>2 DEF Typed
  <2>4. Head(queue) = queue[1] /\ 1 \in DOMAIN queue
    BY <1>q, <2>1, HeadTailProperties
  <2>5. caller[Head(queue).from] = "wait"
    BY <1>0, <2>1, <2>4 DEF SendersWait
  <2>6. fpga'.at # "idle" => fpga'.from = Head(queue).from /\ caller'[Head(queue).from] = "wait"
    BY <2>1, <2>2, <2>5 DEF Photo
  <2> QED
    BY <1>e, <2>1, <2>3, <2>6
<1>4. ASSUME FpgaDownload \/ FpgaDownloaded \/ FpgaNote PROVE SendersWait'
  <2>1. fpga.at # "idle" /\ fpga'.from = fpga.from /\ UNCHANGED <<queue, caller>>
    BY <1>0, <1>4 DEF FpgaDownload, FpgaDownloaded, FpgaNote, Typed, FpgaState, memory
  <2> QED
    BY <1>b, <2>1
<1>5. ASSUME FpgaShow PROVE SendersWait'
  <2>1. fpga.at # "idle" /\ fpga'.at = "idle" /\ queue' = queue
        /\ caller' = [caller EXCEPT ![fpga.from] = "idle"]
    BY <1>5 DEF FpgaShow, NoPhoto, Answer
  <2>2. \A k \in DOMAIN queue : queue[k].from # fpga.from /\ queue[k].from \in Caller
    BY <1>0, <1>q, <2>1 DEF SendersWait, Message
  <2>3. \A k \in DOMAIN queue : caller'[queue[k].from] = caller[queue[k].from]
    BY <1>0, <2>1, <2>2 DEF Typed
  <2> QED
    BY <1>0, <2>1, <2>3 DEF SendersWait
<1>6. ASSUME NEW c \in Caller, client_pg_showPtn(c) PROVE SendersWait'
  <2>1. PICK i \in PtnId : queue' = Append(queue, [cmd |-> "SET_PHOTO", from |-> c, ptnId |-> i])
    BY <1>6 DEF client_pg_showPtn
  <2> DEFINE msg == [cmd |-> "SET_PHOTO", from |-> c, ptnId |-> i]
  <2>2. msg.from = c /\ msg.cmd # "SET_SEQ" /\ queue' = Append(queue, msg)
    BY <2>1
  <2> HIDE DEF msg
  <2>3. caller' = [caller EXCEPT ![c] = "wait"] /\ caller[c] = "idle" /\ fpga' = fpga
    BY <1>6 DEF client_pg_showPtn, Go
  <2> QED
    BY <1>d, <2>2, <2>3
<1>7. ASSUME NEW c \in Caller, LoadOpen(c) PROVE SendersWait'
  <2> DEFINE msg == [cmd |-> "SET_SEQ", from |-> c, ptnId |-> -1]
  <2>1. msg.from = c /\ msg.cmd = "SET_SEQ" /\ caller[c] = "open" /\ fpga' = fpga
    BY <1>7 DEF LoadOpen
  <2>2. \/ caller' = [caller EXCEPT ![c] = "idle"] /\ queue' = queue
        \/ caller' = [caller EXCEPT ![c] = "sequence"] /\ queue' = Append(queue, msg)
    BY <1>7 DEF LoadOpen, Go
  <2> HIDE DEF msg
  <2> QED
    BY <1>c, <1>d, <2>1, <2>2
<1>8. ASSUME NEW c \in Caller, LoadClose(c) \/ LoadStop(c) \/ LoadJoin(c) \/ LoadWipe(c) \/ LoadCreate(c)
      PROVE SendersWait'
  <2>1. caller[c] \notin {"wait", "sequence"} /\ UNCHANGED <<queue, fpga>>
        /\ \E to : caller' = [caller EXCEPT ![c] = to]
    BY <1>8 DEF LoadClose, LoadStop, LoadJoin, LoadWipe, LoadCreate, Go, memory
  <2> QED
    BY <1>c, <2>1
<1> QED
  BY <1>1, <1>2, <1>3, <1>4, <1>5, <1>6, <1>7, <1>8 DEF Next, FpgaStep, LoadStep

LEMMA TableStep ==
  ASSUME IInv, Next
  PROVE  TableOfModule'
<1> DEFINE OfModule == isOpen => \E m \in Module : conns = LoadRows(m) /\ cur_conns = Count(m)
           OpenLoad == \A c \in Caller : caller[c] \in Loading \ {"open"} => isOpen
           OpenTask == loads \in Task /\ task[loads].at # "none" => isOpen
           Told(t)  == t = loads /\ task[t].at \in Busy \cup {"pick"} => task[t].ptnNum = cur_conns
<1>0. Typed /\ OneLoad /\ SendersWait /\ BusyWithPicture
      /\ OfModule /\ OpenLoad /\ OpenTask /\ \A t \in Task : Told(t)
  BY DEF IInv, TableOfModule
<1>a. OfModule' /\ OpenLoad' /\ OpenTask' /\ (\A t \in Task : Told(t)') => TableOfModule'
  BY DEF TableOfModule
<1>k. /\ \A x \in {"none", "start", "end"} : x \notin Busy \cup {"pick"}
      /\ "idle" \notin Loading /\ "wait" \notin Loading
      /\ \A x \in {"open", "sequence", "stop", "join", "wipe", "create"} : x \in Loading
  BY DEF Busy, Loading
\* A loading task's step.
<1>b. ASSUME NEW t \in Task, NEW new, StepTask(t, new), task[t].at # "none",
             \/ new.at \notin Busy \cup {"pick"}
             \/ new.ptnNum = cur_conns
             \/ new.ptnNum = task[t].ptnNum /\ task[t].at \in Busy \cup {"pick"},
             UNCHANGED <<caller, table>>
      PROVE  TableOfModule'
  <2>1. task'[t] = new /\ \A u \in Task : u # t => task'[u] = task[u]
    BY <1>0, <1>b, TaskSet
  <2>2. UNCHANGED <<caller, loads, isOpen, conns, cur_conns>>
    BY <1>b DEF table
  <2>3. OfModule' /\ OpenLoad'
    BY <1>0, <2>2
  <2>4. OpenTask'
    BY <1>0, <1>b, <2>1, <2>2
  <2>5. ASSUME NEW u \in Task PROVE Told(u)'
    <3>1. CASE u = t
      BY <1>0, <1>b, <2>1, <2>2, <3>1
    <3>2. CASE u # t
      BY <1>0, <2>1, <2>2, <3>2
    <3> QED
      BY <3>1, <3>2
  <2> QED
    BY <1>a, <2>3, <2>4, <2>5
\* A step of a caller, or of the fpga task for it.
<1>c. ASSUME UNCHANGED <<task, table>>, NEW c \in Caller, NEW to, caller' = [caller EXCEPT ![c] = to],
             to \in Loading \ {"open"} => caller[c] \in Loading \ {"open"}
      PROVE  TableOfModule'
  <2>1. UNCHANGED <<task, loads, isOpen, conns, cur_conns>>
    BY <1>c DEF table
  <2>2. \A d \in Caller : caller'[d] \in Loading \ {"open"} => caller[d] \in Loading \ {"open"}
    BY <1>0, <1>c DEF Typed
  <2>3. OfModule' /\ OpenLoad' /\ OpenTask' /\ \A t \in Task : Told(t)'
    BY <1>0, <2>1, <2>2
  <2> QED
    BY <1>a, <2>3
<1>d. ASSUME UNCHANGED <<task, table, caller>>
      PROVE  TableOfModule'
  BY <1>0, <1>d DEF TableOfModule, table
<1>1. ASSUME NEW t \in Task, TaskStart(t) PROVE TableOfModule'
  <2> DEFINE new == [task[t] EXCEPT !.at = "pick", !.ptnNum = cur_conns]
  <2>1. new.ptnNum = cur_conns /\ StepTask(t, new) /\ task[t].at = "start"
    BY <1>0, <1>1 DEF TaskStart, Typed, TaskState
  <2> HIDE DEF new
  <2> QED
    BY <1>1, <1>b, <2>1 DEF TaskStart
<1>2. ASSUME NEW t \in Task, TaskPick(t) PROVE TableOfModule'
  BY <1>0, <1>2, <1>b, NextPatternFields, PickedFields DEF TaskPick
<1>3. ASSUME NEW t \in Task, TaskDownload(t) PROVE TableOfModule'
  BY <1>0, <1>3, <1>b, NextPatternFields, AtFields DEF TaskDownload, Busy
<1>4. ASSUME NEW t \in Task, TaskDownloaded(t) PROVE TableOfModule'
  BY <1>0, <1>4, <1>b, AtFields DEF TaskDownloaded, Busy
<1>5. ASSUME NEW t \in Task, TaskNote(t) PROVE TableOfModule'
  BY <1>0, <1>5, <1>b, NextPatternFields DEF TaskNote, Busy, memory
<1>6. ASSUME NEW t \in Task, TaskEnd(t) PROVE TableOfModule'
  BY <1>6, <1>b, <1>k, EndFields DEF TaskEnd
<1>7. ASSUME FpgaSequence PROVE TableOfModule'
  <2>1. Head(queue).from \in Caller /\ caller[Head(queue).from] = "sequence"
    <3>1. Head(queue) = queue[1] /\ 1 \in DOMAIN queue /\ Head(queue) \in Message
      BY <1>0, <1>7, HeadTailProperties DEF Typed, FpgaSequence
    <3> QED
      BY <1>0, <1>7, <3>1 DEF SendersWait, FpgaSequence, Message
  <2>2. UNCHANGED <<task, table>> /\ caller' = [caller EXCEPT ![Head(queue).from] = "stop"]
    BY <1>7 DEF FpgaSequence, Answer
  <2>3. "sequence" \in Loading \ {"open"}
    BY <1>k
  <2> QED
    BY <1>c, <2>1, <2>2, <2>3
<1>8. ASSUME FpgaFind PROVE TableOfModule'
  <2>1. UNCHANGED <<task, table>>
    BY <1>8 DEF FpgaFind
  <2> QED
    BY <1>8, <1>c, <1>d, <1>k, <2>1, FindEffect
<1>9. ASSUME FpgaDownload \/ FpgaDownloaded \/ FpgaNote PROVE TableOfModule'
  BY <1>9, <1>d DEF FpgaDownload, FpgaDownloaded, FpgaNote, memory
<1>12. ASSUME FpgaShow PROVE TableOfModule'
  <2>1. fpga.from \in Caller
    BY <1>0, <1>12 DEF BusyWithPicture, FpgaShow
  <2> QED
    BY <1>12, <1>c, <1>k, <2>1 DEF FpgaShow, Answer
<1>13. ASSUME NEW c \in Caller, client_pg_showPtn(c) PROVE TableOfModule'
  BY <1>13, <1>c, <1>k DEF client_pg_showPtn, Go
<1>14. ASSUME NEW c \in Caller, LoadClose(c) PROVE TableOfModule'
  <2>1. /\ caller' = [caller EXCEPT ![c] = "open"] /\ task' = task /\ isOpen' = FALSE
        /\ loads' = loads + 1 /\ loads < MaxLoads
    BY <1>14 DEF LoadClose, Go
  <2>2. \A d \in Caller : caller'[d] \in Loading \ {"open"} => FALSE
    BY <1>0, <1>14, <1>k, <2>1 DEF OneLoad, LoadClose, Typed
  <2>3. \A t \in Task : t = loads' => task'[t].at = "none"
    BY <1>0, <2>1 DEF OneLoad, Typed, Task
  <2>4. OfModule' /\ OpenLoad' /\ OpenTask' /\ \A t \in Task : Told(t)'
    BY <1>k, <2>1, <2>2, <2>3
  <2> QED
    BY <1>a, <2>4
<1>15. ASSUME NEW c \in Caller, LoadOpen(c) PROVE TableOfModule'
  <2>1. isOpen' = TRUE /\ OfModule' /\ UNCHANGED <<loads, task>>
    BY <1>15 DEF LoadOpen
  <2>2. \A t \in Task : t = loads => task[t].at = "none"
    BY <1>0, <1>15, <1>k DEF OneLoad, LoadOpen
  <2>3. OfModule' /\ OpenLoad' /\ OpenTask' /\ \A t \in Task : Told(t)'
    BY <1>k, <2>1, <2>2
  <2> QED
    BY <1>a, <2>3
<1>16. ASSUME NEW c \in Caller, LoadStop(c) \/ LoadJoin(c) \/ LoadWipe(c) PROVE TableOfModule'
  BY <1>16, <1>c, <1>k DEF LoadStop, LoadJoin, LoadWipe, Go, memory
<1>17. ASSUME NEW c \in Caller, LoadCreate(c) PROVE TableOfModule'
  <2>1. caller' = [caller EXCEPT ![c] = "idle"] /\ caller[c] = "create"
        /\ UNCHANGED <<loads, isOpen, conns, cur_conns>>
        /\ StepTask(loads, [NoTask EXCEPT !.at = "start"])
    BY <1>17 DEF LoadCreate, Go, table
  <2>2. loads \in Task /\ isOpen
    BY <1>0, <1>k, <2>1 DEF OneLoad
  <2>3. task'[loads].at = "start"
    BY <1>0, <2>1, <2>2, TaskSet, EndFields
  <2>4. OfModule' /\ OpenLoad' /\ OpenTask' /\ \A t \in Task : Told(t)'
    BY <1>0, <1>k, <2>1, <2>2, <2>3
  <2> QED
    BY <1>a, <2>4
<1> QED
  BY <1>1, <1>2, <1>3, <1>4, <1>5, <1>6, <1>7, <1>8, <1>9, <1>12, <1>13, <1>14,
     <1>15, <1>16, <1>17 DEF Next, TaskStep, FpgaStep, LoadStep

LEMMA NeverWild ==
  ASSUME IInv, Next
  PROVE  ~wild'
<1>0. Typed /\ OneLoad /\ TableOfModule /\ ~wild
  BY DEF IInv
<1>1. ASSUME NEW t \in Task, TaskPick(t) PROVE ~wild'
  <2>1. task[t].at = "pick" /\ task[t].loopId < task[t].ptnNum
    BY <1>1 DEF TaskPick, GoesOn
  <2>2. CASE PictureOf(t) # None
    BY <1>0, <1>1, <2>2 DEF TaskPick
  <2>3. CASE t # loads \/ ~(cur_conns < TableSize)
    BY <1>0, <1>1, <2>3 DEF TaskPick, WildRead, Own
  <2>4. CASE t = loads /\ cur_conns < TableSize
    <3>1. isOpen /\ task[t].ptnNum = cur_conns
      BY <1>0, <2>1, <2>4 DEF TableOfModule
    <3>2. PICK m \in Module : conns = LoadRows(m) /\ cur_conns = Count(m)
      BY <1>0, <3>1 DEF TableOfModule
    <3>3. task[t].loopId \in 0..TableSize /\ Count(m) \in 0..TableSize
      BY <1>0, LoadTyped DEF Typed, TaskState
    <3> DEFINE k == task[t].loopId
    <3>4. k \in 0..Count(m) - 1 /\ k + 1 \in 1..Len(Rows[m])
      BY <2>1, <3>1, <3>2, <3>3 DEF Count
    <3>5. loop_get_from_head(LoadRows(m), k, Garbage) = [id |-> k, bmpName |-> Rows[m][k + 1]]
      BY <2>4, <3>2, <3>4, LoadedInOrder
    <3>6. PictureOf(t) = Rows[m][k + 1]
      BY <3>1, <3>2, <3>5 DEF PictureOf, dbModuleGetPatternByLoopId, Named
    <3>7. Rows[m][k + 1] \in Picture
      BY <3>4, RowTyped
    <3> QED
      BY <2>2, <3>6, <3>7, Constants
  <2> QED
    BY <2>3, <2>4
<1>2. ASSUME FpgaFind PROVE ~wild'
  BY <1>0, <1>2 DEF FpgaFind, WildRead
<1>3. ASSUME NEW t \in Task, TaskStart(t) \/ TaskDownload(t) \/ TaskDownloaded(t) \/ TaskNote(t) \/ TaskEnd(t)
      PROVE  ~wild'
  BY <1>0, <1>3 DEF TaskStart, TaskDownload, TaskDownloaded, TaskNote, TaskEnd, ghost, memory
<1>4. ASSUME FpgaSequence \/ FpgaDownload \/ FpgaDownloaded \/ FpgaNote \/ FpgaShow PROVE ~wild'
  BY <1>0, <1>4 DEF FpgaSequence, FpgaDownload, FpgaDownloaded, FpgaNote, FpgaShow, ghost, memory
<1>5. ASSUME NEW c \in Caller, client_pg_showPtn(c) \/ LoadClose(c) \/ LoadStep(c) PROVE ~wild'
  BY <1>0, <1>5 DEF client_pg_showPtn, LoadClose, LoadStep, LoadOpen, LoadStop, LoadJoin, LoadWipe,
                    LoadCreate, ghost, memory
<1> QED
  BY <1>1, <1>2, <1>3, <1>4, <1>5 DEF Next, TaskStep, FpgaStep

\* A slot that is chosen and stays out of raced has nobody else at it.
LEMMA ChosenAlone ==
  ASSUME NEW i \in Slot, Choose(i), i \notin raced'
  PROVE  /\ \A t \in Task : ~(task[t].at \in Busy /\ task[t].slot = i)
         /\ ~(fpga.at \in Busy /\ fpga.slot = i)
BY DEF Choose, Choosers

LEMMA RacedGrows ==
  ASSUME Next
  PROVE  raced \subseteq raced'
BY DEF Next, TaskStep, TaskStart, TaskPick, TaskDownload, TaskDownloaded, TaskNote, TaskEnd,
       FpgaStep, FpgaSequence, FpgaFind, FpgaDownload, FpgaDownloaded, FpgaNote, FpgaShow,
       client_pg_showPtn, LoadClose, LoadStep, LoadOpen, LoadStop, LoadJoin, LoadWipe, LoadCreate,
       Choose, ghost, memory

LEMMA SlotsStep ==
  ASSUME IInv, Next
  PROVE  SlotsTold'
<1> DEFINE TaskAt(t, i) == task[t].at \in Busy /\ task[t].slot = i
           FpgaAt(i) == fpga.at \in Busy /\ fpga.slot = i
           Alone(i) == \A t, u \in Task : TaskAt(t, i) /\ TaskAt(u, i) => t = u
           Taken(t, i) == TaskAt(t, i) => /\ ~FpgaAt(i) /\ move_ptn_info[i] = None
                                          /\ task[t].at = "note" /\ i \notin failed => ddr[i] = task[t].bmpName
           Came(i) == fpga.at = "note" /\ fpga.slot = i /\ i \notin failed => ddr[i] = fpga.bmpName
           Names(i) == i \notin failed /\ move_ptn_info[i] # None
                          /\ ~(fpga.at \in {"down", "note"} /\ fpga.slot = i) => ddr[i] = move_ptn_info[i]
           Good(i) == Alone(i) /\ (\A t \in Task : Taken(t, i)) /\ Came(i) /\ Names(i)
<1>0. Typed /\ BusyWithPicture /\ OneLoad /\ raced \subseteq raced' /\ \A i \in Slot \ raced : Good(i)
  BY RacedGrows DEF IInv, SlotsTold
<1> SUFFICES ASSUME NEW i \in Slot, i \notin raced', Good(i)
             PROVE  Good(i)'
  BY <1>0 DEF SlotsTold
<1>k. /\ \A x \in {"none", "start", "pick", "end", "idle", "show"} : x \notin Busy
      /\ \A x \in {"obtain", "down", "note"} : x \in Busy
  BY DEF Busy
\* Task t is not at the slot after its step; what it changes is another slot.
<1>b. ASSUME NEW t \in Task, NEW new, StepTask(t, new), ~(new.at \in Busy /\ new.slot = i),
             fpga' = fpga, ddr'[i] = ddr[i], i \in failed' <=> i \in failed,
             move_ptn_info'[i] = move_ptn_info[i]
      PROVE  Good(i)'
  <2>1. task'[t] = new /\ \A u \in Task : u # t => task'[u] = task[u]
    BY <1>0, <1>b, TaskSet
  <2>2. \A u \in Task : TaskAt(u, i)' => u # t /\ TaskAt(u, i) /\ task'[u] = task[u]
    BY <1>b, <2>1
  <2>3. Alone(i)' /\ \A u \in Task : Taken(u, i)'
    BY <1>b, <2>2
  <2>4. Came(i)' /\ Names(i)'
    BY <1>b
  <2> QED
    BY <2>3, <2>4
<1>d. ASSUME UNCHANGED <<task, fpga, ddr, failed, move_ptn_info>>
      PROVE  Good(i)'
  BY <1>d
<1>1. ASSUME NEW t \in Task, TaskStart(t) PROVE Good(i)'
  <2> DEFINE new == [task[t] EXCEPT !.at = "pick", !.ptnNum = cur_conns]
  <2>1. new.at = "pick" /\ StepTask(t, new)
    BY <1>0, <1>1 DEF TaskStart, Typed, TaskState
  <2> HIDE DEF new, Good
  <2> QED
    BY <1>1, <1>b, <1>k, <2>1 DEF TaskStart, slots, memory
<1>2. ASSUME NEW t \in Task, TaskPick(t) PROVE Good(i)'
  <2>0. UNCHANGED <<fpga, ddr, failed, move_ptn_info>>
    BY <1>2 DEF TaskPick, slots, memory
  <2>1. CASE StepTask(t, NextPattern(t))
    <3> HIDE DEF Good
    <3> QED
      BY <1>0, <1>b, <1>k, <2>0, <2>1, NextPatternFields
  <2>2. CASE StepTask(t, Picked(t)) /\ FirstFree # i
    <3> HIDE DEF Good
    <3> QED
      BY <1>0, <1>b, <1>k, <2>0, <2>2, PickedFields
  <2>3. CASE StepTask(t, Picked(t)) /\ FirstFree = i /\ Choose(FirstFree) /\ FirstFree # -1
    <3>1. move_ptn_info[i] = None
      BY <2>3, FreeSlot
    <3>2. ~FpgaAt(i) /\ \A u \in Task : ~TaskAt(u, i)
      BY <2>3, ChosenAlone
    <3>3. task'[t].at = "obtain" /\ \A u \in Task : u # t => task'[u] = task[u]
      BY <1>0, <2>3, TaskSet, PickedFields
    <3>4. Alone(i)' /\ \A u \in Task : Taken(u, i)'
      BY <2>0, <3>1, <3>2, <3>3
    <3>5. Came(i)' /\ Names(i)'
      BY <2>0
    <3> QED
      BY <3>4, <3>5
  <2> QED
    BY <1>2, <2>1, <2>2, <2>3 DEF TaskPick, Skips
<1>3. ASSUME NEW t \in Task, TaskDownload(t) PROVE Good(i)'
  <2>0. UNCHANGED <<fpga, move_ptn_info>> /\ task[t].at = "obtain"
    BY <1>3 DEF TaskDownload
  <2>1. CASE StepTask(t, NextPattern(t)) /\ RefuseDownload(t)
    <3> HIDE DEF Good
    <3> QED
      BY <1>0, <1>b, <1>k, <2>0, <2>1, NextPatternFields DEF RefuseDownload, memory
  <2>2. CASE StepTask(t, At(t, "down")) /\ BeginDownload(t, task[t].slot, task[t].bmpName) /\ task[t].slot # i
    <3>1. ddr'[i] = ddr[i] /\ failed' = failed
      BY <1>0, <2>0, <2>2, BeginEffect DEF BusyWithPicture, Busy
    <3> HIDE DEF Good
    <3> QED
      BY <1>0, <1>b, <1>k, <2>0, <2>2, <3>1, AtFields
  <2>3. CASE StepTask(t, At(t, "down")) /\ task[t].slot = i
    <3>1. TaskAt(t, i) /\ move_ptn_info[i] = None /\ ~FpgaAt(i)
      BY <1>k, <2>0, <2>3
    <3>2. task'[t].at = "down" /\ task'[t].slot = i /\ \A u \in Task : u # t => task'[u] = task[u]
      BY <1>0, <2>3, TaskSet, AtFields
    <3>3. \A u \in Task : TaskAt(u, i)' => u = t
      BY <3>1, <3>2
    <3>4. Alone(i)' /\ \A u \in Task : Taken(u, i)'
      BY <2>0, <3>1, <3>2, <3>3
    <3>5. Came(i)' /\ Names(i)'
      BY <1>k, <2>0, <3>1
    <3> QED
      BY <3>4, <3>5
  <2> QED
    BY <1>3, <2>1, <2>2, <2>3 DEF TaskDownload
<1>4. ASSUME NEW t \in Task, TaskDownloaded(t) PROVE Good(i)'
  <2>0. /\ UNCHANGED <<fpga, move_ptn_info>> /\ task[t].at = "down" /\ StepTask(t, At(t, "note"))
        /\ EndDownload(task[t].slot, task[t].bmpName)
        /\ task[t].slot \in Slot /\ task[t].bmpName \in Picture
    BY <1>0, <1>4 DEF TaskDownloaded, BusyWithPicture, Busy
  <2>1. CASE task[t].slot # i
    <3>1. ddr'[i] = ddr[i] /\ (i \in failed' <=> i \in failed)
      BY <1>0, <2>0, <2>1, EndEffect
    <3> HIDE DEF Good
    <3> QED
      BY <1>0, <1>b, <1>k, <2>0, <2>1, <3>1, AtFields
  <2>2. CASE task[t].slot = i
    <3>1. TaskAt(t, i) /\ move_ptn_info[i] = None /\ ~FpgaAt(i)
      BY <1>k, <2>0, <2>2
    <3>2. /\ task'[t].at = "note" /\ task'[t].slot = i /\ task'[t].bmpName = task[t].bmpName
          /\ \A u \in Task : u # t => task'[u] = task[u]
      BY <1>0, <2>0, <2>2, TaskSet, AtFields
    <3>3. \A u \in Task : TaskAt(u, i)' => u = t
      BY <3>1, <3>2
    <3>4. i \notin failed' => ddr'[i] = task[t].bmpName
      BY <1>0, <2>0, <2>2, EndEffect
    <3>5. Alone(i)' /\ \A u \in Task : Taken(u, i)'
      BY <2>0, <3>1, <3>2, <3>3, <3>4
    <3>6. Came(i)' /\ Names(i)'
      BY <1>k, <2>0, <3>1
    <3> QED
      BY <3>5, <3>6
  <2> QED
    BY <2>1, <2>2
<1>5. ASSUME NEW t \in Task, TaskNote(t) PROVE Good(i)'
  <2>0. /\ UNCHANGED <<fpga, ddr, failed>> /\ task[t].at = "note" /\ StepTask(t, NextPattern(t))
        /\ move_ptn_info' = [move_ptn_info EXCEPT ![task[t].slot] = task[t].bmpName]
    BY <1>5 DEF TaskNote, Note, memory
  <2>1. CASE task[t].slot # i
    <3>1. move_ptn_info'[i] = move_ptn_info[i]
      BY <1>0, <2>0, <2>1 DEF Typed
    <3> HIDE DEF Good
    <3> QED
      BY <1>0, <1>b, <1>k, <2>0, <3>1, NextPatternFields
  <2>2. CASE task[t].slot = i
    <3>1. TaskAt(t, i) /\ ~FpgaAt(i) /\ (i \notin failed => ddr[i] = task[t].bmpName)
      BY <1>k, <2>0, <2>2
    <3>2. task'[t].at = "pick" /\ \A u \in Task : u # t => task'[u] = task[u]
      BY <1>0, <2>0, TaskSet, NextPatternFields
    <3>3. \A u \in Task : ~TaskAt(u, i)'
      BY <1>k, <3>1, <3>2
    <3>4. move_ptn_info'[i] = task[t].bmpName
      BY <1>0, <2>0, <2>2 DEF Typed
    <3>5. Alone(i)' /\ \A u \in Task : Taken(u, i)'
      BY <3>3
    <3>6. Came(i)' /\ Names(i)'
      BY <2>0, <3>1, <3>4
    <3> QED
      BY <3>5, <3>6
  <2> QED
    BY <2>1, <2>2
<1>6. ASSUME NEW t \in Task, TaskEnd(t) PROVE Good(i)'
  <2> HIDE DEF Good
  <2> QED
    BY <1>6, <1>b, <1>k, EndFields DEF TaskEnd, slots, memory
<1>8. ASSUME FpgaFind PROVE Good(i)'
  <2>0. UNCHANGED <<task, ddr, failed, move_ptn_info>> /\ fpga.at = "idle"
    BY <1>8 DEF FpgaFind, slots, memory
  <2>1. CASE fpga' = fpga
    <3> HIDE DEF Good
    <3> QED
      BY <1>d, <2>0, <2>1
  <2>2. ASSUME NEW pos, fpga' = Photo("show", pos)
        PROVE  Good(i)'
    <3>1. fpga'.at = "show"
      BY <2>2 DEF Photo
    <3> QED
      BY <1>k, <2>0, <3>1
  <2>3. CASE fpga' = Photo("obtain", s32ForcePostion) /\ Choose(s32ForcePostion)
    <3>1. fpga'.at = "obtain" /\ fpga'.slot = s32ForcePostion
      BY <2>3 DEF Photo
    <3>2. CASE s32ForcePostion = i
      <4>1. \A t \in Task : ~TaskAt(t, i)
        BY <2>3, <3>2, ChosenAlone
      <4> QED
        BY <2>0, <3>1, <4>1
    <3>3. CASE s32ForcePostion # i
      BY <2>0, <3>1, <3>3
    <3> QED
      BY <3>2, <3>3
  <2> QED
    BY <1>8, <2>1, <2>2, <2>3, FindEffect
<1>9. ASSUME FpgaDownload PROVE Good(i)'
  <2>0. UNCHANGED <<task, move_ptn_info>> /\ fpga.at = "obtain"
    BY <1>9 DEF FpgaDownload
  <2>1. CASE RefuseDownload(Fpga) /\ fpga' = [fpga EXCEPT !.at = "show", !.slot = -1]
    <3>1. fpga'.at = "show" /\ UNCHANGED <<ddr, failed>>
      BY <1>0, <2>1 DEF Typed, FpgaState, RefuseDownload, memory
    <3> QED
      BY <1>k, <2>0, <3>1
  <2>2. CASE BeginDownload(Fpga, fpga.slot, fpga.bmpName) /\ fpga' = [fpga EXCEPT !.at = "down"]
    <3>1. fpga'.at = "down" /\ fpga'.slot = fpga.slot /\ failed' = failed
      BY <1>0, <2>2 DEF Typed, FpgaState, BeginDownload, Send
    <3>2. CASE fpga.slot = i
      <4>1. FpgaAt(i)
        BY <1>k, <2>0, <3>2
      <4>2. \A t \in Task : ~TaskAt(t, i)'
        BY <2>0, <4>1
      <4> QED
        BY <3>1, <3>2, <4>2
    <3>3. CASE fpga.slot # i
      <4>1. ddr'[i] = ddr[i]
        BY <1>0, <2>0, <2>2, <3>3, BeginEffect DEF BusyWithPicture, Busy
      <4> QED
        BY <2>0, <3>1, <3>3, <4>1
    <3> QED
      BY <3>2, <3>3
  <2> QED
    BY <1>9, <2>1, <2>2 DEF FpgaDownload
<1>10. ASSUME FpgaDownloaded PROVE Good(i)'
  <2>0. UNCHANGED <<task, move_ptn_info>> /\ fpga.at = "down"
    BY <1>10 DEF FpgaDownloaded
  <2>1. /\ fpga'.at = "note" /\ fpga'.slot = fpga.slot /\ fpga'.bmpName = fpga.bmpName
        /\ EndDownload(fpga.slot, fpga.bmpName) /\ fpga.slot \in Slot /\ fpga.bmpName \in Picture
    BY <1>0, <1>10 DEF Typed, FpgaState, BusyWithPicture, Busy, FpgaDownloaded
  <2>2. CASE fpga.slot = i
    <3>1. FpgaAt(i) /\ (i \notin failed' => ddr'[i] = fpga.bmpName)
      BY <1>0, <1>k, <2>0, <2>1, <2>2, EndEffect
    <3>2. \A t \in Task : ~TaskAt(t, i)'
      BY <2>0, <3>1
    <3> QED
      BY <2>1, <2>2, <3>1, <3>2
  <2>3. CASE fpga.slot # i
    <3>1. ddr'[i] = ddr[i] /\ (i \in failed' <=> i \in failed)
      BY <1>0, <2>1, <2>3, EndEffect
    <3> QED
      BY <2>0, <2>1, <2>3, <3>1
  <2> QED
    BY <2>2, <2>3
<1>11. ASSUME FpgaNote PROVE Good(i)'
  <2>0. UNCHANGED <<task, ddr, failed>> /\ fpga.at = "note"
    BY <1>11 DEF FpgaNote, memory
  <2>1. fpga'.at = "show" /\ move_ptn_info' = [move_ptn_info EXCEPT ![fpga.slot] = fpga.bmpName]
    BY <1>0, <1>11 DEF Typed, FpgaState, FpgaNote, Note, memory
  <2>2. CASE fpga.slot = i
    <3>1. FpgaAt(i) /\ (i \notin failed => ddr[i] = fpga.bmpName) /\ move_ptn_info'[i] = fpga.bmpName
      BY <1>0, <1>k, <2>0, <2>1, <2>2 DEF Typed
    <3>2. \A t \in Task : ~TaskAt(t, i)'
      BY <2>0, <3>1
    <3> QED
      BY <2>0, <2>1, <3>1, <3>2
  <2>3. CASE fpga.slot # i
    <3>1. move_ptn_info'[i] = move_ptn_info[i]
      BY <1>0, <2>1, <2>3 DEF Typed
    <3> QED
      BY <1>k, <2>0, <2>1, <2>3, <3>1
  <2> QED
    BY <2>2, <2>3
<1>12. ASSUME FpgaShow PROVE Good(i)'
  <2>1. UNCHANGED <<task, ddr, failed, move_ptn_info>> /\ fpga.at = "show" /\ fpga'.at = "idle"
    BY <1>12 DEF FpgaShow, NoPhoto, slots, memory
  <2> QED
    BY <1>k, <2>1
<1>13. ASSUME NEW c \in Caller, client_pg_showPtn(c) \/ LoadClose(c) \/ LoadOpen(c) \/ LoadStop(c)
                                \/ LoadJoin(c)
       PROVE  Good(i)'
  <2> HIDE DEF Good
  <2> QED
    BY <1>13, <1>d DEF client_pg_showPtn, LoadClose, LoadOpen, LoadStop, LoadJoin, slots, memory
<1>14. ASSUME FpgaSequence PROVE Good(i)'
  <2> HIDE DEF Good
  <2> QED
    BY <1>14, <1>d DEF FpgaSequence, slots, memory
<1>15. ASSUME NEW c \in Caller, LoadWipe(c) PROVE Good(i)'
  <2>1. UNCHANGED <<task, fpga, ddr, failed>> /\ move_ptn_info'[i] = None
    BY <1>15 DEF LoadWipe, memory
  <2> QED
    BY <2>1
<1>16. ASSUME NEW c \in Caller, LoadCreate(c) PROVE Good(i)'
  <2>1. loads \in Task
    BY <1>0, <1>16 DEF OneLoad, LoadCreate, Loading
  <2> HIDE DEF Good
  <2> QED
    BY <1>16, <1>b, <1>k, <2>1, EndFields DEF LoadCreate, slots, memory
<1> QED
  BY <1>1, <1>2, <1>3, <1>4, <1>5, <1>6, <1>8, <1>9, <1>10, <1>11, <1>12, <1>13, <1>14,
     <1>15, <1>16 DEF Next, TaskStep, FpgaStep, LoadStep

LEMMA ShownStep ==
  ASSUME IInv, Next
  PROVE  ShownIsNamed'
<1> DEFINE Found == fpga.at = "show" /\ fpga.slot \in Slot \ raced
                       => move_ptn_info[fpga.slot] = fpga.bmpName
           OnPanel == fpga.at = "idle" /\ screen.asked # None /\ screen.slot \in Slot \ raced
                         => move_ptn_info[screen.slot] = screen.asked
<1>0. Typed /\ BusyWithPicture /\ OneLoad /\ SlotsTold /\ raced \subseteq raced' /\ Found /\ OnPanel
  BY RacedGrows DEF IInv, ShownIsNamed
<1>a. Found' /\ OnPanel' => ShownIsNamed'
  BY DEF ShownIsNamed
<1>b. ASSUME UNCHANGED <<fpga, screen, move_ptn_info>>
      PROVE  ShownIsNamed'
  BY <1>0, <1>a, <1>b
<1>1. ASSUME NEW t \in Task, TaskNote(t) PROVE ShownIsNamed'
  <2>1. /\ UNCHANGED <<fpga, screen, raced>> /\ task[t].at \in Busy
        /\ move_ptn_info' = [move_ptn_info EXCEPT ![task[t].slot] = task[t].bmpName]
    BY <1>1 DEF TaskNote, Note, ghost, Busy, memory
  <2>2. \A i \in Slot \ raced : i = task[t].slot => move_ptn_info[i] = None
    BY <1>0, <2>1 DEF SlotsTold
  <2>3. \A i \in Slot \ raced : move_ptn_info[i] # None => move_ptn_info'[i] = move_ptn_info[i]
    BY <1>0, <2>1, <2>2 DEF Typed
  <2>4. fpga.at = "show" => fpga.bmpName # None
    BY <1>0, Constants DEF BusyWithPicture
  <2>5. Found'
    BY <1>0, <2>1, <2>3, <2>4
  <2>6. OnPanel'
    BY <1>0, <2>1, <2>3
  <2> QED
    BY <1>a, <2>5, <2>6
<1>2. ASSUME NEW t \in Task, TaskStart(t) \/ TaskPick(t) \/ TaskDownload(t) \/ TaskDownloaded(t) \/ TaskEnd(t)
      PROVE  ShownIsNamed'
  BY <1>2, <1>b DEF TaskStart, TaskPick, TaskDownload, TaskDownloaded, TaskEnd, slots, memory
<1>3. ASSUME FpgaFind PROVE ShownIsNamed'
  <2>0. UNCHANGED <<screen, move_ptn_info>>
    BY <1>3 DEF FpgaFind, slots, memory
  <2>1. CASE fpga' = fpga
    BY <1>b, <2>0, <2>1
  <2>2. ASSUME NEW pos \in Slot, move_ptn_info[pos] = Wanted, fpga' = Photo("show", pos)
        PROVE  ShownIsNamed'
    <3>1. fpga'.at = "show" /\ fpga'.slot = pos /\ fpga'.bmpName = Wanted
      BY <2>2 DEF Photo
    <3> QED
      BY <1>a, <2>0, <2>2, <3>1
  <2>3. CASE fpga' = Photo("obtain", s32ForcePostion)
    <3>1. fpga'.at = "obtain"
      BY <2>3 DEF Photo
    <3> QED
      BY <1>a, <3>1
  <2> QED
    BY <1>3, <2>1, <2>2, <2>3, FindEffect
<1>4. ASSUME FpgaDownload \/ FpgaDownloaded PROVE ShownIsNamed'
  <2>0. fpga \in FpgaState /\ \/ fpga' = [fpga EXCEPT !.at = "down"]
                              \/ fpga' = [fpga EXCEPT !.at = "note"]
                              \/ fpga' = [fpga EXCEPT !.at = "show", !.slot = -1]
    BY <1>0, <1>4 DEF FpgaDownload, FpgaDownloaded, Typed
  <2>1. fpga'.at \in {"down", "note"} \/ (fpga'.at = "show" /\ fpga'.slot = -1)
    BY <2>0 DEF FpgaState
  <2>2. -1 \notin Slot
    BY Constants DEF Slot
  <2> QED
    BY <1>a, <2>1, <2>2
<1>5. ASSUME FpgaNote PROVE ShownIsNamed'
  <2>1. fpga'.at = "show" /\ fpga'.slot = fpga.slot /\ fpga'.bmpName = fpga.bmpName /\ fpga.slot \in Slot
        /\ move_ptn_info' = [move_ptn_info EXCEPT ![fpga.slot] = fpga.bmpName]
    BY <1>0, <1>5 DEF FpgaNote, Note, Typed, FpgaState, BusyWithPicture, Busy, memory
  <2>2. move_ptn_info'[fpga.slot] = fpga.bmpName
    BY <1>0, <2>1 DEF Typed
  <2> QED
    BY <1>a, <2>1, <2>2
<1>6. ASSUME FpgaShow PROVE ShownIsNamed'
  <2>1. /\ fpga.at = "show" /\ fpga'.at = "idle" /\ UNCHANGED <<move_ptn_info, raced>>
        /\ screen'.slot = fpga.slot /\ screen'.asked = fpga.bmpName
    BY <1>6 DEF FpgaShow, NoPhoto, slots, memory, ghost
  <2> QED
    BY <1>0, <1>a, <2>1
<1>7. ASSUME NEW c \in Caller, LoadWipe(c) PROVE ShownIsNamed'
  <2>1. fpga' = fpga /\ screen'.asked = None /\ raced' = IF fpga.at = "show" THEN raced \cup {fpga.slot} ELSE raced
    BY <1>0, <1>7 DEF LoadWipe, Typed, Screen, memory
  <2> QED
    BY <1>a, <2>1
<1>8. ASSUME NEW c \in Caller, client_pg_showPtn(c) \/ LoadClose(c) \/ LoadOpen(c) \/ LoadStop(c)
                               \/ LoadJoin(c) \/ LoadCreate(c)
      PROVE  ShownIsNamed'
  BY <1>8, <1>b DEF client_pg_showPtn, LoadClose, LoadOpen, LoadStop, LoadJoin, LoadCreate, slots, memory
<1>9. ASSUME FpgaSequence PROVE ShownIsNamed'
  BY <1>9, <1>b DEF FpgaSequence, slots, memory
<1> QED
  BY <1>1, <1>2, <1>3, <1>4, <1>5, <1>6, <1>7, <1>8, <1>9 DEF Next, TaskStep, FpgaStep, LoadStep

-----------------------------------------------------------------------------
(* The theorems.                                                             *)

LEMMA InitIInv ==
  ASSUME Init
  PROVE  IInv
<1>1. None \in Name /\ Torn # None /\ 0 \in Slot /\ 0 \in 0..MaxLoads /\ 0 \in 0..TableSize
      /\ MaxShows \in 0..MaxShows
  BY Constants DEF Name, Slot, None, Torn
<1>2. NoTask \in TaskState /\ NoPhoto \in FpgaState /\ [slot |-> -1, asked |-> None] \in Screen
      /\ NoTask.at = "none" /\ NoPhoto.at = "idle"
  BY <1>1 DEF NoTask, NoPhoto, TaskState, FpgaState, Screen
<1>3. loop_create(TableSize, Garbage) \in Table
  BY Constants, CreateTyped, GarbageTyped, TableIsRing
<1>4. Typed
  <2>1. loads \in 0..MaxLoads /\ isOpen \in BOOLEAN /\ conns \in Table /\ cur_conns \in 0..TableSize
    BY <1>1, <1>3 DEF Init
  <2>2. move_ptn_info \in [Slot -> Name] /\ ddr \in [Slot -> Name \cup {Torn}] /\ s32ForcePostion \in Slot
    BY <1>1 DEF Init
  <2>3. task \in [Task -> TaskState] /\ fpga \in FpgaState /\ screen \in Screen
    BY <1>2 DEF Init
  <2>4. caller \in [Caller -> Loading \cup {"idle", "wait"}] /\ queue \in Seq(Message)
    BY DEF Init
  <2>5. s_semaphore \in Task \cup {Fpga, Free} /\ s_taskStop \in BOOLEAN
        /\ shows \in 0..MaxShows /\ wild \in BOOLEAN /\ crashed \in BOOLEAN
    BY <1>1 DEF Init
  <2> QED
    BY <2>1, <2>2, <2>3, <2>4, <2>5 DEF Typed
<1>5. BusyWithPicture /\ SemaphoreWithSender /\ TornIsSent
  BY <1>1, <1>2, Constants DEF Init, BusyWithPicture, SemaphoreWithSender, TornIsSent, Busy, Task, Fpga, Free
<1>6. OneLoad /\ SendersWait
  BY <1>2 DEF Init, OneLoad, SendersWait, Loading
<1>7. TableOfModule
  BY <1>2 DEF Init, TableOfModule, Loading, Busy
<1>8. SlotsTold
  BY <1>2 DEF Init, SlotsTold, Busy
<1>9. ShownIsNamed
  BY <1>2 DEF Init, ShownIsNamed
<1> QED
  BY <1>4, <1>5, <1>6, <1>7, <1>8, <1>9 DEF IInv, Init

LEMMA StutterIInv ==
  ASSUME IInv, UNCHANGED vars
  PROVE  IInv'
BY DEF IInv, Typed, BusyWithPicture, SemaphoreWithSender, TornIsSent, OneLoad, SendersWait,
       TableOfModule, SlotsTold, ShownIsNamed, vars

\* What IInv says of the tables, the threads that load and show, the semaphore
\* and the slots holds always, however loads, downloads and shows interleave.
THEOREM Inductive == Spec => []IInv
<1>1. Init => IInv
  BY InitIInv
<1>2. IInv /\ [Next]_vars => IInv'
  <2>1. IInv /\ Next => IInv'
    BY TypedStep, BusyStep, SemaphoreStep, OneLoadStep, SendersStep, TableStep, SlotsStep, ShownStep,
       NeverWild DEF IInv
  <2> QED
    BY <2>1, StutterIInv
<1> QED
  BY <1>1, <1>2, PTL DEF Spec

\* move_ptn_info names the picture that is in the fpga's memory, for every slot
\* that two downloads did not choose at once and whose last transfer brought its
\* picture (pubmoveptn.c, pubFpgaTask.c).
THEOREM SlotsNamed == Spec => []NamesTellContents
<1>1. IInv => NamesTellContents
  <2> SUFFICES ASSUME IInv, NEW i \in Slot \ (raced \cup failed), move_ptn_info[i] # None,
                      Choosers(i) = {}
               PROVE  ddr[i] = move_ptn_info[i]
    BY DEF NamesTellContents
  <2>1. ~(fpga.at \in {"down", "note"} /\ fpga.slot = i)
    BY DEF Choosers, Busy
  <2> QED
    BY <2>1 DEF IInv, SlotsTold
<1> QED
  BY <1>1, Inductive, PTL

\* The panel shows the picture that was asked for last, whatever the loading
\* tasks download meanwhile, unless the transfer of it failed
\* (eSET_FPGA_SHOW_MODE after FPGA_CMD_SET_PHOTO).
THEOREM PanelShows == Spec => []ShownIsAsked
<1>1. IInv => ShownIsAsked
  <2> SUFFICES ASSUME IInv, fpga.at = "idle", screen.asked # None, screen.slot \notin raced \cup failed \cup {-1}
               PROVE  ddr[screen.slot] = screen.asked
    BY DEF ShownIsAsked
  <2>1. screen.slot \in Slot \ raced
    BY DEF IInv, Typed, Screen
  <2>2. move_ptn_info[screen.slot] = screen.asked
    BY <2>1 DEF IInv, ShownIsNamed
  <2> QED
    BY <2>1, <2>2 DEF IInv, SlotsTold
<1> QED
  BY <1>1, Inductive, PTL

\* s_semaphore (move_ptn_downloading) keeps the transfers apart: an incomplete
\* picture in the fpga's memory is being sent by the thread that holds it, or its
\* transfer broke off.
THEOREM TransfersApart == Spec => []OneTransfer
<1>1. IInv => OneTransfer
  <2> SUFFICES ASSUME IInv PROVE OneTransfer
    OBVIOUS
  <2>0. Typed /\ BusyWithPicture /\ SemaphoreWithSender /\ TornIsSent
    BY DEF IInv
  <2>1. TypeOK
    <3>1. \A t \in Task : task[t] \in TaskState
      BY <2>0 DEF Typed
    <3>2. \A t \in Task : /\ task[t].at \in Busy \cup {"none", "start", "pick", "end"}
                          /\ task[t].loopId \in 0..TableSize /\ task[t].ptnNum \in 0..TableSize
                          /\ task[t].at \in Busy => task[t].slot \in Slot
      BY <2>0, <3>1 DEF TaskState, BusyWithPicture
    <3>3. fpga.at \in Busy \cup {"idle", "show"} /\ (fpga.at \in Busy => fpga.slot \in Slot)
      BY <2>0 DEF Typed, FpgaState, BusyWithPicture
    <3>4. screen.slot \in Slot \cup {-1} /\ screen.asked \in Picture \cup {None}
      BY <2>0 DEF Typed, Screen, Name
    <3>5. \A c \in Caller : caller[c] \in {"idle", "wait", "open", "sequence",
                                           "stop", "join", "wipe", "create"}
      BY <2>0 DEF Typed, Loading
    <3> QED
      BY <2>0, <3>2, <3>3, <3>4, <3>5 DEF TypeOK, Typed, Name
  <2>2. ASSUME NEW i \in Slot \ failed, ddr[i] = Torn
        PROVE  \/ s_semaphore \in Task /\ task[s_semaphore].at = "down" /\ task[s_semaphore].slot = i
               \/ s_semaphore = Fpga /\ fpga.at = "down" /\ fpga.slot = i
    BY <2>0, <2>2 DEF TornIsSent, SemaphoreWithSender
  <2> QED
    BY <2>1, <2>2 DEF OneTransfer
<1> QED
  BY <1>1, Inductive, PTL

\* move_ptn_task's loop over the patterns never reads past the table its own
\* load made (dbModuleGetPatternByLoopId), as long as that fits the ring list.
THEOREM TasksReadTheirTable == Spec => []TaskReadsItsTable
<1>1. IInv => TaskReadsItsTable
  BY DEF IInv, TaskReadsItsTable
<1> QED
  BY <1>1, Inductive, PTL
=============================================================================
