--------------------------- MODULE MsQueue_proofs ---------------------------
(***************************************************************************)
(* Proofs about MsQueue, for every set of senders and receivers, every     *)
(* depth and all messages: the semaphores agree with the lists, nodes and  *)
(* messages stay whole, and the queue implements BoundedFifo.              *)
(***************************************************************************)
EXTENDS MsQueue, FiniteSetTheorems, SequenceTheorems, TLAPS

(***************************************************************************)
(* Counting threads: a thread that goes from a to b changes the count of   *)
(* the control points in S by what it enters and leaves.                   *)
(***************************************************************************)
LEMMA CountType ==
  ASSUME NEW S
  PROVE  IsFiniteSet(At(S)) /\ Count(S) \in Nat
<1>1. IsFiniteSet(Threads)
  BY FS_Union, MsQueueAssumption DEF Threads
<1>2. At(S) \in SUBSET Threads
  BY DEF At
<1> QED
  BY <1>1, <1>2, FS_Subset, FS_CardinalityType DEF Count

LEMMA CountMove ==
  ASSUME TypeOK, NEW t \in Threads, NEW a, NEW b, Goto(t, a, b), NEW S
  PROVE  /\ Count(S) \in Nat
         /\ Count(S)' = Count(S) + (IF b \in S THEN 1 ELSE 0) - (IF a \in S THEN 1 ELSE 0)
         /\ a \in S => Count(S) >= 1
<1>1. IsFiniteSet(At(S)) /\ Count(S) \in Nat
  BY CountType
<1>2. pc[t] = a /\ pc'[t] = b /\ \A u \in Threads : u # t => pc'[u] = pc[u]
  BY DEF TypeOK, Goto
<1>3. CASE a \in S /\ b \in S
  <2>1. At(S)' = At(S) /\ t \in At(S)
    BY <1>2, <1>3 DEF At
  <2>2. Count(S) # 0
    BY <1>1, <2>1, FS_EmptySet DEF Count
  <2> QED
    BY <1>1, <1>3, <2>1, <2>2 DEF Count
<1>4. CASE a \in S /\ b \notin S
  <2>1. At(S)' = At(S) \ {t} /\ t \in At(S)
    BY <1>2, <1>4 DEF At
  <2>2. Count(S)' = Count(S) - 1
    BY <1>1, <2>1, FS_RemoveElement DEF Count
  <2>3. Count(S) # 0
    BY <1>1, <2>1, FS_EmptySet DEF Count
  <2> QED
    BY <1>1, <1>4, <2>2, <2>3
<1>5. CASE a \notin S /\ b \in S
  <2>1. At(S)' = At(S) \cup {t} /\ t \notin At(S)
    BY <1>2, <1>5 DEF At
  <2>2. Count(S)' = Count(S) + 1
    BY <1>1, <2>1, FS_AddElement DEF Count
  <2> QED
    BY <1>1, <1>5, <2>2
<1>6. CASE a \notin S /\ b \notin S
  <2>1. At(S)' = At(S)
    BY <1>2, <1>6 DEF At
  <2> QED
    BY <1>1, <1>6, <2>1 DEF Count
<1> QED
  BY <1>3, <1>4, <1>5, <1>6

(***************************************************************************)
(* The counts the invariants speak of, when a thread goes from a to b.     *)
(***************************************************************************)
Enters(b, S) == IF b \in S THEN 1 ELSE 0

Moved(a, b, S) == /\ Count(S) \in Nat
                  /\ Count(S)' = Count(S) + Enters(b, S) - Enters(a, S)
                  /\ a \in S => Count(S) >= 1

LEMMA CountsMove ==
  ASSUME TypeOK, NEW t \in Threads, NEW a, NEW b, Goto(t, a, b)
  PROVE  /\ Moved(a, b, Crit)
         /\ Moved(a, b, Holding)
         /\ Moved(a, b, {"claimLock", "claimCrit"})
         /\ Moved(a, b, {"freePost"})
         /\ Moved(a, b, {"recvLock", "recvCrit"})
         /\ Moved(a, b, {"post"})
BY CountMove DEF Moved, Enters

(***************************************************************************)
(* _RemoveFromListHead and _AddToListTail on a list of nodes.              *)
(***************************************************************************)
LEMMA ListStep ==
  ASSUME NEW S, NEW l \in Seq(S)
  PROVE  /\ Len(l) \in Nat
         /\ l # <<>> => /\ Len(l) >= 1
                        /\ RemoveFromListHead(l) \in Seq(S)
                        /\ Len(RemoveFromListHead(l)) = Len(l) - 1
                        /\ \A i \in 1..Len(l) - 1 : RemoveFromListHead(l)[i] = l[i + 1]
                        /\ HeadOrNone(l) = l[1] /\ Head(l) = l[1] /\ l[1] \in S
         /\ \A n \in S : /\ AddToListTail(l, n) \in Seq(S)
                         /\ Len(AddToListTail(l, n)) = Len(l) + 1
                         /\ \A i \in 1..Len(l) : AddToListTail(l, n)[i] = l[i]
                         /\ AddToListTail(l, n)[Len(l) + 1] = n
<1>1. l # <<>> => Len(l) >= 1
  OBVIOUS
<1>2. l # <<>> => /\ Head(l) = l[1] /\ Head(l) \in S /\ Tail(l) \in Seq(S) /\ Len(Tail(l)) = Len(l) - 1
                  /\ \A i \in 1..Len(l) - 1 : Tail(l)[i] = l[i + 1]
  BY <1>1
<1> QED
  BY <1>1, <1>2 DEF RemoveFromListHead, HeadOrNone, AddToListTail

(***************************************************************************)
(* A node that is linked to the tail of a list it was not on.              *)
(***************************************************************************)
OnList(n, l) == \E i \in 1..Len(l) : l[i] = n
Distinct(l) == \A i, j \in 1..Len(l) : l[i] = l[j] => i = j

LEMMA NodeAdded ==
  ASSUME NEW l \in Seq(Nodes), NEW n \in Nodes
  PROVE  /\ AddToListTail(l, n) \in Seq(Nodes) /\ Len(l) \in Nat
         /\ Len(AddToListTail(l, n)) = Len(l) + 1
         /\ \A i \in 1..Len(l) : AddToListTail(l, n)[i] = l[i]
         /\ AddToListTail(l, n)[Len(l) + 1] = n
<1>1. Len(l) \in Nat /\ \A m \in Nodes : /\ AddToListTail(l, m) \in Seq(Nodes)
                                         /\ Len(AddToListTail(l, m)) = Len(l) + 1
                                         /\ \A i \in 1..Len(l) : AddToListTail(l, m)[i] = l[i]
                                         /\ AddToListTail(l, m)[Len(l) + 1] = m
  BY ListStep
<1> QED
  BY <1>1

LEMMA TailLinked ==
  ASSUME NEW l \in Seq(Nodes), Distinct(l), NEW n \in Nodes, ~OnList(n, l),
         NEW k, k = AddToListTail(l, n)
  PROVE  /\ k \in Seq(Nodes) /\ Len(l) \in Nat /\ Len(k) = Len(l) + 1
         /\ Distinct(k)
         /\ \A i \in 1..Len(k) : (i \in 1..Len(l) /\ k[i] = l[i]) \/ (i = Len(k) /\ k[i] = n)
         /\ \A m : OnList(m, k) <=> m = n \/ OnList(m, l)
<1>1. /\ k \in Seq(Nodes) /\ Len(l) \in Nat /\ Len(k) = Len(l) + 1
      /\ k[Len(l) + 1] = n /\ \A i \in 1..Len(l) : k[i] = l[i]
  BY NodeAdded
<1>2. \A i \in 1..Len(k) : (i \in 1..Len(l) /\ k[i] = l[i]) \/ (i = Len(k) /\ k[i] = n)
  BY <1>1
<1>3. Distinct(k)
  BY <1>1, <1>2 DEF Distinct, OnList
<1>4. \A m : OnList(m, k) <=> m = n \/ OnList(m, l)
  <2>1. Len(k) \in 1..Len(k) /\ k[Len(k)] = n
    BY <1>1
  <2>2. \A i \in 1..Len(l) : i \in 1..Len(k) /\ k[i] = l[i]
    BY <1>1
  <2> QED
    BY <1>2, <2>1, <2>2 DEF OnList
<1> QED
  BY <1>1, <1>2, <1>3, <1>4

(***************************************************************************)
(* The head that is unlinked is no longer on its list.                     *)
(***************************************************************************)
LEMMA HeadUnlinked ==
  ASSUME NEW l \in Seq(Nodes), Distinct(l), l # <<>>,
         NEW k, k = RemoveFromListHead(l)
  PROVE  /\ k \in Seq(Nodes) /\ Len(l) \in Nat /\ Len(k) = Len(l) - 1
         /\ l[1] \in Nodes /\ HeadOrNone(l) = l[1] /\ Head(l) = l[1]
         /\ 1 \in 1..Len(l)
         /\ Distinct(k)
         /\ \A i \in 1..Len(k) : i + 1 \in 1..Len(l) /\ i + 1 # 1 /\ k[i] = l[i + 1]
         /\ ~OnList(l[1], k)
         /\ \A m : OnList(m, k) => OnList(m, l)
<1>1. /\ k \in Seq(Nodes) /\ Len(l) \in Nat /\ Len(k) = Len(l) - 1 /\ Len(l) >= 1
      /\ l[1] \in Nodes /\ HeadOrNone(l) = l[1] /\ Head(l) = l[1]
      /\ \A i \in 1..Len(l) - 1 : k[i] = l[i + 1]
  BY ListStep
<1>2. \A i \in 1..Len(k) : i + 1 \in 1..Len(l) /\ i + 1 # 1 /\ k[i] = l[i + 1]
  BY <1>1
<1>3. Distinct(k)
  <2> SUFFICES ASSUME NEW i \in 1..Len(k), NEW j \in 1..Len(k), k[i] = k[j]
               PROVE  i = j
    BY DEF Distinct
  <2>1. i + 1 = j + 1
    BY <1>2 DEF Distinct
  <2> QED
    BY <1>1, <2>1
<1>4. 1 \in 1..Len(l)
  BY <1>1
<1>5. ~OnList(l[1], k)
  BY <1>2, <1>4 DEF Distinct, OnList
<1>6. \A m : OnList(m, k) => OnList(m, l)
  BY <1>2 DEF OnList
<1> QED
  BY <1>1, <1>2, <1>3, <1>4, <1>5, <1>6

(***************************************************************************)
(* NodesExclusive, said with OnList.                                       *)
(***************************************************************************)
Exclusive(f, u) ==
  /\ Distinct(f)
  /\ Distinct(u)
  /\ \A n : ~(OnList(n, f) /\ OnList(n, u))

Held == \A t \in Threads : pc[t] \in Holding =>
          /\ node[t] \in Nodes
          /\ ~OnList(node[t], freeList)
          /\ ~OnList(node[t], usedList)
          /\ \A u \in Threads : pc[u] \in Holding /\ node[u] = node[t] => u = t

LEMMA NodesExclusiveSaid == NodesExclusive <=> Exclusive(freeList, usedList) /\ Held
<1>1. NodesExclusive => Exclusive(freeList, usedList) /\ Held
  BY DEF NodesExclusive, Exclusive, Held, Distinct, OnList
<1>2. Exclusive(freeList, usedList) /\ Held => NodesExclusive
  BY DEF NodesExclusive, Exclusive, Held, Distinct, OnList
<1> QED
  BY <1>1, <1>2

(***************************************************************************)
(* Putting a node down on a list.                                          *)
(***************************************************************************)
LEMMA NodePutDown ==
  ASSUME TypeOK, NodesExclusive, NEW t \in Threads, pc[t] \in Holding,
         \A u \in Threads : u # t => pc'[u] = pc[u], pc'[t] \notin Holding,
         node' = [node EXCEPT ![t] = NoNode],
         \/ freeList' = AddToListTail(freeList, node[t]) /\ usedList' = usedList
         \/ usedList' = AddToListTail(usedList, node[t]) /\ freeList' = freeList
  PROVE  NodesExclusive'
<1>1. Exclusive(freeList, usedList) /\ Held
  BY NodesExclusiveSaid
<1>2. node[t] \in Nodes /\ ~OnList(node[t], freeList) /\ ~OnList(node[t], usedList)
  BY <1>1 DEF Held
<1>3. \A u \in Threads : u # t => node'[u] = node[u]
  BY DEF TypeOK
<1>4. \A u \in Threads : pc'[u] \in Holding =>
        u # t /\ pc[u] \in Holding /\ node'[u] = node[u] /\ node[u] # node[t]
  BY <1>1, <1>3 DEF Held
<1>5. CASE freeList' = AddToListTail(freeList, node[t]) /\ usedList' = usedList
  <2>1. Distinct(freeList') /\ \A m : OnList(m, freeList') <=> m = node[t] \/ OnList(m, freeList)
    BY <1>1, <1>2, <1>5, TailLinked DEF TypeOK, Exclusive
  <2>2. Exclusive(freeList', usedList')
    BY <1>1, <1>2, <1>5, <2>1 DEF Exclusive
  <2>3. Held'
    BY <1>1, <1>4, <1>5, <2>1 DEF Held
  <2> QED
    BY <2>2, <2>3 DEF NodesExclusive, Exclusive, Held, Distinct, OnList
<1>6. CASE usedList' = AddToListTail(usedList, node[t]) /\ freeList' = freeList
  <2>1. Distinct(usedList') /\ \A m : OnList(m, usedList') <=> m = node[t] \/ OnList(m, usedList)
    BY <1>1, <1>2, <1>6, TailLinked DEF TypeOK, Exclusive
  <2>2. Exclusive(freeList', usedList')
    BY <1>1, <1>2, <1>6, <2>1 DEF Exclusive
  <2>3. Held'
    BY <1>1, <1>4, <1>6, <2>1 DEF Held
  <2> QED
    BY <2>2, <2>3 DEF NodesExclusive, Exclusive, Held, Distinct, OnList
<1> QED
  BY <1>5, <1>6

(***************************************************************************)
(* Taking the node at the head of a list in hand.                          *)
(***************************************************************************)
LEMMA NodeTaken ==
  ASSUME TypeOK, NodesExclusive, NEW t \in Threads, pc[t] \notin Holding,
         \A u \in Threads : u # t => pc'[u] = pc[u],
         \/ /\ freeList # <<>> /\ freeList' = RemoveFromListHead(freeList)
            /\ node' = [node EXCEPT ![t] = HeadOrNone(freeList)] /\ usedList' = usedList
         \/ /\ usedList # <<>> /\ usedList' = RemoveFromListHead(usedList)
            /\ node' = [node EXCEPT ![t] = HeadOrNone(usedList)] /\ freeList' = freeList
  PROVE  NodesExclusive'
<1>1. Exclusive(freeList, usedList) /\ Held
  BY NodesExclusiveSaid
<1>2. \A u \in Threads : u # t => node'[u] = node[u]
  BY DEF TypeOK
<1>3. CASE /\ freeList # <<>> /\ freeList' = RemoveFromListHead(freeList)
           /\ node' = [node EXCEPT ![t] = HeadOrNone(freeList)] /\ usedList' = usedList
  <2>1. /\ Distinct(freeList') /\ node'[t] \in Nodes
        /\ ~OnList(node'[t], freeList') /\ \A m : OnList(m, freeList') => OnList(m, freeList)
    BY <1>1, <1>3, HeadUnlinked DEF TypeOK, Exclusive
  <2>2. OnList(node'[t], freeList)
    BY <1>1, <1>3, HeadUnlinked DEF TypeOK, Exclusive, OnList
  <2>3. Exclusive(freeList', usedList')
    BY <1>1, <1>3, <2>1 DEF Exclusive
  <2>4. Held'
    BY <1>1, <1>2, <1>3, <2>1, <2>2 DEF Held, Exclusive
  <2> QED
    BY <2>3, <2>4 DEF NodesExclusive, Exclusive, Held, Distinct, OnList
<1>4. CASE /\ usedList # <<>> /\ usedList' = RemoveFromListHead(usedList)
           /\ node' = [node EXCEPT ![t] = HeadOrNone(usedList)] /\ freeList' = freeList
  <2>1. /\ Distinct(usedList') /\ node'[t] \in Nodes
        /\ ~OnList(node'[t], usedList') /\ \A m : OnList(m, usedList') => OnList(m, usedList)
    BY <1>1, <1>4, HeadUnlinked DEF TypeOK, Exclusive
  <2>2. OnList(node'[t], usedList)
    BY <1>1, <1>4, HeadUnlinked DEF TypeOK, Exclusive, OnList
  <2>3. Exclusive(freeList', usedList')
    BY <1>1, <1>4, <2>1 DEF Exclusive
  <2>4. Held'
    BY <1>1, <1>2, <1>4, <2>1, <2>2 DEF Held, Exclusive
  <2> QED
    BY <2>3, <2>4 DEF NodesExclusive, Exclusive, Held, Distinct, OnList
<1> QED
  BY <1>3, <1>4

(***************************************************************************)
(* A step that leaves lists, nodes and messages alone, and takes nothing   *)
(* into its hands.                                                         *)
(***************************************************************************)
LEMMA QuietStep ==
  ASSUME IInv, NEW t \in Threads, NEW a, NEW b, Goto(t, a, b),
         UNCHANGED <<freeList, usedList, nodeMsg, node, msg, sent, delivered>>,
         b \in Holding => a \in Holding,
         b \in Bringing => a \in Bringing,
         b \in Taking => a \in Taking,
         b \in {"sendLock", "sendCrit"} => a \in {"sendLock", "sendCrit"},
         b \in {"freeLock", "freeCrit"} => a \in {"freeLock", "freeCrit"},
         b = "freePost" => a \in {"freeLock", "freeCrit"},
         b # "freeLock"
  PROVE  NodesExclusive' /\ MessagesOnTheirWay' /\ DeliveredOnce'
<1>1. \A u \in Threads : pc'[u] = IF u = t THEN b ELSE pc[u]
  BY DEF Goto, IInv, TypeOK
<1>2. pc[t] = a
  BY DEF Goto
<1>3. \A u \in Threads : pc'[u] \in Holding => pc[u] \in Holding
  BY <1>1, <1>2
<1>4. \A u \in Threads : /\ pc'[u] \in Bringing => pc[u] \in Bringing
                         /\ pc'[u] \in Taking => pc[u] \in Taking
                         /\ pc'[u] \in {"sendLock", "sendCrit"} => pc[u] \in {"sendLock", "sendCrit"}
  BY <1>1, <1>2
<1>5. \A u \in Threads : pc'[u] \in Taking /\ pc'[u] # "take" => pc[u] # "take"
  BY <1>1, <1>2 DEF Taking
<1>6. NodesExclusive'
  BY <1>3 DEF NodesExclusive, IInv
<1>7. MessagesOnTheirWay'
  BY <1>4, <1>5 DEF MessagesOnTheirWay, IInv, Delivered, Threads
<1>8. DeliveredOnce'
  BY <1>1, <1>2 DEF DeliveredOnce, IInv, Threads
<1> QED
  BY <1>6, <1>7, <1>8

(***************************************************************************)
(* A step from a to b keeps the counts if each semaphore and list moves by *)
(* as much as the control points that are counted with it.                 *)
(***************************************************************************)
\* Len, kept folded where it meets the counts.
Size(list) == Len(list)

Change(a, b, S) == Enters(b, S) - Enters(a, S)

Balanced(a, b) ==
  /\ lockSemaphore' = lockSemaphore - Change(a, b, Crit)
  /\ Size(freeList)' =
        Size(freeList) + (sendSemaphore' - sendSemaphore) + Change(a, b, {"claimLock", "claimCrit"})
           + Change(a, b, {"freePost"}) + (lost' - lost)
  /\ Size(usedList)' =
        Size(usedList) + (recvSemaphore' - recvSemaphore) + Change(a, b, {"recvLock", "recvCrit"})
           + Change(a, b, {"post"})
  /\ Size(freeList)' + Size(usedList)' = Size(freeList) + Size(usedList) - Change(a, b, Holding)

LEMMA CountsKept ==
  ASSUME IInv, TypeOK', NEW t \in Threads, NEW a, NEW b, Goto(t, a, b), Balanced(a, b)
  PROVE  SemaphoresCount' /\ NodesConserved'
<1>1. /\ Moved(a, b, Crit) /\ Moved(a, b, Holding)
      /\ Moved(a, b, {"claimLock", "claimCrit"}) /\ Moved(a, b, {"freePost"})
      /\ Moved(a, b, {"recvLock", "recvCrit"}) /\ Moved(a, b, {"post"})
  BY CountsMove DEF IInv
<1>2. /\ Change(a, b, Crit) \in Int /\ Change(a, b, Holding) \in Int
      /\ Change(a, b, {"claimLock", "claimCrit"}) \in Int /\ Change(a, b, {"freePost"}) \in Int
      /\ Change(a, b, {"recvLock", "recvCrit"}) \in Int /\ Change(a, b, {"post"}) \in Int
  BY DEF Change, Enters
<1>3. ASSUME NEW S, Moved(a, b, S)
      PROVE  Count(S) \in Nat /\ Count(S)' = Count(S) + Change(a, b, S)
  BY <1>3 DEF Moved, Change, Enters
<1>4. /\ Count(Crit) \in Nat /\ Count(Crit)' = Count(Crit) + Change(a, b, Crit)
      /\ Count(Holding) \in Nat /\ Count(Holding)' = Count(Holding) + Change(a, b, Holding)
  BY <1>1, <1>3
<1>5. /\ Count({"claimLock", "claimCrit"}) \in Nat /\ Count({"freePost"}) \in Nat
      /\ Count({"claimLock", "claimCrit"})' =
            Count({"claimLock", "claimCrit"}) + Change(a, b, {"claimLock", "claimCrit"})
      /\ Count({"freePost"})' = Count({"freePost"}) + Change(a, b, {"freePost"})
  BY <1>1, <1>3
<1>6. /\ Count({"recvLock", "recvCrit"}) \in Nat /\ Count({"post"}) \in Nat
      /\ Count({"recvLock", "recvCrit"})' =
            Count({"recvLock", "recvCrit"}) + Change(a, b, {"recvLock", "recvCrit"})
      /\ Count({"post"})' = Count({"post"}) + Change(a, b, {"post"})
  BY <1>1, <1>3
<1>7. /\ Size(freeList) \in Nat /\ Size(usedList) \in Nat
      /\ Size(freeList)' \in Nat /\ Size(usedList)' \in Nat
      /\ lockSemaphore \in Nat /\ sendSemaphore \in Nat /\ recvSemaphore \in Nat /\ lost \in Nat
      /\ sendSemaphore' \in Nat /\ recvSemaphore' \in Nat /\ lost' \in Nat
  BY DEF IInv, TypeOK, Size
<1>8. /\ lockSemaphore + Count(Crit) = 1
      /\ Size(freeList) = sendSemaphore + Count({"claimLock", "claimCrit"}) + Count({"freePost"}) + lost
      /\ Size(usedList) = recvSemaphore + Count({"recvLock", "recvCrit"}) + Count({"post"})
      /\ Size(freeList) + Size(usedList) + Count(Holding) = maxNumOfMsgs
  BY DEF IInv, SemaphoresCount, NodesConserved, Size
<1>9. /\ lockSemaphore' = lockSemaphore - Change(a, b, Crit)
      /\ Size(freeList)' =
            Size(freeList) + (sendSemaphore' - sendSemaphore) + Change(a, b, {"claimLock", "claimCrit"})
               + Change(a, b, {"freePost"}) + (lost' - lost)
      /\ Size(usedList)' =
            Size(usedList) + (recvSemaphore' - recvSemaphore) + Change(a, b, {"recvLock", "recvCrit"})
                + Change(a, b, {"post"})
       /\ Size(freeList)' + Size(usedList)' = Size(freeList) + Size(usedList) - Change(a, b, Holding)
  BY DEF Balanced
<1>10. lockSemaphore' + Count(Crit)' = 1
  BY <1>2, <1>7, <1>8, <1>4, <1>9
<1>11. Size(freeList)' = sendSemaphore' + Count({"claimLock", "claimCrit"})' + Count({"freePost"})' + lost'
  <2>1. Size(freeList) = sendSemaphore + Count({"claimLock", "claimCrit"}) + Count({"freePost"}) + lost
    BY <1>8
  <2>2. Size(freeList)' =
             Size(freeList) + (sendSemaphore' - sendSemaphore) + Change(a, b, {"claimLock", "claimCrit"})
                + Change(a, b, {"freePost"}) + (lost' - lost)
    BY <1>9
  <2> QED
    BY <1>2, <1>5, <1>7, <2>1, <2>2
<1>12. Size(usedList)' = recvSemaphore' + Count({"recvLock", "recvCrit"})' + Count({"post"})'
  <2>1. Size(usedList) = recvSemaphore + Count({"recvLock", "recvCrit"}) + Count({"post"})
    BY <1>8
  <2>2. Size(usedList)' =
             Size(usedList) + (recvSemaphore' - recvSemaphore) + Change(a, b, {"recvLock", "recvCrit"})
                + Change(a, b, {"post"})
    BY <1>9
  <2> QED
    BY <1>2, <1>6, <1>7, <2>1, <2>2
<1>13. Size(freeList)' + Size(usedList)' + Count(Holding)' = maxNumOfMsgs
  <2>1. Size(freeList) + Size(usedList) + Count(Holding) = maxNumOfMsgs
    BY <1>8
  <2>2. Size(freeList)' + Size(usedList)' = Size(freeList) + Size(usedList) - Change(a, b, Holding)
    BY <1>9
  <2> QED
    BY <1>2, <1>4, <1>7, <2>1, <2>2, MsQueueAssumption
<1> QED
  BY <1>10, <1>11, <1>12, <1>13 DEF SemaphoresCount, NodesConserved, Size

(***************************************************************************)
(* lockSemaphore is obtained: it was free, so nobody is in a list.         *)
(***************************************************************************)
LEMMA ObtainLockKeeps ==
  ASSUME NEW t \in Threads, NEW a, NEW b, IInv, ObtainLock(t, a, b),
         \/ t \in Senders /\ <<a, b>> \in {<<"claimLock", "claimCrit">>,
                                          <<"sendLock", "sendCrit">>, <<"giveLock", "giveCrit">>}
         \/ t \in Receivers /\ <<a, b>> \in {<<"recvLock", "recvCrit">>, <<"freeLock", "freeCrit">>}
  PROVE  IInv'
<1> USE DEF IInv
<1>0. Goto(t, a, b) /\ UNCHANGED <<sendSemaphore, recvSemaphore, freeList, usedList, nodeMsg,
                                   node, msg, sent, delivered, lost>>
  BY DEF ObtainLock
<1>1. TypeOK'
  BY MsQueueAssumption DEF TypeOK, ObtainLock, Goto, Threads, SendStates, RecvStates
<1>2. SemaphoresCount' /\ NodesConserved'
  <2>1. /\ Change(a, b, Crit) = 1 /\ Change(a, b, Holding) = 0
        /\ Change(a, b, {"claimLock", "claimCrit"}) = 0 /\ Change(a, b, {"freePost"}) = 0
        /\ Change(a, b, {"recvLock", "recvCrit"}) = 0 /\ Change(a, b, {"post"}) = 0
    BY DEF Change, Enters, Crit, Holding
  <2>2. Balanced(a, b)
    BY <2>1 DEF ObtainLock, TypeOK, Balanced, Size
  <2> QED
    BY <1>0, <1>1, <2>2, CountsKept
<1>3. NodesExclusive' /\ MessagesOnTheirWay' /\ DeliveredOnce'
  BY <1>0, QuietStep DEF Holding, Bringing, Taking
<1> QED
  BY <1>1, <1>2, <1>3

(***************************************************************************)
(* QueueClaim gets its slot.                                               *)
(***************************************************************************)
LEMMA ClaimSlotKeeps ==
  ASSUME NEW s \in Senders, IInv, ClaimSlot(s)
  PROVE  IInv'
<1> USE DEF IInv
<1>1. TypeOK'
  BY MsQueueAssumption DEF TypeOK, ClaimSlot, sems, Goto, Threads, SendStates
<1>2. SemaphoresCount' /\ NodesConserved'
  <2>1. s \in Threads /\ Goto(s, "claim", "claimLock")
    BY DEF ClaimSlot, Threads
  <2>2. Balanced("claim", "claimLock")
    BY DEF ClaimSlot, sems, TypeOK, Balanced, Size, Change, Enters, Crit, Holding
  <2> QED
    BY <1>1, <2>1, <2>2, CountsKept
<1>3. NodesExclusive' /\ MessagesOnTheirWay' /\ DeliveredOnce'
  BY QuietStep DEF ClaimSlot, sems, Holding, Bringing, Taking, Threads
<1> QED
  BY <1>1, <1>2, <1>3

(***************************************************************************)
(* QueueClaim runs out of time.                                            *)
(***************************************************************************)
LEMMA ClaimTimeoutKeeps ==
  ASSUME NEW s \in Senders, IInv, ClaimTimeout(s)
  PROVE  IInv'
<1> USE DEF IInv
<1>1. TypeOK'
  BY MsQueueAssumption DEF TypeOK, ClaimTimeout, sems, Goto, Threads, SendStates
<1>2. SemaphoresCount' /\ NodesConserved'
  <2>1. s \in Threads /\ Goto(s, "claim", "idle")
    BY DEF ClaimTimeout, Threads
  <2>2. Balanced("claim", "idle")
    BY DEF ClaimTimeout, sems, TypeOK, Balanced, Size, Change, Enters, Crit, Holding
  <2> QED
    BY <1>1, <2>1, <2>2, CountsKept
<1>3. NodesExclusive' /\ MessagesOnTheirWay' /\ DeliveredOnce'
  BY QuietStep DEF ClaimTimeout, sems, Holding, Bringing, Taking, Threads
<1> QED
  BY <1>1, <1>2, <1>3

(***************************************************************************)
(* A message that is too long.                                             *)
(***************************************************************************)
LEMMA CopyRefusedKeeps ==
  ASSUME NEW s \in Senders, IInv, CopyRefused(s)
  PROVE  IInv'
<1> USE DEF IInv
<1>1. TypeOK'
  BY MsQueueAssumption DEF TypeOK, CopyRefused, sems, Goto, Threads, SendStates
<1>2. SemaphoresCount' /\ NodesConserved'
  <2>1. s \in Threads /\ Goto(s, "copy", "giveLock")
    BY DEF CopyRefused, Threads
  <2>2. Balanced("copy", "giveLock")
    BY DEF CopyRefused, sems, TypeOK, Balanced, Size, Change, Enters, Crit, Holding
  <2> QED
    BY <1>1, <2>1, <2>2, CountsKept
<1>3. NodesExclusive' /\ MessagesOnTheirWay' /\ DeliveredOnce'
  BY QuietStep DEF CopyRefused, sems, Holding, Bringing, Taking, Threads
<1> QED
  BY <1>1, <1>2, <1>3

(***************************************************************************)
(* QueueSend releases recvSemaphore.                                       *)
(***************************************************************************)
LEMMA PostRecvKeeps ==
  ASSUME NEW s \in Senders, IInv, PostRecv(s)
  PROVE  IInv'
<1> USE DEF IInv
<1>1. TypeOK'
  BY MsQueueAssumption DEF TypeOK, PostRecv, sems, Goto, Threads, SendStates
<1>2. SemaphoresCount' /\ NodesConserved'
  <2>1. s \in Threads /\ Goto(s, "post", "idle")
    BY DEF PostRecv, Threads
  <2>2. Balanced("post", "idle")
    BY DEF PostRecv, sems, TypeOK, Balanced, Size, Change, Enters, Crit, Holding
  <2> QED
    BY <1>1, <2>1, <2>2, CountsKept
<1>3. NodesExclusive' /\ MessagesOnTheirWay' /\ DeliveredOnce'
  BY QuietStep DEF PostRecv, sems, Holding, Bringing, Taking, Threads
<1> QED
  BY <1>1, <1>2, <1>3

(***************************************************************************)
(* QueueRecv gets its message.                                             *)
(***************************************************************************)
LEMMA RecvSlotKeeps ==
  ASSUME NEW r \in Receivers, IInv, RecvSlot(r)
  PROVE  IInv'
<1> USE DEF IInv
<1>1. TypeOK'
  BY MsQueueAssumption DEF TypeOK, RecvSlot, sems, Goto, Threads, RecvStates
<1>2. SemaphoresCount' /\ NodesConserved'
  <2>1. r \in Threads /\ Goto(r, "recv", "recvLock")
    BY DEF RecvSlot, Threads
  <2>2. Balanced("recv", "recvLock")
    BY DEF RecvSlot, sems, TypeOK, Balanced, Size, Change, Enters, Crit, Holding
  <2> QED
    BY <1>1, <2>1, <2>2, CountsKept
<1>3. NodesExclusive' /\ MessagesOnTheirWay' /\ DeliveredOnce'
  BY QuietStep DEF RecvSlot, sems, Holding, Bringing, Taking, Threads
<1> QED
  BY <1>1, <1>2, <1>3

(***************************************************************************)
(* QueueRecv runs out of time.                                             *)
(***************************************************************************)
LEMMA RecvTimeoutKeeps ==
  ASSUME NEW r \in Receivers, IInv, RecvTimeout(r)
  PROVE  IInv'
<1> USE DEF IInv
<1>1. TypeOK'
  BY MsQueueAssumption DEF TypeOK, RecvTimeout, sems, Goto, Threads, RecvStates
<1>2. SemaphoresCount' /\ NodesConserved'
  <2>1. r \in Threads /\ Goto(r, "recv", "idle")
    BY DEF RecvTimeout, Threads
  <2>2. Balanced("recv", "idle")
    BY DEF RecvTimeout, sems, TypeOK, Balanced, Size, Change, Enters, Crit, Holding
  <2> QED
    BY <1>1, <2>1, <2>2, CountsKept
<1>3. NodesExclusive' /\ MessagesOnTheirWay' /\ DeliveredOnce'
  BY QuietStep DEF RecvTimeout, sems, Holding, Bringing, Taking, Threads
<1> QED
  BY <1>1, <1>2, <1>3

(***************************************************************************)
(* QueueFree releases sendSemaphore.                                       *)
(***************************************************************************)
LEMMA PostSendKeeps ==
  ASSUME NEW r \in Receivers, IInv, PostSend(r)
  PROVE  IInv'
<1> USE DEF IInv
<1>1. TypeOK'
  BY MsQueueAssumption DEF TypeOK, PostSend, sems, Goto, Threads, RecvStates
<1>2. SemaphoresCount' /\ NodesConserved'
  <2>1. r \in Threads /\ Goto(r, "freePost", "idle")
    BY DEF PostSend, Threads
  <2>2. Balanced("freePost", "idle")
    BY DEF PostSend, sems, TypeOK, Balanced, Size, Change, Enters, Crit, Holding
  <2> QED
    BY <1>1, <2>1, <2>2, CountsKept
<1>3. NodesExclusive' /\ MessagesOnTheirWay' /\ DeliveredOnce'
  BY QuietStep DEF PostSend, sems, Holding, Bringing, Taking, Threads
<1> QED
  BY <1>1, <1>2, <1>3

(***************************************************************************)
(* MsOS_SendToQueue is called with a message that is new.                  *)
(***************************************************************************)
LEMMA SendCallKeeps ==
  ASSUME NEW s \in Senders, IInv, SendCall(s)
  PROVE  IInv'
<1> USE DEF IInv
<1>0. s \in Threads /\ pc[s] = "idle" /\ \A u \in Threads : pc'[u] = IF u = s THEN "claim" ELSE pc[u]
  BY DEF SendCall, TypeOK, Goto, Threads
<1>1. TypeOK'
  BY MsQueueAssumption DEF TypeOK, SendCall, sems, Goto, Threads, SendStates
<1>2. SemaphoresCount' /\ NodesConserved'
  <2>1. Goto(s, "idle", "claim")
    BY DEF SendCall
  <2>2. Balanced("idle", "claim")
    BY DEF SendCall, sems, TypeOK, Balanced, Size, Change, Enters, Crit, Holding
  <2> QED
    BY <1>0, <1>1, <2>1, <2>2, CountsKept
<1>3. NodesExclusive'
  BY <1>0 DEF SendCall, sems, NodesExclusive, Holding
<1>4. MessagesOnTheirWay'
  <2>1. PICK m \in Msgs \ sent : msg' = [msg EXCEPT ![s] = m] /\ sent' = sent \cup {m}
    BY DEF SendCall
  <2>2. UNCHANGED <<usedList, nodeMsg, node, delivered>> /\ Delivered' = Delivered
    BY DEF SendCall, sems, Delivered
  <2>3. m \notin Delivered /\ \A i \in 1..Len(usedList) : nodeMsg[usedList[i]] # m
    BY DEF DeliveredOnce, Delivered, MessagesOnTheirWay
  <2>4. \A q \in Senders : q # s => pc'[q] = pc[q] /\ msg'[q] = msg[q]
    BY <1>0, <2>1 DEF Threads, TypeOK
  <2>5. msg'[s] = m
    BY <1>0, <2>1 DEF TypeOK
  <2>6. ASSUME NEW q \in Senders, pc'[q] \in Bringing
        PROVE  /\ msg'[q] \in sent' \ Delivered'
               /\ \A u \in Senders : pc'[u] \in Bringing /\ msg'[u] = msg'[q] => u = q
               /\ \A i \in 1..Len(usedList) : nodeMsg[usedList[i]] # msg'[q]
    <3>1. \A u \in Senders : u # s /\ pc'[u] \in Bringing => msg[u] \in sent
      BY <2>4 DEF MessagesOnTheirWay
    <3>2. CASE q = s
      BY <2>1, <2>2, <2>3, <2>4, <2>5, <3>1, <3>2
    <3>3. CASE q # s
      <4>1. pc[q] \in Bringing /\ msg'[q] = msg[q] /\ msg[q] # m
        BY <2>1, <2>4, <2>6, <3>1, <3>3
      <4>2. msg[q] \in sent \ Delivered /\ \A i \in 1..Len(usedList) : nodeMsg[usedList[i]] # msg[q]
        BY <4>1 DEF MessagesOnTheirWay
      <4>3. \A u \in Senders : pc'[u] \in Bringing /\ msg'[u] = msg'[q] => u = q
        BY <2>4, <2>5, <4>1 DEF MessagesOnTheirWay
      <4> QED
        BY <2>1, <2>2, <4>1, <4>2, <4>3
    <3> QED
      BY <3>2, <3>3
  <2>7. \A q \in Senders : pc'[q] \in {"sendLock", "sendCrit"} =>
          nodeMsg[node[q]] = msg'[q] /\ msg'[q] \notin Oversize
    BY <1>0, <2>1 DEF MessagesOnTheirWay, Threads, TypeOK
  <2>8. \A r \in Receivers : r # s /\ pc'[r] = pc[r] /\ msg'[r] = msg[r]
    BY <1>0, <2>1, MsQueueAssumption DEF Threads, TypeOK
  <2> QED
    BY <2>1, <2>2, <2>6, <2>7, <2>8 DEF MessagesOnTheirWay
<1>5. DeliveredOnce'
  <2>1. sent \subseteq sent' /\ delivered' = delivered
    BY DEF SendCall
  <2>2. \A r \in Receivers : pc'[r] = pc[r] /\ msg'[r] = msg[r]
    BY <1>0, MsQueueAssumption DEF SendCall, TypeOK, Threads
  <2> QED
    BY <2>1, <2>2 DEF DeliveredOnce
<1> QED
  BY <1>1, <1>2, <1>3, <1>4, <1>5

(***************************************************************************)
(* A step that touches no message, and takes no node along for delivery.   *)
(***************************************************************************)
LEMMA OthersOnTheirWay ==
  ASSUME IInv, UNCHANGED <<usedList, nodeMsg, msg, sent>>, Delivered' = Delivered,
         \A u \in Threads :
            /\ pc'[u] \in Bringing => pc[u] \in Bringing
            /\ pc'[u] \in Taking \/ pc'[u] \in {"sendLock", "sendCrit"} =>
                  pc'[u] = pc[u] /\ node'[u] = node[u]
  PROVE  MessagesOnTheirWay'
<1> USE DEF IInv, Threads
<1>1. \A s \in Senders : pc'[s] \in Bringing =>
          /\ msg[s] \in sent \ Delivered
          /\ \A q \in Senders : pc'[q] \in Bringing /\ msg[q] = msg[s] => q = s
          /\ \A i \in 1..Len(usedList) : nodeMsg[usedList[i]] # msg[s]
  BY DEF MessagesOnTheirWay
<1>2. \A s \in Senders : pc'[s] \in {"sendLock", "sendCrit"} =>
          nodeMsg[node'[s]] = msg[s] /\ msg[s] \notin Oversize
  BY DEF MessagesOnTheirWay
<1>3. \A r \in Receivers : pc'[r] \in Taking => pc[r] \in Taking /\ pc'[r] = pc[r] /\ node'[r] = node[r]
  OBVIOUS
<1>4. \A r \in Receivers : pc'[r] \in Taking =>
          /\ nodeMsg[node'[r]] \in Delivered
          /\ \A q \in Receivers :
                pc'[q] \in Taking /\ nodeMsg[node'[q]] = nodeMsg[node'[r]] => q = r
          /\ pc'[r] # "take" => msg[r] = nodeMsg[node'[r]]
  BY <1>3 DEF MessagesOnTheirWay
<1> QED
  BY <1>1, <1>2, <1>4 DEF MessagesOnTheirWay

(***************************************************************************)
(* QueueClaim takes the head of the free list.                             *)
(***************************************************************************)
LEMMA ClaimNodeKeeps ==
  ASSUME NEW s \in Senders, IInv, ClaimNode(s)
  PROVE  IInv'
<1> USE DEF IInv
<1>1. s \in Threads /\ Goto(s, "claimCrit", IF freeList = <<>> THEN "idle" ELSE "copy")
  BY DEF ClaimNode, Threads
<1>2. freeList # <<>>
  <2>1. Count({"claimLock", "claimCrit"}) >= 1 /\ Count({"claimLock", "claimCrit"}) \in Nat /\ Count({"freePost"}) \in Nat
    BY <1>1, CountMove, CountType
  <2>2. Size(freeList) >= 1
    BY <2>1 DEF SemaphoresCount, TypeOK, Size
  <2> QED
    BY <2>2 DEF Size
<1>3. /\ freeList' \in Seq(Nodes) /\ Len(freeList') = Len(freeList) - 1 /\ Len(freeList) \in Nat /\ Len(freeList) >= 1
      /\ \A i \in 1..Len(freeList) - 1 : freeList'[i] = freeList[i + 1]
      /\ node'[s] = freeList[1] /\ freeList[1] \in Nodes
  <2>1. node'[s] = HeadOrNone(freeList) /\ freeList' = RemoveFromListHead(freeList)
    BY DEF ClaimNode, TypeOK, Threads
  <2> QED
    BY <1>2, <2>1, ListStep DEF TypeOK
<1>4. pc[s] = "claimCrit" /\ \A u \in Threads : pc'[u] = IF u = s THEN "copy" ELSE pc[u]
  BY <1>1, <1>2 DEF TypeOK, Goto
<1>5. TypeOK'
  BY <1>3, <1>4, MsQueueAssumption DEF TypeOK, ClaimNode, Goto, Threads, SendStates, ReleaseLock, Nodes
<1>6. SemaphoresCount' /\ NodesConserved'
  <2>1. Goto(s, "claimCrit", "copy")
    BY <1>2 DEF ClaimNode
  <2>2. Balanced("claimCrit", "copy")
    BY <1>3 DEF ClaimNode, TypeOK, Balanced, Size, Change, Enters, Crit, Holding, ReleaseLock
  <2> QED
    BY <1>1, <1>5, <2>1, <2>2, CountsKept
<1>7. NodesExclusive'
  <2>1. /\ freeList' = RemoveFromListHead(freeList) /\ node' = [node EXCEPT ![s] = HeadOrNone(freeList)]
        /\ usedList' = usedList
    BY DEF ClaimNode
  <2>2. pc[s] \notin Holding /\ \A u \in Threads : u # s => pc'[u] = pc[u]
    BY <1>4 DEF Holding
  <2> QED
    BY <1>1, <1>2, <2>1, <2>2, NodeTaken
<1>8. MessagesOnTheirWay'
  <2>1. UNCHANGED <<usedList, nodeMsg, msg, sent, delivered>> /\ Delivered' = Delivered
    BY DEF ClaimNode, Delivered
  <2>2. \A u \in Threads : /\ pc'[u] \in Bringing <=> pc[u] \in Bringing
                           /\ u # s => node'[u] = node[u]
                           /\ pc'[u] \in Taking \/ pc'[u] \in {"sendLock", "sendCrit"} => pc'[u] = pc[u] /\ u # s
    BY <1>4 DEF Bringing, Taking, ClaimNode, TypeOK
  <2> QED
    BY <2>1, <2>2, OthersOnTheirWay DEF IInv
<1>9. DeliveredOnce'
  BY <1>1, <1>4, MsQueueAssumption DEF ClaimNode, DeliveredOnce, Threads
<1> QED
  BY <1>5, <1>6, <1>7, <1>8, <1>9

(***************************************************************************)
(* SendToQueue copies the message into its node.                           *)
(***************************************************************************)
LEMMA CopyInKeeps ==
  ASSUME NEW s \in Senders, IInv, CopyIn(s)
  PROVE  IInv'
<1> USE DEF IInv
<1>1. /\ s \in Threads /\ Goto(s, "copy", "sendLock") /\ pc[s] = "copy"
      /\ \A u \in Threads : pc'[u] = IF u = s THEN "sendLock" ELSE pc[u]
  BY DEF CopyIn, TypeOK, Goto, Threads
<1>2. UNCHANGED <<sems, freeList, usedList, node, msg, sent, delivered, lost>> /\ Delivered' = Delivered
  BY DEF CopyIn, Delivered
<1>3. /\ node[s] \in Nodes
      /\ \A i \in 1..Len(usedList) : usedList[i] # node[s]
      /\ \A u \in Threads : pc[u] \in Holding /\ node[u] = node[s] => u = s
  BY <1>1 DEF NodesExclusive, Holding
<1>4. /\ nodeMsg'[node[s]] = msg[s]
      /\ \A n \in Nodes : n # node[s] => nodeMsg'[n] = nodeMsg[n]
  BY <1>3 DEF CopyIn, TypeOK
<1>5. TypeOK'
  BY <1>1, <1>2, <1>3, MsQueueAssumption DEF TypeOK, CopyIn, sems, Goto, Threads, SendStates
<1>6. SemaphoresCount' /\ NodesConserved'
  <2>1. Balanced("copy", "sendLock")
    BY <1>2 DEF sems, TypeOK, Balanced, Size, Change, Enters, Crit, Holding
  <2> QED
    BY <1>1, <1>5, <2>1, CountsKept
<1>7. NodesExclusive'
  BY <1>1, <1>2 DEF NodesExclusive, Holding
<1>8. MessagesOnTheirWay'
  <2>1. \A i \in 1..Len(usedList) : nodeMsg'[usedList[i]] = nodeMsg[usedList[i]]
    BY <1>3, <1>4 DEF TypeOK
  <2>2. \A u \in Threads : u # s /\ pc[u] \in Holding => nodeMsg'[node[u]] = nodeMsg[node[u]]
    BY <1>3, <1>4 DEF NodesExclusive
  <2>3. \A u \in Threads : (pc'[u] \in Bringing <=> pc[u] \in Bringing) /\ (pc'[u] \in Taking => u # s /\ pc'[u] = pc[u])
    BY <1>1 DEF Bringing, Taking
  <2>4. \A q \in Senders : pc'[q] \in {"sendLock", "sendCrit"} =>
          nodeMsg'[node[q]] = msg[q] /\ msg[q] \notin Oversize
    <3>1. msg[s] \notin Oversize
      BY DEF CopyIn
    <3> QED
      BY <1>1, <1>4, <2>2, <3>1 DEF MessagesOnTheirWay, Threads, Holding
  <2>5. \A r \in Receivers : pc'[r] \in Taking => pc[r] = pc'[r] /\ pc[r] \in Taking /\ nodeMsg'[node[r]] = nodeMsg[node[r]]
    BY <2>2, <2>3 DEF Taking, Holding, Threads
  <2>6. \A r \in Receivers : pc'[r] \in Taking =>
          /\ nodeMsg'[node[r]] \in Delivered
          /\ \A q \in Receivers :
                pc'[q] \in Taking /\ nodeMsg'[node[q]] = nodeMsg'[node[r]] => q = r
          /\ pc'[r] # "take" => msg[r] = nodeMsg'[node[r]]
    BY <2>5 DEF MessagesOnTheirWay
  <2>7. \A i \in 1..Len(usedList) :
          /\ nodeMsg'[usedList[i]] \in (sent \ Delivered) \ Oversize
          /\ \A j \in 1..Len(usedList) :
                nodeMsg'[usedList[i]] = nodeMsg'[usedList[j]] => i = j
    BY <2>1 DEF MessagesOnTheirWay
  <2>8. \A q \in Senders : pc'[q] \in Bringing =>
          /\ msg[q] \in sent \ Delivered
          /\ \A u \in Senders : pc'[u] \in Bringing /\ msg[u] = msg[q] => u = q
          /\ \A i \in 1..Len(usedList) : nodeMsg'[usedList[i]] # msg[q]
    BY <2>1, <2>3 DEF MessagesOnTheirWay, Threads
  <2> QED
    BY <1>2, <2>4, <2>6, <2>7, <2>8 DEF MessagesOnTheirWay
<1>9. DeliveredOnce'
  BY <1>1, <1>2, MsQueueAssumption DEF DeliveredOnce, Threads
<1> QED
  BY <1>5, <1>6, <1>7, <1>8, <1>9

(***************************************************************************)
(* MsOS_RecvFromQueue is called.                                           *)
(***************************************************************************)
LEMMA RecvCallKeeps ==
  ASSUME NEW r \in Receivers, IInv, RecvCall(r)
  PROVE  IInv'
<1> USE DEF IInv
<1>1. /\ r \in Threads /\ Goto(r, "idle", "recv") /\ pc[r] = "idle"
      /\ \A u \in Threads : pc'[u] = IF u = r THEN "recv" ELSE pc[u]
  BY DEF RecvCall, TypeOK, Goto, Threads
<1>2. /\ UNCHANGED <<sems, freeList, usedList, nodeMsg, node, sent, delivered, lost>>
      /\ Delivered' = Delivered
  BY DEF RecvCall, Delivered
<1>3. \A u \in Threads : u # r => msg'[u] = msg[u]
  BY DEF RecvCall, TypeOK
<1>4. TypeOK'
  BY <1>1, <1>2, MsQueueAssumption DEF TypeOK, RecvCall, sems, Goto, Threads, RecvStates
<1>5. SemaphoresCount' /\ NodesConserved'
  <2>1. Balanced("idle", "recv")
    BY <1>2 DEF sems, TypeOK, Balanced, Size, Change, Enters, Crit, Holding
  <2> QED
    BY <1>1, <1>4, <2>1, CountsKept
<1>6. NodesExclusive'
  BY <1>1, <1>2 DEF NodesExclusive, Holding
<1>7. MessagesOnTheirWay'
  <2>1. \A q \in Senders : pc'[q] = pc[q] /\ msg'[q] = msg[q]
    BY <1>1, <1>3, MsQueueAssumption DEF Threads
  <2>2. \A q \in Receivers : pc'[q] \in Taking => pc'[q] = pc[q] /\ msg'[q] = msg[q]
    BY <1>1, <1>3 DEF Threads, Taking
  <2> QED
    BY <1>2, <2>1, <2>2 DEF MessagesOnTheirWay
<1>8. DeliveredOnce'
  <2>1. \A q \in Receivers : pc'[q] \in {"freeLock", "freeCrit", "freePost"} => pc'[q] = pc[q] /\ msg'[q] = msg[q]
    BY <1>1, <1>3 DEF Threads
  <2> QED
    BY <1>2, <2>1 DEF DeliveredOnce
<1> QED
  BY <1>4, <1>5, <1>6, <1>7, <1>8

(***************************************************************************)
(* RecvFromQueue copies the message out of its node.                       *)
(***************************************************************************)
LEMMA CopyOutKeeps ==
  ASSUME NEW r \in Receivers, IInv, CopyOut(r)
  PROVE  IInv'
<1> USE DEF IInv
<1>1. /\ r \in Threads /\ Goto(r, "take", "freeLock") /\ pc[r] = "take"
      /\ \A u \in Threads : pc'[u] = IF u = r THEN "freeLock" ELSE pc[u]
  BY DEF CopyOut, TypeOK, Goto, Threads
<1>2. /\ UNCHANGED <<sems, freeList, usedList, nodeMsg, node, sent, delivered, lost>>
      /\ Delivered' = Delivered
  BY DEF CopyOut, Delivered
<1>3. /\ \A u \in Threads : u # r => msg'[u] = msg[u]
      /\ msg'[r] = nodeMsg[node[r]]
  BY <1>1 DEF CopyOut, TypeOK
<1>4. node[r] \in Nodes
  BY <1>1 DEF NodesExclusive, Holding
<1>5. TypeOK'
  BY <1>1, <1>2, <1>4, MsQueueAssumption DEF TypeOK, CopyOut, sems, Goto, Threads, RecvStates
<1>6. SemaphoresCount' /\ NodesConserved'
  <2>1. Balanced("take", "freeLock")
    BY <1>2 DEF sems, TypeOK, Balanced, Size, Change, Enters, Crit, Holding
  <2> QED
    BY <1>1, <1>5, <2>1, CountsKept
<1>7. NodesExclusive'
  BY <1>1, <1>2 DEF NodesExclusive, Holding
<1>8. MessagesOnTheirWay'
  <2>1. \A q \in Senders : pc'[q] = pc[q] /\ msg'[q] = msg[q]
    BY <1>1, <1>3, MsQueueAssumption DEF Threads
  <2>2. \A q \in Receivers : /\ pc'[q] \in Taking <=> pc[q] \in Taking
                             /\ pc'[q] # "take" => (pc[q] # "take" /\ msg'[q] = msg[q]) \/ q = r
    BY <1>1, <1>3 DEF Threads, Taking
  <2>3. \A q \in Receivers : pc'[q] \in Taking =>
          /\ nodeMsg[node[q]] \in Delivered
          /\ \A u \in Receivers :
                pc'[u] \in Taking /\ nodeMsg[node[u]] = nodeMsg[node[q]] => u = q
          /\ pc'[q] # "take" => msg'[q] = nodeMsg[node[q]]
    <3> SUFFICES ASSUME NEW q \in Receivers, pc'[q] \in Taking
                 PROVE  /\ nodeMsg[node[q]] \in Delivered
                        /\ \A u \in Receivers :
                              pc'[u] \in Taking /\ nodeMsg[node[u]] = nodeMsg[node[q]] => u = q
                        /\ pc'[q] # "take" => msg'[q] = nodeMsg[node[q]]
      OBVIOUS
    <3>1. pc[q] \in Taking
      BY <2>2
    <3> QED
      BY <1>3, <2>2, <3>1 DEF MessagesOnTheirWay
  <2>4. /\ \A q \in Senders : pc'[q] \in Bringing =>
             /\ msg'[q] \in sent \ Delivered
             /\ \A u \in Senders : pc'[u] \in Bringing /\ msg'[u] = msg'[q] => u = q
             /\ \A i \in 1..Len(usedList) : nodeMsg[usedList[i]] # msg'[q]
        /\ \A q \in Senders : pc'[q] \in {"sendLock", "sendCrit"} =>
             nodeMsg[node[q]] = msg'[q] /\ msg'[q] \notin Oversize
    BY <2>1 DEF MessagesOnTheirWay
  <2> QED
    BY <1>2, <2>3, <2>4 DEF MessagesOnTheirWay
<1>9. DeliveredOnce'
  <2>1. nodeMsg[node[r]] \in Delivered
    BY <1>1 DEF MessagesOnTheirWay, Taking
  <2>2. PICK k \in 1..Len(delivered) : delivered[k] = msg'[r]
    BY <1>3, <2>1 DEF Delivered
  <2>3. \A q \in Receivers : q # r => pc'[q] = pc[q] /\ msg'[q] = msg[q]
    BY <1>1, <1>3 DEF Threads
  <2>4. \A q \in Receivers : q # r /\ pc[q] = "freeLock" => msg[q] # msg'[r]
    BY <1>1, <1>3 DEF MessagesOnTheirWay, Taking
  <2>5. \A q \in Receivers : pc'[q] \in {"freeLock", "freeCrit", "freePost"} =>
          \E i \in 1..Len(delivered) : delivered[i] = msg'[q]
    BY <2>2, <2>3 DEF DeliveredOnce
  <2>6. \A p, q \in Receivers : p # q /\ pc'[p] = "freeLock" /\ pc'[q] = "freeLock" => msg'[p] # msg'[q]
    BY <2>3, <2>4 DEF DeliveredOnce
  <2> QED
    BY <1>2, <2>5, <2>6 DEF DeliveredOnce
<1> QED
  BY <1>5, <1>6, <1>7, <1>8, <1>9

(***************************************************************************)
(* SendToQueue gives the node of an oversized message back.                *)
(***************************************************************************)
LEMMA GiveBackKeeps ==
  ASSUME NEW s \in Senders, IInv, GiveBack(s)
  PROVE  IInv'
<1> USE DEF IInv
<1>1. /\ s \in Threads /\ Goto(s, "giveCrit", "idle") /\ pc[s] = "giveCrit"
      /\ \A u \in Threads : pc'[u] = IF u = s THEN "idle" ELSE pc[u]
  BY DEF GiveBack, TypeOK, Goto, Threads
<1>2. /\ freeList' = AddToListTail(freeList, node[s]) /\ node' = [node EXCEPT ![s] = NoNode]
      /\ UNCHANGED <<usedList, nodeMsg, msg, sent, delivered>> /\ Delivered' = Delivered
  BY DEF GiveBack, Delivered
<1>3. node[s] \in Nodes
  BY <1>1 DEF NodesExclusive, Holding
<1>4. freeList' \in Seq(Nodes) /\ Len(freeList') = Len(freeList) + 1 /\ Len(freeList) \in Nat
  BY <1>2, <1>3, NodeAdded DEF TypeOK
<1>5. TypeOK'
  BY <1>1, <1>2, <1>4, MsQueueAssumption DEF TypeOK, GiveBack, Goto, Threads, SendStates, ReleaseLock, NoNode
<1>6. SemaphoresCount' /\ NodesConserved'
  <2>1. Balanced("giveCrit", "idle")
    BY <1>4 DEF GiveBack, TypeOK, Balanced, Size, Change, Enters, Crit, Holding, ReleaseLock
  <2> QED
    BY <1>1, <1>5, <2>1, CountsKept
<1>7. NodesExclusive'
  <2>1. pc[s] \in Holding /\ pc'[s] \notin Holding /\ \A u \in Threads : u # s => pc'[u] = pc[u]
    BY <1>1 DEF Holding
  <2> QED
    BY <1>1, <1>2, <2>1, NodePutDown
<1>8. MessagesOnTheirWay'
  <2>1. \A u \in Threads :
           /\ pc'[u] \in Bringing => pc[u] \in Bringing
           /\ pc'[u] \in Taking \/ pc'[u] \in {"sendLock", "sendCrit"} =>
                 pc'[u] = pc[u] /\ node'[u] = node[u]
    BY <1>1, <1>2 DEF TypeOK, Bringing, Taking
  <2> QED
    BY <1>2, <2>1, OthersOnTheirWay
<1>9. DeliveredOnce'
  <2>1. \A q \in Receivers : /\ pc'[q] \in {"freeLock", "freeCrit", "freePost"}
                                 => pc[q] \in {"freeLock", "freeCrit", "freePost"}
                             /\ pc'[q] = "freeLock" => pc[q] = "freeLock"
    BY <1>1, MsQueueAssumption DEF Threads
  <2> QED
    BY <1>2, <2>1 DEF DeliveredOnce
<1> QED
  BY <1>5, <1>6, <1>7, <1>8, <1>9

(***************************************************************************)
(* QueueFree puts the node back on the free list.                          *)
(***************************************************************************)
LEMMA QueueFreeKeeps ==
  ASSUME NEW r \in Receivers, IInv, QueueFree(r)
  PROVE  IInv'
<1> USE DEF IInv
<1>1. /\ r \in Threads /\ Goto(r, "freeCrit", "freePost") /\ pc[r] = "freeCrit"
      /\ \A u \in Threads : pc'[u] = IF u = r THEN "freePost" ELSE pc[u]
  BY DEF QueueFree, TypeOK, Goto, Threads
<1>2. /\ freeList' = AddToListTail(freeList, node[r]) /\ node' = [node EXCEPT ![r] = NoNode]
      /\ UNCHANGED <<usedList, nodeMsg, msg, sent, delivered>> /\ Delivered' = Delivered
  BY DEF QueueFree, Delivered
<1>3. node[r] \in Nodes
  BY <1>1 DEF NodesExclusive, Holding
<1>4. freeList' \in Seq(Nodes) /\ Len(freeList') = Len(freeList) + 1 /\ Len(freeList) \in Nat
  BY <1>2, <1>3, NodeAdded DEF TypeOK
<1>5. TypeOK'
  BY <1>1, <1>2, <1>4, MsQueueAssumption DEF TypeOK, QueueFree, Goto, Threads, RecvStates, ReleaseLock, NoNode
<1>6. SemaphoresCount' /\ NodesConserved'
  <2>1. Balanced("freeCrit", "freePost")
    BY <1>4 DEF QueueFree, TypeOK, Balanced, Size, Change, Enters, Crit, Holding, ReleaseLock
  <2> QED
    BY <1>1, <1>5, <2>1, CountsKept
<1>7. NodesExclusive'
  <2>1. pc[r] \in Holding /\ pc'[r] \notin Holding /\ \A u \in Threads : u # r => pc'[u] = pc[u]
    BY <1>1 DEF Holding
  <2> QED
    BY <1>1, <1>2, <2>1, NodePutDown
<1>8. MessagesOnTheirWay'
  <2>1. \A u \in Threads :
           /\ pc'[u] \in Bringing => pc[u] \in Bringing
           /\ pc'[u] \in Taking \/ pc'[u] \in {"sendLock", "sendCrit"} =>
                 pc'[u] = pc[u] /\ node'[u] = node[u]
    BY <1>1, <1>2 DEF TypeOK, Bringing, Taking
  <2> QED
    BY <1>2, <2>1, OthersOnTheirWay
<1>9. DeliveredOnce'
  <2>1. \A q \in Receivers : /\ pc'[q] \in {"freeLock", "freeCrit", "freePost"}
                                 => pc[q] \in {"freeLock", "freeCrit", "freePost"}
                             /\ pc'[q] = "freeLock" => pc[q] = "freeLock"
    BY <1>1, MsQueueAssumption DEF Threads
  <2> QED
    BY <1>2, <2>1 DEF DeliveredOnce
<1> QED
  BY <1>5, <1>6, <1>7, <1>8, <1>9

(***************************************************************************)
(* QueueSend links the node to the used list.                              *)
(***************************************************************************)
LEMMA QueueSendKeeps ==
  ASSUME NEW s \in Senders, IInv, QueueSend(s)
  PROVE  IInv'
<1> USE DEF IInv
<1>1. /\ s \in Threads /\ Goto(s, "sendCrit", "post") /\ pc[s] = "sendCrit"
      /\ \A u \in Threads : pc'[u] = IF u = s THEN "post" ELSE pc[u]
  BY DEF QueueSend, TypeOK, Goto, Threads
<1>2. /\ usedList' = AddToListTail(usedList, node[s]) /\ node' = [node EXCEPT ![s] = NoNode]
      /\ UNCHANGED <<freeList, nodeMsg, msg, sent, delivered>> /\ Delivered' = Delivered
  BY DEF QueueSend, Delivered
<1>3. node[s] \in Nodes
  BY <1>1 DEF NodesExclusive, Holding
<1>4. usedList' \in Seq(Nodes) /\ Len(usedList') = Len(usedList) + 1 /\ Len(usedList) \in Nat
  BY <1>2, <1>3, NodeAdded DEF TypeOK
<1>5. TypeOK'
  BY <1>1, <1>2, <1>4, MsQueueAssumption DEF TypeOK, QueueSend, Goto, Threads, SendStates, ReleaseLock, NoNode
<1>6. SemaphoresCount' /\ NodesConserved'
  <2>1. Balanced("sendCrit", "post")
    BY <1>4 DEF QueueSend, TypeOK, Balanced, Size, Change, Enters, Crit, Holding, ReleaseLock
  <2> QED
    BY <1>1, <1>5, <2>1, CountsKept
<1>7. NodesExclusive'
  <2>1. pc[s] \in Holding /\ pc'[s] \notin Holding /\ \A u \in Threads : u # s => pc'[u] = pc[u]
    BY <1>1 DEF Holding
  <2> QED
    BY <1>1, <1>2, <2>1, NodePutDown
<1>8. MessagesOnTheirWay'
  <2>1. /\ nodeMsg[node[s]] = msg[s] /\ msg[s] \notin Oversize /\ msg[s] \in sent \ Delivered
        /\ \A i \in 1..Len(usedList) : nodeMsg[usedList[i]] # msg[s]
        /\ \A q \in Senders : pc[q] \in Bringing /\ msg[q] = msg[s] => q = s
    BY <1>1 DEF MessagesOnTheirWay, Bringing
  <2>2. \A i \in 1..Len(usedList') : \/ i \in 1..Len(usedList) /\ usedList'[i] = usedList[i]
                                     \/ i = Len(usedList') /\ usedList'[i] = node[s]
    <3>1. /\ \A i \in 1..Len(usedList) : usedList'[i] = usedList[i]
          /\ usedList'[Len(usedList) + 1] = node[s]
      BY <1>2, <1>3, NodeAdded DEF TypeOK
    <3> QED
      BY <1>4, <3>1
  <2>3. \A q \in Senders : /\ pc'[q] \in Bringing => q # s /\ pc[q] \in Bringing
                           /\ pc'[q] \in {"sendLock", "sendCrit"} => q # s /\ pc'[q] = pc[q] /\ node'[q] = node[q]
    BY <1>1, <1>2 DEF Bringing, Threads, TypeOK
  <2>4. \A r \in Receivers : pc'[r] = pc[r] /\ node'[r] = node[r]
    BY <1>1, <1>2, MsQueueAssumption DEF Threads, TypeOK
  <2>5. \A q \in Senders : pc'[q] \in Bringing =>
          /\ msg[q] \in sent \ Delivered
          /\ \A u \in Senders : pc'[u] \in Bringing /\ msg[u] = msg[q] => u = q
          /\ \A i \in 1..Len(usedList') : nodeMsg[usedList'[i]] # msg[q]
    <3> SUFFICES ASSUME NEW q \in Senders, pc'[q] \in Bringing
                 PROVE  /\ msg[q] \in sent \ Delivered
                        /\ \A u \in Senders : pc'[u] \in Bringing /\ msg[u] = msg[q] => u = q
                        /\ \A i \in 1..Len(usedList') : nodeMsg[usedList'[i]] # msg[q]
      OBVIOUS
    <3>1. /\ msg[q] \in sent \ Delivered /\ msg[q] # msg[s]
          /\ \A i \in 1..Len(usedList) : nodeMsg[usedList[i]] # msg[q]
          /\ \A u \in Senders : pc[u] \in Bringing /\ msg[u] = msg[q] => u = q
      BY <2>1, <2>3 DEF MessagesOnTheirWay
    <3> QED
      BY <2>1, <2>2, <2>3, <3>1
  <2>6. \A q \in Senders : pc'[q] \in {"sendLock", "sendCrit"} =>
          nodeMsg[node'[q]] = msg[q] /\ msg[q] \notin Oversize
    BY <2>3 DEF MessagesOnTheirWay
  <2>7. \A i \in 1..Len(usedList') : nodeMsg[usedList'[i]] \in (sent \ Delivered) \ Oversize
    BY <2>1, <2>2 DEF MessagesOnTheirWay
  <2>8. \A i, j \in 1..Len(usedList') : nodeMsg[usedList'[i]] = nodeMsg[usedList'[j]] => i = j
    <3>1. \A i, j \in 1..Len(usedList) : nodeMsg[usedList[i]] = nodeMsg[usedList[j]] => i = j
      BY DEF MessagesOnTheirWay
    <3> QED
      BY <2>1, <2>2, <3>1
  <2> QED
    BY <1>2, <2>4, <2>5, <2>6, <2>7, <2>8 DEF MessagesOnTheirWay
<1>9. DeliveredOnce'
  <2>1. \A r \in Receivers : pc'[r] = pc[r]
    BY <1>1, MsQueueAssumption DEF Threads
  <2> QED
    BY <1>2, <2>1 DEF DeliveredOnce
<1> QED
  BY <1>5, <1>6, <1>7, <1>8, <1>9

(***************************************************************************)
(* A receiver that obtained recvSemaphore finds a message.                 *)
(***************************************************************************)
LEMMA MessageThere ==
  ASSUME IInv, NEW r \in Threads, NEW b, Goto(r, "recvCrit", b)
  PROVE  usedList # <<>>
<1>1. /\ Count({"recvLock", "recvCrit"}) >= 1 /\ Count({"recvLock", "recvCrit"}) \in Nat
      /\ Count({"post"}) \in Nat
  BY CountMove, CountType DEF IInv
<1>2. Size(usedList) = recvSemaphore + Count({"recvLock", "recvCrit"}) + Count({"post"})
  BY DEF IInv, SemaphoresCount, Size
<1>3. recvSemaphore \in Nat
  BY DEF IInv, TypeOK
<1>4. Size(usedList) >= 1
  BY <1>1, <1>2, <1>3
<1> QED
  BY <1>4 DEF Size

(***************************************************************************)
(* QueueRecv takes the head of the used list: a message is delivered.      *)
(***************************************************************************)
LEMMA QueueRecvKeeps ==
  ASSUME NEW r \in Receivers, IInv, QueueRecv(r)
  PROVE  IInv'
<1> USE DEF IInv
<1>1. r \in Threads /\ Goto(r, "recvCrit", IF usedList = <<>> THEN "idle" ELSE "take")
  BY DEF QueueRecv, Threads
<1>2. usedList # <<>>
  BY <1>1, MessageThere
<1>3. /\ usedList' = RemoveFromListHead(usedList) /\ node' = [node EXCEPT ![r] = HeadOrNone(usedList)]
      /\ UNCHANGED <<freeList, nodeMsg, msg, sent>>
  BY DEF QueueRecv
<1>4. /\ usedList' \in Seq(Nodes) /\ Len(usedList) \in Nat /\ Len(usedList') = Len(usedList) - 1
      /\ 1 \in 1..Len(usedList) /\ usedList[1] \in Nodes /\ Head(usedList) = usedList[1]
      /\ HeadOrNone(usedList) = usedList[1]
      /\ \A i \in 1..Len(usedList') :
            i + 1 \in 1..Len(usedList) /\ i + 1 # 1 /\ usedList'[i] = usedList[i + 1]
  <2>1. Distinct(usedList)
    BY NodesExclusiveSaid DEF Exclusive
  <2> QED
    BY <1>2, <1>3, <2>1, HeadUnlinked DEF TypeOK
<1>5. pc[r] = "recvCrit" /\ \A u \in Threads : pc'[u] = IF u = r THEN "take" ELSE pc[u]
  BY <1>1, <1>2 DEF TypeOK, Goto
<1>6. node'[r] = usedList[1] /\ \A u \in Threads : u # r => node'[u] = node[u]
  BY <1>1, <1>3, <1>4 DEF TypeOK
<1> DEFINE m == nodeMsg[usedList[1]]
<1>7. /\ m \in (sent \ Delivered) \ Oversize
      /\ \A i \in 1..Len(usedList) : nodeMsg[usedList[i]] = m => i = 1
  BY <1>4 DEF MessagesOnTheirWay
<1>8. delivered' = Append(delivered, m)
  BY <1>2, <1>4 DEF QueueRecv
<1>9. /\ delivered' \in Seq(Msgs \cup {NoMsg}) /\ Len(delivered) \in Nat
      /\ Len(delivered') = Len(delivered) + 1
      /\ delivered'[Len(delivered')] = m
      /\ \A i \in 1..Len(delivered) : delivered'[i] = delivered[i]
  BY <1>7, <1>8 DEF TypeOK
<1>10. \A i \in 1..Len(delivered') : \/ i \in 1..Len(delivered) /\ delivered'[i] = delivered[i]
                                     \/ i = Len(delivered') /\ delivered'[i] = m
  BY <1>9
<1>11. Delivered' = Delivered \cup {m}
  <2>1. Len(delivered') \in 1..Len(delivered') /\ 1..Len(delivered) \subseteq 1..Len(delivered')
    BY <1>9
  <2> QED
    BY <1>9, <1>10, <2>1 DEF Delivered
<1> HIDE DEF m
<1>12. TypeOK'
  BY <1>1, <1>3, <1>4, <1>5, <1>9, MsQueueAssumption DEF TypeOK, QueueRecv, Goto, Threads, RecvStates, ReleaseLock
<1>13. SemaphoresCount' /\ NodesConserved'
  <2>1. Goto(r, "recvCrit", "take")
    BY <1>2 DEF QueueRecv
  <2>2. Balanced("recvCrit", "take")
    BY <1>4 DEF QueueRecv, TypeOK, Balanced, Size, Change, Enters, Crit, Holding, ReleaseLock
  <2> QED
    BY <1>1, <1>12, <2>1, <2>2, CountsKept
<1>14. NodesExclusive'
  <2>1. pc[r] \notin Holding /\ \A u \in Threads : u # r => pc'[u] = pc[u]
    BY <1>5 DEF Holding
  <2> QED
    BY <1>1, <1>2, <1>3, <2>1, NodeTaken
<1>15. MessagesOnTheirWay'
  <2>1. \A q \in Senders : q # r /\ pc'[q] = pc[q] /\ node'[q] = node[q]
    BY <1>5, <1>6, MsQueueAssumption DEF Threads
  <2>2. \A q \in Receivers : q # r => pc'[q] = pc[q] /\ node'[q] = node[q]
    BY <1>5, <1>6 DEF Threads
  <2>3. \A q \in Senders : pc'[q] \in Bringing =>
          /\ msg[q] \in sent \ Delivered'
          /\ \A u \in Senders : pc'[u] \in Bringing /\ msg[u] = msg[q] => u = q
          /\ \A i \in 1..Len(usedList') : nodeMsg[usedList'[i]] # msg[q]
    <3> SUFFICES ASSUME NEW q \in Senders, pc'[q] \in Bringing
                 PROVE  /\ msg[q] \in sent \ Delivered'
                        /\ \A u \in Senders : pc'[u] \in Bringing /\ msg[u] = msg[q] => u = q
                        /\ \A i \in 1..Len(usedList') : nodeMsg[usedList'[i]] # msg[q]
      OBVIOUS
    <3>1. /\ msg[q] \in sent \ Delivered
          /\ \A u \in Senders : pc[u] \in Bringing /\ msg[u] = msg[q] => u = q
          /\ \A i \in 1..Len(usedList) : nodeMsg[usedList[i]] # msg[q]
      BY <2>1 DEF MessagesOnTheirWay
    <3>2. m # msg[q]
      BY <1>4, <3>1 DEF m
    <3> QED
      BY <1>4, <1>11, <2>1, <3>1, <3>2
  <2>4. \A q \in Senders : pc'[q] \in {"sendLock", "sendCrit"} =>
          nodeMsg[node'[q]] = msg[q] /\ msg[q] \notin Oversize
    BY <2>1 DEF MessagesOnTheirWay
  <2>5. \A i \in 1..Len(usedList') : nodeMsg[usedList'[i]] \in (sent \ Delivered') \ Oversize
    <3>1. \A i \in 1..Len(usedList) : nodeMsg[usedList[i]] \in (sent \ Delivered) \ Oversize
      BY DEF MessagesOnTheirWay
    <3> QED
      BY <1>4, <1>7, <1>11, <3>1
  <2>6. ASSUME NEW i \in 1..Len(usedList'), NEW j \in 1..Len(usedList'),
               nodeMsg[usedList'[i]] = nodeMsg[usedList'[j]]
        PROVE  i = j
    <3>1. nodeMsg[usedList[i + 1]] = nodeMsg[usedList[j + 1]] /\ i + 1 \in 1..Len(usedList) /\ j + 1 \in 1..Len(usedList)
      BY <1>4, <2>6
    <3>2. i + 1 = j + 1
      BY <3>1 DEF MessagesOnTheirWay
    <3> QED
      BY <1>4, <3>2
  <2>7. \A q \in Receivers : q # r /\ pc'[q] \in Taking =>
          /\ nodeMsg[node[q]] \in Delivered /\ nodeMsg[node[q]] # m
          /\ \A u \in Receivers :
                pc[u] \in Taking /\ nodeMsg[node[u]] = nodeMsg[node[q]] => u = q
          /\ pc[q] # "take" => msg[q] = nodeMsg[node[q]]
    BY <1>7, <2>2 DEF MessagesOnTheirWay
  <2>8. pc'[r] = "take" /\ nodeMsg[node'[r]] = m
    BY <1>1, <1>5, <1>6 DEF m
  <2>9. ASSUME NEW q \in Receivers, pc'[q] \in Taking
        PROVE  /\ nodeMsg[node'[q]] \in Delivered'
               /\ \A u \in Receivers :
                     pc'[u] \in Taking /\ nodeMsg[node'[u]] = nodeMsg[node'[q]] => u = q
               /\ pc'[q] # "take" => msg[q] = nodeMsg[node'[q]]
    <3>1. CASE q = r
      BY <1>11, <2>2, <2>7, <2>8, <3>1
    <3>2. CASE q # r
      <4>1. nodeMsg[node'[q]] \in Delivered' /\ (pc'[q] # "take" => msg[q] = nodeMsg[node'[q]])
        BY <1>11, <2>2, <2>7, <2>9, <3>2
      <4>2. \A u \in Receivers : pc'[u] \in Taking /\ nodeMsg[node'[u]] = nodeMsg[node'[q]] => u = q
        BY <2>2, <2>7, <2>8, <2>9, <3>2
      <4> QED
        BY <4>1, <4>2
    <3> QED
      BY <3>1, <3>2
  <2> QED
    BY <1>3, <2>3, <2>4, <2>5, <2>6, <2>9 DEF MessagesOnTheirWay
<1>16. DeliveredOnce'
  <2>1. \A i \in 1..Len(delivered) : delivered[i] # m
    BY <1>7 DEF Delivered
  <2>2. \A i, j \in 1..Len(delivered') : delivered'[i] = delivered'[j] => i = j
    <3>1. \A i, j \in 1..Len(delivered) : delivered[i] = delivered[j] => i = j
      BY DEF DeliveredOnce
    <3> QED
      BY <1>10, <2>1, <3>1
  <2>3. \A i \in 1..Len(delivered') : delivered'[i] \in sent \ Oversize
    BY <1>7, <1>10 DEF DeliveredOnce
  <2>4. \A q \in Receivers : /\ pc'[q] \in {"freeLock", "freeCrit", "freePost"} => pc[q] = pc'[q]
                             /\ pc'[q] = "freeLock" => pc[q] = "freeLock"
    BY <1>5 DEF Threads
  <2>5. \A q \in Receivers : pc'[q] \in {"freeLock", "freeCrit", "freePost"} =>
          \E i \in 1..Len(delivered') : delivered'[i] = msg[q]
    <3>1. 1..Len(delivered) \subseteq 1..Len(delivered')
      BY <1>9
    <3> QED
      BY <1>9, <2>4, <3>1 DEF DeliveredOnce
  <2> QED
    BY <1>3, <2>2, <2>3, <2>4, <2>5 DEF DeliveredOnce
<1> QED
  BY <1>12, <1>13, <1>14, <1>15, <1>16

(***************************************************************************)
(* A queue as MsOS_CreateQueue leaves it.                                  *)
(***************************************************************************)
LEMMA InitIInv == Init => IInv
<1> SUFFICES ASSUME Init PROVE IInv
  OBVIOUS
<1> USE DEF Init
<1>1. /\ freeList \in Seq(Nodes) /\ Len(freeList) = maxNumOfMsgs
      /\ \A i \in 1..Len(freeList) : freeList[i] = i
  BY MsQueueAssumption DEF Nodes
<1>2. TypeOK
  BY <1>1, MsQueueAssumption DEF TypeOK, NoNode, NoMsg, SendStates, RecvStates, Threads
<1>3. \A S : "idle" \notin S => Count(S) = 0
  BY FS_EmptySet DEF Count, At
<1>4. SemaphoresCount
  <2>1. /\ Count(Crit) = 0 /\ Count({"claimLock", "claimCrit"}) = 0 /\ Count({"freePost"}) = 0
        /\ Count({"recvLock", "recvCrit"}) = 0 /\ Count({"post"}) = 0
    BY <1>3 DEF Crit
  <2> QED
    BY <1>1, <2>1, MsQueueAssumption DEF SemaphoresCount
<1>5. NodesConserved
  <2>1. Count(Holding) = 0
    BY <1>3 DEF Holding
  <2> QED
    BY <1>1, <2>1, MsQueueAssumption DEF NodesConserved
<1>6. NodesExclusive
  <2>1. \A i, j \in 1..Len(freeList) : freeList[i] = freeList[j] => i = j
    BY <1>1
  <2>2. 1..Len(usedList) = {} /\ \A t \in Threads : pc[t] \notin Holding
    BY DEF Holding
  <2> HIDE DEF Init
  <2> QED
    BY <2>1, <2>2 DEF NodesExclusive
<1>7. MessagesOnTheirWay
  BY DEF MessagesOnTheirWay, Bringing, Taking, Threads
<1>8. DeliveredOnce
  BY DEF DeliveredOnce, Threads
<1> QED
  BY <1>2, <1>4, <1>5, <1>6, <1>7, <1>8 DEF IInv

(***************************************************************************)
(* Every step keeps the invariant.                                         *)
(***************************************************************************)
LEMMA NextIInv == IInv /\ [Next]_vars => IInv'
<1> SUFFICES ASSUME IInv, [Next]_vars PROVE IInv'
  OBVIOUS
<1>1. ASSUME NEW s \in Senders, SendCall(s) \/ ClaimTimeout(s) \/ Sending(s)
      PROVE  IInv'
  <2>1. s \in Threads
    BY DEF Threads
  <2>2. CASE SendCall(s) \/ ClaimTimeout(s)
    BY <2>2, SendCallKeeps, ClaimTimeoutKeeps
  <2>3. CASE ClaimSlot(s) \/ ClaimNode(s) \/ CopyIn(s) \/ CopyRefused(s)
    BY <2>3, ClaimSlotKeeps, ClaimNodeKeeps, CopyInKeeps, CopyRefusedKeeps
  <2>4. CASE QueueSend(s) \/ PostRecv(s) \/ GiveBack(s)
    BY <2>4, QueueSendKeeps, PostRecvKeeps, GiveBackKeeps
  <2>5. CASE ObtainLock(s, "claimLock", "claimCrit")
    BY <2>1, <2>5, ObtainLockKeeps
  <2>6. CASE ObtainLock(s, "sendLock", "sendCrit")
    BY <2>1, <2>6, ObtainLockKeeps
  <2>7. CASE ObtainLock(s, "giveLock", "giveCrit")
    BY <2>1, <2>7, ObtainLockKeeps
  <2> QED
    BY <1>1, <2>2, <2>3, <2>4, <2>5, <2>6, <2>7 DEF Sending
<1>2. ASSUME NEW r \in Receivers, RecvCall(r) \/ RecvTimeout(r) \/ Receiving(r)
      PROVE  IInv'
  <2>1. r \in Threads
    BY DEF Threads
  <2>2. CASE RecvCall(r) \/ RecvTimeout(r)
    BY <2>2, RecvCallKeeps, RecvTimeoutKeeps
  <2>3. CASE RecvSlot(r) \/ QueueRecv(r) \/ CopyOut(r)
    BY <2>3, RecvSlotKeeps, QueueRecvKeeps, CopyOutKeeps
  <2>4. CASE QueueFree(r) \/ PostSend(r)
    BY <2>4, QueueFreeKeeps, PostSendKeeps
  <2>5. CASE ObtainLock(r, "recvLock", "recvCrit")
    BY <2>1, <2>5, ObtainLockKeeps
  <2>6. CASE ObtainLock(r, "freeLock", "freeCrit")
    BY <2>1, <2>6, ObtainLockKeeps
  <2> QED
    BY <1>2, <2>2, <2>3, <2>4, <2>5, <2>6 DEF Receiving
<1>3. CASE UNCHANGED vars
  <2>1. /\ UNCHANGED <<lockSemaphore, sendSemaphore, recvSemaphore, freeList, usedList, nodeMsg>>
        /\ UNCHANGED <<pc, node, msg, sent, delivered, lost>>
    BY <1>3 DEF vars
  <2>2. \A S : Count(S)' = Count(S)
    BY <2>1 DEF Count, At
  <2>3. TypeOK' /\ NodesExclusive'
    BY <2>1 DEF IInv, TypeOK, NodesExclusive
  <2>4. SemaphoresCount' /\ NodesConserved'
    BY <2>1, <2>2 DEF IInv, SemaphoresCount, NodesConserved
  <2>5. MessagesOnTheirWay' /\ DeliveredOnce'
    BY <2>1 DEF IInv, MessagesOnTheirWay, Delivered, DeliveredOnce
  <2> QED
    BY <2>3, <2>4, <2>5 DEF IInv
<1> QED
  BY <1>1, <1>2, <1>3 DEF Next

(***************************************************************************)
(* Semaphores, nodes and messages agree in every state that calls of       *)
(* MsOS_SendToQueue and MsOS_RecvFromQueue can reach.                      *)
(***************************************************************************)
THEOREM Inductive == Spec => []IInv
BY InitIInv, NextIInv, PTL DEF Spec

(***************************************************************************)
(* lockSemaphore is a mutex and the counting semaphores agree with the     *)
(* lists, so QueueClaim never finds the free list empty and QueueRecv      *)
(* never the used list, whatever the other threads do in between.          *)
(***************************************************************************)
THEOREM QueueSemaphores == Spec => []SemaphoresCount
<1>1. IInv => SemaphoresCount
  BY DEF IInv
<1> QED
  BY <1>1, Inductive, PTL

(***************************************************************************)
(* No node is on two lists or with two threads, and no message is          *)
(* delivered twice, before it was sent, or changed on the way: filling and *)
(* emptying a node outside of the lock is safe.                            *)
(***************************************************************************)
THEOREM QueueMessages == Spec => []MessagesIntact
<1>1. IInv => MessagesIntact
  BY DEF IInv, MessagesIntact
<1> QED
  BY <1>1, Inductive, PTL

(***************************************************************************)
(* The contents of the queue.                                              *)
(***************************************************************************)
LEMMA ContentsSeq ==
  ASSUME IInv
  PROVE  /\ Contents \in Seq(Msgs) /\ Len(Contents) = Len(usedList) /\ Len(usedList) \in Nat
         /\ \A i \in 1..Len(usedList) : Contents[i] = nodeMsg[usedList[i]]
<1>1. Len(usedList) \in Nat
  BY DEF IInv, TypeOK
<1>2. \A i \in 1..Len(usedList) : nodeMsg[usedList[i]] \in Msgs
  BY DEF IInv, MessagesOnTheirWay, TypeOK
<1> QED
  BY <1>1, <1>2 DEF Contents

(***************************************************************************)
(* A step of the queue puts, takes or leaves the contents as they are.     *)
(***************************************************************************)
LEMMA StepRefines == IInv /\ IInv' /\ [Next]_vars => [Fifo!Next]_<<Contents, delivered>>
<1> SUFFICES ASSUME IInv, IInv', [Next]_vars PROVE [Fifo!Next]_<<Contents, delivered>>
  OBVIOUS
<1>1. /\ Contents \in Seq(Msgs) /\ Len(Contents) = Len(usedList) /\ Len(usedList) \in Nat
      /\ \A i \in 1..Len(usedList) : Contents[i] = nodeMsg[usedList[i]]
  BY ContentsSeq
<1>2. /\ Contents' \in Seq(Msgs) /\ Len(Contents') = Len(usedList') /\ Len(usedList') \in Nat
      /\ \A i \in 1..Len(usedList') : Contents'[i] = nodeMsg'[usedList'[i]]
  <2>1. Len(usedList') \in Nat
    BY DEF IInv, TypeOK
  <2>2. \A i \in 1..Len(usedList') : nodeMsg'[usedList'[i]] \in Msgs
    BY DEF IInv, MessagesOnTheirWay, TypeOK
  <2> QED
    BY <2>1, <2>2 DEF Contents
<1>3. CASE UNCHANGED <<usedList, nodeMsg, delivered>>
  BY <1>3 DEF Contents
<1>4. ASSUME NEW s \in Senders, CopyIn(s)
      PROVE  UNCHANGED <<Contents, delivered>>
  <2>1. /\ UNCHANGED <<usedList, delivered>> /\ nodeMsg' = [nodeMsg EXCEPT ![node[s]] = msg[s]]
        /\ s \in Threads /\ pc[s] = "copy"
    BY <1>4 DEF CopyIn, Goto, Threads
  <2>2. \A i \in 1..Len(usedList) : usedList[i] # node[s]
    BY <2>1 DEF IInv, NodesExclusive, Holding
  <2>3. \A i \in 1..Len(usedList) : nodeMsg'[usedList[i]] = nodeMsg[usedList[i]]
    BY <2>1, <2>2 DEF IInv, TypeOK
  <2> QED
    BY <2>1, <2>3 DEF Contents
<1>5. ASSUME NEW s \in Senders, QueueSend(s)
      PROVE  Fifo!Put
  <2>1. /\ usedList' = AddToListTail(usedList, node[s]) /\ UNCHANGED <<nodeMsg, delivered>>
        /\ s \in Threads /\ pc[s] = "sendCrit" /\ Goto(s, "sendCrit", "post")
    BY <1>5 DEF QueueSend, Goto, Threads
  <2>2. node[s] \in Nodes /\ nodeMsg[node[s]] = msg[s] /\ msg[s] \in Msgs
    BY <2>1 DEF IInv, NodesExclusive, Holding, MessagesOnTheirWay, Bringing, TypeOK
  <2>3. Len(Contents) < maxNumOfMsgs
    <3>1. Count(Holding) \in Nat /\ Count(Holding) >= 1
      BY <2>1, CountMove DEF IInv, Holding
    <3>2. Size(freeList) + Size(usedList) + Count(Holding) = maxNumOfMsgs
      BY DEF IInv, NodesConserved, Size
    <3>3. Size(freeList) \in Nat /\ Size(usedList) \in Nat
      BY DEF IInv, TypeOK, Size
    <3>4. Size(usedList) < maxNumOfMsgs
      BY <3>1, <3>2, <3>3, MsQueueAssumption
    <3> QED
      BY <1>1, <3>4 DEF Size
  <2>4. /\ Len(usedList') = Len(usedList) + 1 /\ usedList'[Len(usedList) + 1] = node[s]
        /\ \A i \in 1..Len(usedList) : usedList'[i] = usedList[i]
    BY <2>1, <2>2, NodeAdded DEF IInv, TypeOK
  <2>5. Contents' = Append(Contents, msg[s])
    <3> DEFINE a == Append(Contents, msg[s])
    <3>1. /\ a \in Seq(Msgs) /\ Len(a) = Len(usedList) + 1 /\ a[Len(usedList) + 1] = msg[s]
          /\ \A i \in 1..Len(usedList) : a[i] = Contents[i]
      BY <1>1, <2>2
    <3> HIDE DEF a
    <3>2. \A i \in 1..Len(usedList') : \/ i \in 1..Len(usedList)
                                       \/ i = Len(usedList) + 1
      BY <1>1, <2>4
    <3>3. \A i \in 1..Len(usedList') : Contents'[i] = a[i]
      BY <1>1, <1>2, <2>1, <2>2, <2>4, <3>1, <3>2
    <3>4. Contents' = a
      BY <1>2, <2>4, <3>1, <3>3, SeqEqual
    <3> QED
      BY <3>4 DEF a
  <2> QED
    BY <2>1, <2>2, <2>3, <2>5 DEF Fifo!Put
<1>6. ASSUME NEW r \in Receivers, QueueRecv(r)
      PROVE  Fifo!Take
  <2>1. /\ r \in Threads /\ Goto(r, "recvCrit", IF usedList = <<>> THEN "idle" ELSE "take")
        /\ nodeMsg' = nodeMsg /\ usedList' = RemoveFromListHead(usedList)
    BY <1>6 DEF QueueRecv, Threads
  <2>2. usedList # <<>>
    BY <2>1, MessageThere
  <2>3. /\ Len(usedList') = Len(usedList) - 1 /\ Head(usedList) = usedList[1] /\ 1 \in 1..Len(usedList)
        /\ \A i \in 1..Len(usedList') : i + 1 \in 1..Len(usedList) /\ usedList'[i] = usedList[i + 1]
    <3>1. Distinct(usedList)
      BY NodesExclusiveSaid DEF IInv, Exclusive
    <3> QED
      BY <2>1, <2>2, <3>1, HeadUnlinked DEF IInv, TypeOK
  <2>4. Contents # <<>> /\ Head(Contents) = nodeMsg[Head(usedList)]
    BY <1>1, <2>3
  <2>5. delivered' = Append(delivered, Head(Contents))
    BY <1>6, <2>2, <2>4 DEF QueueRecv
  <2>6. Contents' = Tail(Contents)
    <3>1. /\ Tail(Contents) \in Seq(Msgs) /\ Len(Tail(Contents)) = Len(Contents) - 1
          /\ \A i \in 1..Len(Tail(Contents)) : Tail(Contents)[i] = Contents[i + 1]
      BY <1>1, <2>4, HeadTailProperties
    <3>2. Len(Contents') = Len(Tail(Contents)) /\ Len(Contents') = Len(usedList')
      BY <1>1, <1>2, <2>3, <3>1
    <3>3. \A i \in 1..Len(usedList') : Contents'[i] = Tail(Contents)[i]
      BY <1>1, <1>2, <2>1, <2>3, <3>1, <3>2
    <3> QED
      BY <1>2, <3>1, <3>2, <3>3, SeqEqual
  <2> QED
    BY <2>4, <2>5, <2>6 DEF Fifo!Take
<1>7. ASSUME NEW s \in Senders, SendCall(s) \/ ClaimTimeout(s) \/ Sending(s), ~QueueSend(s), ~CopyIn(s)
      PROVE  UNCHANGED <<usedList, nodeMsg, delivered>>
  BY <1>7 DEF SendCall, ClaimTimeout, Sending, ClaimSlot, ObtainLock, ClaimNode, CopyRefused,
              PostRecv, GiveBack
<1>8. ASSUME NEW r \in Receivers, RecvCall(r) \/ RecvTimeout(r) \/ Receiving(r), ~QueueRecv(r)
      PROVE  UNCHANGED <<usedList, nodeMsg, delivered>>
  BY <1>8 DEF RecvCall, RecvTimeout, Receiving, RecvSlot, ObtainLock, CopyOut, QueueFree, PostSend
<1>9. CASE UNCHANGED vars
  BY <1>3, <1>9 DEF vars
<1> QED
  BY <1>3, <1>4, <1>5, <1>6, <1>7, <1>8, <1>9 DEF Next, Fifo!Next

(***************************************************************************)
(* To its users the queue is a FIFO of at most maxNumOfMsgs messages: what *)
(* QueueSend links is what QueueRecv unlinks, in that order, whatever is   *)
(* copied into and out of the nodes outside of the lock.                   *)
(***************************************************************************)
THEOREM QueueIsFifo == Spec => ImplementsFifo
<1>1. Init => Fifo!Init
  BY DEF Init, Fifo!Init, Contents
<1>2. IInv /\ IInv' /\ [Next]_vars => [Fifo!Next]_<<Contents, delivered>>
  BY StepRefines
<1> QED
  BY <1>1, <1>2, Inductive, PTL DEF Spec, ImplementsFifo, Fifo!Spec

=============================================================================
