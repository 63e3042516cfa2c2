------------------------------ MODULE MsQueue ------------------------------
(***************************************************************************)
(* The message queue of pgos/MsOS_queue.c: a pool of maxNumOfMsgs nodes in *)
(* two lists (free and used) guarded by lockSemaphore, with sendSemaphore  *)
(* counting the slots a sender may claim and recvSemaphore the messages a  *)
(* receiver may take.  The lists are touched only between the obtain and   *)
(* the release of lockSemaphore; the counting semaphores are obtained and  *)
(* released outside of it, so a slot or a message is in flight between the *)
(* two, and that is where threads interleave.                              *)
(*                                                                         *)
(* A message is a number; Oversize are those longer than maxSizeOfMsg.     *)
(***************************************************************************)
EXTENDS Naturals, Sequences, FiniteSets

CONSTANTS Senders, Receivers,  \* threads that call SendToQueue, RecvFromQueue
          Timed,               \* the threads that pass a finite u32WaitMs
          maxNumOfMsgs,        \* the queue's depth
          Msgs,                \* messages that may be sent, each once
          Oversize             \* the messages longer than maxSizeOfMsg

Threads == Senders \cup Receivers
Nodes == 1..maxNumOfMsgs
NoNode == 0
NoMsg == 0

ASSUME MsQueueAssumption ==
    /\ maxNumOfMsgs \in Nat \ {0}
    /\ IsFiniteSet(Senders)
    /\ IsFiniteSet(Receivers)
    /\ Senders \cap Receivers = {}
    /\ Msgs \subseteq Nat \ {0}
    /\ Oversize \subseteq Msgs

VARIABLES
    lockSemaphore, sendSemaphore, recvSemaphore,
    freeList, usedList,   \* pFreeHead and pUsedHead, as sequences of nodes
    nodeMsg,              \* the message stored in each node
    pc,                   \* where each thread is
    node,                 \* the node each thread holds (pNode)
    msg,                  \* the message each thread sends or has received
    sent,                 \* the messages senders have started to send
    delivered,            \* messages removed from the used list, in order
    lost                  \* slots given back without a sendSemaphore release

sems == <<lockSemaphore, sendSemaphore, recvSemaphore>>
vars == <<lockSemaphore, sendSemaphore, recvSemaphore, freeList, usedList,
          nodeMsg, pc, node, msg, sent, delivered, lost>>

SendStates == {"claim", "claimLock", "claimCrit", "copy", "sendLock",
               "sendCrit", "post", "giveLock", "giveCrit"}
RecvStates == {"recv", "recvLock", "recvCrit", "take", "freeLock",
               "freeCrit", "freePost"}
Crit == {"claimCrit", "sendCrit", "giveCrit", "recvCrit", "freeCrit"}

Goto(t, a, b) == pc[t] = a /\ pc' = [pc EXCEPT ![t] = b]

(***************************************************************************)
(* MsOS_ObtainSemaphore on lockSemaphore, waiting forever; and             *)
(* MsOS_ReleaseSemaphore.                                                  *)
(***************************************************************************)
ObtainLock(t, a, b) ==
    /\ lockSemaphore > 0
    /\ Goto(t, a, b)
    /\ lockSemaphore' = lockSemaphore - 1
    /\ UNCHANGED <<sendSemaphore, recvSemaphore, freeList, usedList, nodeMsg,
                   node, msg, sent, delivered, lost>>

ReleaseLock == lockSemaphore' = lockSemaphore + 1

(***************************************************************************)
(* _AddToListTail and _RemoveFromListHead                                  *)
(***************************************************************************)
\* Mutated form: the node is linked in front of the head.
AddToListHead(list, n) == <<n>> \o list

AddToListTail(list, n) == Append(list, n)

HeadOrNone(list) == IF list = <<>> THEN NoNode ELSE Head(list)

\* Mutated form: the head is returned but stays on its list.
PeekListHead(list) == list

RemoveFromListHead(list) == IF list = <<>> THEN <<>> ELSE Tail(list)

-----------------------------------------------------------------------------

\* MsOS_CreateQueue: every node on the free list, all slots available.
Init ==
    /\ lockSemaphore = 1
    /\ sendSemaphore = maxNumOfMsgs
    /\ recvSemaphore = 0
    /\ freeList = [i \in 1..maxNumOfMsgs |-> i]
    /\ usedList = <<>>
    /\ nodeMsg = [n \in Nodes |-> NoMsg]
    /\ pc = [t \in Threads |-> "idle"]
    /\ node = [t \in Threads |-> NoNode]
    /\ msg = [t \in Threads |-> NoMsg]
    /\ sent = {}
    /\ delivered = <<>>
    /\ lost = 0

(***************************************************************************)
(* MsOS_SendToQueue: QueueClaim, the copy into the node, QueueSend         *)
(***************************************************************************)
SendCall(s) ==
    /\ Goto(s, "idle", "claim")
    /\ \E m \in Msgs \ sent : /\ msg' = [msg EXCEPT ![s] = m]
                              /\ sent' = sent \cup {m}
    /\ UNCHANGED <<sems, freeList, usedList, nodeMsg, node, delivered, lost>>

ClaimSlot(s) ==
    /\ sendSemaphore > 0
    /\ Goto(s, "claim", "claimLock")
    /\ sendSemaphore' = sendSemaphore - 1
    /\ UNCHANGED <<lockSemaphore, recvSemaphore, freeList, usedList, nodeMsg,
                   node, msg, sent, delivered, lost>>

\* Mutated form: the result of the wait is ignored.
ClaimTimeoutIgnored(s) ==
    /\ s \in Timed
    /\ sendSemaphore = 0
    /\ Goto(s, "claim", "claimLock")
    /\ UNCHANGED <<sems, freeList, usedList, nodeMsg, node, msg, sent,
                   delivered, lost>>

\* sem_timedwait runs out: QueueClaim and SendToQueue return 0.
ClaimTimeout(s) ==
    /\ s \in Timed
    /\ sendSemaphore = 0
    /\ Goto(s, "claim", "idle")
    /\ UNCHANGED <<sems, freeList, usedList, nodeMsg, node, msg, sent,
                   delivered, lost>>

\* An empty free list would make QueueClaim return 0 with the slot gone.
ClaimNode(s) ==
    /\ Goto(s, "claimCrit", IF freeList = <<>> THEN "idle" ELSE "copy")
    /\ node' = [node EXCEPT ![s] = HeadOrNone(freeList)]
    /\ freeList' = RemoveFromListHead(freeList)
    /\ ReleaseLock
    /\ UNCHANGED <<sendSemaphore, recvSemaphore, usedList, nodeMsg, msg, sent,
                   delivered, lost>>

CopyIn(s) ==
    /\ msg[s] \notin Oversize
    /\ Goto(s, "copy", "sendLock")
    /\ nodeMsg' = [nodeMsg EXCEPT ![node[s]] = msg[s]]
    /\ UNCHANGED <<sems, freeList, usedList, node, msg, sent, delivered, lost>>

CopyRefused(s) ==
    /\ msg[s] \in Oversize
    /\ Goto(s, "copy", "giveLock")
    /\ UNCHANGED <<sems, freeList, usedList, nodeMsg, node, msg, sent,
                   delivered, lost>>

\* The node of an oversized message goes back; its slot does not.
GiveBack(s) ==
    /\ Goto(s, "giveCrit", "idle")
    /\ freeList' = AddToListTail(freeList, node[s])
    /\ node' = [node EXCEPT ![s] = NoNode]
    /\ lost' = lost + 1
    /\ ReleaseLock
    /\ UNCHANGED <<sendSemaphore, recvSemaphore, usedList, nodeMsg, msg, sent,
                   delivered>>

QueueSend(s) ==
    /\ Goto(s, "sendCrit", "post")
    /\ usedList' = AddToListTail(usedList, node[s])
    /\ node' = [node EXCEPT ![s] = NoNode]
    /\ ReleaseLock
    /\ UNCHANGED <<sendSemaphore, recvSemaphore, freeList, nodeMsg, msg, sent,
                   delivered, lost>>

PostRecv(s) ==
    /\ Goto(s, "post", "idle")
    /\ recvSemaphore' = recvSemaphore + 1
    /\ UNCHANGED <<lockSemaphore, sendSemaphore, freeList, usedList, nodeMsg,
                   node, msg, sent, delivered, lost>>

(***************************************************************************)
(* MsOS_RecvFromQueue: QueueRecv, the copy out of the node, QueueFree      *)
(***************************************************************************)
RecvCall(r) ==
    /\ Goto(r, "idle", "recv")
    /\ msg' = [msg EXCEPT ![r] = NoMsg]
    /\ UNCHANGED <<sems, freeList, usedList, nodeMsg, node, sent, delivered,
                   lost>>

RecvSlot(r) ==
    /\ recvSemaphore > 0
    /\ Goto(r, "recv", "recvLock")
    /\ recvSemaphore' = recvSemaphore - 1
    /\ UNCHANGED <<lockSemaphore, sendSemaphore, freeList, usedList, nodeMsg,
                   node, msg, sent, delivered, lost>>

RecvTimeout(r) ==
    /\ r \in Timed
    /\ recvSemaphore = 0
    /\ Goto(r, "recv", "idle")
    /\ UNCHANGED <<sems, freeList, usedList, nodeMsg, node, msg, sent,
                   delivered, lost>>

QueueRecv(r) ==
    /\ Goto(r, "recvCrit", IF usedList = <<>> THEN "idle" ELSE "take")
    /\ node' = [node EXCEPT ![r] = HeadOrNone(usedList)]
    /\ usedList' = RemoveFromListHead(usedList)
    /\ delivered' = IF usedList = <<>>
                    THEN delivered
                    ELSE Append(delivered, nodeMsg[Head(usedList)])
    /\ ReleaseLock
    /\ UNCHANGED <<sendSemaphore, recvSemaphore, freeList, nodeMsg, msg, sent,
                   lost>>

CopyOut(r) ==
    /\ Goto(r, "take", "freeLock")
    /\ msg' = [msg EXCEPT ![r] = nodeMsg[node[r]]]
    /\ UNCHANGED <<sems, freeList, usedList, nodeMsg, node, sent, delivered,
                   lost>>

QueueFree(r) ==
    /\ Goto(r, "freeCrit", "freePost")
    /\ freeList' = AddToListTail(freeList, node[r])
    /\ node' = [node EXCEPT ![r] = NoNode]
    /\ ReleaseLock
    /\ UNCHANGED <<sendSemaphore, recvSemaphore, usedList, nodeMsg, msg, sent,
                   delivered, lost>>

\* Mutated form: the release of sendSemaphore is forgotten.
NoPostSend(r) ==
    /\ Goto(r, "freePost", "idle")
    /\ UNCHANGED <<sems, freeList, usedList, nodeMsg, node, msg, sent,
                   delivered, lost>>

PostSend(r) ==
    /\ Goto(r, "freePost", "idle")
    /\ sendSemaphore' = sendSemaphore + 1
    /\ UNCHANGED <<lockSemaphore, recvSemaphore, freeList, usedList, nodeMsg,
                   node, msg, sent, delivered, lost>>

-----------------------------------------------------------------------------

\* A thread inside a call of MsOS_SendToQueue, of MsOS_RecvFromQueue.
Sending(s) ==
    \/ ClaimSlot(s)
    \/ ObtainLock(s, "claimLock", "claimCrit") \/ ClaimNode(s)
    \/ CopyIn(s) \/ CopyRefused(s)
    \/ ObtainLock(s, "sendLock", "sendCrit") \/ QueueSend(s) \/ PostRecv(s)
    \/ ObtainLock(s, "giveLock", "giveCrit") \/ GiveBack(s)

Receiving(r) ==
    \/ RecvSlot(r)
    \/ ObtainLock(r, "recvLock", "recvCrit") \/ QueueRecv(r) \/ CopyOut(r)
    \/ ObtainLock(r, "freeLock", "freeCrit") \/ QueueFree(r) \/ PostSend(r)

Next ==
    \/ \E s \in Senders : SendCall(s) \/ ClaimTimeout(s) \/ Sending(s)
    \/ \E r \in Receivers : RecvCall(r) \/ RecvTimeout(r) \/ Receiving(r)

Spec == Init /\ [][Next]_vars

\* A thread inside a call keeps running; a receiver keeps calling, as the
\* loops of ApartmentThread and MsOS_EventTask do.
FairSpec ==
    /\ Spec
    /\ \A s \in Senders : WF_vars(Sending(s))
    /\ \A r \in Receivers : WF_vars(RecvCall(r)) /\ WF_vars(Receiving(r))

-----------------------------------------------------------------------------

\* How many threads are at one of the control points S.
At(S) == {t \in Threads : pc[t] \in S}
Count(S) == Cardinality(At(S))

TypeOK ==
    /\ lockSemaphore \in Nat
    /\ sendSemaphore \in Nat
    /\ recvSemaphore \in Nat
    /\ freeList \in Seq(Nodes)
    /\ usedList \in Seq(Nodes)
    /\ nodeMsg \in [Nodes -> Msgs \cup {NoMsg}]
    /\ pc \in [Threads -> {"idle"} \cup SendStates \cup RecvStates]
    /\ \A s \in Senders : pc[s] \in {"idle"} \cup SendStates
    /\ \A r \in Receivers : pc[r] \in {"idle"} \cup RecvStates
    /\ node \in [Threads -> Nodes \cup {NoNode}]
    /\ msg \in [Threads -> Msgs \cup {NoMsg}]
    /\ sent \subseteq Msgs
    /\ delivered \in Seq(Msgs \cup {NoMsg})
    /\ lost \in Nat

(***************************************************************************)
(* lockSemaphore is a mutex: one thread at a time edits the lists.  The    *)
(* counting semaphores agree with the lists, counting what is in flight    *)
(* between a semaphore and the lock: so a sender that obtained             *)
(* sendSemaphore finds a free node and a receiver that obtained            *)
(* recvSemaphore finds a message, whatever the others do in between.       *)
(***************************************************************************)
SemaphoresCount ==
    /\ lockSemaphore + Count(Crit) = 1
    /\ Len(freeList) =
          sendSemaphore + Count({"claimLock", "claimCrit"}) + Count({"freePost"}) + lost
    /\ Len(usedList) =
          recvSemaphore + Count({"recvLock", "recvCrit"}) + Count({"post"})

(***************************************************************************)
(* A node is in one place only: on one list, once, or in the hands of one  *)
(* thread.  A node two threads fill or drain at once would corrupt both    *)
(* messages.                                                               *)
(***************************************************************************)
Holding == {"copy", "sendLock", "sendCrit", "giveLock", "giveCrit",
            "take", "freeLock", "freeCrit"}

NodesExclusive ==
    /\ \A i, j \in 1..Len(freeList) : freeList[i] = freeList[j] => i = j
    /\ \A i, j \in 1..Len(usedList) : usedList[i] = usedList[j] => i = j
    /\ \A i \in 1..Len(freeList), j \in 1..Len(usedList) : freeList[i] # usedList[j]
    /\ \A t \in Threads : pc[t] \in Holding =>
          /\ node[t] \in Nodes
          /\ \A i \in 1..Len(freeList) : freeList[i] # node[t]
          /\ \A i \in 1..Len(usedList) : usedList[i] # node[t]
          /\ \A u \in Threads : pc[u] \in Holding /\ node[u] = node[t] => u = t

(***************************************************************************)
(* A message is delivered at most once, only after it was sent, and what   *)
(* the receiver copies out is what the sender copied in: no other thread   *)
(* writes the node in between.                                             *)
(***************************************************************************)
DeliveredOnce ==
    /\ \A i, j \in 1..Len(delivered) : delivered[i] = delivered[j] => i = j
    /\ \A i \in 1..Len(delivered) : delivered[i] \in sent \ Oversize
    /\ \A r \in Receivers : pc[r] \in {"freeLock", "freeCrit", "freePost"} =>
          \E i \in 1..Len(delivered) : delivered[i] = msg[r]
    /\ \A r, q \in Receivers : r # q /\ pc[r] = "freeLock" /\ pc[q] = "freeLock"
                                => msg[r] # msg[q]

(***************************************************************************)
(* Nodes and messages stay whole although they are filled and emptied      *)
(* outside of the lock (MsOS_SendToQueue, MsOS_RecvFromQueue).             *)
(***************************************************************************)
MessagesIntact == TypeOK /\ NodesExclusive /\ DeliveredOnce

-----------------------------------------------------------------------------
(***************************************************************************)
(* The inductive invariant: besides the above, every node is counted once, *)
(* and a message is on its way in one place only: with the sender that     *)
(* brings it (Bringing), in a node of the used list, or in the node of the *)
(* receiver that takes it (Taking), when it counts as delivered.           *)
(***************************************************************************)
NodesConserved == Len(freeList) + Len(usedList) + Count(Holding) = maxNumOfMsgs

Bringing == {"claim", "claimLock", "claimCrit", "copy", "sendLock", "sendCrit",
             "giveLock", "giveCrit"}
Taking == {"take", "freeLock", "freeCrit"}
Delivered == {delivered[i] : i \in 1..Len(delivered)}

MessagesOnTheirWay ==
    /\ \A s \in Senders : pc[s] \in Bringing =>
          /\ msg[s] \in sent \ Delivered
          /\ \A q \in Senders : pc[q] \in Bringing /\ msg[q] = msg[s] => q = s
          /\ \A i \in 1..Len(usedList) : nodeMsg[usedList[i]] # msg[s]
    /\ \A s \in Senders : pc[s] \in {"sendLock", "sendCrit"} =>
          nodeMsg[node[s]] = msg[s] /\ msg[s] \notin Oversize
    /\ \A i \in 1..Len(usedList) :
          /\ nodeMsg[usedList[i]] \in (sent \ Delivered) \ Oversize
          /\ \A j \in 1..Len(usedList) :
                nodeMsg[usedList[i]] = nodeMsg[usedList[j]] => i = j
    /\ \A r \in Receivers : pc[r] \in Taking =>
          /\ nodeMsg[node[r]] \in Delivered
          /\ \A q \in Receivers :
                pc[q] \in Taking /\ nodeMsg[node[q]] = nodeMsg[node[r]] => q = r
          /\ pc[r] # "take" => msg[r] = nodeMsg[node[r]]

IInv == /\ TypeOK
        /\ SemaphoresCount
        /\ NodesConserved
        /\ NodesExclusive
        /\ MessagesOnTheirWay
        /\ DeliveredOnce

-----------------------------------------------------------------------------
(***************************************************************************)
(* The queue implements the bounded FIFO: its contents are the messages of *)
(* the nodes on the used list.                                             *)
(***************************************************************************)
Contents == [i \in 1..Len(usedList) |-> nodeMsg[usedList[i]]]

Fifo == INSTANCE BoundedFifo WITH Depth <- maxNumOfMsgs, fifo <- Contents

ImplementsFifo == Fifo!Spec

(***************************************************************************)
(* With senders that wait forever, as MsOS_SendMessage and MsOS_PostMessage*)
(* do, every message that fits is eventually delivered.                    *)
(***************************************************************************)
EverySentArrives ==
    \A s \in Senders \ Timed, m \in Msgs \ Oversize :
       (pc[s] = "claim" /\ msg[s] = m) ~> \E i \in 1..Len(delivered) : delivered[i] = m
=============================================================================
