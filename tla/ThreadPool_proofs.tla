-------------------------- MODULE ThreadPool_proofs --------------------------
(***************************************************************************)
(* Proofs about ThreadPool, for every set of workers and callers and every *)
(* capacity.  IInv is the inductive invariant: the type invariant, the     *)
(* shape of the queue (FifoExactlyOnce), the waiting threads               *)
(* (WakeupsNotLost) and the closing protocol (Lifecycle).                  *)
(***************************************************************************)
EXTENDS ThreadPool, SequenceTheorems, TLAPS

(***************************************************************************)
(* threadpool_init establishes the inductive invariant.                    *)
(***************************************************************************)
LEMMA InitEstablishes == Init => IInv
<1> SUFFICES ASSUME Init PROVE IInv
  OBVIOUS
<1>1. TypeOK
  <2>1. jobs \in Seq(1..MaxJobs)
    BY EmptySeq DEF Init
  <2>2. wpc \in [Workers -> WorkerStates] /\ cpc \in [Callers -> CallerStates]
    BY DEF Init, WorkerStates, CallerStates
  <2>3. wjob \in [Workers -> 0..MaxJobs]
    BY ThreadPoolAssumption DEF Init, NoJob
  <2>4. done \subseteq 1..MaxJobs
    BY DEF Init
  <2>5. /\ queue_cur_num \in 0..queue_max_num
        /\ accepted \in 0..MaxJobs
        /\ started \in 0..MaxJobs
    BY ThreadPoolAssumption DEF Init
  <2>6. /\ queue_close \in BOOLEAN
        /\ pool_close \in BOOLEAN
        /\ freed \in BOOLEAN
    BY DEF Init
  <2> QED
    BY <2>1, <2>2, <2>3, <2>4, <2>5, <2>6 DEF TypeOK
<1>2. FifoExactlyOnce
  BY ThreadPoolAssumption DEF Init, FifoExactlyOnce
<1>3. WakeupsNotLost
  BY DEF Init, WakeupsNotLost
<1>4. Lifecycle
  BY DEF Init, Lifecycle, Closing
<1> QED
  BY <1>1, <1>2, <1>3, <1>4 DEF IInv

(***************************************************************************)
(* entering add_job: the invariant is kept.                                *)
(***************************************************************************)
LEMMA AddCallKeeps ==
  ASSUME NEW c \in Callers, IInv, AddCall(c)
  PROVE  IInv'
<1> USE DEF IInv, queueVars, histVars
<1>1. TypeOK'
  BY ThreadPoolAssumption DEF TypeOK, WorkerStates, CallerStates, AddCall, NoJob, FifoExactlyOnce
<1>2. FifoExactlyOnce'
  BY ThreadPoolAssumption DEF FifoExactlyOnce, TypeOK, AddCall, WakeupsNotLost, Lifecycle
<1>3. WakeupsNotLost'
  BY ThreadPoolAssumption DEF WakeupsNotLost, TypeOK, AddCall, FifoExactlyOnce, Lifecycle, Closing
<1>4. Lifecycle'
  BY ThreadPoolAssumption DEF Lifecycle, TypeOK, AddCall, Closing
<1> QED
  BY <1>1, <1>2, <1>3, <1>4

(***************************************************************************)
(* add_job goes to sleep on a full queue: the invariant is kept.           *)
(***************************************************************************)
LEMMA AddWaitKeeps ==
  ASSUME NEW c \in Callers, IInv, AddWait(c)
  PROVE  IInv'
<1> USE DEF IInv, queueVars, histVars
<1>1. TypeOK'
  BY ThreadPoolAssumption DEF TypeOK, WorkerStates, CallerStates, AddWait, QueueFull, Closed, NoJob, FifoExactlyOnce
<1>2. FifoExactlyOnce'
  BY ThreadPoolAssumption DEF FifoExactlyOnce, TypeOK, AddWait, QueueFull, Closed, WakeupsNotLost, Lifecycle
<1>3. WakeupsNotLost'
  BY ThreadPoolAssumption DEF WakeupsNotLost, TypeOK, AddWait, QueueFull, Closed, FifoExactlyOnce, Lifecycle, Closing
<1>4. Lifecycle'
  BY ThreadPoolAssumption DEF Lifecycle, TypeOK, AddWait, QueueFull, Closed, Closing
<1> QED
  BY <1>1, <1>2, <1>3, <1>4

(***************************************************************************)
(* add_job returns -1: the invariant is kept.                              *)
(***************************************************************************)
LEMMA AddRefuseKeeps ==
  ASSUME NEW c \in Callers, IInv, AddRefuse(c)
  PROVE  IInv'
<1> USE DEF IInv, queueVars, histVars
<1>1. TypeOK'
  BY ThreadPoolAssumption DEF TypeOK, WorkerStates, CallerStates, AddRefuse, QueueFull, Closed, NoJob, FifoExactlyOnce
<1>2. FifoExactlyOnce'
  BY ThreadPoolAssumption DEF FifoExactlyOnce, TypeOK, AddRefuse, QueueFull, Closed, WakeupsNotLost, Lifecycle
<1>3. WakeupsNotLost'
  BY ThreadPoolAssumption DEF WakeupsNotLost, TypeOK, AddRefuse, QueueFull, Closed, FifoExactlyOnce, Lifecycle, Closing
<1>4. Lifecycle'
  BY ThreadPoolAssumption DEF Lifecycle, TypeOK, AddRefuse, QueueFull, Closed, Closing
<1> QED
  BY <1>1, <1>2, <1>3, <1>4

(***************************************************************************)
(* add_job links the job and wakes the workers if the list was empty: the invariant is kept.*)
(***************************************************************************)
LEMMA AddAcceptKeeps ==
  ASSUME NEW c \in Callers, IInv, AddAccept(c)
  PROVE  IInv'
<1> USE DEF IInv, queueVars, histVars
<1>1. TypeOK'
  BY ThreadPoolAssumption DEF TypeOK, WorkerStates, CallerStates, AddAccept, QueueFull, Closed, LinkAtTail, BroadcastNotEmpty, NoJob, FifoExactlyOnce
<1>2. FifoExactlyOnce'
  <2>1. jobs' = Append(jobs, accepted + 1)
    BY DEF AddAccept, LinkAtTail
  <2>2. /\ Len(jobs') = Len(jobs) + 1
        /\ \A i \in 1..Len(jobs) : jobs'[i] = jobs[i]
        /\ jobs'[Len(jobs) + 1] = accepted + 1
    BY <2>1 DEF TypeOK
  <2>3. \A i \in 1..Len(jobs') : jobs'[i] = started' + i
    <3> SUFFICES ASSUME NEW i \in 1..Len(jobs') PROVE jobs'[i] = started' + i
      OBVIOUS
    <3>1. started' = started /\ started \in Nat /\ Len(jobs) \in Nat
      BY DEF AddAccept, TypeOK
    <3>2. CASE i \in 1..Len(jobs)
      BY <2>2, <3>1, <3>2 DEF FifoExactlyOnce
    <3>3. CASE i = Len(jobs) + 1
      BY <2>2, <3>1, <3>3 DEF FifoExactlyOnce
    <3> QED
      BY <2>2, <3>1, <3>2, <3>3
  <2>4. wjob' = wjob /\ done' = done /\ started' = started
        /\ \A w \in Workers : wpc'[w] = "running" <=> wpc[w] = "running"
    BY DEF AddAccept, BroadcastNotEmpty, TypeOK
  <2>5. queue_cur_num' = Len(jobs') /\ started' + Len(jobs') = accepted'
    BY <2>2, <2>4 DEF FifoExactlyOnce, AddAccept, TypeOK
  <2> QED
    BY <2>3, <2>4, <2>5 DEF FifoExactlyOnce
<1>3. WakeupsNotLost'
  BY ThreadPoolAssumption DEF WakeupsNotLost, TypeOK, AddAccept, QueueFull, Closed, LinkAtTail, BroadcastNotEmpty, FifoExactlyOnce, Lifecycle, Closing
<1>4. Lifecycle'
  BY ThreadPoolAssumption DEF Lifecycle, TypeOK, AddAccept, QueueFull, Closed, LinkAtTail, BroadcastNotEmpty, Closing
<1> QED
  BY <1>1, <1>2, <1>3, <1>4

(***************************************************************************)
(* a worker goes to sleep: the invariant is kept.                          *)
(***************************************************************************)
LEMMA WorkerWaitKeeps ==
  ASSUME NEW w \in Workers, IInv, WorkerWait(w)
  PROVE  IInv'
<1> USE DEF IInv, queueVars, histVars
<1>1. TypeOK'
  BY ThreadPoolAssumption DEF TypeOK, WorkerStates, CallerStates, WorkerWait, NoJob, FifoExactlyOnce
<1>2. FifoExactlyOnce'
  BY ThreadPoolAssumption DEF FifoExactlyOnce, TypeOK, WorkerWait, WakeupsNotLost, Lifecycle
<1>3. WakeupsNotLost'
  BY ThreadPoolAssumption DEF WakeupsNotLost, TypeOK, WorkerWait, FifoExactlyOnce, Lifecycle, Closing
<1>4. Lifecycle'
  BY ThreadPoolAssumption DEF Lifecycle, TypeOK, WorkerWait, Closing
<1> QED
  BY <1>1, <1>2, <1>3, <1>4

(***************************************************************************)
(* a worker sees pool_close: the invariant is kept.                        *)
(***************************************************************************)
LEMMA WorkerExitKeeps ==
  ASSUME NEW w \in Workers, IInv, WorkerExit(w)
  PROVE  IInv'
<1> USE DEF IInv, queueVars, histVars
<1>1. TypeOK'
  BY ThreadPoolAssumption DEF TypeOK, WorkerStates, CallerStates, WorkerExit, NoJob, FifoExactlyOnce
<1>2. FifoExactlyOnce'
  BY ThreadPoolAssumption DEF FifoExactlyOnce, TypeOK, WorkerExit, WakeupsNotLost, Lifecycle
<1>3. WakeupsNotLost'
  BY ThreadPoolAssumption DEF WakeupsNotLost, TypeOK, WorkerExit, FifoExactlyOnce, Lifecycle, Closing
<1>4. Lifecycle'
  BY ThreadPoolAssumption DEF Lifecycle, TypeOK, WorkerExit, Closing
<1> QED
  BY <1>1, <1>2, <1>3, <1>4

(***************************************************************************)
(* a worker takes the head of the list: the invariant is kept.             *)
(***************************************************************************)
LEMMA WorkerTakeKeeps ==
  ASSUME NEW w \in Workers, IInv, WorkerTake(w)
  PROVE  IInv'
<1> USE DEF IInv, queueVars, histVars
<1>1. TypeOK'
  <2>1. jobs # <<>>
    BY EmptySeq DEF WorkerTake, FifoExactlyOnce, TypeOK
  <2>2. jobs' \in Seq(1..MaxJobs) /\ Head(jobs) \in 1..MaxJobs
    BY <2>1, EmptySeq, HeadTailProperties DEF WorkerTake, ListAfterTake, TypeOK
  <2>3. wjob' \in [Workers -> 0..MaxJobs]
    BY <2>2, ThreadPoolAssumption DEF WorkerTake, TypeOK
  <2>4. cpc' \in [Callers -> CallerStates] /\ wpc' \in [Workers -> WorkerStates]
    BY DEF WorkerTake, WakeAddersIn, SignalEmptyIn, TypeOK, CallerStates, WorkerStates
  <2>5. started' \in 0..MaxJobs /\ queue_cur_num' \in 0..queue_max_num
    BY ThreadPoolAssumption DEF WorkerTake, TypeOK, FifoExactlyOnce
  <2> QED
    BY <2>2, <2>3, <2>4, <2>5 DEF WorkerTake, TypeOK
<1>2. FifoExactlyOnce'
  <2>1. jobs # <<>> /\ Len(jobs) \in Nat \ {0} /\ Head(jobs) = started + 1
    BY DEF WorkerTake, FifoExactlyOnce, TypeOK
  <2>2. /\ Len(Tail(jobs)) = Len(jobs) - 1
        /\ \A i \in 1..Len(Tail(jobs)) : Tail(jobs)[i] = jobs[i + 1]
    BY <2>1, HeadTailProperties DEF TypeOK
  <2>3. Len(jobs') = Len(jobs) - 1 /\ \A i \in 1..Len(jobs') : jobs'[i] = jobs[i + 1]
    BY <2>1, <2>2, EmptySeq DEF WorkerTake, ListAfterTake, FifoExactlyOnce
  <2>4. \A i \in 1..Len(jobs') : jobs'[i] = started' + i
    <3> SUFFICES ASSUME NEW i \in 1..Len(jobs') PROVE jobs'[i] = started' + i
      OBVIOUS
    <3>1. started' = started + 1 /\ started \in Nat
      BY DEF WorkerTake, TypeOK
    <3>2. i + 1 \in 1..Len(jobs) /\ jobs'[i] = jobs[i + 1]
      BY <2>1, <2>3
    <3> QED
      BY <3>1, <3>2 DEF FifoExactlyOnce
  <2>5. started + 1 \in 1..MaxJobs /\ started + 1 \notin done
        /\ \A v \in Workers : wpc[v] = "running" => wjob[v] # started + 1
    BY <2>1, ThreadPoolAssumption DEF FifoExactlyOnce, TypeOK
  <2>6. \A j \in 1..MaxJobs :
          j <= started' <=> \/ j \in done'
                            \/ \E v \in Workers : wpc'[v] = "running" /\ wjob'[v] = j
    BY <2>1, <2>5, ThreadPoolAssumption DEF FifoExactlyOnce, TypeOK, WorkerTake
  <2>7. \A x \in Workers : wpc'[x] = "running" =>
          /\ wjob'[x] \in (1..MaxJobs) \ done'
          /\ \A v \in Workers : wpc'[v] = "running" /\ wjob'[v] = wjob'[x] => v = x
    BY <2>1, <2>5 DEF FifoExactlyOnce, TypeOK, WorkerTake
  <2> QED
    BY <2>1, <2>3, <2>4, <2>6, <2>7 DEF FifoExactlyOnce, WorkerTake, TypeOK
<1>3. WakeupsNotLost'
  BY ThreadPoolAssumption DEF WakeupsNotLost, TypeOK, WorkerTake, ListAfterTake, WakeAddersIn, SignalEmptyIn, FifoExactlyOnce, Lifecycle, Closing
<1>4. Lifecycle'
  BY ThreadPoolAssumption DEF Lifecycle, TypeOK, WorkerTake, ListAfterTake, WakeAddersIn, SignalEmptyIn, Closing
<1> QED
  BY <1>1, <1>2, <1>3, <1>4

(***************************************************************************)
(* a callback returns: the invariant is kept.                              *)
(***************************************************************************)
LEMMA WorkerFinishKeeps ==
  ASSUME NEW w \in Workers, IInv, WorkerFinish(w)
  PROVE  IInv'
<1> USE DEF IInv, queueVars, histVars
<1>1. TypeOK'
  <2>1. wjob[w] \in 1..MaxJobs
    BY DEF FifoExactlyOnce, WorkerFinish
  <2>2. done' \subseteq 1..MaxJobs
    BY <2>1 DEF WorkerFinish, TypeOK
  <2> QED
    BY <2>2, ThreadPoolAssumption DEF TypeOK, WorkerStates, WorkerFinish, NoJob
<1>2. FifoExactlyOnce'
  BY ThreadPoolAssumption DEF FifoExactlyOnce, TypeOK, WorkerFinish, WakeupsNotLost, Lifecycle
<1>3. WakeupsNotLost'
  BY ThreadPoolAssumption DEF WakeupsNotLost, TypeOK, WorkerFinish, FifoExactlyOnce, Lifecycle, Closing
<1>4. Lifecycle'
  BY ThreadPoolAssumption DEF Lifecycle, TypeOK, WorkerFinish, Closing
<1> QED
  BY <1>1, <1>2, <1>3, <1>4

(***************************************************************************)
(* a second destroy: the invariant is kept.                                *)
(***************************************************************************)
LEMMA DestroyRefuseKeeps ==
  ASSUME NEW c \in Callers, IInv, DestroyRefuse(c)
  PROVE  IInv'
<1> USE DEF IInv, queueVars, histVars
<1>1. TypeOK'
  BY ThreadPoolAssumption DEF TypeOK, WorkerStates, CallerStates, DestroyRefuse, Closed, NoJob, FifoExactlyOnce
<1>2. FifoExactlyOnce'
  BY ThreadPoolAssumption DEF FifoExactlyOnce, TypeOK, DestroyRefuse, Closed, WakeupsNotLost, Lifecycle
<1>3. WakeupsNotLost'
  BY ThreadPoolAssumption DEF WakeupsNotLost, TypeOK, DestroyRefuse, Closed, FifoExactlyOnce, Lifecycle, Closing
<1>4. Lifecycle'
  BY ThreadPoolAssumption DEF Lifecycle, TypeOK, DestroyRefuse, Closed, Closing
<1> QED
  BY <1>1, <1>2, <1>3, <1>4

(***************************************************************************)
(* destroy closes the queue: the invariant is kept.                        *)
(***************************************************************************)
LEMMA DestroyCloseKeeps ==
  ASSUME NEW c \in Callers, IInv, DestroyClose(c)
  PROVE  IInv'
<1> USE DEF IInv, queueVars, histVars
<1>1. TypeOK'
  BY ThreadPoolAssumption DEF TypeOK, WorkerStates, CallerStates, DestroyClose, Closed, WaitOrClosePool, NoJob, FifoExactlyOnce
<1>2. FifoExactlyOnce'
  BY ThreadPoolAssumption DEF FifoExactlyOnce, TypeOK, DestroyClose, Closed, WaitOrClosePool, WakeupsNotLost, Lifecycle
<1>3. WakeupsNotLost'
  BY ThreadPoolAssumption DEF WakeupsNotLost, TypeOK, DestroyClose, Closed, WaitOrClosePool, FifoExactlyOnce, Lifecycle, Closing
<1>4. Lifecycle'
  BY ThreadPoolAssumption DEF Lifecycle, TypeOK, DestroyClose, Closed, WaitOrClosePool, Closing
<1> QED
  BY <1>1, <1>2, <1>3, <1>4

(***************************************************************************)
(* destroy tests the queue again after a wakeup: the invariant is kept.    *)
(***************************************************************************)
LEMMA DestroyRecheckKeeps ==
  ASSUME NEW c \in Callers, IInv, DestroyRecheck(c)
  PROVE  IInv'
<1> USE DEF IInv, queueVars, histVars
<1>1. TypeOK'
  BY ThreadPoolAssumption DEF TypeOK, WorkerStates, CallerStates, DestroyRecheck, WaitOrClosePool, NoJob, FifoExactlyOnce
<1>2. FifoExactlyOnce'
  BY ThreadPoolAssumption DEF FifoExactlyOnce, TypeOK, DestroyRecheck, WaitOrClosePool, WakeupsNotLost, Lifecycle
<1>3. WakeupsNotLost'
  BY ThreadPoolAssumption DEF WakeupsNotLost, TypeOK, DestroyRecheck, WaitOrClosePool, FifoExactlyOnce, Lifecycle, Closing
<1>4. Lifecycle'
  BY ThreadPoolAssumption DEF Lifecycle, TypeOK, DestroyRecheck, WaitOrClosePool, Closing
<1> QED
  BY <1>1, <1>2, <1>3, <1>4

(***************************************************************************)
(* first broadcast: the invariant is kept.                                 *)
(***************************************************************************)
LEMMA DestroyWakeWorkersKeeps ==
  ASSUME NEW c \in Callers, IInv, DestroyWakeWorkers(c)
  PROVE  IInv'
<1> USE DEF IInv, queueVars, histVars
<1>1. TypeOK'
  BY ThreadPoolAssumption DEF TypeOK, WorkerStates, CallerStates, DestroyWakeWorkers, BroadcastNotEmpty, NoJob, FifoExactlyOnce
<1>2. FifoExactlyOnce'
  BY ThreadPoolAssumption DEF FifoExactlyOnce, TypeOK, DestroyWakeWorkers, BroadcastNotEmpty, WakeupsNotLost, Lifecycle
<1>3. WakeupsNotLost'
  BY ThreadPoolAssumption DEF WakeupsNotLost, TypeOK, DestroyWakeWorkers, BroadcastNotEmpty, FifoExactlyOnce, Lifecycle, Closing
<1>4. Lifecycle'
  BY ThreadPoolAssumption DEF Lifecycle, TypeOK, DestroyWakeWorkers, BroadcastNotEmpty, Closing
<1> QED
  BY <1>1, <1>2, <1>3, <1>4

(***************************************************************************)
(* second broadcast: the invariant is kept.                                *)
(***************************************************************************)
LEMMA DestroyWakeAddersKeeps ==
  ASSUME NEW c \in Callers, IInv, DestroyWakeAdders(c)
  PROVE  IInv'
<1> USE DEF IInv, queueVars, histVars
<1>1. TypeOK'
  BY ThreadPoolAssumption DEF TypeOK, WorkerStates, CallerStates, DestroyWakeAdders, WakeAddersIn, NoJob, FifoExactlyOnce
<1>2. FifoExactlyOnce'
  BY ThreadPoolAssumption DEF FifoExactlyOnce, TypeOK, DestroyWakeAdders, WakeAddersIn, WakeupsNotLost, Lifecycle
<1>3. WakeupsNotLost'
  BY ThreadPoolAssumption DEF WakeupsNotLost, TypeOK, DestroyWakeAdders, WakeAddersIn, FifoExactlyOnce, Lifecycle, Closing
<1>4. Lifecycle'
  BY ThreadPoolAssumption DEF Lifecycle, TypeOK, DestroyWakeAdders, WakeAddersIn, Closing
<1> QED
  BY <1>1, <1>2, <1>3, <1>4

(***************************************************************************)
(* join and free: the invariant is kept.                                   *)
(***************************************************************************)
LEMMA DestroyJoinKeeps ==
  ASSUME NEW c \in Callers, IInv, DestroyJoin(c)
  PROVE  IInv'
<1> USE DEF IInv, queueVars, histVars
<1>1. TypeOK'
  BY ThreadPoolAssumption DEF TypeOK, WorkerStates, CallerStates, DestroyJoin, AllExited, NoJob, FifoExactlyOnce
<1>2. FifoExactlyOnce'
  BY ThreadPoolAssumption DEF FifoExactlyOnce, TypeOK, DestroyJoin, AllExited, WakeupsNotLost, Lifecycle
<1>3. WakeupsNotLost'
  BY ThreadPoolAssumption DEF WakeupsNotLost, TypeOK, DestroyJoin, AllExited, FifoExactlyOnce, Lifecycle, Closing
<1>4. Lifecycle'
  BY ThreadPoolAssumption DEF Lifecycle, TypeOK, DestroyJoin, AllExited, Closing
<1> QED
  BY <1>1, <1>2, <1>3, <1>4

(***************************************************************************)
(* A spurious return of pthread_cond_wait keeps the invariant: it only     *)
(* takes a thread off a wait set.                                          *)
(***************************************************************************)
LEMMA SpuriousKeeps ==
  ASSUME IInv, SpuriousWakeup
  PROVE  IInv'
<1> USE DEF IInv, queueVars, histVars
<1>1. TypeOK'
  BY DEF TypeOK, WorkerStates, CallerStates, SpuriousWakeup
<1>2. FifoExactlyOnce'
  BY DEF FifoExactlyOnce, TypeOK, SpuriousWakeup
<1>3. WakeupsNotLost'
  BY DEF WakeupsNotLost, TypeOK, SpuriousWakeup
<1>4. Lifecycle'
  BY DEF Lifecycle, TypeOK, SpuriousWakeup, Closing
<1> QED
  BY <1>1, <1>2, <1>3, <1>4

(***************************************************************************)
(* Every step of the pool keeps the inductive invariant.                   *)
(***************************************************************************)
LEMMA StepKeeps == IInv /\ [Next]_vars => IInv'
<1> SUFFICES ASSUME IInv, [Next]_vars PROVE IInv'
  OBVIOUS
<1>1. ASSUME NEW w \in Workers, Worker(w) PROVE IInv'
  BY <1>1, WorkerWaitKeeps, WorkerExitKeeps, WorkerTakeKeeps, WorkerFinishKeeps
     DEF Worker
<1>2. ASSUME NEW c \in Callers, AddCall(c) \/ DestroyRefuse(c) \/ DestroyClose(c)
      PROVE  IInv'
  BY <1>2, AddCallKeeps, DestroyRefuseKeeps, DestroyCloseKeeps
<1>3. ASSUME NEW c \in Callers, InCall(c) PROVE IInv'
  BY <1>3, AddWaitKeeps, AddRefuseKeeps, AddAcceptKeeps, DestroyRecheckKeeps,
     DestroyWakeWorkersKeeps, DestroyWakeAddersKeeps, DestroyJoinKeeps DEF InCall
<1>4. CASE SpuriousWakeup
  BY <1>4, SpuriousKeeps
<1>5. CASE Finished \/ UNCHANGED vars
  <2> USE <1>5 DEF IInv, Finished, vars
  <2>1. TypeOK'
    BY DEF TypeOK
  <2>2. FifoExactlyOnce'
    BY DEF FifoExactlyOnce
  <2>3. WakeupsNotLost'
    BY DEF WakeupsNotLost
  <2>4. Lifecycle'
    BY DEF Lifecycle
  <2> QED
    BY <2>1, <2>2, <2>3, <2>4
<1> QED
  BY <1>1, <1>2, <1>3, <1>4, <1>5 DEF Next

LEMMA Inductive == Spec => []IInv
  BY InitEstablishes, StepKeeps, PTL DEF Spec

-----------------------------------------------------------------------------
(***************************************************************************)
(* Type correctness of the pool.                                           *)
(***************************************************************************)
THEOREM PoolTypeOK == Spec => []TypeOK
<1>1. IInv => TypeOK
  BY DEF IInv
<1> QED
  BY <1>1, Inductive, PTL

(***************************************************************************)
(* The broadcasts of add_job and threadpool_function on the edges of the   *)
(* queue are enough: no wakeup is ever lost.                               *)
(***************************************************************************)
THEOREM PoolWakeups == Spec => []WakeupsNotLost
<1>1. IInv => WakeupsNotLost
  BY DEF IInv
<1> QED
  BY <1>1, Inductive, PTL

(***************************************************************************)
(* Jobs are handed out in the order of acceptance and exactly once.        *)
(***************************************************************************)
THEOREM PoolFifo == Spec => []FifoExactlyOnce
<1>1. IInv => FifoExactlyOnce
  BY DEF IInv
<1> QED
  BY <1>1, Inductive, PTL

(***************************************************************************)
(* threadpool_destroy frees the pool only after every accepted job has     *)
(* run.                                                                    *)
(***************************************************************************)
THEOREM PoolDrains == Spec => []DrainedBeforeFree
<1>1. IInv => DrainedBeforeFree
  <2> SUFFICES ASSUME IInv, freed
               PROVE  done = 1..accepted
    BY DEF DrainedBeforeFree
  <2>1. \A w \in Workers : wpc[w] = "exited"
    BY DEF IInv, Lifecycle
  <2>2. started = accepted
    BY DEF IInv, Lifecycle, FifoExactlyOnce, TypeOK
  <2>3. \A j \in 1..MaxJobs : j <= accepted <=> j \in done
    BY <2>1, <2>2 DEF IInv, FifoExactlyOnce
  <2>4. done = 1..accepted
    <3>1. done \subseteq 1..MaxJobs /\ accepted \in 0..MaxJobs
      BY DEF IInv, TypeOK
    <3>2. done \subseteq 1..accepted
      BY <2>3, <3>1
    <3>3. 1..accepted \subseteq done
      BY <2>3, <3>1, ThreadPoolAssumption
    <3> QED
      BY <3>2, <3>3
  <2> QED
    BY <2>4
<1> QED
  BY <1>1, Inductive, PTL

(***************************************************************************)
(* One destroy at a time; the pool is closed only when it is empty, the    *)
(* workers leave only then, and it is freed after the last of them.        *)
(***************************************************************************)
THEOREM PoolLifecycle == Spec => []Lifecycle
<1>1. IInv => Lifecycle
  BY DEF IInv
<1> QED
  BY <1>1, Inductive, PTL
=============================================================================
