----------------------------- MODULE ThreadPool -----------------------------
(***************************************************************************)
(* The job pool of threadpool/threadpool.c: a bounded FIFO of jobs guarded *)
(* by one mutex and three condition variables (queue_empty,                *)
(* queue_not_empty, queue_not_full), a fixed set of worker threads and the *)
(* threads that call threadpool_add_job and threadpool_destroy.            *)
(*                                                                         *)
(* Every access to the pool's fields happens with the mutex held, so one   *)
(* critical section (from pthread_mutex_lock, or from the return of        *)
(* pthread_cond_wait, to the unlock or to the next wait) is one action.    *)
(* The broadcasts of threadpool_destroy come after the unlock and are      *)
(* actions of their own.  A waiting thread is woken by a signal, by a      *)
(* broadcast, or spuriously, and then competes for the mutex again.        *)
(*                                                                         *)
(* Jobs are numbered in the order in which add_job accepts them.           *)
(***************************************************************************)
EXTENDS Naturals, Sequences

CONSTANTS Workers,        \* pool->pthreads
          Callers,        \* threads that call add_job and destroy
          queue_max_num,  \* capacity of the job queue
          MaxJobs         \* bound: how many jobs are accepted in all

ASSUME ThreadPoolAssumption ==
    /\ queue_max_num \in Nat \ {0}
    /\ MaxJobs \in Nat
    /\ Workers # {}

VARIABLES
    jobs,           \* the list head .. tail
    queue_cur_num,  \* the counter kept beside the list
    queue_close, pool_close,
    freed,          \* threadpool_destroy has freed the pool
    wpc, wjob,      \* control point of each worker and the job it holds
    cpc,            \* control point of each caller
    accepted,       \* jobs accepted so far (the number of the last one)
    started,        \* jobs taken from the queue so far
    done            \* jobs whose callback has returned

queueVars == <<jobs, queue_cur_num, queue_close, pool_close, freed>>
histVars == <<accepted, started, done>>
vars == <<jobs, queue_cur_num, queue_close, pool_close, freed, wpc, wjob, cpc,
          accepted, started, done>>

NoJob == 0

WorkerStates == {"ready", "waiting", "running", "exited"}
CallerStates == {"idle", "addLock", "addWait", "closeWait", "closeLock",
                 "wakeWorkers", "wakeAdders", "join", "left"}
\* A destroy call that has set queue_close and not yet freed the pool.
Closing == {"closeWait", "closeLock", "wakeWorkers", "wakeAdders", "join"}

Closed == queue_close \/ pool_close

(***************************************************************************)
(* The condition variables, as what waking their waiters does.  At most    *)
(* one thread ever waits on queue_empty (see OneCloser), so the signal     *)
(* wakes it.                                                               *)
(***************************************************************************)
\* Mutated form: pthread_cond_signal in place of the broadcast.
SignalNotEmpty ==
    IF \E w \in Workers : wpc[w] = "waiting"
    THEN \E w \in Workers : /\ wpc[w] = "waiting"
                            /\ wpc' = [wpc EXCEPT ![w] = "ready"]
    ELSE UNCHANGED wpc

\* Mutated form: nobody is told that a job has arrived.
NoBroadcastNotEmpty == UNCHANGED wpc

BroadcastNotEmpty ==
    wpc' = [w \in Workers |-> IF wpc[w] = "waiting" THEN "ready" ELSE wpc[w]]

WakeAddersIn(pc) ==
    [c \in Callers |-> IF pc[c] = "addWait" THEN "addLock" ELSE pc[c]]

\* Mutated form: the worker that empties the queue does not signal.
NoSignalEmptyIn(pc) == pc

SignalEmptyIn(pc) ==
    [c \in Callers |-> IF pc[c] = "closeWait" THEN "closeLock" ELSE pc[c]]

(***************************************************************************)
(* The tests of the wait loops and the list operations.                    *)
(***************************************************************************)
QueueFull == queue_cur_num = queue_max_num

\* Mutated form: the new job becomes the head of the list.
LinkAtHead(j) == <<j>> \o jobs

LinkAtTail(j) == Append(jobs, j)

\* The list once its head is taken and cur jobs are left.
ListAfterTake(cur) == IF cur = 0 THEN <<>> ELSE Tail(jobs)

AllExited == \A w \in Workers : wpc[w] = "exited"

-----------------------------------------------------------------------------

Init ==
    /\ jobs = <<>>
    /\ queue_cur_num = 0
    /\ queue_close = FALSE
    /\ pool_close = FALSE
    /\ freed = FALSE
    /\ wpc = [w \in Workers |-> "ready"]
    /\ wjob = [w \in Workers |-> NoJob]
    /\ cpc = [c \in Callers |-> "idle"]
    /\ accepted = 0
    /\ started = 0
    /\ done = {}

(***************************************************************************)
(* threadpool_add_job                                                      *)
(***************************************************************************)
\* A caller uses the pool only while it holds a valid pointer to it.
AddCall(c) ==
    /\ cpc[c] = "idle"
    /\ ~freed
    /\ cpc' = [cpc EXCEPT ![c] = "addLock"]
    /\ UNCHANGED <<queueVars, wpc, wjob, histVars>>

AddWait(c) ==
    /\ cpc[c] = "addLock"
    /\ ~freed
    /\ QueueFull
    /\ ~Closed
    /\ cpc' = [cpc EXCEPT ![c] = "addWait"]
    /\ UNCHANGED <<queueVars, wpc, wjob, histVars>>

\* The pool is closed, or malloc of the job fails: -1, nothing changes.
AddRefuse(c) ==
    /\ cpc[c] = "addLock"
    /\ ~freed
    /\ Closed \/ ~QueueFull
    /\ cpc' = [cpc EXCEPT ![c] = "idle"]
    /\ UNCHANGED <<queueVars, wpc, wjob, histVars>>

AddAccept(c) ==
    /\ cpc[c] = "addLock"
    /\ ~freed
    /\ ~QueueFull
    /\ ~Closed
    /\ accepted < MaxJobs
    /\ accepted' = accepted + 1
    /\ jobs' = LinkAtTail(accepted + 1)
    /\ IF jobs = <<>> THEN BroadcastNotEmpty ELSE UNCHANGED wpc
    /\ queue_cur_num' = queue_cur_num + 1
    /\ cpc' = [cpc EXCEPT ![c] = "idle"]
    /\ UNCHANGED <<queue_close, pool_close, freed, wjob, started, done>>

(***************************************************************************)
(* threadpool_function, the worker loop                                    *)
(***************************************************************************)
WorkerWait(w) ==
    /\ wpc[w] = "ready"
    /\ queue_cur_num = 0
    /\ ~pool_close
    /\ wpc' = [wpc EXCEPT ![w] = "waiting"]
    /\ UNCHANGED <<queueVars, wjob, cpc, histVars>>

WorkerExit(w) ==
    /\ wpc[w] = "ready"
    /\ pool_close
    /\ wpc' = [wpc EXCEPT ![w] = "exited"]
    /\ UNCHANGED <<queueVars, wjob, cpc, histVars>>

WorkerTake(w) ==
    /\ wpc[w] = "ready"
    /\ queue_cur_num # 0
    /\ ~pool_close
    /\ queue_cur_num' = queue_cur_num - 1
    /\ wjob' = [wjob EXCEPT ![w] = Head(jobs)]
    /\ jobs' = ListAfterTake(queue_cur_num - 1)
    /\ wpc' = [wpc EXCEPT ![w] = "running"]
    /\ LET woken == IF queue_cur_num' = 0 THEN SignalEmptyIn(cpc) ELSE cpc
       IN  cpc' = IF queue_cur_num' = queue_max_num - 1
                  THEN WakeAddersIn(woken)
                  ELSE woken
    /\ started' = started + 1
    /\ UNCHANGED <<queue_close, pool_close, freed, accepted, done>>

\* The callback returns and the job is freed.
WorkerFinish(w) ==
    /\ wpc[w] = "running"
    /\ done' = done \cup {wjob[w]}
    /\ wjob' = [wjob EXCEPT ![w] = NoJob]
    /\ wpc' = [wpc EXCEPT ![w] = "ready"]
    /\ UNCHANGED <<queueVars, cpc, accepted, started>>

(***************************************************************************)
(* threadpool_destroy                                                      *)
(***************************************************************************)
DestroyRefuse(c) ==
    /\ cpc[c] = "idle"
    /\ ~freed
    /\ Closed
    /\ cpc' = [cpc EXCEPT ![c] = "left"]
    /\ UNCHANGED <<queueVars, wpc, wjob, histVars>>

\* Mutated form: destroy closes the pool without waiting for the empty queue.
ClosePoolAtOnce(c) ==
    /\ pool_close' = TRUE
    /\ cpc' = [cpc EXCEPT ![c] = "wakeWorkers"]

\* The while loop of destroy: wait for the empty queue, or close the pool.
WaitOrClosePool(c) ==
    /\ pool_close' = (queue_cur_num = 0)
    /\ cpc' = [cpc EXCEPT ![c] = IF queue_cur_num = 0 THEN "wakeWorkers"
                                                      ELSE "closeWait"]

DestroyClose(c) ==
    /\ cpc[c] = "idle"
    /\ ~freed
    /\ ~Closed
    /\ queue_close' = TRUE
    /\ WaitOrClosePool(c)
    /\ UNCHANGED <<jobs, queue_cur_num, freed, wpc, wjob, histVars>>

DestroyRecheck(c) ==
    /\ cpc[c] = "closeLock"
    /\ WaitOrClosePool(c)
    /\ UNCHANGED <<jobs, queue_cur_num, queue_close, freed, wpc, wjob, histVars>>

DestroyWakeWorkers(c) ==
    /\ cpc[c] = "wakeWorkers"
    /\ BroadcastNotEmpty
    /\ cpc' = [cpc EXCEPT ![c] = "wakeAdders"]
    /\ UNCHANGED <<queueVars, wjob, histVars>>

DestroyWakeAdders(c) ==
    /\ cpc[c] = "wakeAdders"
    /\ cpc' = WakeAddersIn([cpc EXCEPT ![c] = "join"])
    /\ UNCHANGED <<queueVars, wpc, wjob, histVars>>

\* pthread_join of every worker, then the pool and the jobs left are freed.
DestroyJoin(c) ==
    /\ cpc[c] = "join"
    /\ AllExited
    /\ jobs' = <<>>
    /\ freed' = TRUE
    /\ cpc' = [cpc EXCEPT ![c] = "left"]
    /\ UNCHANGED <<queue_cur_num, queue_close, pool_close, wpc, wjob, histVars>>

(***************************************************************************)
(* pthread_cond_wait may return without a signal.                          *)
(***************************************************************************)
SpuriousWakeup ==
    /\ \/ /\ \E w \in Workers : /\ wpc[w] = "waiting"
                                /\ wpc' = [wpc EXCEPT ![w] = "ready"]
          /\ UNCHANGED cpc
       \/ /\ \E c \in Callers :
                \/ /\ cpc[c] = "addWait"
                   /\ cpc' = [cpc EXCEPT ![c] = "addLock"]
                \/ /\ cpc[c] = "closeWait"
                   /\ cpc' = [cpc EXCEPT ![c] = "closeLock"]
          /\ UNCHANGED wpc
    /\ UNCHANGED <<queueVars, wjob, histVars>>

\* Nothing happens once the pool is gone.
Finished == freed /\ UNCHANGED vars

-----------------------------------------------------------------------------

Worker(w) == WorkerWait(w) \/ WorkerExit(w) \/ WorkerTake(w) \/ WorkerFinish(w)

\* The steps a caller takes inside a call, as opposed to making the call.
InCall(c) ==
    \/ AddWait(c) \/ AddRefuse(c) \/ AddAccept(c)
    \/ DestroyRecheck(c) \/ DestroyWakeWorkers(c)
    \/ DestroyWakeAdders(c) \/ DestroyJoin(c)

Next ==
    \/ \E w \in Workers : Worker(w)
    \/ \E c \in Callers : AddCall(c) \/ DestroyRefuse(c) \/ DestroyClose(c)
    \/ \E c \in Callers : InCall(c)
    \/ SpuriousWakeup
    \/ Finished

Spec == Init /\ [][Next]_vars

\* Every thread of the pool keeps running, callbacks return, and a caller
\* that is inside a call goes on with it.
FairSpec == /\ Spec
            /\ \A w \in Workers : WF_vars(Worker(w))
            /\ \A c \in Callers : WF_vars(InCall(c))

-----------------------------------------------------------------------------

TypeOK ==
    /\ jobs \in Seq(1..MaxJobs)
    /\ queue_cur_num \in 0..queue_max_num
    /\ queue_close \in BOOLEAN
    /\ pool_close \in BOOLEAN
    /\ freed \in BOOLEAN
    /\ wpc \in [Workers -> WorkerStates]
    /\ wjob \in [Workers -> 0..MaxJobs]
    /\ cpc \in [Callers -> CallerStates]
    /\ accepted \in 0..MaxJobs
    /\ started \in 0..MaxJobs
    /\ done \subseteq 1..MaxJobs

(***************************************************************************)
(* No wakeup is lost.  The code wakes waiters only on the transitions      *)
(* empty -> non-empty, full -> not full and non-empty -> empty; this says  *)
(* that is enough: no worker sleeps while there is a job, no caller of     *)
(* add_job sleeps while there is room, destroy does not sleep on an empty  *)
(* queue, and once the pool is closed no worker sleeps past the broadcast. *)
(***************************************************************************)
WakeupsNotLost ==
    /\ queue_cur_num > 0 => \A w \in Workers : wpc[w] # "waiting"
    /\ \A c \in Callers :
          /\ cpc[c] = "addWait" => queue_cur_num = queue_max_num
          /\ cpc[c] = "closeWait" => queue_cur_num > 0
          /\ cpc[c] \in {"wakeAdders", "join"} =>
                \A w \in Workers : wpc[w] # "waiting"

(***************************************************************************)
(* Jobs run in the order of acceptance and exactly once: the list holds    *)
(* the accepted jobs that were not handed out yet, in order, its length is *)
(* queue_cur_num, and every job handed out is either finished or held by   *)
(* exactly one worker.                                                     *)
(***************************************************************************)
FifoExactlyOnce ==
    /\ queue_cur_num = Len(jobs)
    /\ started + Len(jobs) = accepted
    /\ \A i \in 1..Len(jobs) : jobs[i] = started + i
    /\ \A j \in 1..MaxJobs :
          j <= started <=> \/ j \in done
                           \/ \E w \in Workers : wpc[w] = "running" /\ wjob[w] = j
    /\ \A w \in Workers : wpc[w] = "running" =>
          /\ wjob[w] \in (1..MaxJobs) \ done
          /\ \A v \in Workers : wpc[v] = "running" /\ wjob[v] = wjob[w] => v = w

(***************************************************************************)
(* How the flags, the callers and the workers move together while the pool *)
(* is closed: one destroy call at a time, the pool flag set only on an     *)
(* empty closed queue, workers gone only after it.  This is what the other *)
(* invariants need to be inductive.                                        *)
(***************************************************************************)
Lifecycle ==
    /\ pool_close => queue_close /\ queue_cur_num = 0
    /\ \A c \in Callers : cpc[c] \in Closing =>
          /\ queue_close
          /\ ~freed
          /\ pool_close <=> cpc[c] \in {"wakeWorkers", "wakeAdders", "join"}
          /\ \A d \in Callers : cpc[d] \in Closing => d = c
    /\ \A w \in Workers : wpc[w] = "exited" => pool_close
    /\ freed => /\ pool_close
                /\ \A w \in Workers : wpc[w] = "exited"
                /\ \E c \in Callers : cpc[c] = "left"

IInv == TypeOK /\ FifoExactlyOnce /\ WakeupsNotLost /\ Lifecycle

(***************************************************************************)
(* threadpool_destroy drains: when it frees the pool every job that        *)
(* add_job accepted has run to completion, whatever the callers and the    *)
(* workers were doing when the queue was closed.  Nothing is said of a     *)
(* caller that is inside add_job at that moment: it goes on with a pool    *)
(* that is freed.                                                          *)
(***************************************************************************)
DrainedBeforeFree == freed => done = 1..accepted

(***************************************************************************)
(* Every job that add_job accepted is eventually run.                      *)
(***************************************************************************)
EveryJobRuns == \A j \in 1..MaxJobs : (accepted >= j) ~> (j \in done)

(***************************************************************************)
(* threadpool_destroy returns: once the queue is closed the pool is        *)
(* eventually drained, its workers exit and it is freed.                   *)
(***************************************************************************)
DestroyReturns == queue_close ~> freed
=============================================================================
