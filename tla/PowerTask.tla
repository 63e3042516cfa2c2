----------------------------- MODULE PowerTask -----------------------------
(***************************************************************************)
(* The power task of hw/power/source/pubPwrTask.c on the apartment and     *)
(* timer of pgos.  One thread, ApartmentThread, takes messages from a      *)
(* queue and talks to the power board; three kinds of thread send to it:   *)
(*                                                                         *)
(*   - the threads that carry out server commands call MsOS_SendMessage,   *)
(*     which waits until the message has been handled, and start and stop  *)
(*     the monitor, which needs the lock of the timers;                    *)
(*   - the timer thread, which holds that lock while it runs callbacks,    *)
(*     posts two readings (PWR_CMD_GET_VOL) per period;                    *)
(*   - the version thread asks for the version until it has an answer,     *)
(*     at the start and after every upgrade.                               *)
(*                                                                         *)
(* A full queue blocks all of them.  The queue is the bounded FIFO that    *)
(* MsQueue implements.  A command of a caller is "set" (switching on or    *)
(* off, configuration, calibration, which differ in their payload only) or *)
(* "upgrade".                                                              *)
(***************************************************************************)
EXTENDS Integers, Sequences, FiniteSets

CONSTANTS Callers,       \* the threads that carry out server commands
          Version,       \* pwrSoftwareVersion_Task
          Timer,         \* TimerProcess
          Depth,         \* the depth of the message queue, 100
          MaxUpgrades    \* a bound on upgrades

NoLock == "none"

ASSUME PowerTaskAssumption ==
    /\ Version \notin Callers
    /\ Timer \notin Callers \cup {Version, NoLock}
    /\ Depth \in Nat \ {0}
    /\ MaxUpgrades \in Nat

Senders == Callers \cup {Version}
Commands == {"set", "upgrade", "version"}
Messages == [id : Commands, from : Senders] \cup [id : {"vol"}, from : {Timer}]

VARIABLES
    queue,       \* pwrApartMent->MessageQueue
    pc,          \* where each sender is
    job,         \* the message it sends: it lies on the sender's stack
    returned,    \* Message.ReturnSemaphore of each sender
    apt,         \* where ApartmentThread is
    cur,         \* the message it handles: a sequence of length 0 or 1
    tpc,         \* where the timer thread is
    s_semaphore, \* the holder of the timers' lock
    monitor,     \* bStartTimer of pwrTimer
    heap,        \* readings allocated and not freed
    pwrCmdPause,
    request,     \* pwrSoftwareVersion_request
    versionSem,  \* pwrSoftwareVersion_sem
    upgrades

threads == <<queue, pc, job, returned, apt, cur>>
timer == <<tpc, s_semaphore, monitor, heap>>
version == <<request, versionSem>>
vars == <<threads, timer, pwrCmdPause, version, upgrades>>

Init ==
    /\ queue = <<>>
    /\ pc = [t \in Senders |-> IF t = Version THEN "semWait" ELSE "idle"]
    /\ job = [t \in Senders |-> "set"]
    /\ returned = [t \in Senders |-> 0]
    /\ apt = "receive"
    /\ cur = <<>>
    /\ tpc = "delay"
    /\ s_semaphore = NoLock
    /\ monitor = FALSE
    /\ heap = 0
    /\ pwrCmdPause = FALSE
    /\ request = 1
    /\ versionSem = 1
    /\ upgrades = 0

-----------------------------------------------------------------------------
(***************************************************************************)
(* MsOS_SendMessage: create the semaphore, send, wait, delete.             *)
(***************************************************************************)
HasSpace == Len(queue) < Depth

StartCall(t, id, from) ==
    /\ pc[t] = from
    /\ pc' = [pc EXCEPT ![t] = "send"]
    /\ job' = [job EXCEPT ![t] = id]
    /\ returned' = [returned EXCEPT ![t] = 0]
    /\ UNCHANGED <<queue, apt, cur>>

\* Mutated form: MsOS_PostMessage, which does not wait.
PostToQueue(t) ==
    /\ pc[t] = "send"
    /\ HasSpace
    /\ queue' = Append(queue, [id |-> job[t], from |-> t])
    /\ pc' = [pc EXCEPT ![t] = IF t = Version THEN "loop" ELSE "idle"]
    /\ UNCHANGED <<job, returned, apt, cur, timer, pwrCmdPause, version, upgrades>>

SendToQueue(t) ==
    /\ pc[t] = "send"
    /\ HasSpace
    /\ queue' = Append(queue, [id |-> job[t], from |-> t])
    /\ pc' = [pc EXCEPT ![t] = "wait"]
    /\ UNCHANGED <<job, returned, apt, cur, timer, pwrCmdPause, version, upgrades>>

Return(t) ==
    /\ pc[t] = "wait"
    /\ returned[t] > 0
    /\ returned' = [returned EXCEPT ![t] = @ - 1]
    /\ pc' = [pc EXCEPT ![t] = IF t = Version THEN "loop" ELSE "idle"]
    /\ UNCHANGED <<queue, job, apt, cur, timer, pwrCmdPause, version, upgrades>>

\* pwrSetOnOff, pwrSetInfo; the calibration returns at once in an upgrade.
SetCommand(c) ==
    /\ StartCall(c, "set", "idle")
    /\ UNCHANGED <<timer, pwrCmdPause, version, upgrades>>

UpgradeCommand(c) ==
    /\ upgrades < MaxUpgrades
    /\ upgrades' = upgrades + 1
    /\ StartCall(c, "upgrade", "idle")
    /\ UNCHANGED <<timer, pwrCmdPause, version>>

(***************************************************************************)
(* pwrEnableMonitor: MsOS_StartTimer or MsOS_StopTimer, under the lock.    *)
(***************************************************************************)
\* Mutated form: the lock is not taken.
TimersUnguarded == TRUE

TimersFree == s_semaphore = NoLock

EnableMonitor(c) ==
    /\ pc[c] = "idle"
    /\ pc' = [pc EXCEPT ![c] = "monitor"]
    /\ UNCHANGED <<queue, job, returned, apt, cur, timer, pwrCmdPause, version, upgrades>>

SetMonitor(c) ==
    /\ pc[c] = "monitor"
    /\ TimersFree
    /\ monitor' \in BOOLEAN
    /\ pc' = [pc EXCEPT ![c] = "idle"]
    /\ UNCHANGED <<queue, job, returned, apt, cur, tpc, s_semaphore, heap,
                   pwrCmdPause, version, upgrades>>

(***************************************************************************)
(* pwrSoftwareVersion_Task                                                 *)
(***************************************************************************)
VersionWakes ==
    /\ pc[Version] = "semWait"
    /\ versionSem > 0
    /\ versionSem' = versionSem - 1
    /\ pc' = [pc EXCEPT ![Version] = "loop"]
    /\ UNCHANGED <<queue, job, returned, apt, cur, timer, pwrCmdPause, request, upgrades>>

VersionAsks ==
    /\ request > 0
    /\ StartCall(Version, "version", "loop")
    /\ UNCHANGED <<timer, pwrCmdPause, version, upgrades>>

VersionKnown ==
    /\ pc[Version] = "loop"
    /\ request = 0
    /\ pc' = [pc EXCEPT ![Version] = "semWait"]
    /\ UNCHANGED <<queue, job, returned, apt, cur, timer, pwrCmdPause, version, upgrades>>

-----------------------------------------------------------------------------
(***************************************************************************)
(* TimerProcess.  The other timer of the program is the heartbeat, which   *)
(* is looked at in the same pass.  Whether the period of pwrTimer is over  *)
(* is left open.  pwrgetInfo tests pwrCmdPause, allocates the message and  *)
(* posts it, for channel 2 and then for channel 3.                         *)
(***************************************************************************)
TimerPass ==
    /\ tpc = "delay"
    /\ s_semaphore = NoLock
    /\ s_semaphore' = Timer
    /\ tpc' = "pass"
    /\ UNCHANGED <<threads, monitor, heap, pwrCmdPause, version, upgrades>>

PwrTimerCallback ==
    /\ tpc = "pass"
    /\ monitor
    /\ tpc' = "get2"
    /\ UNCHANGED <<threads, s_semaphore, monitor, heap, pwrCmdPause, version, upgrades>>

AfterChannel(here) == IF here \in {"get2", "post2"} THEN "get3" ELSE "release"

GetInfo ==
    /\ tpc \in {"get2", "get3"}
    /\ IF pwrCmdPause
       THEN /\ tpc' = AfterChannel(tpc)
            /\ UNCHANGED heap
       ELSE /\ tpc' = IF tpc = "get2" THEN "post2" ELSE "post3"
            /\ heap' = heap + 1
    /\ UNCHANGED <<threads, s_semaphore, monitor, pwrCmdPause, version, upgrades>>

PostInfo ==
    /\ tpc \in {"post2", "post3"}
    /\ HasSpace
    /\ queue' = Append(queue, [id |-> "vol", from |-> Timer])
    /\ tpc' = AfterChannel(tpc)
    /\ UNCHANGED <<pc, job, returned, apt, cur, s_semaphore, monitor, heap,
                   pwrCmdPause, version, upgrades>>

\* Mutated form: the lock is kept.
LockKept == UNCHANGED s_semaphore

ReleaseTimers == s_semaphore' = NoLock

TimerPassEnds ==
    /\ tpc \in {"pass", "release"}
    /\ ReleaseTimers
    /\ tpc' = "delay"
    /\ UNCHANGED <<threads, monitor, heap, pwrCmdPause, version, upgrades>>

-----------------------------------------------------------------------------
(***************************************************************************)
(* ApartmentThread and power_message_proc                                  *)
(***************************************************************************)
Receive ==
    /\ apt = "receive"
    /\ queue # <<>>
    /\ cur' = <<Head(queue)>>
    /\ queue' = Tail(queue)
    /\ apt' = "handle"
    /\ UNCHANGED <<pc, job, returned, timer, pwrCmdPause, version, upgrades>>

Handling(ids) == apt = "handle" /\ cur[1].id \in ids

\* pwrCmdTransfer of a setting: answered or not, nothing follows from it.
HandleSet ==
    /\ Handling({"set"})
    /\ apt' = "reply"
    /\ UNCHANGED <<queue, pc, job, returned, cur, timer, pwrCmdPause, version, upgrades>>

\* Mutated form: the message of the timer is not freed.
NotFreed == UNCHANGED heap

FreeMessage == heap' = heap - 1

\* pwrCmdTransfer of a reading, and free(pBuf).
HandleVol ==
    /\ Handling({"vol"})
    /\ FreeMessage
    /\ apt' = "reply"
    /\ UNCHANGED <<queue, pc, job, returned, cur, tpc, s_semaphore, monitor,
                   pwrCmdPause, version, upgrades>>

\* The question is put to the board only if the version is still unknown.
VersionTransferred(answered) ==
    /\ Handling({"version"})
    /\ request' = IF request = 1 /\ answered THEN 0 ELSE request
    /\ apt' = "reply"
    /\ UNCHANGED <<queue, pc, job, returned, cur, timer, pwrCmdPause, versionSem, upgrades>>

VersionAnswered == VersionTransferred(TRUE)
VersionTimeout == VersionTransferred(FALSE)

UpgradeBegins ==
    /\ Handling({"upgrade"})
    /\ pwrCmdPause' = TRUE
    /\ apt' = "upgrading"
    /\ UNCHANGED <<queue, pc, job, returned, cur, timer, version, upgrades>>

\* userPwrUpgrade: the board is upgraded and its version is unknown again.
Upgrade ==
    /\ apt = "upgrading"
    /\ request' = 1
    /\ apt' = "upgraded"
    /\ UNCHANGED <<queue, pc, job, returned, cur, timer, pwrCmdPause, versionSem, upgrades>>

\* Mutated form: the version thread is not woken.
NoPostVersion == UNCHANGED versionSem

PostVersion == versionSem' = versionSem + 1

UpgradeEnds ==
    /\ apt = "upgraded"
    /\ PostVersion
    /\ pwrCmdPause' = FALSE
    /\ apt' = "reply"
    /\ UNCHANGED <<queue, pc, job, returned, cur, timer, request, upgrades>>

\* Message.Blocking is set by MsOS_SendMessage only.
ReleaseSender(m) ==
    returned' = IF m.from \in Senders
                THEN [returned EXCEPT ![m.from] = @ + 1] ELSE returned

Reply ==
    /\ apt = "reply"
    /\ ReleaseSender(cur[1])
    /\ cur' = <<>>
    /\ apt' = "receive"
    /\ UNCHANGED <<queue, pc, job, timer, pwrCmdPause, version, upgrades>>

-----------------------------------------------------------------------------

Apartment == \/ Receive \/ HandleSet \/ HandleVol
             \/ VersionAnswered \/ VersionTimeout
             \/ UpgradeBegins \/ Upgrade \/ UpgradeEnds \/ Reply

TimerProcess == TimerPass \/ PwrTimerCallback \/ GetInfo \/ PostInfo \/ TimerPassEnds

VersionTask == VersionWakes \/ VersionAsks \/ VersionKnown

Next == \/ \E c \in Callers : SetCommand(c) \/ UpgradeCommand(c) \/ EnableMonitor(c)
                              \/ SetMonitor(c)
        \/ \E t \in Senders : SendToQueue(t) \/ Return(t)
        \/ Apartment
        \/ TimerProcess
        \/ VersionTask

Spec == Init /\ [][Next]_vars

(***************************************************************************)
(* Every thread runs; the waiters of a semaphore are woken in turn (strong *)
(* fairness); of the questions for its version the board answers some.     *)
(***************************************************************************)
FairSpec ==
    /\ Spec
    /\ WF_vars(Apartment)
    /\ SF_vars(VersionAnswered)
    /\ SF_vars(TimerPass) /\ SF_vars(PostInfo) /\ WF_vars(TimerProcess)
    /\ WF_vars(VersionTask)
    /\ \A t \in Senders : SF_vars(SendToQueue(t)) /\ WF_vars(Return(t))
    /\ \A c \in Callers : SF_vars(SetMonitor(c))

-----------------------------------------------------------------------------

TypeOK ==
    /\ queue \in Seq(Messages)
    /\ Len(queue) <= Depth
    /\ pc \in [Senders -> {"idle", "send", "wait", "monitor", "semWait", "loop"}]
    /\ job \in [Senders -> Commands]
    /\ returned \in [Senders -> 0..1]
    /\ apt \in {"receive", "handle", "upgrading", "upgraded", "reply"}
    /\ cur \in Seq(Messages)
    /\ Len(cur) = IF apt = "receive" THEN 0 ELSE 1
    /\ tpc \in {"delay", "pass", "get2", "post2", "get3", "post3", "release"}
    /\ s_semaphore \in {NoLock, Timer}
    /\ monitor \in BOOLEAN
    /\ heap \in Int
    /\ pwrCmdPause \in BOOLEAN
    /\ request \in 0..1
    /\ versionSem \in Nat
    /\ upgrades \in 0..MaxUpgrades

(***************************************************************************)
(* A message of a sender lies on its stack, and its semaphore is deleted   *)
(* when the sender returns: as long as the message is queued or handled    *)
(* its sender waits in MsOS_SendMessage, for this message and no other.    *)
(***************************************************************************)
Awaited(m) ==
    m.from \in Senders =>
       /\ pc[m.from] = "wait"
       /\ returned[m.from] = 0
       /\ job[m.from] = m.id

StackAlive ==
    /\ \A i \in 1..Len(queue) : Awaited(queue[i])
    /\ \A i \in 1..Len(cur) : Awaited(cur[i])
    /\ \A i, j \in 1..Len(queue) :
          (i # j /\ queue[i].from \in Senders) => queue[i].from # queue[j].from
    /\ \A i \in 1..Len(queue), j \in 1..Len(cur) :
          cur[j].from \in Senders => queue[i].from # cur[j].from

(***************************************************************************)
(* Every reading that pwrgetInfo allocates is freed once, by the handler:  *)
(* those not freed are queued, being handled or about to be posted.        *)
(***************************************************************************)
Unfreed == {i \in 1..Len(queue) : queue[i].id = "vol"}
           \cup {i - 1 : i \in {j \in 1..Len(cur) : cur[j].id = "vol" /\ apt = "handle"}}

HeapAccounted ==
    heap = Cardinality(Unfreed) + (IF tpc \in {"post2", "post3"} THEN 1 ELSE 0)

(***************************************************************************)
(* pwrEnableMonitor(0) does not return while the callback is posting       *)
(* readings: once the monitor is off no reading is added to the queue.     *)
(***************************************************************************)
StopIsFinal == tpc \in {"get2", "post2", "get3", "post3"} => monitor

(***************************************************************************)
(* No command is lost: every call of MsOS_SendMessage and of               *)
(* pwrEnableMonitor returns, however full the queue.  And the timer        *)
(* thread, which a full queue blocks with the timers' lock held, always    *)
(* gets to its next pass: the heartbeat goes on.                           *)
(***************************************************************************)
CallsReturn  == \A c \in Callers : pc[c] # "idle" ~> pc[c] = "idle"
TimersServed == []<>(tpc = "delay") /\ []<>(tpc = "pass")

NobodyBlocks == CallsReturn /\ TimersServed

(***************************************************************************)
(* After the start and after every upgrade the version is asked for until  *)
(* the board has answered.                                                 *)
(***************************************************************************)
VersionLearned == request = 1 ~> request = 0
=============================================================================
