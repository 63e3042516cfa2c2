-------------------------- MODULE PowerTask_proofs --------------------------
(***************************************************************************)
(* Proofs about PowerTask for any set of callers and any queue depth: the  *)
(* messages on the senders' stacks are alive as long as they are used, and *)
(* the monitor stays off once it has been switched off.                    *)
(***************************************************************************)
EXTENDS PowerTask, FiniteSetTheorems, TLAPS

(***************************************************************************)
(* The timer thread holds the timers' lock exactly during its pass.        *)
(***************************************************************************)
LockHeld == (s_semaphore = NoLock) <=> (tpc = "delay")

(***************************************************************************)
(* A return semaphore is released only for a sender that waits for it.     *)
(***************************************************************************)
ReleasedWhileWaiting == \A t \in Senders : pc[t] # "wait" => returned[t] = 0

IInv == TypeOK /\ StackAlive /\ ReleasedWhileWaiting /\ LockHeld /\ StopIsFinal

(***************************************************************************)
(* The threads that send with MsOS_SendMessage are the callers and the     *)
(* version thread, and not the timer thread.                               *)
(***************************************************************************)
LEMMA SendersType ==
    /\ Version \in Senders
    /\ Timer \notin Senders
    /\ Timer # NoLock
    /\ Callers \subseteq Senders
BY PowerTaskAssumption DEF Senders

(***************************************************************************)
(* Only the sender's own state and the two places a message can be in      *)
(* matter to StackAlive.                                                   *)
(***************************************************************************)
LEMMA StackAliveStable ==
    ASSUME StackAlive, UNCHANGED <<queue, cur, pc, job, returned>>
    PROVE  StackAlive'
BY DEF StackAlive, Awaited

(***************************************************************************)
(* A sender that does not wait has no message queued or handled.           *)
(***************************************************************************)
LEMMA NotPending ==
    ASSUME StackAlive, NEW t \in Senders, pc[t] # "wait" \/ returned[t] # 0
    PROVE  /\ \A i \in 1..Len(queue) : queue[i].from # t
           /\ \A i \in 1..Len(cur) : cur[i].from # t
BY DEF StackAlive, Awaited

(***************************************************************************)
(* So its own state may change without harm to the messages of others.     *)
(***************************************************************************)
LEMMA SenderMoves ==
    ASSUME IInv, NEW t \in Senders, pc[t] # "wait" \/ returned[t] # 0,
           UNCHANGED <<queue, cur>>,
           \A u \in Senders \ {t} : /\ pc'[u] = pc[u]
                                    /\ job'[u] = job[u]
                                    /\ returned'[u] = returned[u]
    PROVE  StackAlive'
<1>1. /\ \A i \in 1..Len(queue) : queue[i].from # t
      /\ \A i \in 1..Len(cur) : cur[i].from # t
  BY NotPending DEF IInv
<1> QED BY <1>1 DEF IInv, StackAlive, Awaited

(***************************************************************************)
(* The empty sequence, of which Init speaks.                               *)
(***************************************************************************)
LEMMA EmptySequence == \A S : <<>> \in Seq(S) /\ Len(<<>>) = 0
OBVIOUS

(***************************************************************************)
(* Initially no message is pending and the timers' lock is free.           *)
(***************************************************************************)
LEMMA InitIInv == Init => IInv
<1> SUFFICES ASSUME Init PROVE IInv
  OBVIOUS
<1>1. TypeOK
  <2>1. queue \in Seq(Messages) /\ cur \in Seq(Messages) /\ Len(queue) = 0 /\ Len(cur) = 0
    BY EmptySequence DEF Init
  <2>2. monitor \in BOOLEAN /\ pwrCmdPause \in BOOLEAN
    BY Zenon DEF Init
  <2>3. QED
    BY <2>1, <2>2, PowerTaskAssumption DEF Init, TypeOK, Commands
<1>2. StackAlive
  BY EmptySequence DEF Init, StackAlive
<1>3. LockHeld /\ StopIsFinal /\ ReleasedWhileWaiting
  BY DEF Init, LockHeld, StopIsFinal, ReleasedWhileWaiting
<1> QED BY <1>1, <1>2, <1>3 DEF IInv

(***************************************************************************)
(* Every step of a sender, of the timer thread and of ApartmentThread      *)
(* preserves the invariant.                                                *)
(***************************************************************************)
LEMMA NextIInv == IInv /\ [Next]_vars => IInv'
<1> SUFFICES ASSUME IInv, [Next]_vars PROVE IInv'
  OBVIOUS
<1> USE SendersType
<1>t. TypeOK /\ StackAlive /\ ReleasedWhileWaiting /\ LockHeld /\ StopIsFinal
  BY DEF IInv
<1>1. ASSUME NEW c \in Callers, SetCommand(c) PROVE IInv'
  <2>1. monitor' \in BOOLEAN /\ pwrCmdPause' \in BOOLEAN
    BY <1>1, <1>t, Zenon DEF SetCommand, StartCall, TypeOK, threads, timer, version
  <2>2. TypeOK'
    BY <1>1, <1>t, <2>1 DEF SetCommand, StartCall, TypeOK, threads, timer, version,
       Commands, Messages, HasSpace
  <2>3. StackAlive'
    BY <1>1, <1>t, SenderMoves DEF SetCommand, StartCall, TypeOK
  <2>4. LockHeld' /\ StopIsFinal'
    BY <1>1, <1>t DEF SetCommand, StartCall, LockHeld, StopIsFinal, threads, timer,
       version, TypeOK
  <2>5. ReleasedWhileWaiting'
    BY <1>1, <1>t DEF SetCommand, StartCall, ReleasedWhileWaiting, threads, TypeOK
  <2> QED BY <2>2, <2>3, <2>4, <2>5 DEF IInv
<1>2. ASSUME NEW c \in Callers, UpgradeCommand(c) PROVE IInv'
  <2>1. monitor' \in BOOLEAN /\ pwrCmdPause' \in BOOLEAN
    BY <1>2, <1>t, Zenon DEF UpgradeCommand, StartCall, TypeOK, threads, timer, version
  <2>2. TypeOK'
    BY <1>2, <1>t, <2>1, PowerTaskAssumption DEF UpgradeCommand, StartCall, TypeOK,
       threads, timer, version, Commands, Messages, HasSpace
  <2>3. StackAlive'
    BY <1>2, <1>t, SenderMoves DEF UpgradeCommand, StartCall, TypeOK
  <2>4. LockHeld' /\ StopIsFinal'
    BY <1>2, <1>t DEF UpgradeCommand, StartCall, LockHeld, StopIsFinal, threads, timer,
       version, TypeOK
  <2>5. ReleasedWhileWaiting'
    BY <1>2, <1>t DEF UpgradeCommand, StartCall, ReleasedWhileWaiting, threads, TypeOK
  <2> QED BY <2>2, <2>3, <2>4, <2>5 DEF IInv
<1>3. ASSUME NEW c \in Callers, EnableMonitor(c) PROVE IInv'
  <2>1. monitor' \in BOOLEAN /\ pwrCmdPause' \in BOOLEAN
    BY <1>3, <1>t, Zenon DEF EnableMonitor, TypeOK, threads, timer, version
  <2>2. TypeOK'
    BY <1>3, <1>t, <2>1 DEF EnableMonitor, TypeOK, threads, timer, version, Commands,
       Messages, HasSpace
  <2>3. StackAlive'
    BY <1>3, <1>t, SenderMoves DEF EnableMonitor, TypeOK
  <2>4. LockHeld' /\ StopIsFinal'
    BY <1>3, <1>t DEF EnableMonitor, LockHeld, StopIsFinal, threads, timer, version, TypeOK
  <2>5. ReleasedWhileWaiting'
    BY <1>3, <1>t DEF EnableMonitor, ReleasedWhileWaiting, threads, TypeOK
  <2> QED BY <2>2, <2>3, <2>4, <2>5 DEF IInv
<1>4. ASSUME NEW c \in Callers, SetMonitor(c) PROVE IInv'
  <2>1. monitor' \in BOOLEAN /\ pwrCmdPause' \in BOOLEAN
    BY <1>4, <1>t, Zenon DEF SetMonitor, TimersFree, TypeOK, threads, timer, version
  <2>2. TypeOK'
    BY <1>4, <1>t, <2>1 DEF SetMonitor, TimersFree, TypeOK, threads, timer, version,
       Commands, Messages, HasSpace
  <2>3. StackAlive'
    BY <1>4, <1>t, SenderMoves DEF SetMonitor, TimersFree, TypeOK
  <2>4. LockHeld' /\ StopIsFinal'
    BY <1>4, <1>t DEF SetMonitor, TimersFree, LockHeld, StopIsFinal, threads, timer,
       version, TypeOK
  <2>5. ReleasedWhileWaiting'
    BY <1>4, <1>t DEF SetMonitor, TimersFree, ReleasedWhileWaiting, threads, TypeOK
  <2> QED BY <2>2, <2>3, <2>4, <2>5 DEF IInv
<1>5. ASSUME NEW t \in Senders, Return(t) PROVE IInv'
  <2>1. monitor' \in BOOLEAN /\ pwrCmdPause' \in BOOLEAN
    BY <1>5, <1>t, Zenon DEF Return, TypeOK, threads, timer, version
  <2>2. TypeOK'
    BY <1>5, <1>t, <2>1 DEF Return, TypeOK, threads, timer, version, Commands, Messages,
       HasSpace
  <2>3. StackAlive'
    BY <1>5, <1>t, SenderMoves DEF Return, TypeOK
  <2>4. LockHeld' /\ StopIsFinal'
    BY <1>5, <1>t DEF Return, LockHeld, StopIsFinal, threads, timer, version, TypeOK
  <2>5. ReleasedWhileWaiting'
    BY <1>5, <1>t DEF Return, ReleasedWhileWaiting, threads, TypeOK
  <2> QED BY <2>2, <2>3, <2>4, <2>5 DEF IInv
<1>6. CASE VersionWakes
  <2>1. monitor' \in BOOLEAN /\ pwrCmdPause' \in BOOLEAN
    BY <1>6, <1>t, Zenon DEF VersionWakes, TypeOK, threads, timer, version
  <2>2. TypeOK'
    BY <1>6, <1>t, <2>1 DEF VersionWakes, TypeOK, threads, timer, version, Commands,
       Messages, HasSpace
  <2>3. StackAlive'
    BY <1>6, <1>t, SenderMoves DEF VersionWakes, TypeOK
  <2>4. LockHeld' /\ StopIsFinal'
    BY <1>6, <1>t DEF VersionWakes, LockHeld, StopIsFinal, threads, timer, version, TypeOK
  <2>5. ReleasedWhileWaiting'
    BY <1>6, <1>t DEF VersionWakes, ReleasedWhileWaiting, threads, TypeOK
  <2> QED BY <2>2, <2>3, <2>4, <2>5 DEF IInv
<1>7. CASE VersionAsks
  <2>1. monitor' \in BOOLEAN /\ pwrCmdPause' \in BOOLEAN
    BY <1>7, <1>t, Zenon DEF VersionAsks, StartCall, TypeOK, threads, timer, version
  <2>2. TypeOK'
    BY <1>7, <1>t, <2>1 DEF VersionAsks, StartCall, TypeOK, threads, timer, version,
       Commands, Messages, HasSpace
  <2>3. StackAlive'
    BY <1>7, <1>t, SenderMoves DEF VersionAsks, StartCall, TypeOK
  <2>4. LockHeld' /\ StopIsFinal'
    BY <1>7, <1>t DEF VersionAsks, StartCall, LockHeld, StopIsFinal, threads, timer,
       version, TypeOK
  <2>5. ReleasedWhileWaiting'
    BY <1>7, <1>t DEF VersionAsks, StartCall, ReleasedWhileWaiting, threads, TypeOK
  <2> QED BY <2>2, <2>3, <2>4, <2>5 DEF IInv
<1>8. CASE VersionKnown
  <2>1. monitor' \in BOOLEAN /\ pwrCmdPause' \in BOOLEAN
    BY <1>8, <1>t, Zenon DEF VersionKnown, TypeOK, threads, timer, version
  <2>2. TypeOK'
    BY <1>8, <1>t, <2>1 DEF VersionKnown, TypeOK, threads, timer, version, Commands,
       Messages, HasSpace
  <2>3. StackAlive'
    BY <1>8, <1>t, SenderMoves DEF VersionKnown, TypeOK
  <2>4. LockHeld' /\ StopIsFinal'
    BY <1>8, <1>t DEF VersionKnown, LockHeld, StopIsFinal, threads, timer, version, TypeOK
  <2>5. ReleasedWhileWaiting'
    BY <1>8, <1>t DEF VersionKnown, ReleasedWhileWaiting, threads, TypeOK
  <2> QED BY <2>2, <2>3, <2>4, <2>5 DEF IInv
<1>9. CASE TimerPass
  <2>1. monitor' \in BOOLEAN /\ pwrCmdPause' \in BOOLEAN
    BY <1>9, <1>t, Zenon DEF TimerPass, TypeOK, threads, timer, version
  <2>2. TypeOK'
    BY <1>9, <1>t, <2>1 DEF TimerPass, TypeOK, threads, timer, version, Commands,
       Messages, HasSpace
  <2>3. StackAlive'
    BY <1>9, <1>t, StackAliveStable DEF TimerPass, threads
  <2>4. LockHeld' /\ StopIsFinal'
    BY <1>9, <1>t DEF TimerPass, LockHeld, StopIsFinal, threads, timer, version, TypeOK
  <2>5. ReleasedWhileWaiting'
    BY <1>9, <1>t DEF TimerPass, ReleasedWhileWaiting, threads, TypeOK
  <2> QED BY <2>2, <2>3, <2>4, <2>5 DEF IInv
<1>10. CASE PwrTimerCallback
  <2>1. monitor' \in BOOLEAN /\ pwrCmdPause' \in BOOLEAN
    BY <1>10, <1>t, Zenon DEF PwrTimerCallback, TypeOK, threads, timer, version
  <2>2. TypeOK'
    BY <1>10, <1>t, <2>1 DEF PwrTimerCallback, TypeOK, threads, timer, version,
       Commands, Messages, HasSpace
  <2>3. StackAlive'
    BY <1>10, <1>t, StackAliveStable DEF PwrTimerCallback, threads
  <2>4. LockHeld' /\ StopIsFinal'
    BY <1>10, <1>t DEF PwrTimerCallback, LockHeld, StopIsFinal, threads, timer, version,
       TypeOK
  <2>5. ReleasedWhileWaiting'
    BY <1>10, <1>t DEF PwrTimerCallback, ReleasedWhileWaiting, threads, TypeOK
  <2> QED BY <2>2, <2>3, <2>4, <2>5 DEF IInv
<1>11. CASE GetInfo
  <2>1. monitor' \in BOOLEAN /\ pwrCmdPause' \in BOOLEAN
    BY <1>11, <1>t, Zenon DEF GetInfo, AfterChannel, TypeOK, threads, timer, version
  <2>2. TypeOK'
    BY <1>11, <1>t, <2>1 DEF GetInfo, AfterChannel, TypeOK, threads, timer, version,
       Commands, Messages, HasSpace
  <2>3. StackAlive'
    BY <1>11, <1>t, StackAliveStable DEF GetInfo, AfterChannel, threads
  <2>4. LockHeld' /\ StopIsFinal'
    BY <1>11, <1>t DEF GetInfo, AfterChannel, LockHeld, StopIsFinal, threads, timer,
       version, TypeOK
  <2>5. ReleasedWhileWaiting'
    BY <1>11, <1>t DEF GetInfo, AfterChannel, ReleasedWhileWaiting, threads, TypeOK
  <2> QED BY <2>2, <2>3, <2>4, <2>5 DEF IInv
<1>12. CASE TimerPassEnds
  <2>1. monitor' \in BOOLEAN /\ pwrCmdPause' \in BOOLEAN
    BY <1>12, <1>t, Zenon DEF TimerPassEnds, ReleaseTimers, TypeOK, threads, timer, version
  <2>2. TypeOK'
    BY <1>12, <1>t, <2>1 DEF TimerPassEnds, ReleaseTimers, TypeOK, threads, timer,
       version, Commands, Messages, HasSpace
  <2>3. StackAlive'
    BY <1>12, <1>t, StackAliveStable DEF TimerPassEnds, ReleaseTimers, threads
  <2>4. LockHeld' /\ StopIsFinal'
    BY <1>12, <1>t DEF TimerPassEnds, ReleaseTimers, LockHeld, StopIsFinal, threads,
       timer, version, TypeOK
  <2>5. ReleasedWhileWaiting'
    BY <1>12, <1>t DEF TimerPassEnds, ReleaseTimers, ReleasedWhileWaiting, threads, TypeOK
  <2> QED BY <2>2, <2>3, <2>4, <2>5 DEF IInv
<1>13. CASE HandleSet
  <2>1. monitor' \in BOOLEAN /\ pwrCmdPause' \in BOOLEAN
    BY <1>13, <1>t, Zenon DEF HandleSet, Handling, TypeOK, threads, timer, version
  <2>2. TypeOK'
    BY <1>13, <1>t, <2>1 DEF HandleSet, Handling, TypeOK, threads, timer, version,
       Commands, Messages, HasSpace
  <2>3. StackAlive'
    BY <1>13, <1>t, StackAliveStable DEF HandleSet, Handling, threads
  <2>4. LockHeld' /\ StopIsFinal'
    BY <1>13, <1>t DEF HandleSet, Handling, LockHeld, StopIsFinal, threads, timer,
       version, TypeOK
  <2>5. ReleasedWhileWaiting'
    BY <1>13, <1>t DEF HandleSet, Handling, ReleasedWhileWaiting, threads, TypeOK
  <2> QED BY <2>2, <2>3, <2>4, <2>5 DEF IInv
<1>14. CASE HandleVol
  <2>1. monitor' \in BOOLEAN /\ pwrCmdPause' \in BOOLEAN
    BY <1>14, <1>t, Zenon DEF HandleVol, Handling, FreeMessage, TypeOK, threads, timer,
       version
  <2>2. TypeOK'
    BY <1>14, <1>t, <2>1 DEF HandleVol, Handling, FreeMessage, TypeOK, threads, timer,
       version, Commands, Messages, HasSpace
  <2>3. StackAlive'
    BY <1>14, <1>t, StackAliveStable DEF HandleVol, Handling, FreeMessage, threads
  <2>4. LockHeld' /\ StopIsFinal'
    BY <1>14, <1>t DEF HandleVol, Handling, FreeMessage, LockHeld, StopIsFinal, threads,
       timer, version, TypeOK
  <2>5. ReleasedWhileWaiting'
    BY <1>14, <1>t DEF HandleVol, Handling, FreeMessage, ReleasedWhileWaiting, threads,
       TypeOK
  <2> QED BY <2>2, <2>3, <2>4, <2>5 DEF IInv
<1>15. CASE VersionAnswered
  <2>1. monitor' \in BOOLEAN /\ pwrCmdPause' \in BOOLEAN
    BY <1>15, <1>t, Zenon DEF VersionAnswered, VersionTransferred, Handling, TypeOK,
       threads, timer, version
  <2>2. TypeOK'
    BY <1>15, <1>t, <2>1 DEF VersionAnswered, VersionTransferred, Handling, TypeOK,
       threads, timer, version, Commands, Messages, HasSpace
  <2>3. StackAlive'
    BY <1>15, <1>t, StackAliveStable DEF VersionAnswered, VersionTransferred, Handling,
       threads
  <2>4. LockHeld' /\ StopIsFinal'
    BY <1>15, <1>t DEF VersionAnswered, VersionTransferred, Handling, LockHeld,
       StopIsFinal, threads, timer, version, TypeOK
  <2>5. ReleasedWhileWaiting'
    BY <1>15, <1>t DEF VersionAnswered, VersionTransferred, Handling,
       ReleasedWhileWaiting, threads, TypeOK
  <2> QED BY <2>2, <2>3, <2>4, <2>5 DEF IInv
<1>16. CASE VersionTimeout
  <2>1. monitor' \in BOOLEAN /\ pwrCmdPause' \in BOOLEAN
    BY <1>16, <1>t, Zenon DEF VersionTimeout, VersionTransferred, Handling, TypeOK,
       threads, timer, version
  <2>2. TypeOK'
    BY <1>16, <1>t, <2>1 DEF VersionTimeout, VersionTransferred, Handling, TypeOK,
       threads, timer, version, Commands, Messages, HasSpace
  <2>3. StackAlive'
    BY <1>16, <1>t, StackAliveStable DEF VersionTimeout, VersionTransferred, Handling,
       threads
  <2>4. LockHeld' /\ StopIsFinal'
    BY <1>16, <1>t DEF VersionTimeout, VersionTransferred, Handling, LockHeld,
       StopIsFinal, threads, timer, version, TypeOK
  <2>5. ReleasedWhileWaiting'
    BY <1>16, <1>t DEF VersionTimeout, VersionTransferred, Handling,
       ReleasedWhileWaiting, threads, TypeOK
  <2> QED BY <2>2, <2>3, <2>4, <2>5 DEF IInv
<1>18. CASE UpgradeBegins
  <2>1. monitor' \in BOOLEAN /\ pwrCmdPause' \in BOOLEAN
    BY <1>18, <1>t, Zenon DEF UpgradeBegins, Handling, TypeOK, threads, timer, version
  <2>2. TypeOK'
    BY <1>18, <1>t, <2>1 DEF UpgradeBegins, Handling, TypeOK, threads, timer, version,
       Commands, Messages, HasSpace
  <2>3. StackAlive'
    BY <1>18, <1>t, StackAliveStable DEF UpgradeBegins, Handling, threads
  <2>4. LockHeld' /\ StopIsFinal'
    BY <1>18, <1>t DEF UpgradeBegins, Handling, LockHeld, StopIsFinal, threads, timer,
       version, TypeOK
  <2>5. ReleasedWhileWaiting'
    BY <1>18, <1>t DEF UpgradeBegins, Handling, ReleasedWhileWaiting, threads, TypeOK
  <2> QED BY <2>2, <2>3, <2>4, <2>5 DEF IInv
<1>19. CASE Upgrade
  <2>1. monitor' \in BOOLEAN /\ pwrCmdPause' \in BOOLEAN
    BY <1>19, <1>t, Zenon DEF Upgrade, TypeOK, threads, timer, version
  <2>2. TypeOK'
    BY <1>19, <1>t, <2>1 DEF Upgrade, TypeOK, threads, timer, version, Commands,
       Messages, HasSpace
  <2>3. StackAlive'
    BY <1>19, <1>t, StackAliveStable DEF Upgrade, threads
  <2>4. LockHeld' /\ StopIsFinal'
    BY <1>19, <1>t DEF Upgrade, LockHeld, StopIsFinal, threads, timer, version, TypeOK
  <2>5. ReleasedWhileWaiting'
    BY <1>19, <1>t DEF Upgrade, ReleasedWhileWaiting, threads, TypeOK
  <2> QED BY <2>2, <2>3, <2>4, <2>5 DEF IInv
<1>20. CASE UpgradeEnds
  <2>1. monitor' \in BOOLEAN /\ pwrCmdPause' \in BOOLEAN
    BY <1>20, <1>t, Zenon DEF UpgradeEnds, PostVersion, TypeOK, threads, timer, version
  <2>2. TypeOK'
    BY <1>20, <1>t, <2>1 DEF UpgradeEnds, PostVersion, TypeOK, threads, timer, version,
       Commands, Messages, HasSpace
  <2>3. StackAlive'
    BY <1>20, <1>t, StackAliveStable DEF UpgradeEnds, PostVersion, threads
  <2>4. LockHeld' /\ StopIsFinal'
    BY <1>20, <1>t DEF UpgradeEnds, PostVersion, LockHeld, StopIsFinal, threads, timer,
       version, TypeOK
  <2>5. ReleasedWhileWaiting'
    BY <1>20, <1>t DEF UpgradeEnds, PostVersion, ReleasedWhileWaiting, threads, TypeOK
  <2> QED BY <2>2, <2>3, <2>4, <2>5 DEF IInv
<1>21. ASSUME NEW t \in Senders, SendToQueue(t) PROVE IInv'
  <2>1. monitor' \in BOOLEAN /\ pwrCmdPause' \in BOOLEAN
    BY <1>21, <1>t, Zenon DEF SendToQueue, TypeOK, threads, timer, version
  <2>2. TypeOK'
    <3> DEFINE m == [id |-> job[t], from |-> t]
    <3>1. m \in Messages
      BY <1>21, <1>t DEF TypeOK, Messages
    <3> HIDE DEF m
    <3>2. queue' \in Seq(Messages) /\ Len(queue') <= Depth
      BY <1>21, <1>t, <3>1, PowerTaskAssumption DEF SendToQueue, TypeOK, HasSpace, m
    <3>3. pc' \in [Senders -> {"idle", "send", "wait", "monitor", "semWait", "loop"}]
      BY <1>21, <1>t DEF SendToQueue, TypeOK
    <3> QED
      BY <1>21, <1>t, <2>1, <3>2, <3>3 DEF SendToQueue, TypeOK, timer, version
  <2>3. StackAlive'
    <3>0. PICK m : m = [id |-> job[t], from |-> t]
      OBVIOUS
    <3>1. m.from = t /\ m.id = job[t]
      BY <3>0
    <3>2. queue' = Append(queue, m) /\ queue \in Seq(Messages) /\ cur' = cur
      BY <1>21, <1>t, <3>0 DEF SendToQueue, TypeOK
    <3>3. /\ \A i \in 1..Len(queue) : queue[i].from # t
          /\ \A i \in 1..Len(cur) : cur[i].from # t
      BY <1>21, <1>t, NotPending DEF SendToQueue
    <3>4. returned[t] = 0
      BY <1>21, <1>t DEF SendToQueue, ReleasedWhileWaiting
    <3>5. Awaited(m)'
      BY <1>21, <1>t, <3>1, <3>4 DEF SendToQueue, Awaited, TypeOK
    <3>6. \A k : k.from # t /\ Awaited(k) => Awaited(k)'
      BY <1>21, <1>t DEF SendToQueue, Awaited, TypeOK
    <3>7. /\ Len(queue') = Len(queue) + 1
          /\ Len(queue) \in Nat
          /\ queue'[Len(queue) + 1] = m
          /\ \A i \in 1..Len(queue) : queue'[i] = queue[i]
      BY <3>2
    <3>8. \A i \in 1..Len(queue') : i \in 1..Len(queue) \/ i = Len(queue) + 1
      BY <3>7
    <3>9. (\A i \in 1..Len(queue) : Awaited(queue[i]))'
      BY <3>3, <3>5, <3>6, <3>7, <3>8, <1>t DEF StackAlive, Awaited
    <3>10. (\A i \in 1..Len(cur) : Awaited(cur[i]))'
      BY <3>2, <3>3, <3>6, <1>t DEF StackAlive, Awaited
    <3>11. \A i, j \in 1..Len(queue') :
             (i # j /\ queue'[i].from \in Senders) => queue'[i].from # queue'[j].from
      BY <3>1, <3>3, <3>7, <3>8, <1>t DEF StackAlive
    <3>12. \A i \in 1..Len(queue'), j \in 1..Len(cur') :
             cur'[j].from \in Senders => queue'[i].from # cur'[j].from
      BY <3>1, <3>2, <3>3, <3>7, <3>8, <1>t DEF StackAlive
    <3> QED
      BY <3>9, <3>10, <3>11, <3>12 DEF StackAlive, Awaited
  <2>4. LockHeld' /\ StopIsFinal'
    BY <1>21, <1>t DEF SendToQueue, LockHeld, StopIsFinal, threads, timer, version, TypeOK
  <2>5. ReleasedWhileWaiting'
    BY <1>21, <1>t DEF SendToQueue, ReleasedWhileWaiting, threads, TypeOK
  <2> QED BY <2>2, <2>3, <2>4, <2>5 DEF IInv
<1>22. CASE PostInfo
  <2>1. monitor' \in BOOLEAN /\ pwrCmdPause' \in BOOLEAN
    BY <1>22, <1>t, Zenon DEF PostInfo, AfterChannel, TypeOK, threads, timer, version
  <2>2. TypeOK'
    <3> DEFINE m == [id |-> "vol", from |-> Timer]
    <3>1. m \in Messages
      BY DEF Messages
    <3> HIDE DEF m
    <3>2. queue' \in Seq(Messages) /\ Len(queue') <= Depth
      BY <1>22, <1>t, <3>1, PowerTaskAssumption DEF PostInfo, TypeOK, HasSpace, m
    <3> QED
      BY <1>22, <1>t, <2>1, <3>2 DEF PostInfo, AfterChannel, TypeOK, version
  <2>3. StackAlive'
    BY <1>22, <1>t DEF PostInfo, AfterChannel, StackAlive, Awaited, TypeOK, Messages
  <2>4. LockHeld' /\ StopIsFinal'
    BY <1>22, <1>t DEF PostInfo, AfterChannel, LockHeld, StopIsFinal, threads, timer,
       version, TypeOK
  <2>5. ReleasedWhileWaiting'
    BY <1>22, <1>t DEF PostInfo, AfterChannel, ReleasedWhileWaiting, threads, TypeOK
  <2> QED BY <2>2, <2>3, <2>4, <2>5 DEF IInv
<1>23. CASE Receive
  <2>1. monitor' \in BOOLEAN /\ pwrCmdPause' \in BOOLEAN
    BY <1>23, <1>t, Zenon DEF Receive, TypeOK, threads, timer, version
  <2>2. TypeOK'
    <3>1. Head(queue) \in Messages /\ Tail(queue) \in Seq(Messages) /\ Len(Tail(queue)) <= Depth
      BY <1>23, <1>t, PowerTaskAssumption DEF Receive, TypeOK
    <3>2. cur' \in Seq(Messages) /\ Len(cur') = 1
      BY <1>23, <3>1 DEF Receive
    <3> QED
      BY <1>23, <1>t, <2>1, <3>1, <3>2 DEF Receive, TypeOK, timer, version
  <2>3. StackAlive'
    <3>1. /\ queue' = Tail(queue) /\ queue # <<>> /\ queue \in Seq(Messages)
          /\ cur' = <<queue[1]>>
      BY <1>23, <1>t DEF Receive, TypeOK
    <3>2. /\ Len(queue) \in Nat /\ Len(queue) >= 1
          /\ Len(queue') = Len(queue) - 1
          /\ \A i \in 1..Len(queue') : queue'[i] = queue[i + 1] /\ i + 1 \in 1..Len(queue)
      BY <3>1
    <3>3. Len(cur') = 1 /\ cur'[1] = queue[1] /\ 1 \in 1..Len(queue)
      BY <3>1, <3>2
    <3>4. \A k : Awaited(k) => Awaited(k)'
      BY <1>23 DEF Receive, Awaited
    <3>5. /\ (\A i \in 1..Len(queue) : Awaited(queue[i]))'
          /\ (\A i \in 1..Len(cur) : Awaited(cur[i]))'
      BY <3>2, <3>3, <3>4, <1>t DEF StackAlive, Awaited
    <3>6. \A i, j \in 1..Len(queue') :
             (i # j /\ queue'[i].from \in Senders) => queue'[i].from # queue'[j].from
      BY <3>2, <1>t DEF StackAlive
    <3>7. \A i \in 1..Len(queue'), j \in 1..Len(cur') :
             cur'[j].from \in Senders => queue'[i].from # cur'[j].from
      BY <3>2, <3>3, <1>t DEF StackAlive
    <3> QED
      BY <3>5, <3>6, <3>7 DEF StackAlive, Awaited
  <2>4. LockHeld' /\ StopIsFinal'
    BY <1>23, <1>t DEF Receive, LockHeld, StopIsFinal, threads, timer, version, TypeOK
  <2>5. ReleasedWhileWaiting'
    BY <1>23, <1>t DEF Receive, ReleasedWhileWaiting, threads, TypeOK
  <2> QED BY <2>2, <2>3, <2>4, <2>5 DEF IInv
<1>24. CASE Reply
  <2>1. monitor' \in BOOLEAN /\ pwrCmdPause' \in BOOLEAN
    BY <1>24, <1>t, Zenon DEF Reply, ReleaseSender, TypeOK, threads, timer, version
  <2>2. TypeOK'
    <3>1. cur[1] \in Messages /\ Awaited(cur[1])
      <4>1. Len(cur) = 1 /\ cur \in Seq(Messages)
        BY <1>24, <1>t DEF Reply, TypeOK
      <4> QED BY <4>1, <1>t DEF StackAlive
    <3>2. returned' \in [Senders -> 0..1]
      BY <1>24, <1>t, <3>1 DEF Reply, ReleaseSender, TypeOK, Awaited
    <3>3. cur' \in Seq(Messages) /\ Len(cur') = 0
      BY <1>24, EmptySequence DEF Reply
    <3> QED
      BY <1>24, <1>t, <2>1, <3>2, <3>3 DEF Reply, TypeOK, timer, version
  <2>3. StackAlive'
    BY <1>24, <1>t DEF Reply, ReleaseSender, StackAlive, Awaited, TypeOK, Messages
  <2>4. LockHeld' /\ StopIsFinal'
    BY <1>24, <1>t DEF Reply, ReleaseSender, LockHeld, StopIsFinal, threads, timer,
       version, TypeOK
  <2>5. ReleasedWhileWaiting'
    <3>1. Len(cur) = 1 /\ cur \in Seq(Messages)
      BY <1>24, <1>t DEF Reply, TypeOK
    <3>2. Awaited(cur[1])
      BY <3>1, <1>t DEF StackAlive
    <3> QED
      BY <1>24, <1>t, <3>2 DEF Reply, ReleaseSender, ReleasedWhileWaiting, Awaited, TypeOK
  <2> QED BY <2>2, <2>3, <2>4, <2>5 DEF IInv
<1>25. CASE UNCHANGED vars
  BY <1>25, <1>t DEF IInv, TypeOK, StackAlive, Awaited, ReleasedWhileWaiting, LockHeld,
     StopIsFinal, vars, threads, timer, version
<1> QED
  BY <1>1, <1>2, <1>3, <1>4, <1>5, <1>6, <1>7, <1>8, <1>9, <1>10, <1>11, <1>12, <1>13,
     <1>14, <1>15, <1>16, <1>18, <1>19, <1>20, <1>21, <1>22, <1>23, <1>24, <1>25
     DEF Next, Apartment, TimerProcess, VersionTask

(***************************************************************************)
(* The invariant holds throughout, for every set of callers, queue depth   *)
(* and number of upgrades.                                                 *)
(***************************************************************************)
THEOREM PowerInvariant == Spec => []IInv
<1> QED BY InitIInv, NextIInv, PTL DEF Spec

(***************************************************************************)
(* Type correctness of the power task; the queue never holds more than     *)
(* Depth messages.                                                         *)
(***************************************************************************)
THEOREM PowerTypeOK == Spec => []TypeOK
<1>1. IInv => TypeOK
  BY DEF IInv
<1> QED BY <1>1, PowerInvariant, PTL

(***************************************************************************)
(* ApartmentThread reads a message, and releases its semaphore, only while *)
(* the sender waits for it in MsOS_SendMessage.                            *)
(***************************************************************************)
THEOREM PowerStackAlive == Spec => []StackAlive
<1>1. IInv => StackAlive
  BY DEF IInv
<1> QED BY <1>1, PowerInvariant, PTL

(***************************************************************************)
(* Once pwrEnableMonitor has switched the monitor off, the timer thread is *)
(* not in pwrTimerCallback and posts no reading.                           *)
(***************************************************************************)
THEOREM PowerStopIsFinal == Spec => []StopIsFinal
<1>1. IInv => StopIsFinal
  BY DEF IInv
<1> QED BY <1>1, PowerInvariant, PTL

(***************************************************************************)
(* The readings that are not freed: those in the queue, numbered from 1,   *)
(* and number 0, the one that power_message_proc handles.                  *)
(***************************************************************************)
Queued == {i \in 1..Len(queue) : queue[i].id = "vol"}
InHand == IF apt = "handle" /\ cur[1].id = "vol" THEN {0} ELSE {}
Posting == IF tpc \in {"post2", "post3"} THEN 1 ELSE 0

LEMMA UnfreedSaid ==
  TypeOK => /\ Unfreed = Queued \cup InHand
            /\ IsFiniteSet(Unfreed) /\ Cardinality(Unfreed) \in Nat
            /\ 0 \notin Queued /\ \A i \in Unfreed : i \in 0..Len(queue)
            /\ Len(queue) \in Nat
<1> SUFFICES ASSUME TypeOK
             PROVE  /\ Unfreed = Queued \cup InHand
                    /\ IsFiniteSet(Unfreed) /\ Cardinality(Unfreed) \in Nat
                    /\ 0 \notin Queued /\ \A i \in Unfreed : i \in 0..Len(queue)
                    /\ Len(queue) \in Nat
  OBVIOUS
<1>1. Len(queue) \in Nat
  BY DEF TypeOK
<1>2. {i - 1 : i \in {j \in 1..Len(cur) : cur[j].id = "vol" /\ apt = "handle"}} = InHand
  <2>1. CASE apt = "receive"
    <3>1. Len(cur) = 0
      BY <2>1 DEF TypeOK
    <3> QED
      BY <2>1, <3>1 DEF InHand
  <2>2. CASE apt # "receive"
    <3>1. Len(cur) = 1
      BY <2>2 DEF TypeOK
    <3>2. 1..Len(cur) = {1}
      BY <3>1
    <3> QED
      BY <3>2 DEF InHand
  <2> QED
    BY <2>1, <2>2
<1>3. Unfreed = Queued \cup InHand
  BY <1>2 DEF Unfreed, Queued
<1>4. Unfreed \subseteq 0..Len(queue) /\ 0 \notin Queued
  BY <1>1, <1>3 DEF Queued, InHand
<1>5. IsFiniteSet(Unfreed) /\ Cardinality(Unfreed) \in Nat
  <2>1. IsFiniteSet(0..Len(queue))
    BY <1>1, FS_Interval
  <2> QED
    BY <1>4, <2>1, FS_Subset, FS_CardinalityType
<1> QED
  BY <1>1, <1>3, <1>4, <1>5

(***************************************************************************)
(* Unlinking the head renumbers the readings, and takes it in hand.        *)
(***************************************************************************)
LEMMA Renumbered ==
  ASSUME NEW S, IsFiniteSet(S), S \subseteq Nat
  PROVE  Cardinality({i - 1 : i \in S}) = Cardinality(S)
<1> DEFINE f == [i \in S |-> i - 1]
           T == {i - 1 : i \in S}
<1>1. f \in Bijection(S, T)
  BY DEF Bijection, Injection, Surjection, IsInjective
<1>2. ExistsBijection(S, T)
  BY <1>1 DEF ExistsBijection
<1> QED
  BY <1>2, FS_Bijection

(***************************************************************************)
(* A reading is allocated when pwrgetInfo is about to post it, and freed   *)
(* after power_message_proc has handled it.                                *)
(***************************************************************************)
LEMMA HeapStep == IInv /\ IInv' /\ HeapAccounted /\ [Next]_vars => HeapAccounted'
<1> SUFFICES ASSUME IInv, IInv', HeapAccounted, [Next]_vars
             PROVE  HeapAccounted'
  OBVIOUS
<1>t. TypeOK /\ TypeOK'
  BY DEF IInv
<1>1. /\ Unfreed = Queued \cup InHand
      /\ IsFiniteSet(Unfreed) /\ Cardinality(Unfreed) \in Nat
      /\ 0 \notin Queued /\ \A i \in Unfreed : i \in 0..Len(queue)
      /\ Len(queue) \in Nat
  BY <1>t, UnfreedSaid
<1>2. (Unfreed = Queued \cup InHand)'
  BY <1>t, UnfreedSaid, PTL
<1>3. heap = Cardinality(Unfreed) + Posting /\ Posting \in 0..1
  BY DEF HeapAccounted, Posting
<1>4. SUFFICES heap' = Cardinality(Unfreed)' + Posting'
  BY DEF HeapAccounted, Posting
<1>5. CASE heap' = heap /\ Queued' = Queued /\ InHand' = InHand /\ Posting' = Posting
  BY <1>1, <1>2, <1>3, <1>5
<1>6. CASE UNCHANGED <<queue, cur, apt, heap, tpc>>
  BY <1>5, <1>6 DEF Queued, InHand, Posting
<1>7. ASSUME NEW c \in Callers,
             SetCommand(c) \/ UpgradeCommand(c) \/ EnableMonitor(c) \/ SetMonitor(c)
      PROVE  UNCHANGED <<queue, cur, apt, heap, tpc>>
  BY <1>7 DEF SetCommand, UpgradeCommand, EnableMonitor, SetMonitor, StartCall, timer
<1>8. CASE VersionTask
  BY <1>6, <1>8 DEF VersionTask, VersionWakes, VersionAsks, VersionKnown, StartCall, timer
<1>9. ASSUME NEW t \in Senders, SendToQueue(t)
      PROVE  heap' = Cardinality(Unfreed)' + Posting'
  <2>1. /\ queue' = Append(queue, [id |-> job[t], from |-> t])
        /\ UNCHANGED <<cur, apt, heap, tpc>> /\ job[t] # "vol"
    BY <1>9, <1>t DEF SendToQueue, timer, TypeOK, Commands
  <2>2. /\ Len(queue') = Len(queue) + 1
        /\ queue'[Len(queue) + 1].id # "vol"
        /\ \A i \in 1..Len(queue) : queue'[i] = queue[i]
    BY <1>t, <2>1 DEF TypeOK
  <2>3. Queued' = Queued
    BY <1>1, <2>2 DEF Queued
  <2> QED
    BY <1>5, <2>1, <2>3 DEF InHand, Posting
<1>10. ASSUME NEW t \in Senders, Return(t)
       PROVE  heap' = Cardinality(Unfreed)' + Posting'
  BY <1>6, <1>10 DEF Return, timer
<1>11. CASE TimerPass \/ PwrTimerCallback \/ TimerPassEnds
  <2>1. UNCHANGED <<queue, cur, apt, heap>> /\ Posting' = Posting
    BY <1>11 DEF TimerPass, PwrTimerCallback, TimerPassEnds, threads, Posting
  <2> QED
    BY <1>5, <2>1 DEF Queued, InHand
<1>12. CASE GetInfo
  <2>1. UNCHANGED <<queue, cur, apt>> /\ Posting = 0
    BY <1>12 DEF GetInfo, threads, Posting
  <2>2. Unfreed' = Unfreed
    BY <2>1 DEF Unfreed
  <2>3. CASE pwrCmdPause
    <3>1. heap' = heap /\ Posting' = 0
      BY <1>12, <2>3 DEF GetInfo, AfterChannel, Posting
    <3> QED
      BY <1>1, <1>3, <2>1, <2>2, <3>1
  <2>4. CASE ~pwrCmdPause
    <3>1. heap' = heap + 1 /\ Posting' = 1
      BY <1>12, <2>4 DEF GetInfo, Posting
    <3> QED
      BY <1>1, <1>3, <2>1, <2>2, <3>1
  <2> QED
    BY <2>3, <2>4
<1>13. CASE PostInfo
  <2>1. /\ queue' = Append(queue, [id |-> "vol", from |-> Timer])
        /\ UNCHANGED <<cur, apt, heap>> /\ Posting = 1 /\ Posting' = 0
    BY <1>13 DEF PostInfo, AfterChannel, Posting
  <2>2. /\ Len(queue') = Len(queue) + 1
        /\ queue'[Len(queue) + 1].id = "vol"
        /\ \A i \in 1..Len(queue) : queue'[i] = queue[i]
    BY <1>t, <2>1 DEF TypeOK
  <2>3. Queued' = Queued \cup {Len(queue) + 1}
    BY <1>1, <2>2 DEF Queued
  <2>4. Unfreed' = Unfreed \cup {Len(queue) + 1} /\ Len(queue) + 1 \notin Unfreed
    BY <1>1, <1>2, <2>1, <2>3 DEF InHand
  <2>5. Cardinality(Unfreed') = Cardinality(Unfreed) + 1
    BY <1>1, <2>4, FS_AddElement
  <2> QED
    BY <1>1, <1>3, <2>1, <2>5
<1>14. CASE Receive
  <2>1. /\ cur' = <<Head(queue)>> /\ queue' = Tail(queue) /\ queue # <<>>
        /\ apt = "receive" /\ apt' = "handle" /\ heap' = heap /\ Posting' = Posting
    BY <1>14 DEF Receive, timer, Posting
  <2>2. /\ Len(queue') = Len(queue) - 1 /\ Len(queue) >= 1
        /\ \A i \in 1..Len(queue') : queue'[i] = queue[i + 1]
        /\ cur'[1] = queue[1]
    BY <1>t, <2>1 DEF TypeOK
  <2>3. InHand = {} /\ InHand' = IF queue[1].id = "vol" THEN {0} ELSE {}
    BY <2>1, <2>2 DEF InHand
  <2>4. Queued' = {i \in 1..(Len(queue) - 1) : queue[i + 1].id = "vol"}
    BY <1>1, <2>2 DEF Queued
  <2>5. Unfreed' = {i - 1 : i \in Unfreed}
    <3>1. ASSUME NEW k \in Unfreed' PROVE k \in {i - 1 : i \in Unfreed}
      <4>1. k \in Nat /\ k + 1 \in Queued
        BY <1>1, <1>2, <2>2, <2>3, <2>4 DEF Queued
      <4>2. k = (k + 1) - 1
        BY <4>1
      <4> QED
        BY <1>1, <4>1, <4>2
    <3>2. ASSUME NEW i \in Unfreed PROVE i - 1 \in Unfreed'
      <4>1. i \in 1..Len(queue) /\ queue[i].id = "vol"
        BY <1>1, <2>3 DEF Queued
      <4>2. CASE i = 1
        BY <1>2, <2>3, <4>1, <4>2
      <4>3. CASE i # 1
        <5>1. i - 1 \in 1..(Len(queue) - 1) /\ (i - 1) + 1 = i
          BY <1>1, <4>1, <4>3
        <5> QED
          BY <1>2, <2>4, <4>1, <5>1
      <4> QED
        BY <4>2, <4>3
    <3> QED
      BY <3>1, <3>2
  <2>6. Unfreed \subseteq Nat
    BY <1>1
  <2>7. Cardinality(Unfreed') = Cardinality(Unfreed)
    BY <1>1, <2>5, <2>6, Renumbered
  <2> QED
    BY <1>3, <2>1, <2>7
<1>15. CASE HandleVol
  <2>1. /\ InHand = {0} /\ InHand' = {} /\ heap' = heap - 1 /\ Queued' = Queued /\ Posting' = Posting
    BY <1>15 DEF HandleVol, Handling, FreeMessage, InHand, Queued, Posting
  <2>2. Unfreed' = Unfreed \ {0} /\ 0 \in Unfreed
    BY <1>1, <1>2, <2>1
  <2>3. Cardinality(Unfreed') = Cardinality(Unfreed) - 1
    BY <1>1, <2>2, FS_RemoveElement
  <2>4. heap' = heap - 1 /\ heap = Cardinality(Unfreed) + Posting
    BY <1>3, <2>1
  <2>5. Cardinality(Unfreed)' = Cardinality(Unfreed) - 1 /\ Posting' = Posting
    BY <2>1, <2>3
  <2>6. Cardinality(Unfreed) \in Nat /\ Posting \in Nat
    BY <1>1, <1>3
  <2> QED
    BY <2>4, <2>5, <2>6
<1>16. CASE HandleSet \/ VersionAnswered \/ VersionTimeout \/ UpgradeBegins
  <2>1. /\ InHand = {} /\ InHand' = {} /\ UNCHANGED <<queue, heap, tpc>>
    BY <1>16 DEF HandleSet, VersionAnswered, VersionTimeout, VersionTransferred, UpgradeBegins,
                 Handling, InHand, timer
  <2> QED
    BY <1>5, <2>1 DEF Queued, Posting
<1>17. CASE Upgrade \/ UpgradeEnds \/ Reply
  <2>1. /\ InHand = {} /\ InHand' = {} /\ UNCHANGED <<queue, heap, tpc>>
    BY <1>17 DEF Upgrade, UpgradeEnds, Reply, InHand, timer
  <2> QED
    BY <1>5, <2>1 DEF Queued, Posting
<1>18. CASE UNCHANGED vars
  BY <1>6, <1>18 DEF vars, threads, timer
<1> QED
  BY <1>6, <1>7, <1>8, <1>9, <1>10, <1>11, <1>12, <1>13, <1>14, <1>15, <1>16, <1>17, <1>18
     DEF Next, Apartment, TimerProcess

(***************************************************************************)
(* pwrgetInfo allocates a reading and power_message_proc frees it: what is *)
(* allocated and not freed is queued, being handled or about to be posted, *)
(* so nothing leaks and nothing is freed twice.                            *)
(***************************************************************************)
THEOREM PowerHeapAccounted == Spec => []HeapAccounted
<1>1. Init => HeapAccounted
  <2> SUFFICES ASSUME Init PROVE HeapAccounted
    OBVIOUS
  <2>1. TypeOK
    BY InitIInv DEF IInv
  <2>2. Queued = {} /\ InHand = {} /\ Posting = 0 /\ heap = 0
    BY DEF Init, Queued, InHand, Posting
  <2>3. Unfreed = {}
    BY <2>1, <2>2, UnfreedSaid
  <2> QED
    BY <2>2, <2>3, FS_EmptySet DEF HeapAccounted, Posting
<1>2. IInv /\ IInv' /\ HeapAccounted /\ [Next]_vars => HeapAccounted'
  BY HeapStep
<1> QED
  BY <1>1, <1>2, PowerInvariant, PTL DEF Spec
=============================================================================
