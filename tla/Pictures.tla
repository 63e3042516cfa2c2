------------------------------ MODULE Pictures ------------------------------
(* How the pictures of a module get into the fpga and onto the panel.  A     *)
(* load (load_cur_module) replaces the table of patterns, clears the slots   *)
(* and starts a task that downloads the patterns' pictures one after the     *)
(* other into the fpga's memory (pubmoveptn.c).  Whoever shows a pattern     *)
(* sends its number to the fpga task, which looks the picture up among the   *)
(* slots, downloads it itself when it is not there, and selects its slot     *)
(* (pubFpgaTask.c).                                                          *)
(*                                                                           *)
(* Loading tasks, the fpga task and the callers interleave at every access   *)
(* to what they share.  MsOS_CreateTask starts its threads detached, so the  *)
(* join in MsOS_DeleteTask comes back at once and the loading task of the    *)
(* module before may well still run beside the new one.                      *)
EXTENDS LoopList

CONSTANTS
    Shower,       \* the threads that show patterns: the pool's, the server's
    Loader,       \* the threads that load modules: the server's
    Rows,         \* Rows[m]: the pictures of module m, in the order of its table
    Broken,       \* modules whose power or timing file cannot be read
    NoBmp, NoPtn, \* pictures without a file in imageOrigin, and in ptn
    TableSize,    \* MAX_PATTERN_NUM_IN_MODULE (200)
    Slots,        \* MAX_DOWNLOAD_NUM (20)
    MaxLoads, MaxShows,  \* bounds on the loads and the patterns asked for,
    MaxRequests          \* and on both together

Caller  == Shower \cup Loader
Module  == DOMAIN Rows
Picture == UNION {{Rows[m][k] : k \in DOMAIN Rows[m]} : m \in Module}
Slot    == 0..Slots - 1
PtnId   == 0..TableSize - 1
Task    == 1..MaxLoads
None    == "none"
Torn    == "torn"   \* a slot of the fpga's memory that holds no whole picture
Garbage == [id |-> -1, bmpName |-> None]

ASSUME PicturesAssumption ==
    /\ Broken \subseteq Module
    /\ \A m \in Module : Rows[m] \in Seq(Picture) /\ Len(Rows[m]) <= TableSize
    /\ TableSize \in Nat \ {0, 1} /\ Slots \in Nat \ {0} /\ MaxLoads \in Nat /\ MaxShows \in Nat
    /\ {None, Torn} \cap Picture = {}

VARIABLES
    loads,     \* how many tables have been thrown away so far
    isOpen,    \* module_set.loop_conns has been created again since
    conns,     \* module_set.loop_conns
    cur_conns, \* module_set.cur_conns
    move_ptn_info,    \* move_ptn_info[i]: the name of slot i, None for NOT_DOWNLOAD
    s32ForcePostion,
    s_semaphore,
    s_taskStop,
    ddr,       \* ddr[i]: the picture in the fpga's memory
    task,      \* task[t]: the loading task that load t created
    fpga,      \* the fpga task
    queue,     \* the messages to it
    caller,    \* caller[c]: where the thread is
    screen,    \* the slot on the panel, and the picture that was asked for
    shows,     \* how many patterns may still be asked for
    wild,      \* history: a task read past the end of the table it was started for
    raced,     \* history: slots chosen for one download while another was under way
    failed,    \* history: slots whose last transfer did not bring the picture
    crashed    \* the process died of a wild read

vars == <<loads, isOpen, conns, cur_conns, move_ptn_info, s32ForcePostion, s_semaphore,
          s_taskStop, ddr, task, fpga, queue, caller, screen, shows, wild, raced, failed, crashed>>
table == <<loads, isOpen, conns, cur_conns>>
memory == <<ddr, failed>>
slots == <<move_ptn_info, s32ForcePostion, memory>>
ghost == <<wild, raced, crashed>>

Fpga    == 0       \* the fpga task, beside the loading tasks 1..MaxLoads
Free    == -1
NoTask  == [at |-> "none", loopId |-> 0, ptnNum |-> 0, bmpName |-> None, slot |-> -1]
NoPhoto == [at |-> "idle", from |-> None, bmpName |-> None, slot |-> -1]

\* What a thread is doing with a slot it has chosen.
Busy == {"obtain", "down", "note"}

TypeOK ==
    /\ loads \in 0..MaxLoads /\ isOpen \in BOOLEAN /\ cur_conns \in 0..TableSize
    /\ move_ptn_info \in [Slot -> Picture \cup {None}]
    /\ s32ForcePostion \in Slot
    /\ s_semaphore \in Task \cup {Fpga, Free} /\ s_taskStop \in BOOLEAN
    /\ ddr \in [Slot -> Picture \cup {None, Torn}]
    /\ \A t \in Task : /\ task[t].at \in Busy \cup {"none", "start", "pick", "end"}
                       /\ task[t].loopId \in 0..TableSize /\ task[t].ptnNum \in 0..TableSize
                       /\ task[t].at \in Busy => task[t].slot \in Slot
    /\ fpga.at \in Busy \cup {"idle", "show"}
    /\ fpga.at \in Busy => fpga.slot \in Slot
    /\ \A c \in Caller : caller[c] \in {"idle", "wait", "open", "sequence",
                                        "stop", "join", "wipe", "create"}
    /\ screen.slot \in Slot \cup {-1} /\ screen.asked \in Picture \cup {None}
    /\ shows \in 0..MaxShows

\* move_ptn_init and the state before the first load.
Init ==
    /\ loads = 0 /\ isOpen = FALSE /\ conns = loop_create(TableSize, Garbage) /\ cur_conns = 0
    /\ move_ptn_info = [i \in Slot |-> None] /\ ddr = [i \in Slot |-> None]
    /\ s32ForcePostion = 0 /\ s_semaphore = Free /\ s_taskStop = FALSE
    /\ task = [t \in Task |-> NoTask]
    /\ fpga = NoPhoto /\ queue = <<>>
    /\ caller = [c \in Caller |-> "idle"]
    /\ screen = [slot |-> -1, asked |-> None]
    /\ shows = MaxShows /\ wild = FALSE /\ raced = {} /\ failed = {} /\ crashed = FALSE
-----------------------------------------------------------------------------
(* The table of patterns (pgDB.c).                                           *)

\* cur_conns goes up for every row that is pushed, also for the one that makes
\* the ring list, which holds TableSize - 1, drop its first.
Count(m) == Len(Rows[m])

\* dbpattern_configLoad: the rows pushed one after the other.
LoadRows(m) ==
    LET load[k \in 0..Len(Rows[m])] ==
            IF k = 0 THEN loop_create(TableSize, Garbage)
            ELSE loop_push_to_tail(load[k - 1], [id |-> k - 1, bmpName |-> Rows[m][k]])
    IN  load[Len(Rows[m])]

dbModuleGetPatternByLoopId(loopId) == loop_get_from_head(conns, loopId, Garbage)

dbModuleGetPatternById(ptnId) ==
    LET k == loop_search(conns, {r \in Held(conns) : r.id = ptnId})
    IN  IF k = 0 THEN Garbage ELSE Items(conns)[k]

\* Reading what is not there: the process dies, or finds a name without a file.
WildRead(own) == wild' = (wild \/ own) /\ crashed' \in BOOLEAN

\* Task t reads the table its load made, and no row was dropped from it.
Own(t) == t = loads /\ cur_conns < TableSize

\* The picture a record names; a record is read from where it was found, in the
\* table that is or in one that has been given back.
Named(r) == IF isOpen THEN r.bmpName ELSE None
-----------------------------------------------------------------------------
(* The slots (pubmoveptn.c).                                                 *)

Choosers(i) == {t \in Task : task[t].at \in Busy /\ task[t].slot = i}
                 \cup (IF fpga.at \in Busy /\ fpga.slot = i THEN {Fpga} ELSE {})

\* The first slot that is NOT_DOWNLOAD; -1 when there is none.
FirstFree ==
    LET free == {i \in Slot : move_ptn_info[i] = None}
    IN  IF free = {} THEN -1 ELSE CHOOSE i \in free : \A j \in free : i <= j

\* Mutated form: a picture that is in no slot is taken to be in the first
PositionOrFirst(bmpName) ==
    LET hits == {i \in Slot : move_ptn_info[i] = bmpName}
    IN  IF hits = {} THEN 0 ELSE CHOOSE i \in hits : \A j \in hits : i <= j

move_ptn_getPostionByName(bmpName) ==
    LET hits == {i \in Slot : move_ptn_info[i] = bmpName}
    IN  IF hits = {} THEN -1 ELSE CHOOSE i \in hits : \A j \in hits : i <= j

\* A second thread takes a slot that a first one is filling.
Choose(i) == raced' = IF Choosers(i) = {} THEN raced ELSE raced \cup {i}

\* The first bytes of the picture are on their way; without a file in ptn,
\* which only a forced download comes across, there are none.
Send(i, bmpName) ==
    /\ ddr' = IF bmpName \in NoPtn THEN ddr ELSE [ddr EXCEPT ![i] = Torn]
    /\ UNCHANGED failed

\* Mutated form: the transfer starts whoever holds the semaphore
BeginDownloadAtOnce(who, i, bmpName) == s_semaphore' = who /\ Send(i, bmpName)

\* move_ptn_downloading: with the semaphore, and when the fpga is ready.
BeginDownload(who, i, bmpName) ==
    s_semaphore = Free /\ s_semaphore' = who /\ Send(i, bmpName)

\* Mutated form: the error path keeps the semaphore
RefuseKeepsSemaphore(who) ==
    s_semaphore = Free /\ s_semaphore' = who /\ UNCHANGED memory

\* The fpga is not ready: the semaphore is given back and nothing was sent.
RefuseDownload(who) ==
    s_semaphore = Free /\ UNCHANGED <<s_semaphore, memory>>

\* The whole picture is in its slot.
Brought(i, bmpName) ==
    /\ bmpName \notin NoPtn
    /\ ddr' = [ddr EXCEPT ![i] = bmpName] /\ failed' = failed \ {i}

\* A write failed midway; or there was no file, and at most the 64 bytes that
\* follow every picture were written over what the slot held.
NotBrought(i) ==
    ddr' \in {ddr, [ddr EXCEPT ![i] = Torn]} /\ failed' = failed \cup {i}

\* What fpga_trans_pic_data returns is not looked at: either way the semaphore is
\* given back and the picture noted.
EndDownload(i, bmpName) ==
    s_semaphore' = Free /\ (Brought(i, bmpName) \/ NotBrought(i))

\* Mutated form: the name goes to the slot after the one that was filled
NoteNextSlot(i, bmpName) == move_ptn_info' = [move_ptn_info EXCEPT ![(i + 1) % Slots] = bmpName]

Note(i, bmpName) == move_ptn_info' = [move_ptn_info EXCEPT ![i] = bmpName]
-----------------------------------------------------------------------------
(* A loading task (move_ptn_task).                                           *)

StepTask(t, new) == task' = [task EXCEPT ![t] = new]

TaskStart(t) ==
    /\ task[t].at = "start"
    /\ StepTask(t, [task[t] EXCEPT !.at = "pick", !.ptnNum = cur_conns])
    /\ UNCHANGED <<table, slots, s_semaphore, s_taskStop, fpga, queue, caller, screen, shows, ghost>>

\* Mutated form: the loop runs to and including the number of patterns
GoesOnToTheNumber(t) == ~s_taskStop /\ task[t].loopId <= task[t].ptnNum

GoesOn(t) == ~s_taskStop /\ task[t].loopId < task[t].ptnNum

At(t, to) == [task[t] EXCEPT !.at = to]

NextPattern(t) == [task[t] EXCEPT !.at = "pick", !.loopId = @ + 1, !.bmpName = None, !.slot = -1]

\* The picture of the pattern the task has come to.
PictureOf(t) == Named(dbModuleGetPatternByLoopId(task[t].loopId))

\* A picture that lacks one of its files is skipped; so is every picture once no
\* slot is free.
Skips(bmpName) == bmpName \in NoBmp \cup NoPtn \cup {None} \/ FirstFree = -1

Picked(t) == [task[t] EXCEPT !.at = "obtain", !.slot = FirstFree, !.bmpName = PictureOf(t)]

TaskPick(t) ==
    /\ task[t].at = "pick" /\ GoesOn(t)
    /\ IF PictureOf(t) = None THEN WildRead(Own(t)) ELSE UNCHANGED <<wild, crashed>>
    /\ \/ Skips(PictureOf(t)) /\ StepTask(t, NextPattern(t)) /\ UNCHANGED raced
       \/ ~Skips(PictureOf(t)) /\ Choose(FirstFree) /\ StepTask(t, Picked(t))
    /\ UNCHANGED <<table, slots, s_semaphore, s_taskStop, fpga, queue, caller, screen, shows>>

TaskDownload(t) ==
    /\ task[t].at = "obtain"
    /\ \/ BeginDownload(t, task[t].slot, task[t].bmpName) /\ StepTask(t, At(t, "down"))
       \/ RefuseDownload(t) /\ StepTask(t, NextPattern(t))
    /\ UNCHANGED <<table, move_ptn_info, s32ForcePostion, s_taskStop, fpga, queue, caller, screen, shows, ghost>>

TaskDownloaded(t) ==
    /\ task[t].at = "down"
    /\ EndDownload(task[t].slot, task[t].bmpName)
    /\ StepTask(t, At(t, "note"))
    /\ UNCHANGED <<table, move_ptn_info, s32ForcePostion, s_taskStop, fpga, queue, caller, screen, shows, ghost>>

TaskNote(t) ==
    /\ task[t].at = "note"
    /\ Note(task[t].slot, task[t].bmpName)
    /\ StepTask(t, NextPattern(t))
    /\ UNCHANGED <<table, memory, s32ForcePostion, s_semaphore, s_taskStop, fpga, queue, caller, screen, shows, ghost>>

TaskEnd(t) ==
    /\ task[t].at = "pick" /\ ~GoesOn(t)
    /\ StepTask(t, [NoTask EXCEPT !.at = "end"])
    /\ UNCHANGED <<table, slots, s_semaphore, s_taskStop, fpga, queue, caller, screen, shows, ghost>>

TaskStep(t) == \/ TaskStart(t) \/ TaskPick(t) \/ TaskDownload(t)
               \/ TaskDownloaded(t) \/ TaskNote(t) \/ TaskEnd(t)
-----------------------------------------------------------------------------
(* The fpga task: FPGA_CMD_SET_PHOTO, and the FPGA_CMD_SET_SEQ of a load.    *)

\* The handler returns; the sender of MsOS_SendMessage goes on.
Answer(c, then) == caller' = [caller EXCEPT ![c] = then]

FpgaSequence ==
    /\ fpga.at = "idle" /\ queue # <<>> /\ Head(queue).cmd = "SET_SEQ"
    /\ queue' = Tail(queue) /\ Answer(Head(queue).from, "stop")
    /\ UNCHANGED <<table, slots, s_semaphore, s_taskStop, task, fpga, screen, shows, ghost>>

\* The picture that is asked for.
Wanted == Named(dbModuleGetPatternById(Head(queue).ptnId))

Photo(at, slot) == [at |-> at, from |-> Head(queue).from, bmpName |-> Wanted, slot |-> slot]

\* A number without a record, and a picture without a file, are left at that.  A
\* table that is being replaced is searched all the same.
FpgaFind ==
    /\ fpga.at = "idle" /\ queue # <<>> /\ Head(queue).cmd = "SET_PHOTO"
    /\ queue' = Tail(queue)
    /\ IF isOpen \/ loads = 0 THEN UNCHANGED <<wild, crashed>> ELSE WildRead(FALSE)
    /\ LET pos == move_ptn_getPostionByName(Wanted)
       IN  \/ /\ Wanted \in NoBmp \cup {None}
              /\ Answer(Head(queue).from, "idle") /\ UNCHANGED <<fpga, raced>>
           \/ /\ Wanted \notin NoBmp \cup {None} /\ pos # -1
              /\ fpga' = Photo("show", pos) /\ UNCHANGED <<caller, raced>>
           \/ /\ Wanted \notin NoBmp \cup {None} /\ pos = -1
              /\ fpga' = Photo("obtain", s32ForcePostion)
              /\ Choose(s32ForcePostion) /\ UNCHANGED caller
    /\ UNCHANGED <<table, slots, s_semaphore, s_taskStop, task, screen, shows>>

\* A refused download is shown as well, at position -1.
FpgaDownload ==
    /\ fpga.at = "obtain"
    /\ \/ BeginDownload(Fpga, fpga.slot, fpga.bmpName) /\ fpga' = [fpga EXCEPT !.at = "down"]
       \/ RefuseDownload(Fpga) /\ fpga' = [fpga EXCEPT !.at = "show", !.slot = -1]
    /\ UNCHANGED <<table, move_ptn_info, s32ForcePostion, s_taskStop, task, queue, caller, screen, shows, ghost>>

FpgaDownloaded ==
    /\ fpga.at = "down"
    /\ EndDownload(fpga.slot, fpga.bmpName)
    /\ fpga' = [fpga EXCEPT !.at = "note"]
    /\ UNCHANGED <<table, move_ptn_info, s32ForcePostion, s_taskStop, task, queue, caller, screen, shows, ghost>>

NextForce(i) == (i + 1) % Slots

FpgaNote ==
    /\ fpga.at = "note"
    /\ Note(fpga.slot, fpga.bmpName)
    /\ s32ForcePostion' = NextForce(s32ForcePostion)
    /\ fpga' = [fpga EXCEPT !.at = "show"]
    /\ UNCHANGED <<table, memory, s_semaphore, s_taskStop, task, queue, caller, screen, shows, ghost>>

\* eSET_FPGA_SHOW_MODE.
FpgaShow ==
    /\ fpga.at = "show"
    /\ screen' = [slot |-> fpga.slot, asked |-> fpga.bmpName]
    /\ fpga' = NoPhoto /\ Answer(fpga.from, "idle")
    /\ UNCHANGED <<table, slots, s_semaphore, s_taskStop, task, queue, shows, ghost>>

FpgaStep == \/ FpgaSequence \/ FpgaFind \/ FpgaDownload
            \/ FpgaDownloaded \/ FpgaNote \/ FpgaShow
-----------------------------------------------------------------------------
(* The callers.                                                              *)

Go(c, to) == caller' = [caller EXCEPT ![c] = to]

InBounds == loads + (MaxShows - shows) < MaxRequests

client_pg_showPtn(c) ==
    /\ c \in Shower /\ caller[c] = "idle" /\ Go(c, "wait")
    /\ InBounds /\ shows > 0 /\ shows' = shows - 1
    /\ \E i \in PtnId : queue' = Append(queue, [cmd |-> "SET_PHOTO", from |-> c, ptnId |-> i])
    /\ UNCHANGED <<table, slots, s_semaphore, s_taskStop, task, fpga, screen, ghost>>

\* load_cur_module, from dbModuleInit: the records are given back ...
LoadClose(c) ==
    /\ caller[c] = "idle" /\ c \in Loader /\ InBounds /\ loads < MaxLoads
    /\ \A d \in Loader : caller[d] \in {"idle", "wait"}
    /\ loads' = loads + 1 /\ isOpen' = FALSE /\ Go(c, "open")
    /\ UNCHANGED <<conns, cur_conns, slots, s_semaphore, s_taskStop, task, fpga, queue, screen, shows, ghost>>

\* ... and those of the new module are read; without its power and timing
\* files the load ends here, with the slots and the old task as they were.
\* Otherwise the fpga task is sent the timing.
LoadOpen(c) ==
    /\ caller[c] = "open"
    /\ \E m \in Module :
          /\ conns' = LoadRows(m) /\ cur_conns' = Count(m)
          /\ \/ m \in Broken /\ Go(c, "idle") /\ UNCHANGED queue
             \/ /\ m \notin Broken /\ Go(c, "sequence")
                /\ queue' = Append(queue, [cmd |-> "SET_SEQ", from |-> c, ptnId |-> -1])
    /\ isOpen' = TRUE
    /\ UNCHANGED <<loads, slots, s_semaphore, s_taskStop, task, fpga, screen, shows, ghost>>

\* MsOS_DeleteTask: the flag is set, the join of a detached thread fails at
\* once, the flag is reset.
LoadStop(c) ==
    /\ caller[c] = "stop"
    /\ LET first == \A t \in Task : task[t].at = "none"
       IN  s_taskStop' = ~first /\ Go(c, IF first THEN "wipe" ELSE "join")
    /\ UNCHANGED <<table, slots, s_semaphore, task, fpga, queue, screen, shows, ghost>>

LoadJoin(c) ==
    /\ caller[c] = "join"
    /\ s_taskStop' = FALSE /\ Go(c, "wipe")
    /\ UNCHANGED <<table, slots, s_semaphore, task, fpga, queue, screen, shows, ghost>>

\* move_ptn_destoryTask's memset.  What the panel shows is no longer looked
\* after, nor is a slot the fpga task has found and not yet shown.
LoadWipe(c) ==
    /\ caller[c] = "wipe" /\ s_semaphore = Free
    /\ move_ptn_info' = [i \in Slot |-> None]
    /\ screen' = [screen EXCEPT !.asked = None]
    /\ raced' = IF fpga.at = "show" THEN raced \cup {fpga.slot} ELSE raced
    /\ Go(c, "create")
    /\ UNCHANGED <<table, memory, s32ForcePostion, s_semaphore, s_taskStop, task, fpga, queue, shows, wild, crashed>>

LoadCreate(c) ==
    /\ caller[c] = "create"
    /\ StepTask(loads, [NoTask EXCEPT !.at = "start"]) /\ Go(c, "idle")
    /\ UNCHANGED <<table, slots, s_semaphore, s_taskStop, fpga, queue, screen, shows, ghost>>

LoadStep(c) == \/ LoadOpen(c) \/ LoadStop(c) \/ LoadJoin(c)
               \/ LoadWipe(c) \/ LoadCreate(c)

\* A process that died of a wild read does nothing more.
Next ==
    /\ ~crashed
    /\ \/ \E t \in Task : TaskStep(t)
       \/ FpgaStep
       \/ \E c \in Caller : client_pg_showPtn(c) \/ LoadClose(c) \/ LoadStep(c)

Spec == Init /\ [][Next]_vars

\* The operating system does not stop all the loading tasks, the fpga task or
\* the loads for ever while they can go on.
Fairness ==
    /\ WF_vars(~crashed /\ \E t \in Task : TaskStep(t))
    /\ WF_vars(~crashed /\ FpgaStep)
    /\ WF_vars(~crashed /\ \E c \in Caller : LoadStep(c))

FairSpec == Spec /\ Fairness
-----------------------------------------------------------------------------
\* The name of a slot tells the picture in it: outside of a download, and
\* unless two downloads chose the slot at once or the last transfer to it failed
\* (which move_ptn_downloading does not notice), what move_ptn_getPostionByName
\* finds is what the fpga has there.
NamesTellContents ==
    \A i \in Slot \ (raced \cup failed) :
        move_ptn_info[i] # None /\ Choosers(i) = {} => ddr[i] = move_ptn_info[i]

\* The panel shows the pattern that was asked for last, while no other is being
\* looked for and no load has cleared the slots since: neither the loading tasks
\* nor a forced download have put another picture there, except into a slot two
\* of them chose at once or whose last transfer failed, or after the fpga
\* refused the download.
ShownIsAsked ==
    fpga.at = "idle" /\ screen.asked # None /\ screen.slot \notin raced \cup failed \cup {-1}
        => ddr[screen.slot] = screen.asked

\* A picture is sent by one thread at a time, the one that holds the semaphore,
\* for as long as the fpga's memory is incomplete, unless its transfer broke off:
\* then the slot stays incomplete until another picture is brought there.
OneTransfer ==
    /\ TypeOK
    /\ \A i \in Slot \ failed : ddr[i] = Torn =>
          \/ s_semaphore \in Task /\ task[s_semaphore].at = "down" /\ task[s_semaphore].slot = i
          \/ s_semaphore = Fpga /\ fpga.at = "down" /\ fpga.slot = i

\* A loading task finds every pattern it was told of in the table it was started
\* for; only a table as long as the ring list, which drops its first row, or a
\* later load lets it read past the end.
TaskReadsItsTable == ~wild

\* Nobody waits for ever: whoever shows a pattern is answered and whoever loads a
\* module gets to the end, whatever the fpga refused and however the loading tasks
\* and the fpga task competed for the semaphore; only a dead process does not.
CallersReturn == \A c \in Caller : caller[c] # "idle" ~> caller[c] = "idle" \/ crashed
-----------------------------------------------------------------------------
(* Why the properties hold: an invariant that every step keeps.              *)

Name    == Picture \cup {None}
Pattern == [id: Int, bmpName: Name]
Table   == [size: {TableSize}, head: PtnId, tail: PtnId, items: [PtnId -> Pattern]]
Loading == {"open", "sequence", "stop", "join", "wipe", "create"}
TaskState  == [at: Busy \cup {"none", "start", "pick", "end"}, loopId: 0..TableSize,
               ptnNum: 0..TableSize, bmpName: Name, slot: Slot \cup {-1}]
FpgaState  == [at: Busy \cup {"idle", "show"}, from: Caller \cup {None}, bmpName: Name,
               slot: Slot \cup {-1}]
Screen     == [slot: Slot \cup {-1}, asked: Name]
Message == [cmd: {"SET_PHOTO", "SET_SEQ"}, from: Caller, ptnId: Int]

Typed ==
    /\ loads \in 0..MaxLoads /\ isOpen \in BOOLEAN /\ conns \in Table /\ cur_conns \in 0..TableSize
    /\ move_ptn_info \in [Slot -> Name] /\ s32ForcePostion \in Slot
    /\ s_semaphore \in Task \cup {Fpga, Free} /\ s_taskStop \in BOOLEAN
    /\ ddr \in [Slot -> Name \cup {Torn}]
    /\ task \in [Task -> TaskState] /\ fpga \in FpgaState
    /\ queue \in Seq(Message)
    /\ caller \in [Caller -> Loading \cup {"idle", "wait"}]
    /\ screen \in Screen
    /\ shows \in 0..MaxShows /\ wild \in BOOLEAN /\ crashed \in BOOLEAN

\* Whoever downloads has a picture and a slot for it, and a loading task has not
\* gone through its table yet.
BusyWithPicture ==
    /\ \A t \in Task : /\ task[t].at \in Busy => task[t].slot \in Slot /\ task[t].bmpName \in Picture
                       /\ task[t].at \in Busy => task[t].loopId < task[t].ptnNum
    /\ fpga.at \in Busy => fpga.slot \in Slot
    /\ fpga.at # "idle" => fpga.from \in Caller /\ fpga.bmpName \in Picture

\* The semaphore is with the one thread that sends a picture.
SemaphoreWithSender ==
    /\ \A t \in Task : task[t].at = "down" <=> s_semaphore = t
    /\ fpga.at = "down" <=> s_semaphore = Fpga

\* A slot is incomplete for as long as it is being sent, or once that failed.
TornIsSent ==
    \A i \in Slot \ failed : ddr[i] = Torn =>
       \/ \E t \in Task : task[t].at = "down" /\ task[t].slot = i
       \/ fpga.at = "down" /\ fpga.slot = i

\* One load at a time, and its task is not there before its last step.
OneLoad ==
    /\ \A c, d \in Caller : caller[c] \in Loading /\ caller[d] \in Loading => c = d
    /\ \A c \in Caller : caller[c] \in Loading =>
          c \in Loader /\ loads \in Task /\ task[loads].at = "none"
    /\ \A t \in Task : t > loads => task[t].at = "none"

\* Whoever sent a message waits, each for one: for one of the queue, or for the
\* one the fpga task is at.
SendersWait ==
    /\ \A k \in DOMAIN queue :
          caller[queue[k].from] = IF queue[k].cmd = "SET_SEQ" THEN "sequence" ELSE "wait"
    /\ \A j, k \in DOMAIN queue : queue[j].from = queue[k].from => j = k
    /\ fpga.at # "idle" =>
          caller[fpga.from] = "wait" /\ \A k \in DOMAIN queue : queue[k].from # fpga.from

\* Outside of a load the table is the one of a module, and so it is for as long
\* as the last load's task, which was told its length, goes through it.
TableOfModule ==
    /\ isOpen => \E m \in Module : conns = LoadRows(m) /\ cur_conns = Count(m)
    /\ \A c \in Caller : caller[c] \in Loading \ {"open"} => isOpen
    /\ loads \in Task /\ task[loads].at # "none" => isOpen
    /\ \A t \in Task : t = loads /\ task[t].at \in Busy \cup {"pick"} => task[t].ptnNum = cur_conns

\* A slot nobody chose twice has one thread at it at most, and its name tells
\* what is in it until that thread has begun to send; a loading task's slot has
\* no name.
SlotsTold ==
    \A i \in Slot \ raced :
       /\ \A t, u \in Task : task[t].at \in Busy /\ task[t].slot = i
                             /\ task[u].at \in Busy /\ task[u].slot = i => t = u
       /\ \A t \in Task : task[t].at \in Busy /\ task[t].slot = i =>
             /\ ~(fpga.at \in Busy /\ fpga.slot = i)
             /\ move_ptn_info[i] = None
             /\ task[t].at = "note" /\ i \notin failed => ddr[i] = task[t].bmpName
       /\ fpga.at = "note" /\ fpga.slot = i /\ i \notin failed => ddr[i] = fpga.bmpName
       /\ i \notin failed /\ move_ptn_info[i] # None
          /\ ~(fpga.at \in {"down", "note"} /\ fpga.slot = i) => ddr[i] = move_ptn_info[i]

\* What is about to be shown, and then what is shown, has its name in the slot.
ShownIsNamed ==
    /\ fpga.at = "show" /\ fpga.slot \in Slot \ raced => move_ptn_info[fpga.slot] = fpga.bmpName
    /\ fpga.at = "idle" /\ screen.asked # None /\ screen.slot \in Slot \ raced
          => move_ptn_info[screen.slot] = screen.asked

IInv ==
    /\ Typed /\ BusyWithPicture /\ SemaphoreWithSender /\ TornIsSent /\ OneLoad /\ SendersWait
    /\ TableOfModule /\ SlotsTold /\ ShownIsNamed /\ ~wild
=============================================================================
