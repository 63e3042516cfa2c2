# A TLA+ model of the pattern generator client

`pgClient` runs on the ARM board of a pattern generator, a device that drives LCD
panels under test. It finds a PG server on the network, takes commands from it
(switch a panel on, show a picture, write a register, burn a one-time memory,
receive files), and carries them out on a power board, an FPGA, a MIPI bridge and
a colour probe. It is a C program of a few dozen threads. These modules model its
concurrent and protocol core, TLC checks them on small instances, and TLAPS proves
the main safety properties for instances of every size.

Contents: [1 the system](#1-the-system) · [2 the modules](#2-the-modules) ·
[3 the runs](#3-the-runs) · [4 fairness and assumptions](#4-fairness-and-assumptions) ·
[5 what the runs found](#5-what-the-runs-found) · [6 the proofs](#6-the-proofs) ·
[7 what is not modelled](#7-what-is-not-modelled) · [8 plan](#8-plan)

To use it: `tlc -config ThreadPool.cfg ThreadPool.tla`, and so on for each line of
the table in section 3; `tlapm ThreadPool_proofs.tla` for the proofs.

## 1 The system

```
   PG server ---- multicast ---->  client_mutilcast ---+
      ^  ^                                             v   cliservice
      |  +--- report connection --  client_connect     server_guard
      |                             heartBackTimer ----^
      +------ command connection -> server_start -> packsocket -> msgProc
                                                                   |
                   +-----------------------------------------------+
                   |  most commands                                 |  SHUTON, SYNCTIME
                   v                                                v
             server thread  --------------------------------->  thread pool
              |    |            MsOS_SendMessage                    |
              |    v                                                v
              |   apartments (queue + thread): power, fpga, lcd, download
              |    ^   MsOS_PostMessage         |
              |   timer thread                  v
              |                               comUart, FPGA, probes
              +--> files and their table (clipg.c, pgLocalDB.c)
              +--> loading task: pictures into the FPGA (pubmoveptn.c)
              +--> supply, MIPI bridge, driver chip and its memory
```

### Components

| Component | State | Operations | What is hard about it | What makes it correct |
|---|---|---|---|---|
| thread pool, `threadpool/threadpool.c` | job list and counter, two close flags, one mutex, three condition variables | `threadpool_init`, `threadpool_add_job`, `threadpool_function`, `threadpool_destroy` | waiters are woken on the edges empty/non-empty and full/not-full only; destroy races workers and callers, and broadcasts after the unlock | no lost wakeup; every accepted job runs once, in order; the pool is freed only when it is drained |
| message queue, `pgos/MsOS_queue.c` | free and used list of nodes, one lock and two counting semaphores | create, send, receive | the counting semaphores are obtained outside of the lock and messages are copied outside of it | the lists are edited by one thread at a time; a semaphore obtained means a node is there; the whole is a bounded FIFO |
| server link, `client.c` | server address, link flag, alive counter, two descriptors in `cliservice` | five threads: hear, guard, report, serve, heartbeat | four of them write the descriptors, two take a mutex; the server can close, fall silent and come back at any point | a thread closes its own descriptors only; the link is dropped on expiry only; the client reports again after an outage |
| command stream, `packsocket/packsocket.c` | ring buffer, list of packages of unfinished commands | `recvSocketCmd`, `parseSocketCmd` | `recv` cuts the stream anywhere, the buffer wraps anywhere, packages of commands interleave | every command is delivered once, whole and in order |
| serial protocol, `hw/common/source/comUart.c` | byte automaton, captured frame, left-over bytes | `datapack`, `dataunpack`, `uartReadData`, `uartClearData`, `uartWaitRecvData` | lost, changed and added bytes; late answers; unsolicited frames; buffer limit | only payloads the board sent are returned; the buffer is not overrun; a late answer is not taken for the next one |
| power task, `hw/power/source/pubPwrTask.c` | monitor flag, version request, pause flag | commands, readings, version thread, firmware upgrade | five threads and a bounded queue; the timer thread blocks on it with the timers' lock held | senders' stack frames outlive their messages; the monitor stops for good; nobody blocks for ever |
| apartments, `pgos/MsOS_control.c` | queue, thread, return semaphore on the sender's stack | `MsOS_SendMessage`, `MsOS_PostMessage`, `ApartmentThread` | message and semaphore lie on a stack another thread writes to | as above |
| timers, `pgos/MsOS_timer.c` | list of timers under `s_semaphore` | create, start, stop, delete, `TimerProcess` | callbacks run with the lock held | every timer is served |
| command dispatch, `clirecvcmd5srv.c` | none of its own | `msgProc`, a case per command | SHUTON and SYNCTIME run on the pool, the others on the server thread | the system ends up in the state of the last command |
| file synchronisation, `clipg.c`, `client.c`, `pgDB/pgLocalDB.c` | transfers, local files, SQLite table and its records in memory | SYNCFILE, COMPLETESYNC, UPDATEFILE, the parts of a file | a transfer is named by a pointer the server sends back; the link is cut and the board restarts between a file and its row | a file that is not asked for again is there, whole, in the server's version; every sync gets to its end |
| loop list, `loop/loop.c` | circular list under a mutex | push, search, remove, clear, get by offset | one slot stays empty, a full list drops its oldest item, the offset is not reduced | a queue of at most its size less one |
| pattern download, `hw/fpga/source/pubmoveptn.c` | twenty slots, their names, one semaphore, a loading task per load | load, look up, force, clear | loading task, FPGA task and loads touch the slots without a lock; the old loading task outlives its `join` | a slot's name tells what is in it; one transfer at a time |
| FPGA task, `hw/fpga/source/pubFpgaTask.c` | its queue, the position on the panel | SET_PHOTO, SET_SEQ, the test patterns and registers | a picture is downloaded on demand beside the loading task | the panel shows what was asked for; every sender is answered |
| panel power sequence, `clipg.c`, `ic_manager.c` | supply, bridge, output registers, `HsSignalOnFlag`, channel flags, `pg_pwr_status`, what the server was told | `client_pg_shutON`, `client_pg_mipiShutON`, MIPI_MODE | on and off may run on two threads, each is a dozen writes with delays | on and off put every part in the same state; no signal without supply |
| one-time programming, `clirecvcmd5srv.c`, `icm/chips/` | the chip's registers, page, key and burned cells | read the count and the value, compare, burn, restart the panel, read back | page, key and voltage must be right at the moment of the burn; a failure cannot be repaired | what is burned is what was asked for; nothing is burned twice; OK means burned |
| scanner port, `hw/serial/`, `common/` | ring buffer, list, condition variable | two threads | condition variable without a predicate, full equals empty | every scan is handed on |
| LCD probe task, MIPI bridge, chips, drivers | registers | apartment messages become register accesses | order of register accesses | mostly no protocol state of their own |
| databases, configuration, console, utilities | files | parse once, look up | none beyond parsing | - |
| control box, event flags | - | compiled out, or without a caller | - | - |

### How the parts interact

* `server_start` reads the command connection, feeds `recvSocketCmd`, calls
  `parseSocketCmd` until nothing is left, and `msgProc` for every complete
  command. SHUTON and SYNCTIME become jobs of the pool (10 workers, 20 jobs), the
  others run on the server's thread before it reads on.
* A command handler that needs a board calls `MsOS_SendMessage`, which puts a
  message on the apartment's queue and waits on a semaphore on the caller's own
  stack. `ApartmentThread` handles messages one at a time and releases that
  semaphore. The timer's callbacks use `MsOS_PostMessage`, which does not wait for
  the handling, but does wait for room in the queue.
* `server_guard` and the heartbeat reach into other threads by shutting their
  sockets down: that is how a thread blocked in `recv` gets out.
* One lock of the timers protects the list and is held during callbacks, so
  stopping a timer waits until its callback has returned.
* A transfer of files crosses the link twice per file: the board asks with the address
  of its `recv_file_info_set_t`, the server sends that address back with every part,
  and the board looks it up in the list of nine before it uses it.
* A load replaces the table of patterns, wipes the slots' names and starts a task that
  fills the slots. The FPGA task reads both the table and the names, and fills a slot
  itself when a pattern is asked for that is in none.
* An OTP command ends by switching the panel off and on again, with the same
  functions as SHUTDWN and SHUTON, so those three meet on the same registers.

The hazards, 40 of them, are listed line by line in `PROJECT.json`, each with the
properties that catch it; the one that no property covers says why.

## 2 The modules

| Module | Models | Extended by |
|---|---|---|
| `ThreadPool` | the pool, its workers and its callers | `ThreadPool_proofs` |
| `MsQueue` | the message queue, down to each semaphore operation | `MsQueue_proofs` |
| `BoundedFifo` | what a message queue promises; implemented by `MsQueue` | - |
| `ClientLink` | the five threads of the link, the descriptors, the server | `MCClientLink`, `ClientLink_proofs` |
| `PackSocket` | ring buffer, package parser, command assembly, cut connections | `MCPackSocket` (commands) |
| `UartRx` | frames, escaping, receive automaton, command and answer | `MCUartRx` (answers and noise) |
| `PowerTask` | power task, apartment, timer thread, version thread | `PowerTask_proofs` |
| `LoopList` | the ring list of `loop.c`, as operators on its value | `LoopList_proofs`, `FileSync`, `Pictures` |
| `FileSync` | transfers of files, the disk, the table of local files, restarts | `FileSyncFlow` |
| `FileSyncFlow` | no code: the order in which transfers, requests and answers are on the way, on which two invariants of `FileSync` rest | `MCFileSync` (files, sizes), `FileSync_proofs` |
| `Pictures` | the table of patterns, the slots of the FPGA, loading tasks, FPGA task, loads | `MCPictures` (modules), `Pictures_proofs` |
| `Panel` | switching on and off, the MIPI bridge, the driver chip, one-time programming | `MCPanel` (symmetry), `Panel_proofs` |

The composition: `PowerTask` uses the queue as the atomic FIFO that `MsQueue` is
checked to implement, and `Pictures` uses the FPGA task's queue the same way.
`FileSync` and `Pictures` keep their lists as values of `LoopList`. `Panel` composes the
power sequence with the OTP commands and the pool's threads with the server thread.
The others meet only at the data they pass on: `ClientLink` says when bytes flow,
`PackSocket` what becomes of them, `FileSync` what the commands in them do.

### ThreadPool

Every field of `threadpool_t` is accessed with the mutex held, so one action is one
critical section: from the lock (or the return of `pthread_cond_wait`) to the unlock
or the next wait. The two broadcasts of `threadpool_destroy` come after the unlock
and are actions of their own.

| TLA+ | Code |
|---|---|
| `jobs`, `queue_cur_num` | the list `head..tail` and the counter beside it, kept apart on purpose |
| `AddCall`, `AddWait`, `AddRefuse`, `AddAccept` | `threadpool_add_job` |
| `WorkerWait`, `WorkerTake`, `WorkerExit`, `WorkerFinish` | `threadpool_function` |
| `DestroyRefuse`, `DestroyClose`, `DestroyRecheck`, `DestroyWakeWorkers`, `DestroyWakeAdders`, `DestroyJoin` | `threadpool_destroy` |
| `SpuriousWakeup` | what POSIX allows of `pthread_cond_wait` |

Jobs carry the number under which they were accepted; `started` and `done` are
history variables that the properties need.

### MsQueue and BoundedFifo

Each semaphore operation and each section under `lockSemaphore` is a step, `pc[t]`
says where a thread is. The two lists are sequences of nodes. A thread in `Timed`
passes a finite time to wait; senders in this program wait for ever, and both are
covered. `lockSemaphore` is always waited for without a limit. `lost` counts the
slots of `sendSemaphore` that an oversized message costs: `MsOS_SendToQueue` gives
its node back, but not its slot. No caller in this program sends one.
`BoundedFifo` is the abstract queue: `Put` at the tail, `Take` from the head, at
most `Depth`. The mapping is `fifo <- Contents`, the messages of the nodes on the
used list.

### ClientLink

`s_server_ipaddr`, `link_on` and `time_alive_timeout` are the guard's and the
multicast thread's, under the mutex `m`. `send_fd` and `client_socket` are
written without one, and each read of them is a step: `GuardTestSend`,
`GuardShutSend` and `GuardClearSend` are the test, the `shutdown` and the `= -1`
of `close_all_socket`. `sock[f]` is the state of descriptor `f` in the kernel, and
`owner[f]` (a history variable) the thread that opened it. Descriptors are given
out lowest first. Descriptor 0 is stdin: `cliservice` is cleared with `memset`,
so both fields begin as 0. The server comes and goes, closing its connections or
falling silent; a silent peer leaves `recv` blocked.

### PackSocket

A byte is a pair of package number and offset. That is all the code depends on:
the sync word at offset 0, the length at the end of the head, the CRC at the end.
`WriteFifo` and `ReadFifo` are the ring buffer with its two-part copies,
`Receive(n)` one `recv` of `n` bytes followed by `recvSocketCmd`,
`ParsePackage` one turn of `parseSocketCmd`: find the head, wait for the rest,
check, append to the list, and deliver the command when its packages are all there.
`linked` records whether freeing the packages of a finished command left the list
intact. `Cut` ends a connection: what is on its way is lost, and the buffer and the
list keep what they hold, since nothing clears them. A byte of another package where
a length should be means any length (`ValidLen`).

A package whose CRC field is 0 is not checked at all (packsocket.c:371), so a package
glued together over a cut passes where its last byte can be a 0: `ZeroCrc` says which
may, `CrcOk` accepts it, and `Told` what its head may then say of the command and of the
number of packages (`StrayLastNo`, 0 or 1). `pending`, `cuts`, `torn` and `unchecked` (bytes of two
packages were taken for one) are history.

### UartRx

Bytes are real bytes here, since framing and escaping are what it is about. The
CRC has one byte instead of four. `Automaton(u, b)` is one turn of
`uartRevDataProcess`; `ReadData(n)` one `uartReadData` in which `read()` returns `n`
bytes; `SendCommand` the flush and the command; `BoardAnswers`, `BoardEvent` and
`LineNoise` are the board and the line, with `SendFrame` losing or changing one
byte when a fault is left. The caller holds the port's lock throughout, so a call
of `uartReadData` is one step.

### PowerTask

The threads are the callers, the version thread, the timer thread and the
apartment. A caller sends "set" (any of the commands that differ in payload only)
or "upgrade", or starts or stops the monitor, for which it needs `s_semaphore`.
`GetInfo`/`PostInfo` are the two halves of `pwrTimerCallback`, for each of the two
channels: allocate a reading, post it. `HandleSet`, `HandleVol`, `VersionAnswered`,
`VersionTimeout`, `UpgradeBegins`, `Upgrade`, `UpgradeEnds` are the cases of the
message handler, `Reply` the end of `ApartmentThread`'s loop. `heap` counts the
readings that were allocated and not freed.

### LoopList and FileSync

`LoopList` has the head and tail arithmetic of `loop.c`, with the slot that stays
empty and the oldest item a full list drops. One operator is one call under the
list's mutex. `loop_get_from_head` has no modulus and no test, and neither has its
model: a place outside of the list yields the value `garbage`.

| TLA+ of `FileSync` | Code |
|---|---|
| `sets`, `ring` | the `recv_file_info_set_t` blocks and `s_recv_file_list`, keyed by address; `malloc` gives a freed address out again |
| `disk`, `dirty`, `tbl`, `list` | the files, what `sync(1)` has not yet written, the rows, the records in memory |
| `RecvSyncFile`, `RecvCompleteSync`, `RecvCompleteSyncEnd`, `RecvUpdateFile`, `RecvFileBegin`, `RecvFileBody`, `RecvFileEnd` | the cases of `msgProc` and `clipg.c` |
| `WriteFile`, `SyncDisk`, `SaveLocalFile`, `NextFile` | the writes of `client_pg_syncFile`, one by one |
| `ContinueWith` | `client_getFileFromSet`: ask for the next missing file or end the transfer |
| `Restart`, `LinkCut`, `WildTransfer` | the process ends; the connection ends; a NULL set is used, and the process ends |

A restart may fall between any two writes; what was not synced may or may not be on
the disk afterwards. A version stands for the pair of size and time. The server
is external: it answers requests in order, runs one sync at a time and may start
over when nothing moves any more.

### Pictures

The loading task of `pubmoveptn.c`, the FPGA task's handler of SET_PHOTO, the callers
that show patterns and the load of a module interleave at every access to the
table of patterns, to `move_ptn_info` (the names of the slots), to the semaphore and
to the FPGA's memory `ddr`.

| TLA+ | Code |
|---|---|
| `TaskStart`, `TaskPick`, `TaskDownload`, `TaskDownloaded`, `TaskNote`, `TaskEnd` | `move_ptn_task` and `move_ptn_downloading` |
| `FpgaFind`, `FpgaDownload`, `FpgaDownloaded`, `FpgaNote`, `FpgaShow`, `FpgaSequence` | the FPGA task's SET_PHOTO and SET_SEQ, with `move_ptn_ForceDownload` |
| `LoadClose`, `LoadOpen`, `LoadStop`, `LoadJoin`, `LoadWipe`, `LoadCreate` | `load_cur_module` with `dbModuleInit`, `move_ptn_destoryTask`, `MsOS_DeleteTask`, `move_ptn_createTask` |

`MsOS_CreateTask` starts its threads detached, so `pthread_join` in `MsOS_DeleteTask`
fails at once: `LoadStop` sets the flag, `LoadJoin` resets it, and the old task may
have looked at it in between or not. Therefore there is a task per load. The search for
a record and its use are one step; a search in a table that has been given back is a
wild read (`WildRead`): the process dies, or reads a name that is no file. A refused
download is shown at position -1.

Nobody looks at the result of a transfer (pubmoveptn.c:58). A write error stops it midway
(fpgaFunc.c:1361), and a picture without its ptn file sends next to nothing (bitmap.c:592;
the forced path tests the original image only, pubFpgaTask.c:51): `EndDownload` is `Brought`
or `NotBrought`, and the name is noted either way. `failed` marks the slots whose last
transfer did not bring the picture, and what such a slot holds is not claimed. `raced` marks slots that two downloads chose at the
same time; the code has no lock between choosing a slot and filling it, and what such
a slot holds is not claimed.

### Panel

A thread carries the rest of its sequence in `code[t]`, and a step does its first
operation. `ShutOn`, `ShutOff`, `TestOn`, `TestOff`, `mipi_working`, `mipi_close`, `Burn`
and `Read` are those sequences, in the order of the code, and `Switched`, `ChipOp`,
`OtpTimes`, `OtpCell`, `OtpCompare` and `OtpAnswer` say what an operation does. `SHUTON`
runs on a thread of the pool, the other commands on the server thread
(`RecvShutOn`, `RecvShutDwn`, `RecvTst`, `RecvMonitor`, `RecvMipi`, `RecvGammaOtp`,
`RecvReadInfo`, `RecvOtp`). Locks there are none (`HI_UNF_SPI_Lock` is empty).

Power commands can fail. `pwrCmdTransfer` gives up when the board does not answer in six
seconds, and `power_message_proc` drops what it returns (pubPwrTask.c:820 and 827):
`Supplies` leaves the supply as it was or switches it, and the sequence goes on. `asked`
(history) is what the board was last told, `PowerLost` that it has not done so. A command
that is not carried out by then is taken as lost, not as late.

The driver chip is the JD9367. The chip itself is external, and modelled by what the
code does to it: a burn takes effect on page 0 with the key set and the internal
programming voltage on, selected on page 0 too. The comment "fix page error" in
`qc_otp_vcom` is where that comes from. `qc_otp_id` lacks that fix, so in the model it
burns nothing, and `OkMeansBurned` is a statement about vcom. Reading the memory is taken
to work on any page, and may fail at any time: `_ReadModReg` gives up after three tries, and
`qc_read_reg` and `qc_read_otp_data_reg` return the 0 their buffer began with. So `OtpTimes`
reads 0, and `OtpCell` a smaller value (`ReadAs`: some bytes are 0). `right` (history) says that
what was read is what the chip holds. `SendCode` is one step.

With `ENABLE_OTP_TESE_MODE` (clirecvcmd5srv.c:28) the limit of burns is one more than
were done and the value read back is replaced by the one expected, so every OTP answer
is OK. A value of 0 on a blank chip is answered OK and not burned, since a blank cell
reads as 0. Without a file for the module, SHUTON switches nothing and starts the monitor
all the same (`RecvShutOnNoFile`). An OTP command on a panel that was off leaves it on.

`mixed` and `tainted` are history: a command that overlapped with another is not
asked to get everything right, and the state counts as tainted until a switching on or
off has run alone.

## 3 The runs

| Run | Module / cfg | Bounds | Distinct states | Checks |
|---|---|---|---|---|
| threadpool | `ThreadPool`, `ThreadPool.cfg` | 3 workers, 3 callers, queue 2, 5 jobs | 87 k | `WakeupsNotLost`, `FifoExactlyOnce`, `DrainedBeforeFree`, `EveryJobRuns`, `DestroyReturns` |
| msqueue | `MsQueue`, `MsQueue.cfg` | 2 senders, 2 receivers, one of each timed, depth 2, 3 messages, 1 oversized | 40 k | `SemaphoresCount`, `MessagesIntact`, `ImplementsFifo`, `EverySentArrives` |
| clientlink_safety | `MCClientLink`, `ClientLinkSafety.cfg` | timeout 2, descriptors 0..2, 1 outage | 817 k | `LinkStateConsistent`, `CloseOnlyOwn`, `DropsOnlyExpired` |
| clientlink_live | `MCClientLink`, `ClientLinkLive.cfg` | timeout 2, descriptors 0..7, 1 outage, `Punctual`, `Undisturbed` | 155 k | `ConnectedAgain`, `OutageNoticed` |
| clientlink_leak | `MCClientLink`, `ClientLinkLeak.cfg` | as above, descriptors 0..2 | violation | `AllConnectionsClosed` |
| packsocket_safety | `MCPackSocket`, `PackSocketSafety.cfg` | buffer 8, chunk 4, head 2, CRC 1, four commands of 1 to 3 packages, 1 cut | 2.31 M | `BufferIsStream`, `CommandsIntact`, `WholePackages` |
| uart | `MCUartRx`, `UartRx.cfg` | buffer 12, 2 commands, 2 disturbances out of noise, a fault and an event, timeouts, late answers | 153 k | `CatchInBounds`, `PayloadsIntact`, `StaleAnswersFlushed`, `EveryCommandAnswered` |
| uart_damage | `MCUartRx`, `UartRxDamage.cfg` | 2 commands, 1 damaged byte | violation | `DamageIsAnError` |
| powertask | `PowerTask`, `PowerTask.cfg` | 1 caller, depth 2, 1 upgrade | 18.9 k | `StackAlive`, `HeapAccounted`, `StopIsFinal`, `NobodyBlocks`, `VersionLearned` |
| filesync | `MCFileSync`, `FileSync.cfg` | 2 files in 3 versions, 4 addresses, lists of 3 and 2, 3 events out of an edit, a cut, a restart, an update and a wipe | 195 k | `SkippedFilesAreThere`, `RecordsAreRows`, `TransfersKnown`, `RingIsQueue`, `MirrorsAgain` |
| pictures | `MCPictures`, `Pictures.cfg` | 3 modules, table 3, 2 slots, at most 2 loads, 2 patterns shown and 3 of both | 119 k | `NamesTellContents`, `ShownIsAsked`, `OneTransfer`, `TaskReadsItsTable`, `CallersReturn` |
| panel | `MCPanel`, `Panel.cfg` | 2 threads of the pool, MIPI, values 1 and 2, 2 cells, 4 commands, symmetric | 3.58 M | `AtRestAllAgree`, `SignalNeedsRails`, `CellsWellSpent`, `OkMeansBurned` |

What they show, and why the bounds are enough:

* **threadpool.** Waking on edges only is enough (`WakeupsNotLost`): no worker
  sleeps while there is a job, no caller while there is room, destroy does not
  sleep on an empty queue, and no worker sleeps through the closing. Jobs are
  handed out once and in order, every accepted job runs, and destroy returns. Three
  workers and three callers let two of a kind wait while a third moves; a queue of 2 has
  states that are neither empty nor full; five jobs fill it twice over. What destroy frees
  is done with: every job that was accepted has run by then, for the workers empty the list
  before they go (`DrainedBeforeFree`). That no thread is inside is not claimed: see
  section 5. The proofs of section 6 remove the bounds of the invariants, and prove two
  more (`TypeOK`, `Lifecycle`).
* **msqueue.** Two senders and two receivers are the least with which both
  ends interleave with themselves; a depth of 2 has a queue neither empty nor full;
  the third message makes nodes go round. `MessagesIntact`: a node is on one list or in
  one thread's hands, and a message is delivered once and as it was sent.
  `CHECK_DEADLOCK FALSE`: each message is sent once, and when they run out the
  receivers wait.
* **clientlink_safety.** Timers are not assumed to be punctual and the unlocked
  writes of `-1` hit wherever they can. With two descriptors above stdin the table
  runs full, so failing `socket` and `accept` are covered. A timeout of 2 keeps the
  counter's three regions (fresh, counting, expired); 5 adds only more of the middle.
* **clientlink_live.** With descriptors enough that the leak below does not
  exhaust them in one outage. See section 4 for the two assumptions.
* **packsocket_safety.** The ring of 8 is the least that satisfies what the sizes of
  the code satisfy (`PackSocketAssumption`: a package less one byte plus a chunk
  fits); packages are 3, 4 and 5 bytes long, so heads, payloads and CRCs cross the end
  at every place. Two commands share a code, packages of other
  commands are interleaved, there are packages without payload. `Concurrency = 1` says
  that the server sends the packages of one command of several packages before those of
  the next, with whole one-package commands in between; see section 4. A connection
  is cut at any byte. After a cut between commands all goes on; after one within a
  command the pieces are never handed out as one package (`WholePackages`), unless the cut
  fell within a package and what was glued together ends in a 0; but the
  sync word may not be found again, and the client then hears nothing until it is
  restarted, so `CommandsIntact` claims nothing there.
* **uart.** The payloads contain bytes that mean something in a
  frame. The noise begins like a frame and is longer than the buffer's 12 bytes, or ends
  with the first byte of a frame. Any byte of a frame may be lost or changed. Two
  disturbances meet in one history, so that for instance an event is followed by a
  damaged answer. `EveryCommandAnswered` is claimed of the histories in which the line
  only adds bytes that hide no frame and nothing times out.
* **powertask.** The queue of 2 is full with one callback's two readings, so the
  timer thread blocks with its lock held while the caller wants that lock, while the
  apartment is in a command. `NobodyBlocks`: every call returns and the timers go on.
  The invariants were also explored with two callers (143 k states).
* **filesync.** Two files and two versions beyond the first let a file grow and
  shrink between its listing and its sending. The list of transfers has two usable
  slots instead of nine and the list of records one instead of 999, so both overflow.
  Four addresses are more than the sets that live at once, so a freed address is given
  out again. Whatever disturbs is bounded by three, in every order: a restart within a
  transfer that was stranded by a cut, an update beside a sync. `lost` are the files of
  two windows in which a restart leaves a row without its file, and no later sync gets
  it: between `rm -rf` and `localDBDelAll` of COMPLETESYNC, and while a second transfer
  truncates a file whose row is already right. The inductive
  invariant of section 6, `FlowInv`, was also explored (300 k states, with a second cut);
  what it proves does not depend on any of these bounds. `CHECK_DEADLOCK FALSE`: when the
  bounds are used up and the server waits, nothing is left to do.
* **pictures.** One module whose picture has no FPGA file, one with as many patterns as
  the table has places (it drops its first row and the task reads past the end: that is
  the exception of `TaskReadsItsTable`), one that cannot be loaded. Two slots are fewer
  than pictures, so downloads are forced; two loads are the least with which an old
  task runs beside a new one, and two patterns shown the least with which a forced
  download overwrites the picture that is on the panel; together they are bounded by
  three. The FPGA may refuse any download, and any transfer may fail once it has begun; the
  properties leave a slot out from then until a picture is brought to it.
  `CHECK_DEADLOCK FALSE`: a process that died of a wild read does nothing, and loads and
  patterns run out.
* **panel.** Four commands are an OTP command with the switching before and after it and
  one more in between, or two SHUTONs and a SHUTDWN mixed and the one that puts things
  right. Any power command may be lost and any reading may fail; no bound is needed on how
  many. What was switched alone agrees in everything the program sets, and the supply does
  unless the last power command was lost; a cell is spent on what was there already only after a
  reading that failed. Two cells make the second burn the last, and two values a command that
  asks for another one. The run was explored with 0 as a third value as well
  (4.43 M states), and the properties of switching for LVDS and eDP (`Signal` 0 and 1); they are
  proved for every signal. `CHECK_DEADLOCK FALSE`: the commands run
  out.

Type invariants are part of what the runs check: as the first conjunct of
`MessagesIntact`, `BufferIsStream`, `CatchInBounds`, `RingIsQueue`, `OneTransfer` and
`CellsWellSpent`, and as theorems for the other three components.

Every property of a passing run has a mutant in `PROJECT.json`: a plausible bug put
into one definition, such as a missing broadcast, a `<=` for a `<`, a lock not
taken, a buffer not reset, a wrong order of two writes, for which the run finds the
property violated. Most of the mutated forms are defined in the modules next to the
definitions they replace.

## 4 Fairness and assumptions

* **ThreadPool.** Weak fairness of each worker, and of each caller inside a call.
  Threads run, jobs return. Nobody is obliged to call.
* **MsQueue.** Weak fairness of each thread inside a call. Receivers call again: the
  loop of `ApartmentThread` does. `EverySentArrives` is claimed of senders that wait
  for ever, as all of this program's do, and needs no strong fairness since the
  number of messages is finite.
* **ClientLink.** Weak fairness of each thread. Strong fairness of
  `HeartSendFails`: sending to a silent peer fails in the end, by TCP's
  retransmission timeout. Weak fairness of opening the multicast socket, strong
  fairness of hearing an announcement: the server repeats it, the network delivers
  some. `Punctual` says that a server which is up is heard at least every
  `AliveTimeout` ticks: the guard's limit of five seconds makes no sense otherwise.
  `Undisturbed` excludes one window: `close_all_socket` and the heartbeat set
  `send_fd` to -1 in a step after their `shutdown`, and a descriptor that
  `client_connect` stores in between is wiped out. With `Undisturbed = FALSE` the
  client can stay connected and mute until the next outage; no line of the
  repository says what should happen, so this is a hazard with a note, and the
  safety properties are checked without the assumption.
* **PackSocket.** `Concurrency = 1`: with two commands of several packages at a
  time the list does not stay linked, since the node between two freed ones is not
  unlinked (hazard at packsocket.c:204). Whether a server ever does that cannot be
  seen from this repository.
* **UartRx.** `uartWaitRecvData` polls every 10 ms, hence fairness of reading while
  something can be read; it is written out with its enabling condition. The board
  answers (weak fairness).
* **PowerTask.** Weak fairness of each thread; strong fairness of the waiters of a
  semaphore, which are served in turn; and of the questions for its version the board
  answers some. Without the last the version thread asks for ever, as the code says.
* **FileSync.** Weak fairness of the thread that handles the commands and of the
  server's answers. The server syncs again and again and gives a stuck sync up; that is
  external, and `MirrorsAgain` says what the board makes of it.
* **Pictures.** Weak fairness of the loading tasks, of the FPGA task and of the load
  under way: the operating system runs them. Not of showing or loading.
* **Panel.** Safety only.

## 5 What the runs found

* **Descriptors leak** (`clientlink_leak`, client.c:939). The guard announces
  "close all connect." and "close all socket!", but `close_all_socket` shuts the
  sockets down and sets the fields to -1; the threads that own them then find -1 and
  skip their `close()`. Each outage can cost two descriptors.
* **A damaged length runs past the buffer** (`uart_damage`, comUart.c:268).
  `dataunpack` promises an error code, but with fewer decoded bytes than a CRC has it
  computes the CRC of a negative length. In `UartRx` such a step sets `overrun` and the
  port stops: what memory holds there is unknown. The safety properties hold up
  to that point.

Observed while modelling, with no line of the repository that says otherwise, and
written into the models as they are:

* `UART_RECV_BUSY`, which its comment calls unreachable, is entered when the bytes left
  over complete a frame and more can be read (comUart.c:445); the left-over bytes are then
  overwritten.
* A transfer that goes on over as many cuts of the connection as the list of transfers has
  places (nine), each of which comes while the board writes a file, is pushed out of the list
  by the syncs the server starts meanwhile; its next answer finds a NULL set (loop.c:41 and
  clirecvcmd5srv.c:1274). `TransfersKnown` excepts it.
* The set of an UPDATEFILE is never put on the list of transfers, so its answer finds
  nothing and a NULL set is used (clirecvcmd5srv.c:1274, second part of
  `TransfersKnown`).
* A restart in one of two windows leaves a row without its file (`Window` of
  `FileSync`).
* The loading task of a module that was replaced goes on in the new table, and may
  read past its end (`Pictures`, `wild` and `crashed`).
* A caller that waits in `threadpool_add_job` when the pool is destroyed wakes up into
  freed memory (threadpool.c:172): destroy joins the workers, not the callers. This program
  has one caller, the thread that would also destroy the pool (client.c:1349, 1386), so it
  does not happen here.
* A package whose CRC field is 0 is accepted unchecked (packsocket.c:371), so pieces of two
  packages can be delivered as one after a cut; `WholePackages` leaves out just that.
* The name of a picture is noted whether or not its transfer worked, or its ptn file was
  there (pubmoveptn.c:58): the slot shows something else under that name until another
  picture is forced into it or the names are wiped (`failed` of `Pictures`).
* After a power command that the board did not carry out the server is told "on" all the
  same, and a panel without supply is driven (clipg.c:610 to 624, `PowerLost` of `Panel`).
* After a reading that failed, a value the chip already holds is burned once more, because
  the test mode has lifted the limit; and a value of which some bytes were not read can pass
  for the one asked for, which is then answered OK and not burned (`Panel`).
* `qc_otp_id` selects its voltage on the wrong page, where `qc_otp_vcom` has been
  repaired, and OTP commands answer OK whatever the chip holds (`Panel`).

## 6 The proofs

All for every value of the constants (every number of threads, jobs, depths,
timeouts and descriptors), from the named assumptions of the modules.

**ThreadPool_proofs.** `IInv = TypeOK /\ FifoExactlyOnce /\ WakeupsNotLost /\
Lifecycle` is inductive. `WakeupsNotLost` alone is not: that a woken worker finds
the counter and the list in agreement is `FifoExactlyOnce`, and that nobody waits
after the last broadcast needs `Lifecycle`, the order of the flags and of destroy's
steps. From it: `PoolTypeOK`, `PoolWakeups`, `PoolFifo`, `PoolLifecycle` and `PoolDrains`
(`DrainedBeforeFree`).

**ClientLink_proofs.** `IInv = TypeOK /\ AddressGone /\ StdinApart /\ CloseOnlyOwn`.
`AddressGone` follows the guard through its teardown: the address is cleared from
the tick that expires until the link is off, since announcements need the mutex.
`StdinApart` says that stdin stays what it is and that a thread which has got as
far as its connection no longer names 0, so that it cannot close it. From it:
`LinkTypeOK`, `LinkConsistent`, `LinkClosesOwn`, and the action property
`LinkDropsExpired`.

**PowerTask_proofs.** `IInv = TypeOK /\ StackAlive /\ ReleasedWhileWaiting /\
LockHeld /\ StopIsFinal`. `ReleasedWhileWaiting`: a return semaphore is released
only while its owner waits on it. `LockHeld`: the timers' lock is held exactly
during a pass. `HeapAccounted` equates the blocks of the heap with the readings that are queued, in
hand or being posted: the cardinality of a set of positions of the queue, which a send
extends, a receive shifts by one and a handler empties. From it: `PowerTypeOK`, `PowerStackAlive`, `PowerStopIsFinal`,
`PowerHeapAccounted`.

**MsQueue_proofs.** `IInv` counts: `SemaphoresCount` and `NodesConserved` say that each
semaphore's value, or the length of a list, plus the threads between two of their operations
makes up a constant. The threads are counted as the cardinality of a set, from which
each action takes one element or to which it adds one (`CountMove`). `NodesExclusive`
says that a node is in one list or one hand, `MessagesOnTheirWay` that a message is with
its sender, in one node, or with one receiver. From it: `QueueSemaphores`
(`SemaphoresCount`), `QueueMessages` (`MessagesIntact`) and `QueueIsFifo`, the refinement of
`BoundedFifo`: the abstract queue is the messages in the order of the used list
(`Contents`), a send is the step that links the node, a receive the step that unlinks it,
and every other step stutters (`StepRefines`).

**LoopList_proofs.** What each operation of the ring list makes of `Items`, whatever the
size and the places of head and tail: `ItemsPushed` (a full list loses its oldest item),
`ItemsRemoved` (the first match is closed up), `ItemsReplaced`, `ItemsCleared`,
`SearchFinds`. The module starts with two forms of induction over the numbers, stated
for sets (`NatSet`, `SegmentSet`), because the library's induction takes an operator as a
parameter. The proofs of its users rest on these.

**Pictures_proofs.** `IInv` has nine parts. Those that carry the argument: `BusyWithPicture`
and `SemaphoreWithSender` (the semaphore is held by the one thread that sends, and
what it sends is what it picked), `TornIsSent` (an incomplete picture in `ddr` is being
sent, or its transfer has failed), `TableOfModule` (a task that was not stopped reads the table of its own load) and
`SlotsTold` (the name of a slot is the picture in it, unless it is being filled or failed to be). From it:
`SlotsNamed` (`NamesTellContents`), `PanelShows` (`ShownIsAsked`), `TransfersApart`
(`OneTransfer`), `TasksReadTheirTable` (`TaskReadsItsTable`). The last needs what
`dbpattern_configLoad` leaves at each offset of the list, for any number of rows: an
induction over the rows.

**FileSync_proofs.** `IInv = LinkTyped /\ StoreTyped /\ JobHasFile /\ RingFollows /\
RowsHeld`. `RingFollows` says that the ring is the queue `known`, `RowsHeld` that the records
in memory are rows, one per file, and `JobHasFile` that between two writes the set has a
current file: without it the row that is saved would be nobody's. From it:
`TransfersAreQueue` (`RingIsQueue`) and `RecordsMatchTable` (`RecordsAreRows`), for any
number of files and for lists shorter than the module. The reload at the start
(`localDBInit`) is again an induction over the rows; that `Order` lists each file once is
used there.

The other two invariants are about what the board and the server have said to each other
and not yet heard, so `FlowInv` (`FileSyncFlow`, shown to hold as `FlowHolds`) puts all of
that into one sequence, `Flow`: the message being handled, then what comes down, then what
goes up. A message there stands for a transfer that is alive: its listing, the request for
its current file, the end of that file, or the report that it is over. Its parts:

* `OlderAhead`: at most two transfers are alive, because a second one is started only after
  a cut that came while the board was writing; the older one, whose listing knows less, is
  ahead of the younger one and of the same file (`Older`, `InOrder`); no row is newer than
  what a transfer will still put there (`RowsUpTo`). Hence a late answer does not write an
  old file under a new row. A transfer is on the list of transfers with no more syncs behind
  it than there were cuts (`StillListed`): so it is found, or there were as many cuts as the
  list has places.
* `PartsTogether` and `AnswersFit`: BEGIN, BODY and END of an answer are neighbours, an
  answer is at least as new as the listing, and by its END all of it has come, if the
  size is that of the listing. So a row is saved only for a whole file.
* `OnDisk`: what is not yet synced to disk is the file the thread is at; what has the
  server's row is there.
* `SetsListed`, `SetsNamed`, `UpdatesCounted`, `BoundTyped`: a set lists the server's files in
  its order, a message names a set that was not given back, an update's set means there was an
  UPDATEFILE.

A handler shortens or lengthens `Flow` at one end, and the proofs follow that: how the
positions of `Alive` move when a message is taken, put back as another, or lost, is stated
once for each form of step. From it: `SkippedAreThere` (`SkippedFilesAreThere`) and
`TransfersAreKnown` (`TransfersKnown`), for any number of files, versions, edits, cuts,
restarts and updates, and lists of any size.

**Panel_proofs.** `IInv = ChipInv /\ Switching`. A thread's state is the rest of its
sequence, so both parts are about the shape of a rest. `ChipInv` is about the burn:
`OneAlone` (a thread that nothing was mixed into is the only one at work) and `Burning`,
which says what stands before a burn, a comparison and an answer in any rest (`ReadShape`,
`ProgramShape`, `CompareShape`, `AnswerShape`) and, for a thread that runs alone, what the
chip is like by then: the register is right once it is written and the last cell is
another (`ProgramReady`) and what was read is what is there (`CompareReady`), both if no
reading failed, and either the
burn is still to come, with the voltage, the key and page 0 as far as they are set, or the
cell holds the value (`AnswerReady`). `Switching` says what a rest will make of the
supply it asks for: `WillBeOn` (what is not on yet is still to be set, and whatever undoes it is
followed by its setter), `WillBeOff`, and in both the signal goes before the supply and
comes after it (`SignalInside`, `Silent`). The order of operations in a rest is stated
with `Then`, `Never` and `ThenIf`; each has a lemma for the tail of a sequence, which a
step takes, and one for two sequences put together, which a command and `AfterCompare` do.
From it: `WellSpent` (`CellsWellSpent`), `OkIsTrue` (`OkMeansBurned`), `AllAgree`
(`AtRestAllAgree`) and `RailsForSignal` (`SignalNeedsRails`).

In each module the lemma of preservation has a step per action and under it one
per conjunct, and `PTL` combines initiation and preservation.

**Model-checked only.** Every liveness property (fairness and `ENABLED` are beyond the
prover). The invariants of `PackSocket` and `UartRx`: what they compute is defined by folds and
recursive functions over sequences, with operators as parameters, to which the form of induction
used for the lists does not apply as it is.

## 7 What is not modelled

`PROJECT.json` lists each part with the reason. In short:

* **Scanner port** (`hw/serial`, `common/`): two threads, a ring buffer, a list and a
  condition variable. Nothing else waits on it. What a reading of the code shows: the
  condition variable has no predicate, so a scan added before the thread waits is handed
  on with the next one only; a full ring buffer counts as empty; an empty scan yields a
  node without text; a scan longer than the window of 128 bytes is not recognised;
  `devFree` can wait for a processing thread that missed the signal.
* **Probe task, flicker tuning, general commands**: an apartment or a case of
  `msgProc` that measures with a probe whose answers come from a library; the search
  for flicker is compiled out (`flick_auto`) or belongs to the control box.
* **Control box** (not compiled), **event flags** (no caller).
* **Parsers, databases read once, picture conversion, drivers**: conversions and
  register accesses without protocol state. This is most of the repository's lines:
  `dvb_gb2312_unicode_map.h` is a table, `sqlite3.h` a library's header, lines 171 to
  1175 of `clirecvcmd5srv.c` are compiled out.

Within the modelled parts:

* **Contents of commands.** A power command's payload and what a job of the pool does are
  not told apart.
* **Functions without a caller**: `MsOS_PeekFromQueue`, `MsOS_DeleteQueue`,
  `MsOS_DestroyApartment`, `client_destory`, `client_pg_downFile` (its set is never
  found), `loop_push_to_head`, and some setters of the power task.
* **Panel**: the commands that read or write a register, FLICK_TEST and the MTP
  commands; panels in command mode, which skip `Set2828_V`; control codes within an
  initialisation file; the other driver chips, whose sequences differ in the registers.
  The pins 10 and 11 reset the chip, 74 and 75 the bridge, and only the former matter to the
  chip's registers.
* **Allocation failures**, and failures of `pthread` calls whose results the code does
  not look at, except the `join` of `Pictures`.
* **ClientLink**: `ConnOpen` reads `send_fd` once where client.c:1023 reads it again; wiped to
  -1 in between, the code would go on without registering.
* **FileSync**: `WriteFile` puts the version that arrived, where clipg.c:113 writes as many bytes
  as were listed, which differs for a file that was empty when listed; a file that cannot be
  opened or written, and the ptn file derived from a picture (clipg.c:117), are left out.
* **UartRx**: a frame with an empty body, for which comUart.c:212 reads bytes of an earlier
  one; no command or answer of the runs is empty.
* **Panel**: a power command that the board carries out after the wait for it has ended.
* **The periods of timers**: `PowerTask` lets a pass happen at any time.
* **Start-up**: the models begin when the `init` function of their component has run.

## 8 Plan

Done, in this order: thread pool, message queue, link, command stream, serial
protocol, power task; files and the loop list; pictures; switching and one-time
programming. What is left:

1. Proofs: the buffer of `PackSocket` (`BufferIsStream`) and the limits of `UartRx`
   (`CatchInBounds`), whose folds need an induction stated for sets, as `NatSet` of
   `LoopList_proofs` does for the lists.
2. `MsTimer`: period arithmetic with 32-bit wrap, deletion during a pass.
3. `ScanPort`: ring buffer, list, condition variable.
4. The link and the files together: a cut of `ClientLink` is a `LinkCut` of `FileSync`
   and a `Cut` of `PackSocket`; at present each of them has its own.
