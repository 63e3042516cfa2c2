------------------------------ MODULE FileSync ------------------------------
(* How the files of a test module get from the server to the board.  The     *)
(* server lists names, sizes and times (SYNCFILE, COMPLETESYNC); the board   *)
(* asks, one file after the other, for those its table of local files does   *)
(* not know in that version, writes each one to disk, then its row, then     *)
(* asks for the next, and reports SYNCFIN.  A transfer is a                  *)
(* recv_file_info_set_t; the server answers with the pointer the request     *)
(* carried, and the board looks that pointer up in a ring list of ten slots. *)
(*                                                                           *)
(* One thread (server_start) handles the commands, so a handler is one step  *)
(* except where it writes to disk: a restart may come between any two of     *)
(* those writes.  Restarts lose the memory, cuts of the connection lose what *)
(* is on the way.  The server is external: it runs one sync at a time,       *)
(* because SYNCFIN does not name one, and may start over when one is stuck.  *)
EXTENDS LoopList, FiniteSets

CONSTANTS
    File,          \* the names of the files of a module
    Order,         \* the sequence in which the server lists them
    SizeOf,        \* SizeOf[v]: size, in BODY packages, of a file's version v
    Addr,          \* blocks malloc may return for a set
    ListSize,      \* slots of s_recv_file_list (10)
    LocalSize,     \* slots of the list of local files (MAX_FILES_NUM = 1000)
    MaxEdits, MaxCuts, MaxRestarts, MaxUpdates,   \* bounds on what disturbs
    MaxWipes,      \* bound on COMPLETESYNC
    MaxEvents      \* bound on all of these together

Version == DOMAIN SizeOf
Absent  == 0       \* no file, no row
Torn    == -1      \* a file truncated or written in part
Null    == 0

ASSUME FileSyncAssumption ==
    /\ Order \in Seq(File) /\ Order # <<>>
    /\ \A i, j \in DOMAIN Order : Order[i] = Order[j] => i = j
    /\ 1 \in Version /\ \A v \in Version : v \in Nat \ {0} /\ SizeOf[v] \in Nat
    /\ Null \notin Addr /\ ListSize \in Nat \ {0, 1} /\ LocalSize \in Nat \ {0, 1}
    /\ {MaxEdits, MaxCuts, MaxRestarts, MaxUpdates, MaxWipes, MaxEvents} \subseteq Nat

VARIABLES
    srv,      \* srv[f]: the server's version of f
    sBusy,    \* the server waits for SYNCFIN
    up, down, \* what is on the way to the server and to the board
    sets,     \* sets[a]: the recv_file_info_set_t at address a
    ring,     \* s_recv_file_list
    disk,     \* disk[f]: the version of f on disk
    dirty,    \* files written since the last sync(1)
    tbl,      \* FileInfoTable: tbl[f] is the version in the row of f
    list,     \* local_file_set.loop_conns: what the board compares with
    job,      \* where the thread is inside a handler
    bound,    \* how often the server edited, the link was cut, the board restarted, ...
    known,    \* history: s_recv_file_list as a bounded queue
    lost,     \* history: files damaged by a restart although their row is right
    wild      \* history: a lookup failed and its NULL was used

vars == <<srv, sBusy, up, down, sets, ring, disk, dirty, tbl, list, job, bound, known, lost, wild>>
server == <<srv, sBusy>>
store  == <<disk, dirty, tbl, list>>
ghosts == <<lost, wild>>

\* What a slot of the list of local files holds before its first use.
NoRecord == [name |-> Null, ver |-> Absent]

NoSet == [kind |-> "free", files |-> <<>>, curNo |-> 0, actRecvSize |-> 0, ver |-> Absent]
Idle  == [at |-> "idle", set |-> Null]

Listing == [i \in DOMAIN Order |-> [name |-> Order[i], ver |-> srv[Order[i]]]]
\* malloc returns the block that was freed last, or is the first unused one.
Free == {a \in Addr : sets[a] = NoSet /\ \A b \in Addr : b < a => sets[b] # NoSet}
Left(what)  == bound[what] > 0 /\ bound.events > 0
Spend(what) == Left(what) /\ bound' = [bound EXCEPT ![what] = @ - 1, !.events = @ - 1]

TypeOK ==
    /\ srv \in [File -> Version] /\ sBusy \in BOOLEAN
    /\ disk \in [File -> Version \cup {Absent, Torn}] /\ dirty \subseteq File
    /\ tbl \in [File -> Version \cup {Absent}]
    /\ ring.head \in 0..ListSize - 1 /\ ring.tail \in 0..ListSize - 1
    /\ \A i \in DOMAIN ring.items : ring.items[i] \in Addr \cup {Null}
    /\ list.head \in 0..LocalSize - 1 /\ list.tail \in 0..LocalSize - 1
    /\ job.at \in {"idle", "wiped", "truncated", "written", "synced", "saved"}
    /\ lost \subseteq File /\ wild \in BOOLEAN

Init ==
    /\ srv = [f \in File |-> 1] /\ sBusy = FALSE
    /\ up = <<>> /\ down = <<>>
    /\ sets = [a \in Addr |-> NoSet]
    /\ ring = loop_create(ListSize, Null)
    /\ disk = [f \in File |-> Absent] /\ dirty = {}
    /\ tbl = [f \in File |-> Absent]
    /\ list = loop_create(LocalSize, NoRecord)
    /\ job = Idle
    /\ bound = [edits |-> MaxEdits, cuts |-> MaxCuts, restarts |-> MaxRestarts,
                updates |-> MaxUpdates, wipes |-> MaxWipes, events |-> MaxEvents]
    /\ known = <<>> /\ lost = {} /\ wild = FALSE
-----------------------------------------------------------------------------
(* The table of local files (pgLocalDB.c): the rows in the database and the  *)
(* records in memory.                                                        *)

localDBGetRec(f) == loop_search(list, {r \in Held(list) : r.name = f})

\* The record of f, found in memory, is the one in the listing.
find_file_from_local_db(want) ==
    LET k == localDBGetRec(want.name) IN k # 0 /\ Items(list)[k].ver = want.ver

\* client_pg_syncFile's last write: with a record in memory both are updated;
\* without one localDBAdd updates an existing row and leaves memory alone, or
\* inserts row and record.
SaveRow(f, v) ==
    LET k == localDBGetRec(f)
    IN  /\ tbl' = [tbl EXCEPT ![f] = v]
        /\ list' = IF k # 0 THEN loop_replace(list, k, [name |-> f, ver |-> v])
                   ELSE IF tbl[f] # Absent THEN list
                   ELSE loop_push_to_tail(list, [name |-> f, ver |-> v])

\* Mutated form: the rows are deleted and the records are kept
DeleteRowsOnly == tbl' = [f \in File |-> Absent] /\ UNCHANGED list

localDBDelAll ==
    /\ tbl' = [f \in File |-> Absent]
    /\ list' = loop_clear(list)

\* localDBInit: a record for every row, in the order of the rows.
localDBInit(rows) ==
    LET load[k \in 0..Len(Order)] ==
            IF k = 0 THEN loop_create(LocalSize, NoRecord)
            ELSE IF rows[Order[k]] = Absent THEN load[k - 1]
            ELSE loop_push_to_tail(load[k - 1], [name |-> Order[k], ver |-> rows[Order[k]]])
    IN  load[Len(Order)]
-----------------------------------------------------------------------------
(* The list of transfers (client.c).  known follows it as a queue that drops *)
(* its oldest element when it is full.                                       *)

recv_file_list_get(a) == loop_search(ring, {a}) # 0

Remembered(q, a) == IF Len(q) = ListSize - 1 THEN Append(Tail(q), a) ELSE Append(q, a)
Forgotten(q, a)  ==
    IF \E i \in DOMAIN q : q[i] = a
    THEN [j \in 1..Len(q) - 1 |-> IF \E i \in 1..j : q[i] = a THEN q[j + 1] ELSE q[j]]
    ELSE q

recv_file_list_insert(l, a) == loop_push_to_tail(l, a)
recv_file_list_del(l, a)    == loop_remove(l, a)

get_cur_file_info(set) == IF set.curNo < Len(set.files) THEN {set.files[set.curNo + 1]} ELSE {}

\* Mutated form: the search for the next file steps over the current one
SkipsOne(set) ==
    LET missing == {i \in set.curNo + 1..Len(set.files) - 1 : ~find_file_from_local_db(set.files[i + 1])}
    IN  IF missing = {} THEN Len(set.files) ELSE CHOOSE i \in missing : \A j \in missing : i <= j

\* The index of the first listed file from curNo on that must be fetched.
NextMissing(set) ==
    LET missing == {i \in set.curNo..Len(set.files) - 1 : ~find_file_from_local_db(set.files[i + 1])}
    IN  IF missing = {} THEN Len(set.files) ELSE CHOOSE i \in missing : \A j \in missing : i <= j

Request(a, f) == [kind |-> "file", id |-> a, name |-> f]

\* client_getFileFromSet for set s at a, in list l and queue q: the next file
\* is asked for, or the set is dropped, freed and the end reported.
ContinueWith(a, s, l, q) ==
    LET i == NextMissing(s)
    IN  IF i < Len(s.files)
        THEN /\ sets' = [sets EXCEPT ![a] = [s EXCEPT !.curNo = i]]
             /\ up' = Append(up, Request(a, s.files[i + 1].name))
             /\ ring' = l /\ known' = q
        ELSE /\ sets' = [sets EXCEPT ![a] = NoSet]
             /\ up' = Append(up, [kind |-> "fin"])
             /\ ring' = recv_file_list_del(l, a) /\ known' = Forgotten(q, a)
-----------------------------------------------------------------------------
(* The server (external) and the link. *)

ServerEdits(f) ==
    /\ Spend("edits")
    /\ \E v \in Version : v > srv[f] /\ srv' = [srv EXCEPT ![f] = v]
    /\ UNCHANGED <<sBusy, up, down, sets, ring, store, job, known, ghosts>>

Sync(kind) ==
    /\ ~sBusy /\ sBusy' = TRUE
    /\ down' = Append(down, [kind |-> kind, files |-> Listing])
    /\ UNCHANGED <<srv, up, sets, ring, store, job, known, ghosts>>

ServerSyncs == Sync("SYNCFILE") /\ UNCHANGED bound

ServerSyncsAll == Sync("COMPLETESYNC") /\ Spend("wipes")

ServerUpdates(f) ==
    /\ Spend("updates")
    /\ down' = Append(down, [kind |-> "UPDATEFILE", name |-> f])
    /\ UNCHANGED <<server, up, sets, ring, store, job, known, ghosts>>

ServerAnswers ==
    /\ up # <<>> /\ up' = Tail(up)
    /\ IF Head(up).kind = "fin"
       THEN sBusy' = FALSE /\ UNCHANGED down
       ELSE LET part(t) == [kind |-> t, id |-> Head(up).id, ver |-> srv[Head(up).name]]
                size == SizeOf[srv[Head(up).name]]
            IN  /\ down' = down \o <<part("BEGIN")>> \o [i \in 1..size |-> part("BODY")] \o <<part("END")>>
                /\ UNCHANGED sBusy
    /\ UNCHANGED <<srv, sets, ring, store, job, bound, known, ghosts>>

\* Nothing moves any more and SYNCFIN has not come: the operator starts over.
ServerGivesUp ==
    /\ sBusy /\ up = <<>> /\ down = <<>> /\ job = Idle
    /\ sBusy' = FALSE
    /\ UNCHANGED <<srv, up, down, sets, ring, store, job, bound, known, ghosts>>

LinkCut ==
    /\ Spend("cuts")
    /\ up' = <<>> /\ down' = <<>> /\ sBusy' = FALSE
    /\ UNCHANGED <<srv, sets, ring, store, job, known, ghosts>>
-----------------------------------------------------------------------------
(* The handlers of clirecvcmd5srv.c. *)

Receive(kind) ==
    /\ job = Idle /\ down # <<>> /\ Head(down).kind = kind
    /\ down' = Tail(down)

NewSet(kind, files) == [NoSet EXCEPT !.kind = kind, !.files = files]

RecvSyncFile(a) ==
    /\ Receive("SYNCFILE") /\ a \in Free
    /\ ContinueWith(a, NewSet("sync", Head(down).files), recv_file_list_insert(ring, a), Remembered(known, a))
    /\ UNCHANGED <<server, store, job, bound, ghosts>>

\* Mutated form: COMPLETESYNC forgets to list its set, as UPDATEFILE does
CompleteSyncUnlisted(a) ==
    /\ Receive("COMPLETESYNC") /\ a \in Free
    /\ sets' = [sets EXCEPT ![a] = NewSet("sync", Head(down).files)]
    /\ disk' = [f \in File |-> Absent] /\ dirty' = {}
    /\ job' = [at |-> "wiped", set |-> a]
    /\ UNCHANGED <<server, up, tbl, list, ring, known, bound, ghosts>>

\* The set is listed and rm -rf ./cfg/* has run; the rows are still there.
RecvCompleteSync(a) ==
    /\ Receive("COMPLETESYNC") /\ a \in Free
    /\ sets' = [sets EXCEPT ![a] = NewSet("sync", Head(down).files)]
    /\ ring' = recv_file_list_insert(ring, a) /\ known' = Remembered(known, a)
    /\ disk' = [f \in File |-> Absent] /\ dirty' = {}
    /\ job' = [at |-> "wiped", set |-> a]
    /\ UNCHANGED <<server, up, tbl, list, bound, ghosts>>

\* client_getFileFromSet after localDBDelAll: nothing is known, so the first
\* file of the listing is asked for.
RecvCompleteSyncEnd ==
    /\ job.at = "wiped"
    /\ localDBDelAll
    /\ up' = Append(up, Request(job.set, sets[job.set].files[1].name))
    /\ job' = Idle
    /\ UNCHANGED <<server, down, sets, ring, disk, dirty, bound, known, ghosts>>

\* The set of a single file, of size 0, that is never put on the list.
RecvUpdateFile(a) ==
    /\ Receive("UPDATEFILE") /\ a \in Free
    /\ sets' = [sets EXCEPT ![a] = NewSet("update", <<[name |-> Head(down).name, ver |-> Absent]>>)]
    /\ up' = Append(up, Request(a, Head(down).name))
    /\ UNCHANGED <<server, ring, store, job, bound, known, ghosts>>

\* A part of a file, for the transfer whose pointer it carries.
RecvFile(kind) ==
    /\ Receive(kind) /\ recv_file_list_get(Head(down).id)
    /\ UNCHANGED <<server, ring, bound, known, ghosts>>

rfiSize(rec) == IF rec.ver = Absent THEN 0 ELSE SizeOf[rec.ver]

RecvFileBegin ==
    /\ RecvFile("BEGIN")
    /\ sets' = [sets EXCEPT ![Head(down).id] = [@ EXCEPT !.actRecvSize = 0, !.ver = Head(down).ver]]
    /\ UNCHANGED <<up, store, job>>

\* A package that does not fit the listed size is dropped.
RecvFileBody ==
    /\ RecvFile("BODY")
    /\ LET a == Head(down).id
       IN  \E rec \in get_cur_file_info(sets[a]) :
             sets' = IF sets[a].actRecvSize + 1 <= rfiSize(rec) \/ rfiSize(rec) = 0
                     THEN [sets EXCEPT ![a] = [sets[a] EXCEPT !.actRecvSize = @ + 1]] ELSE sets
    /\ UNCHANGED <<up, store, job>>

\* The end of a file of another size than listed is only logged.  Otherwise
\* client_pg_syncFile opens the file with O_TRUNC.
RecvFileEnd ==
    /\ RecvFile("END")
    /\ LET a == Head(down).id
       IN  \E rec \in get_cur_file_info(sets[a]) :
             IF rfiSize(rec) = sets[a].actRecvSize \/ rfiSize(rec) = 0
             THEN /\ disk' = [disk EXCEPT ![rec.name] = Torn]
                  /\ dirty' = dirty \cup {rec.name}
                  /\ job' = [at |-> "truncated", set |-> a]
             ELSE UNCHANGED <<disk, dirty, job>>
    /\ UNCHANGED <<up, sets, tbl, list>>

CurFile == CHOOSE rec \in get_cur_file_info(sets[job.set]) : TRUE

Stage(from, to) == job.at = from /\ job' = [job EXCEPT !.at = to]

\* What was received: whole only if it is all the packages of its version.
WriteFile ==
    /\ Stage("truncated", "written")
    /\ LET s == sets[job.set]
       IN  disk' = [disk EXCEPT ![CurFile.name] = IF s.actRecvSize = SizeOf[s.ver] THEN s.ver ELSE Torn]
    /\ UNCHANGED <<server, up, down, sets, ring, dirty, tbl, list, bound, known, ghosts>>

SyncDisk ==
    /\ Stage("written", "synced") /\ dirty' = {}
    /\ UNCHANGED <<server, up, down, sets, ring, disk, tbl, list, bound, known, ghosts>>

\* Mutated form: the row is saved without sync(1) before it
SaveUnsynced ==
    /\ Stage("written", "saved") /\ SaveRow(CurFile.name, CurFile.ver)
    /\ UNCHANGED <<server, up, down, sets, ring, disk, dirty, bound, known, ghosts>>

SaveLocalFile ==
    /\ Stage("synced", "saved") /\ SaveRow(CurFile.name, CurFile.ver)
    /\ UNCHANGED <<server, up, down, sets, ring, disk, dirty, bound, known, ghosts>>

\* The index moves on, the next file is asked for, the data are freed.
NextFile ==
    /\ job.at = "saved" /\ job' = Idle
    /\ LET s == [sets[job.set] EXCEPT !.curNo = @ + 1]
       IN  ContinueWith(job.set, s, ring, known)
    /\ UNCHANGED <<server, down, store, bound, ghosts>>
-----------------------------------------------------------------------------
(* The end of the process, and its start: what is in memory is lost, the     *)
(* list of local files is loaded from the table.  Files written since the    *)
(* last sync(1) may or may not have reached the disk.                        *)

Reboot ==
    /\ up' = <<>> /\ down' = <<>> /\ sBusy' = FALSE
    /\ sets' = [a \in Addr |-> NoSet]
    /\ ring' = loop_create(ListSize, Null) /\ known' = <<>>
    /\ \E survived \in SUBSET dirty :
          disk' = [f \in File |-> IF f \in dirty \ survived THEN Torn ELSE disk[f]]
    /\ dirty' = {} /\ list' = localDBInit(tbl) /\ job' = Idle
    /\ UNCHANGED <<srv, tbl>>

\* The two windows in which a restart leaves a row without its file: inside
\* COMPLETESYNC, and while a second transfer writes a file anew.
Window ==
    CASE job.at = "wiped" -> {f \in File : tbl[f] # Absent}
      [] job.at \in {"truncated", "written"} -> {CurFile.name} \cap {f \in File : tbl[f] >= CurFile.ver}
      [] OTHER -> {}

Restart ==
    /\ Spend("restarts")
    /\ Reboot /\ lost' = lost \cup Window
    /\ UNCHANGED wild

\* The pointer is not on the list: get_cur_file_info is called on NULL.
WildTransfer ==
    /\ job = Idle /\ down # <<>> /\ Head(down).kind \in {"BEGIN", "BODY", "END"}
    /\ ~recv_file_list_get(Head(down).id)
    /\ wild' = TRUE /\ Reboot
    /\ UNCHANGED <<bound, lost>>
-----------------------------------------------------------------------------
Handlers ==
    \/ \E a \in Addr : RecvSyncFile(a) \/ RecvCompleteSync(a) \/ RecvUpdateFile(a)
    \/ RecvCompleteSyncEnd
    \/ RecvFileBegin \/ RecvFileBody \/ RecvFileEnd
    \/ WriteFile \/ SyncDisk \/ SaveLocalFile \/ NextFile
    \/ WildTransfer

Next ==
    \/ Handlers
    \/ \E f \in File : ServerEdits(f) \/ ServerUpdates(f)
    \/ ServerSyncs \/ ServerSyncsAll \/ ServerAnswers \/ ServerGivesUp
    \/ LinkCut \/ Restart

Spec == Init /\ [][Next]_vars

\* The thread goes on with what has arrived; the server answers, and syncs
\* again and again.
FairSpec ==
    /\ Spec
    /\ WF_vars(Handlers) /\ WF_vars(ServerAnswers) /\ WF_vars(ServerSyncs) /\ WF_vars(ServerGivesUp)
-----------------------------------------------------------------------------
(* clipg.c:110: the file, sync(1), then the row.  A file the board would not *)
(* ask for, because its row has the server's version, is on disk as that     *)
(* version, whatever was cut or restarted before; only a restart in one of   *)
(* the two windows can leave it otherwise.                                   *)
SkippedFilesAreThere ==
    \A f \in File \ lost :
        tbl[f] = srv[f] /\ job.at \notin {"wiped", "truncated"} => disk[f] = srv[f]

(* pgLocalDB.c: the records in memory, by which files are skipped, are rows  *)
(* of the table, one per file, through updates, evictions and reloads.       *)
RecordsAreRows ==
    /\ \A k \in DOMAIN Items(list) : Items(list)[k].ver = tbl[Items(list)[k].name]
    /\ \A k, m \in DOMAIN Items(list) : Items(list)[k].name = Items(list)[m].name => k = m

(* clirecvcmd5srv.c:1273: whatever asks or answers for a file of a sync      *)
(* names a set that is still on the list, not one that is over or was        *)
(* pushed out, or whose address now holds another set, and no NULL set is    *)
(* used (line 1274).  There are two exceptions.  UPDATEFILE never puts its   *)
(* set on the list.  And a transfer that goes on over as many cuts as the    *)
(* list has places, each of which comes while the board writes and lets the  *)
(* server start a further sync, is pushed out by the syncs that came after.  *)
TransfersKnown ==
    LET named == {up[i] : i \in {j \in DOMAIN up : up[j].kind = "file"}}
                 \cup {down[i] : i \in {j \in DOMAIN down : down[j].kind \in {"BEGIN", "BODY", "END"}}}
        overrun == MaxCuts - bound.cuts >= ListSize - 1
    IN  /\ \A m \in named : \/ sets[m.id].kind = "update" \/ overrun
                            \/ sets[m.id].kind = "sync" /\ recv_file_list_get(m.id)
        /\ wild => bound.updates < MaxUpdates \/ overrun

(* loop.c: through every push, search and removal the ring is a queue that   *)
(* drops its oldest element when full, and its indices stay within it.       *)
RingIsQueue == TypeOK /\ Items(ring) = known

-----------------------------------------------------------------------------
(* The inductive invariant: the types, and what TypeOK, RingIsQueue and      *)
(* RecordsAreRows rest on.                                                   *)
FileRec  == [name: File, ver: Version \cup {Absent}]
SetState == [kind: {"free", "sync", "update"}, files: Seq(FileRec),
             curNo: Nat, actRecvSize: Nat, ver: Version \cup {Absent}]
ToServer == [kind: {"file"}, id: Addr, name: File] \cup [kind: {"fin"}]
ToBoard  == [kind: {"SYNCFILE", "COMPLETESYNC"}, files: Seq(FileRec) \ {<<>>}]
            \cup [kind: {"UPDATEFILE"}, name: File]
            \cup [kind: {"BEGIN", "BODY", "END"}, id: Addr, ver: Version]

LinkTyped ==
    /\ srv \in [File -> Version] /\ sBusy \in BOOLEAN
    /\ up \in Seq(ToServer) /\ down \in Seq(ToBoard)

StoreTyped ==
    /\ disk \in [File -> Version \cup {Absent, Torn}] /\ dirty \subseteq File
    /\ tbl \in [File -> Version \cup {Absent}]
    /\ lost \subseteq File /\ wild \in BOOLEAN

\* Between the end of a file and the request for the next one the set has a
\* current file.
JobHasFile ==
    /\ sets \in [Addr -> SetState]
    /\ job \in [at: {"idle", "wiped", "truncated", "written", "synced", "saved"}, set: Addr \cup {Null}]
    /\ job.at # "idle" =>
         /\ job.set \in Addr
         /\ sets[job.set].curNo < Len(sets[job.set].files)

RingFollows ==
    /\ ring \in Ring(ListSize, Addr \cup {Null})
    /\ known \in Seq(Addr) /\ Items(ring) = known

RowsHeld ==
    /\ list \in Ring(LocalSize, FileRec \cup {NoRecord})
    /\ Items(list) \in Seq(FileRec) /\ RecordsAreRows

IInv == LinkTyped /\ StoreTyped /\ JobHasFile /\ RingFollows /\ RowsHeld
-----------------------------------------------------------------------------
(* client_getFileFromSet, clipg.c:143: again and again the board has the     *)
(* server's files, whatever edits, cuts and restarts fell into a sync.       *)
MirrorsAgain == []<>(\A f \in File \ lost : disk[f] = srv[f])
=============================================================================
