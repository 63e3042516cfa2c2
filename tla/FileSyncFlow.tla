---------------------------- MODULE FileSyncFlow ----------------------------
(* What SkippedFilesAreThere and TransfersKnown of FileSync rest on.  Two     *)
(* transfers are alive at most, and the older one, whose listing may be out   *)
(* of date, stays ahead of the younger one, so that no file is written again  *)
(* by a transfer that knows less about it.                                    *)
EXTENDS FileSync

Cuts == MaxCuts - bound.cuts

Cur(a) == sets[a].files[sets[a].curNo + 1]

\* What is on the way, from the message that is being handled to the one the
\* server gets last.
Handled == IF job.at = "idle" THEN <<>>
           ELSE IF job.at = "wiped" THEN <<[kind |-> "COMPLETESYNC", files |-> sets[job.set].files]>>
           ELSE <<Request(job.set, Cur(job.set).name)>>

Flow == (Handled \o down) \o up

IsPart(m)    == m.kind \in {"file", "BEGIN", "BODY", "END"}
IsListing(m) == m.kind \in {"SYNCFILE", "COMPLETESYNC"}
OfSync(m)    == m.kind \in {"file", "END"} /\ sets[m.id].kind = "sync"

\* A message stands for a transfer that is alive, as its listing, as the request
\* for a file or the end of that file, or as the report of its end.
Stand(m) == [t     |-> IF OfSync(m) THEN "set" ELSE IF IsListing(m) THEN "list"
                       ELSE IF m.kind = "fin" THEN "fin" ELSE "none",
             id    |-> IF OfSync(m) THEN m.id ELSE Null,
             files |-> IF IsListing(m) THEN m.files ELSE <<>>]

Alive == [p \in 1..Len(Flow) |-> Stand(Flow[p])]

\* The files in the order of the server, in versions it has had.
Listed(files) ==
    /\ Len(files) = Len(Order)
    /\ \A k \in 1..Len(Order) : /\ files[k].name = Order[k] /\ files[k].ver \in Version
                                /\ files[k].ver <= srv[Order[k]]

SetsListed ==
    /\ \A a \in Addr : sets[a].kind = "sync" => Listed(sets[a].files)
    /\ \A p \in 1..Len(down) : IsListing(down[p]) => Listed(down[p].files)
    /\ \A f \in File : tbl[f] <= srv[f]
    /\ job.at # "idle" => sets[job.set].kind = "sync"
    /\ job.at = "wiped" => sets[job.set].curNo = 0
    /\ \A i, j \in 1..Len(known) : sets[known[i]].kind = "sync" /\ (known[i] = known[j] => i = j)

SetsNamed ==
    /\ \A p \in 1..Len(down) : IsPart(down[p]) => sets[down[p].id].kind # "free"
    /\ \A p \in 1..Len(up) : IsPart(up[p]) =>
          /\ sets[up[p].id].kind # "free"
          /\ sets[up[p].id].kind = "sync" => up[p].name = Cur(up[p].id).name
    /\ job.at = "wiped" =>
          /\ \A p \in 1..Len(down) : IsPart(down[p]) => down[p].id # job.set
          /\ \A p \in 1..Len(up) : IsPart(up[p]) => up[p].id # job.set

\* Which of two listings is the older one.
NotNewer(s, t) == \A k \in 1..Len(Order) : s[k].ver <= t[k].ver

Saved(a) == job.at = "saved" /\ job.set = a
Found(a) == find_file_from_local_db(Cur(a))

Older(a, b) ==
    /\ NotNewer(sets[a].files, sets[b].files)
    /\ sets[b].curNo <= sets[a].curNo
    /\ Saved(a) \/ ~Found(a)

\* x is ahead of y.  The file y waits for is not known yet, unless x has just
\* saved the same file: no other transfer steps over it.
InOrder(x, y) ==
    /\ sBusy /\ Cuts >= 1
    /\ x.t = "set" /\ y.t = "set" =>
         /\ x.id # y.id
         /\ Older(x.id, y.id) \/ (Older(y.id, x.id) /\ sets[x.id].curNo # sets[y.id].curNo)
    /\ x.t = "list" /\ y.t = "list" => NotNewer(x.files, y.files)
    /\ x.t = "set" /\ y.t = "list"  => NotNewer(sets[x.id].files, y.files)
    /\ x.t = "list" /\ y.t = "set"  => NotNewer(sets[y.id].files, x.files)
    /\ y.t = "set" => \/ ~Found(y.id)
                      \/ x.t = "set" /\ Saved(x.id) /\ sets[x.id].curNo = sets[y.id].curNo

\* No row is newer than what a transfer will put there.
RowsUpTo(i, files) == \A k \in 1..Len(Order) : k > i => tbl[Order[k]] <= files[k].ver

\* The transfer at a is on the list, with no more syncs after it than there were
\* cuts; one less when another sync may still come.
Pushed ==
    \/ ~sBusy
    \/ \E p \in 1..Len(down) : IsListing(down[p])
    \/ \E p \in 1..Len(up) : up[p].kind = "fin"

Kept(q, a, n) == \E i \in 1..Len(q) : q[i] = a /\ Len(q) - i + n <= Cuts

StillListed(a) == Cuts >= ListSize - 1 \/ Kept(known, a, IF Pushed THEN 1 ELSE 0)

Right(x) ==
    /\ ~sBusy => Cuts >= 1
    /\ x.t = "list" => RowsUpTo(0, x.files)
    /\ x.t = "set" => /\ sets[x.id].curNo < Len(Order)
                      /\ RowsUpTo(sets[x.id].curNo, sets[x.id].files)
                      /\ StillListed(x.id)

Stands(x) == x.t # "none"

\* The first n of T are alive as they should be, two of them at most.
Orderly(T, n) ==
    /\ \A p \in 1..n : Stands(T[p]) => Right(T[p])
    /\ \A p, q \in 1..n : p < q /\ Stands(T[p]) /\ Stands(T[q]) => InOrder(T[p], T[q])
    /\ \A p, q, r \in 1..n : p < q /\ q < r => ~(Stands(T[p]) /\ Stands(T[q]) /\ Stands(T[r]))

\* No file is found that is asked for while the server waits for no SYNCFIN.
Waiting == ~sBusy => \A p \in 1..Len(up) : OfSync(up[p]) => ~Found(up[p].id)

OlderAhead ==
    /\ Orderly(Alive, Len(Flow)) /\ Waiting
    /\ job.at = "wiped" => StillListed(job.set)

\* The parts of an answer stay together.
Part(t, m) == [kind |-> t, id |-> m.id, ver |-> m.ver]

Together(d) ==
    /\ \A e \in 1..Len(d) : d[e].kind = "END" =>
          \A p \in 1..e - 1 : /\ p >= e - SizeOf[d[e].ver] => d[p] = Part("BODY", d[e])
                              /\ p = e - SizeOf[d[e].ver] - 1 => d[p] = Part("BEGIN", d[e])
    /\ \A p \in 1..Len(d) : d[p].kind \in {"BEGIN", "BODY"} =>
          \E e \in 1..Len(d) : /\ p < e /\ d[e].kind = "END" /\ d[e].id = d[p].id
                               /\ d[e].ver = d[p].ver /\ p >= e - SizeOf[d[e].ver] - 1

PartsTogether == Together(down)

\* An answer is at least as new as the listing; of one that is as new, all has
\* come but n packages.
Fits(a, v)   == Cur(a).ver <= v /\ v <= srv[Cur(a).name]
Got(a, v, n) == sets[a].ver = v /\ (Cur(a).ver = v => sets[a].actRecvSize = SizeOf[v] - n)

AnswersFit ==
    /\ \A e \in 1..Len(down) : down[e].kind = "END" /\ OfSync(down[e]) =>
          /\ Fits(down[e].id, down[e].ver)
          /\ e <= SizeOf[down[e].ver] + 1 => Got(down[e].id, down[e].ver, e - 1)
    /\ job.at = "truncated" => \E v \in Version : Fits(job.set, v) /\ Got(job.set, v, 0)

\* The file is written, sync(1) has run, then comes the row: between them it
\* is the thread that knows what is on disk.
OnDisk ==
    /\ \A f \in dirty : job.at \in {"truncated", "written"} /\ f = Cur(job.set).name
    /\ job.at \in {"written", "synced"} /\ Cur(job.set).ver = srv[Cur(job.set).name] =>
          disk[Cur(job.set).name] = srv[Cur(job.set).name]
    /\ \A f \in File \ lost :
          tbl[f] = srv[f] /\ job.at # "wiped" /\ ~(job.at = "truncated" /\ f = Cur(job.set).name) =>
             disk[f] = srv[f]

\* What UPDATEFILE leaves behind needs an UPDATEFILE.
UpdatesCounted ==
    /\ \A a \in Addr : sets[a].kind = "update" => bound.updates < MaxUpdates
    /\ \A p \in 1..Len(down) : down[p].kind = "UPDATEFILE" => bound.updates < MaxUpdates
    /\ wild => bound.updates < MaxUpdates \/ Cuts >= ListSize - 1

\* The bounds are spent, never earned.
BoundTyped ==
    /\ bound \in [edits: Nat, cuts: 0..MaxCuts, restarts: Nat, updates: 0..MaxUpdates, wipes: Nat, events: Nat]

\* What every step keeps, given IInv.
FlowInv ==
    /\ BoundTyped /\ SetsListed /\ SetsNamed /\ OlderAhead
    /\ PartsTogether /\ AnswersFit /\ OnDisk /\ UpdatesCounted
=============================================================================
