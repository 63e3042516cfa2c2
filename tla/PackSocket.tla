----------------------------- MODULE PackSocket -----------------------------
(***************************************************************************)
(* packsocket/packsocket.c as server_start drives it: what recv returns    *)
(* goes into a ring buffer (recvSocketCmd), packages are cut out of it     *)
(* (parseSocketCmd), and the packages of one command are collected in a    *)
(* list until all lastNo+1 of them are there.  The buffer and the list     *)
(* belong to the client, not to the connection: they outlive a cut.        *)
(*                                                                         *)
(* A byte is a pair <<p, o>>: byte o of package p.  A package has HeadLen  *)
(* bytes of head, the first being the sync word and the last its length,   *)
(* then the payload, then CrcLen bytes.  Once a cut has put the reader out *)
(* of step, bytes are read for what they are not: a byte that is not a     *)
(* sync word may look like one, a length, a command or a CRC may be any.   *)
(* A byte may then be read differently each time it is looked at, which    *)
(* only adds behaviours.                                                   *)
(***************************************************************************)
EXTENDS Naturals, Sequences, FiniteSets, SequencesExt

CONSTANTS
    maxLen,         \* the size of the ring buffer, FIFO_MAX_LEN
    ChunkMax,       \* the most that one recv returns, FIFO_MAX_LEN / 2
    HeadLen, CrcLen,    \* sizeof(socket_cmd_head_info_t) and 4
    Messages,       \* the commands: [cmd |-> c, parts |-> payload lengths]
    Concurrency,    \* how many commands of several packages are sent at a time
    MaxCuts         \* bound on the connections that are cut

Ids == 1..Len(Messages)
Parts(m) == Messages[m].parts
MaxPackages == FoldLeft(LAMBDA a, m : a + Len(m.parts), 0, Messages)
Packages == 1..MaxPackages
SumLens(s) == FoldLeft(LAMBDA a, l : a + l, 0, s)
Longest == LET all == UNION {{Parts(m)[i] : i \in 1..Len(Parts(m))} : m \in Ids}
           IN  CHOOSE l \in all : \A k \in all : k <= l
\* Bound: the last numbers that a head out of step is taken to tell, so that
\* its package is a command of its own or waits for another.
StrayLastNo == {0, 1}

ASSUME PackSocketAssumption ==
    /\ {HeadLen, CrcLen, ChunkMax} \subseteq Nat \ {0}
    /\ HeadLen >= 2
    /\ HeadLen + Longest + CrcLen + ChunkMax <= maxLen + 1
    /\ \A m \in Ids : Parts(m) # <<>>

VARIABLES
    packages,      \* the packages sent: [cmd, lastNo, length]
    progress,      \* how many packages of each command are sent
    completed,     \* the commands sent completely, in that order
    wire,          \* bytes sent and not yet received
    cells, read, write, len,      \* the ring buffer, cmd_fifo
    list,          \* gstRecvSocketCmdList: the packages collected
    linked,        \* no node of it is reached through a freed one
    parsing,       \* server_start is in its parseSocketCmd loop
    refused,       \* a chunk did not fit and was thrown away
    delivered,     \* the commands handed to msgProc: [cmd, data]
    pending,       \* history: bytes sent, not lost by a cut, not yet parsed
    cuts,          \* connections cut so far
    torn,          \* history: what cuts have fallen within, "package", "command"
    unchecked      \* history: bytes of two packages were taken for one

sender == <<packages, progress, completed>>
fifo == <<cells, read, write, len>>
cut == <<cuts, torn>>
fed == <<delivered, unchecked>>
vars == <<sender, wire, fifo, list, linked, parsing, refused, fed, pending, cut>>

Byte == Packages \X (0..(HeadLen + Longest + CrcLen - 1))
NoByte == <<0, 0>>

-----------------------------------------------------------------------------
(***************************************************************************)
(* The server: it sends the packages of a command in order, other commands *)
(* in between, never two commands of one kind at once.                     *)
(***************************************************************************)
PackageLen(p) == HeadLen + packages[p].length + CrcLen

InProgress == {m \in Ids : progress[m] \in 1..(Len(Parts(m)) - 1)}

MayStart(m) ==
    /\ progress[m] = 0
    /\ Len(Parts(m)) > 1 => Cardinality(InProgress) < Concurrency
    /\ \A n \in InProgress : Messages[n].cmd # Messages[m].cmd
    /\ \A n \in 1..(m - 1) : progress[n] > 0

Send(m) ==
    LET p == Len(packages) + 1
        no == progress[m] + 1
        head == [cmd |-> Messages[m].cmd, lastNo |-> Len(Parts(m)) - 1,
                 length |-> Parts(m)[no]]
        size == HeadLen + head.length + CrcLen
    IN  /\ m \in InProgress \/ MayStart(m)
        /\ packages' = Append(packages, head)
        /\ progress' = [progress EXCEPT ![m] = no]
        /\ completed' = IF no = Len(Parts(m)) THEN Append(completed, m) ELSE completed
        /\ wire' = wire \o [i \in 1..size |-> <<p, i - 1>>]
        /\ pending' = pending \o [i \in 1..size |-> <<p, i - 1>>]
        /\ UNCHANGED <<fifo, list, linked, parsing, refused, fed, cut>>

-----------------------------------------------------------------------------
(***************************************************************************)
(* The ring buffer.  The cases that the code distinguishes, with one or    *)
(* two calls of memcpy, all access the n cells from i on, modulo maxLen.   *)
(***************************************************************************)
Wrap(i) == i % maxLen

Cell(i) == IF Wrap(i) \in DOMAIN cells THEN cells[Wrap(i)] ELSE NoByte

\* The n bytes from the read index on.
Peek(n) == [k \in 1..n |-> Cell(read + k - 1)]

\* write_cmd_fifo
Fits(n) == len + n <= maxLen

\* Mutated form: the part past the end of the buffer is not copied.
WriteFifoNoSplit(data) ==
    /\ cells' = [i \in 0..(maxLen - 1) |->
                    IF i \in write..(write + Len(data) - 1)
                    THEN data[i - write + 1] ELSE cells[i]]
    /\ write' = Wrap(write + Len(data))
    /\ len' = len + Len(data)
    /\ UNCHANGED read

WriteFifo(data) ==
    LET n == Len(data)
    IN  /\ cells' = [i \in 0..(maxLen - 1) |->
                        IF \E k \in 1..n : Wrap(write + k - 1) = i
                        THEN data[CHOOSE k \in 1..n : Wrap(write + k - 1) = i]
                        ELSE cells[i]]
        /\ write' = Wrap(write + n)
        /\ len' = len + n
        /\ UNCHANGED read

\* read_cmd_fifo
ReadFifo(n) ==
    /\ read' = Wrap(read + n)
    /\ len' = len - n
    /\ UNCHANGED <<cells, write>>

(***************************************************************************)
(* What parseSocketCmd sees in the bytes.                                  *)
(***************************************************************************)
\* Whether a byte can look like the sync word, and whether it must.
LooksSync(b) == IF b[1] # 0 /\ b[2] = 0 THEN {TRUE} ELSE BOOLEAN

\* The lengths a byte can mean: out of step it may be any byte.
ValidLen(b) == IF b[1] # 0 /\ b[2] = HeadLen - 1 THEN {packages[b[1]].length} ELSE 0..maxLen

\* read_cmd_try_read: the sizes the package at the read index may have, and
\* whether one of such a size is there.
Sizes == {HeadLen + l + CrcLen : l \in ValidLen(Cell(read + HeadLen - 1))}

TryRead(size) ==
    /\ len >= HeadLen + CrcLen
    /\ len >= size

\* These bytes are one package as it was sent.
Whole(bytes) ==
    LET p == bytes[1][1]
    IN  bytes = [i \in 1..PackageLen(p) |-> <<p, i - 1>>]

\* What a head may tell: its package's command and last number, or, of a
\* head that is out of step, any.
Told(bytes) ==
    LET p == bytes[1][1]
    IN  IF \A i \in 1..HeadLen : bytes[i] = <<p, i - 1>>
        THEN {[cmd |-> packages[p].cmd, lastNo |-> packages[p].lastNo]}
        ELSE [cmd : {Messages[m].cmd : m \in Ids}, lastNo : StrayLastNo]

\* Whether the CRC field can read 0: with a sync word in it it cannot.
ZeroCrc(bytes) ==
    IF \E i \in 0..(CrcLen - 1) : bytes[Len(bytes) - i][2] = 0 THEN {FALSE} ELSE BOOLEAN

\* Mutated form: the CRC is not compared.
CrcAny(bytes, zero) == TRUE

\* A CRC of 0 is not compared at all; any other is right when the bytes are
\* one whole package.
CrcOk(bytes, zero) == zero \/ Whole(bytes)

Payload(bytes) == SubSeq(bytes, HeadLen + 1, Len(bytes) - CrcLen)

(***************************************************************************)
(* The list of packages.                                                   *)
(***************************************************************************)
OfCmd(l, c) == SelectSeq(l, LAMBDA e : e.cmd = c)
OthersThan(l, c) == SelectSeq(l, LAMBDA e : e.cmd # c)

\* _checkRecvList2: as many packages of this command as the first one of
\* them says.
\* Mutated form: lastNo taken for the number of packages.
CompleteEarly(l, c) ==
    LET mine == OfCmd(l, c)
    IN  mine # <<>> /\ Len(mine) >= Head(mine).lastNo

Complete(l, c) ==
    LET mine == OfCmd(l, c)
    IN  mine # <<>> /\ Len(mine) >= Head(mine).lastNo + 1

\* The payloads of the command's packages, in the order of the list.
Assemble(l, c) == FlattenSeq([i \in 1..Len(OfCmd(l, c)) |-> OfCmd(l, c)[i].data])

\* _destoryRecvList2 moves the head past freed nodes and cuts the tail, but
\* does not unlink a freed node between two that stay.
UnlinksAll(l, c) ==
    \A i, j, k \in 1..Len(l) :
        i < j /\ j < k /\ l[i].cmd # c /\ l[k].cmd # c => l[j].cmd # c

FreeLinks(l, c) == linked /\ UnlinksAll(l, c)

-----------------------------------------------------------------------------

Init ==
    /\ packages = <<>>
    /\ progress = [m \in Ids |-> 0]
    /\ completed = <<>>
    /\ wire = <<>>
    /\ cells = [i \in 0..(maxLen - 1) |-> NoByte]
    /\ read = 0
    /\ write = 0
    /\ len = 0
    /\ list = <<>>
    /\ linked = TRUE
    /\ parsing = FALSE
    /\ refused = FALSE
    /\ delivered = <<>>
    /\ pending = <<>>
    /\ cuts = 0
    /\ torn = {}
    /\ unchecked = FALSE

\* recv returned n bytes; recvSocketCmd stores them, or drops them all.
Receive(n) ==
    /\ ~parsing
    /\ n <= Len(wire)
    /\ wire' = SubSeq(wire, n + 1, Len(wire))
    /\ parsing' = TRUE
    /\ IF Fits(n)
       THEN WriteFifo(SubSeq(wire, 1, n)) /\ UNCHANGED refused
       ELSE refused' = TRUE /\ UNCHANGED fifo
    /\ UNCHANGED <<sender, list, linked, fed, pending, cut>>

\* One round of the loop in parseSocketCmd; a complete command goes to
\* msgProc, and server_start calls parseSocketCmd again.
ParsePackage ==
    /\ parsing
    /\ linked
    /\ TRUE \in LooksSync(Cell(read))
    /\ \E size \in Sizes :
       /\ TryRead(size)
       /\ ReadFifo(size)
       /\ pending' = SubSeq(pending, size + 1, Len(pending))
       /\ \E head \in Told(Peek(size)), zero \in ZeroCrc(Peek(size)) :
          LET bytes == Peek(size)
              entry == [cmd |-> head.cmd, lastNo |-> head.lastNo, data |-> Payload(bytes)]
              l == IF CrcOk(bytes, zero) THEN Append(list, entry) ELSE list
          IN  /\ unchecked' = (unchecked \/ (zero /\ ~Whole(bytes)))
              /\ IF Complete(l, head.cmd)
                 THEN /\ delivered' = Append(delivered, [cmd |-> head.cmd,
                                                         data |-> Assemble(l, head.cmd)])
                      /\ list' = OthersThan(l, head.cmd)
                      /\ linked' = FreeLinks(l, head.cmd)
                 ELSE /\ list' = l
                      /\ UNCHANGED <<delivered, linked>>
    /\ UNCHANGED <<sender, wire, parsing, refused, cut>>

\* parseSocketCmd returns NULL: back to recv.
ParseDone ==
    /\ parsing
    /\ linked
    /\ FALSE \in LooksSync(Cell(read)) \/ \E size \in Sizes : ~TryRead(size)
    /\ parsing' = FALSE
    /\ UNCHANGED <<sender, wire, fifo, list, linked, refused, fed, pending, cut>>

\* The connection is cut; what was on its way is lost, and the server begins
\* its next command on a new connection.  Nothing is done about the buffer
\* and the list.
Cut ==
    /\ ~parsing
    /\ cuts < MaxCuts
    /\ cuts' = cuts + 1
    /\ wire' = <<>>
    /\ pending' = SubSeq(pending, 1, len)
    /\ torn' = torn \cup (IF len > 0 THEN {"package"} ELSE {})
                    \cup (IF list # <<>> THEN {"command"} ELSE {})
    /\ progress' = [m \in Ids |-> IF m \in InProgress THEN Len(Parts(m)) ELSE progress[m]]
    /\ completed' = SubSeq(completed, 1, Len(delivered))
    /\ UNCHANGED <<packages, fifo, list, linked, parsing, refused, fed>>

\* The end, or a list with a freed node in it, with which anything may happen.
Finished ==
    /\ \/ ~parsing /\ wire = <<>> /\ \A m \in Ids : progress[m] = Len(Parts(m))
       \/ ~linked
    /\ UNCHANGED vars

Next == \/ \E m \in Ids : Send(m)
        \/ \E n \in 1..ChunkMax : Receive(n)
        \/ ParsePackage
        \/ ParseDone
        \/ Cut
        \/ Finished

Spec == Init /\ [][Next]_vars

-----------------------------------------------------------------------------

TypeOK ==
    /\ Len(packages) <= MaxPackages
    /\ cells \in [0..(maxLen - 1) -> Byte \cup {NoByte}]
    /\ read \in 0..(maxLen - 1)
    /\ write \in 0..(maxLen - 1)
    /\ len \in 0..maxLen
    /\ linked \in BOOLEAN
    /\ parsing \in BOOLEAN
    /\ refused \in BOOLEAN
    /\ cuts \in 0..MaxCuts
    /\ torn \subseteq {"package", "command"}
    /\ unchecked \in BOOLEAN

(***************************************************************************)
(* The bytes between the read and the write index are, in order, those     *)
(* received and not yet parsed, whatever connections they came on: nothing *)
(* stored is overwritten, skipped or read twice, across every wrap of the  *)
(* buffer (write_cmd_fifo, read_cmd_fifo).  Between two calls of recv less *)
(* than one package is left in it, so a chunk always fits and nothing is   *)
(* thrown away ("buffer too small").  A cut within a package is the        *)
(* exception: the sync word is not found again and the buffer fills up.    *)
(***************************************************************************)
BufferIsStream ==
    /\ TypeOK
    /\ ~refused => Wrap(read + len) = write /\ Peek(len) \o wire = pending
    /\ torn = {} => ~refused /\ (~parsing => len < HeadLen + Longest + CrcLen)

(***************************************************************************)
(* However recv cuts the stream and the server mixes its commands, each    *)
(* command is handed to msgProc once, whole, in the order in which they    *)
(* were completed, and removing its packages leaves no node that is        *)
(* reached only through a freed one (_destoryRecvList2); a connection that *)
(* is cut between two commands takes away only what was on its way.        *)
(***************************************************************************)
Expected(m) ==
    [cmd |-> Messages[m].cmd, data |-> SumLens(Parts(m))]

CommandsIntact ==
    torn = {} =>
    /\ linked
    /\ Len(delivered) <= Len(completed)
    /\ \A i \in 1..Len(delivered) :
          Expected(completed[i]) = [cmd |-> delivered[i].cmd,
                                    data |-> Len(delivered[i].data)]
    /\ ~parsing /\ wire = <<>> => Len(delivered) = Len(completed)

(***************************************************************************)
(* Wherever a connection was cut, msgProc gets whole payloads of packages  *)
(* of the command, in the order in which they were sent: bytes of two      *)
(* packages are not taken for one, because a package that straddles the    *)
(* cut fails its CRC (parseSocketCmd).  The exception is the code's: what  *)
(* stands where the CRC should be reads 0, which is not compared; that     *)
(* takes a cut within a package.                                           *)
(***************************************************************************)
WholePackages ==
    IF unchecked THEN "package" \in torn
    ELSE \A i \in 1..Len(delivered) :
        LET from == {delivered[i].data[j][1] : j \in 1..Len(delivered[i].data)}
        IN  /\ \A p \in from : packages[p].cmd = delivered[i].cmd
            /\ delivered[i].data =
                 FlattenSeq([p \in 1..Len(packages) |->
                    IF p \in from
                    THEN [o \in 1..packages[p].length |-> <<p, HeadLen + o - 1>>] ELSE <<>>])
=============================================================================
