------------------------------- MODULE UartRx -------------------------------
(***************************************************************************)
(* The serial protocol of hw/common/source/comUart.c: a command goes to a  *)
(* board, whose answer is a frame                                          *)
(*                                                                         *)
(*     55 AA  length  7E 7E  payload and CRC, escaped  7E 7E               *)
(*                                                                         *)
(* that read() delivers in pieces.  uartRevDataProcess runs a byte         *)
(* automaton over each piece, dataunpack takes the frame apart, and what   *)
(* came after the frame waits in uartbuff for the next uartReadData.       *)
(*                                                                         *)
(* The CRC is one byte here, on the line it is four (CRC-32).  The caller  *)
(* holds the lock of the port from the command to the answer, so each call *)
(* of uartReadData is one step.                                            *)
(***************************************************************************)
EXTENDS Naturals, Sequences, SequencesExt, FiniteSets

CONSTANTS
    UART_BUF_SIZE,   \* the size of uartcatch
    Answers,         \* the payload with which the board answers command i
    Noise,           \* byte sequences the line may add between frames
    MaxNoise,        \*   how often
    MaxFaults,       \* how many bytes the line loses or corrupts
    Timeouts,        \* uartWaitRecvData may run out of time
    Late,            \* the board may answer when the next command is out
    Events,          \* how many frames the board sends without being asked
    MaxDisturbances  \* a bound on noise, faults and such frames together

Commands == 1..Len(Answers)
START == 85       \* 0x55
START2 == 170     \* 0xAA
FLAG == 126       \* 0x7E
ESC == 125        \* 0x7D
ESC_ESC == 93     \* 0x5D
ESC_FLAG == 94    \* 0x5E

ASSUME UartRxAssumption ==
    /\ UART_BUF_SIZE \in Nat \ {0}
    /\ Timeouts \in BOOLEAN
    /\ Late \in BOOLEAN
    /\ Answers # <<>>

VARIABLES
    line,        \* bytes the board has sent and nobody has read
    uartstate, uartcatch, uartbytecnt, uartdo,   \* T_UART_BUF
    uartbuff,    \*   the bytes left over, uartleftdatalen of them
    overrun,     \* jcrc32_le has been given a negative length: the program is lost
    cmd,         \* the last command sent
    waiting,     \* uartWaitRecvData is running
    due,         \* commands the board has not answered
    sent,        \* payloads the board has sent
    flushed,     \* how many of them had come before the line was last emptied
    answers,     \* [data, after]: what uartWaitRecvData returned, flushed then
    faults, events,   \* bytes lost or changed, frames nobody asked for
    noises       \* what the line has added

uart == <<uartstate, uartcatch, uartbytecnt, uartdo, uartbuff, overrun>>
vars == <<line, uart, cmd, waiting, due, sent, flushed, answers, faults, noises, events>>

-----------------------------------------------------------------------------
(***************************************************************************)
(* datapack                                                                *)
(***************************************************************************)
\* What op makes of acc and the bytes of s, one after the other.
OverBytes(op(_, _), acc, s) ==
    LET after[i \in 0..Len(s)] == IF i = 0 THEN acc ELSE op(after[i - 1], s[i])
    IN  after[Len(s)]

Crc(s) == OverBytes(LAMBDA a, b : (31 * a + b) % 251, 250, s)

Escape(b) == IF b = FLAG THEN <<ESC, ESC_FLAG>>
             ELSE IF b = ESC THEN <<ESC, ESC_ESC>> ELSE <<b>>

datapack(data) ==
    LET body == OverBytes(LAMBDA a, b : a \o Escape(b), <<>>, Append(data, Crc(data)))
        n == Len(body) + 4
    IN  <<START, START2, n % 256, n \div 256, FLAG, FLAG>> \o body \o <<FLAG, FLAG>>

(***************************************************************************)
(* dataunpack: the bytes of the frame before its CRC is looked at, or an   *)
(* error.  A length field that goes past the frame meets the flags at    *)
(* its end before position n - 2, which is an error.  The payload is the   *)
(* data without the CRC; <<>> stands for the error codes.  A length field  *)
(* that leaves less than a CRC makes jcrc32_le run on a negative length:   *)
(* Overruns.                                                               *)
(***************************************************************************)
UnpackByte(acc, b) ==
    IF acc.state = "error" THEN acc
    ELSE LET i == acc.i + 1
         IN  CASE acc.state = "outside" /\ b = FLAG -> [acc EXCEPT !.i = i]
               [] acc.state # "escape" /\ b = ESC ->
                     [acc EXCEPT !.i = i, !.state = "escape"]
               [] acc.state = "inside" /\ b = FLAG ->
                     [acc EXCEPT !.i = i,
                                 !.state = IF i = acc.n - 1 THEN "outside" ELSE "error"]
               [] acc.state = "escape" /\ b \notin {ESC_ESC, ESC_FLAG} ->
                     [acc EXCEPT !.state = "error"]
               [] OTHER ->
                     [acc EXCEPT !.i = i, !.state = "inside",
                                 !.data = Append(@, IF acc.state # "escape" THEN b
                                                    ELSE IF b = ESC_FLAG THEN FLAG ELSE ESC)]

\* Mutated form: the CRC is not compared.
CrcIgnored(data) == TRUE

CrcMatches(data) == Last(data) = Crc(Front(data))

Unpacked(frame) ==
    LET n == frame[3] + 256 * frame[4]
    IN  OverBytes(UnpackByte,
                  [state |-> IF n + 4 > Len(frame) THEN "error" ELSE "outside",
                   i |-> 0, n |-> n, data |-> <<>>],
                  SubSeq(frame, 5, IF n + 4 > Len(frame) THEN 4 ELSE n + 4))

Overruns(frame) == LET acc == Unpacked(frame) IN acc.state # "error" /\ acc.data = <<>>

dataunpack(frame) ==
    LET acc == Unpacked(frame)
    IN  IF acc.state # "error" /\ acc.data # <<>> /\ CrcMatches(acc.data)
        THEN Front(acc.data) ELSE <<>>

(***************************************************************************)
(* uartRevDataProcess: one byte in the receiver u.  A byte that does not   *)
(* continue the frame is looked at again in UART_IDLE (uartbytecnt, which  *)
(* the code leaves as it is there, is set again before its next use).      *)
(***************************************************************************)
Idle == [state |-> "IDLE", catch |-> <<>>, cnt |-> 0, done |-> FALSE, rest |-> <<>>]

InIdle(b) == IF b = START
             THEN [Idle EXCEPT !.state = "BEGIN", !.catch = <<b>>] ELSE Idle

\* Mutated form: the byte is dropped with the bytes before it.
NotAgain(b) == Idle

Again(b) == InIdle(b)

\* Mutated form: one byte more than uartcatch holds.
FullLate(u) == Len(u.catch) > UART_BUF_SIZE

Full(u) == Len(u.catch) >= UART_BUF_SIZE

Automaton(u, b) ==
    LET taken == [u EXCEPT !.catch = Append(@, b)]
    IN  CASE u.state = "IDLE" -> InIdle(b)
          [] u.state = "BEGIN" ->
                IF b = START2 THEN [taken EXCEPT !.state = "LENGTH", !.cnt = 0] ELSE Again(b)
          [] u.state = "LENGTH" ->
                IF u.cnt = 1 THEN [taken EXCEPT !.state = "HEAD", !.cnt = 0]
                             ELSE [taken EXCEPT !.cnt = 1]
          [] u.state = "HEAD" ->
                IF b # FLAG THEN Again(b)
                ELSE IF u.cnt = 1 THEN [taken EXCEPT !.state = "DATA", !.cnt = 0]
                ELSE [taken EXCEPT !.cnt = 1]
          [] u.state = "DATA" ->
                IF b = FLAG THEN [taken EXCEPT !.state = "END"] ELSE taken
          [] u.state = "END" ->
                IF b = FLAG THEN [taken EXCEPT !.state = "BUSY", !.done = TRUE] ELSE Again(b)
          [] u.state = "BUSY" -> u

Take(u, b) == Automaton(IF Full(u) THEN Idle ELSE u, b)

\* Once a frame is complete the bytes after it are kept in rest.  The first
\* byte of a call is taken also when uartdo is set already: UART_RECV_BUSY.
uartRevDataProcess(u, bytes) ==
    OverBytes(LAMBDA v, b : IF v.done THEN [v EXCEPT !.rest = Append(@, b)] ELSE Take(v, b),
              Take([u EXCEPT !.rest = <<>>], Head(bytes)), Tail(bytes))

\* The receiver once the frame has been taken apart.
Cleaned(u) == [Idle EXCEPT !.rest = u.rest]

Receiver == [state |-> uartstate, catch |-> uartcatch, cnt |-> uartbytecnt,
             done |-> uartdo, rest |-> uartbuff]

SetReceiver(u) ==
    /\ uartstate' = u.state
    /\ uartcatch' = u.catch
    /\ uartbytecnt' = u.cnt
    /\ uartdo' = u.done
    /\ uartbuff' = u.rest

-----------------------------------------------------------------------------

Init ==
    /\ line = <<>>
    /\ uartstate = "IDLE"
    /\ uartcatch = <<>>
    /\ uartbytecnt = 0
    /\ uartdo = FALSE
    /\ uartbuff = <<>>
    /\ overrun = FALSE
    /\ cmd = 0
    /\ waiting = FALSE
    /\ due = {}
    /\ sent = <<>>
    /\ flushed = 0
    /\ answers = <<>>
    /\ faults = 0
    /\ noises = {}
    /\ events = 0

(***************************************************************************)
(* uartSendMsgToBoard: uartClearData throws away what can be read and the  *)
(* frame begun, if there is anything to read, but not uartbuff; then the   *)
(* command is written.                                                     *)
(***************************************************************************)
EmptiesLine == uartbuff = <<>> /\ Len(line) <= UART_BUF_SIZE

\* Mutated form: old bytes are left on the line.
NoClear == /\ flushed' = IF EmptiesLine THEN Len(sent) ELSE flushed
           /\ UNCHANGED <<line, uart>>

uartClearData ==
    /\ flushed' = IF EmptiesLine THEN Len(sent) ELSE flushed
    /\ IF line = <<>>
       THEN UNCHANGED <<line, uart>>
       ELSE /\ line' = SubSeq(line, UART_BUF_SIZE + 1, Len(line))
            /\ SetReceiver([Idle EXCEPT !.rest = uartbuff])
            /\ UNCHANGED overrun

SendCommand ==
    /\ ~waiting
    /\ ~overrun
    /\ cmd < Len(Answers)
    /\ cmd' = cmd + 1
    /\ waiting' = TRUE
    /\ due' = (IF Late THEN due ELSE {}) \cup {cmd + 1}
    /\ uartClearData
    /\ UNCHANGED <<sent, answers, faults, noises, events>>

(***************************************************************************)
(* One uartReadData in the loop of uartWaitRecvData: the bytes left over,  *)
(* then n bytes off the line, and the frame if one is complete.  The first *)
(* payload, of whatever command, ends the loop.                            *)
(***************************************************************************)
ReadData(n) ==
    /\ waiting
    /\ ~overrun
    /\ n <= Len(line)
    /\ LET left == IF uartbuff # <<>> THEN uartRevDataProcess(Receiver, uartbuff) ELSE Receiver
           u == IF n > 0 THEN uartRevDataProcess(left, SubSeq(line, 1, n)) ELSE left
           data == IF u.done THEN dataunpack(u.catch) ELSE <<>>
       IN  /\ line' = SubSeq(line, n + 1, Len(line))
           /\ SetReceiver(IF u.done THEN Cleaned(u) ELSE u)
           /\ answers' = IF data # <<>>
                         THEN Append(answers, [data |-> data, after |-> flushed]) ELSE answers
           /\ overrun' = (u.done /\ Overruns(u.catch))
           /\ waiting' = (data = <<>>)
    /\ UNCHANGED <<cmd, due, sent, flushed, faults, noises, events>>

\* The loop runs out of time.
WaitTimeout ==
    /\ Timeouts
    /\ waiting
    /\ ~overrun
    /\ waiting' = FALSE
    /\ UNCHANGED <<line, uart, cmd, due, sent, flushed, answers, faults, noises, events>>

(***************************************************************************)
(* The board and the line.  A byte is lost or changed while it is on the   *)
(* line, at the latest before it is read: so as well when it is sent.      *)
(***************************************************************************)
Undisturbed == Cardinality(noises) + faults + events < MaxDisturbances

Damaged(frame) == {RemoveAt(frame, i) : i \in 1..Len(frame)}
                  \cup {[frame EXCEPT ![i] = 1] : i \in 1..Len(frame)}

SendFrame(data) ==
    /\ sent' = Append(sent, data)
    /\ \/ /\ line' = line \o datapack(data)
          /\ UNCHANGED faults
       \/ /\ faults < MaxFaults
          /\ Undisturbed
          /\ faults' = faults + 1
          /\ \E frame \in Damaged(datapack(data)) : line' = line \o frame

BoardAnswers(c) ==
    /\ c \in due
    /\ due' = due \ {c}
    /\ SendFrame(Answers[c])
    /\ UNCHANGED <<uart, cmd, waiting, flushed, answers, noises, events>>

BoardEvent ==
    /\ events < Events
    /\ Undisturbed
    /\ events' = events + 1
    /\ SendFrame(<<1>>)
    /\ UNCHANGED <<uart, cmd, waiting, due, flushed, answers, noises>>

LineNoise ==
    /\ Cardinality(noises) < MaxNoise
    /\ Undisturbed
    /\ \E s \in Noise \ noises : /\ line' = line \o s
                              /\ noises' = noises \cup {s}
    /\ UNCHANGED <<uart, cmd, waiting, due, sent, flushed, answers, faults, events>>

Board == \E c \in Commands : BoardAnswers(c)
ReadSome == \E n \in 1..Len(line) : ReadData(n)
ReadNothing == ReadData(0)

Next == \/ SendCommand
        \/ ReadSome
        \/ ReadNothing
        \/ WaitTimeout
        \/ Board
        \/ BoardEvent
        \/ LineNoise

Spec == Init /\ [][Next]_vars

\* uartWaitRecvData reads again every 10 ms what there is to be read, in
\* uartbuff and on the line; the board answers.  The first conjunct is weak
\* fairness of ReadSome \/ ReadNothing, with its enabling condition written out.
CanRead == waiting /\ ~overrun /\ (line # <<>> \/ uartbuff # <<>>)

FairSpec == /\ Spec
            /\ []<>~CanRead \/ []<><<ReadSome \/ ReadNothing>>_vars
            /\ WF_vars(Board)

-----------------------------------------------------------------------------

TypeOK ==
    /\ \A i \in 1..Len(line) : line[i] \in 0..255
    /\ uartstate \in {"IDLE", "BEGIN", "LENGTH", "HEAD", "DATA", "END"}
    /\ uartbytecnt \in 0..1
    /\ ~uartdo
    /\ cmd \in 0..Len(Answers)
    /\ due \subseteq Commands

(***************************************************************************)
(* uartcatch is never written past its end, whatever the line delivers,    *)
(* and the automaton is between two bytes in one of its states.            *)
(***************************************************************************)
CatchInBounds == TypeOK /\ Len(uartcatch) <= UART_BUF_SIZE

(***************************************************************************)
(* Whatever bytes are lost, changed or added on the line, and however      *)
(* read() cuts it up, a payload that is returned is one that the board     *)
(* has sent, and they are returned in order.                               *)
(***************************************************************************)
PayloadsIntact ==
    \E f \in [1..Len(answers) -> 1..Len(sent)] :
       /\ \A i, j \in 1..Len(answers) : i < j => f[i] < f[j]
       /\ \A i \in 1..Len(answers) : answers[i].data = sent[f[i]]

(***************************************************************************)
(* A payload that came before the line was emptied for a command is never  *)
(* returned for that command or a later one, though the code compares no   *)
(* command numbers: no late answer survives the flush, in pieces or whole. *)
(***************************************************************************)
StaleAnswersFlushed ==
    \A i \in 1..Len(answers) :
       \E k \in (answers[i].after + 1)..Len(sent) : sent[k] = answers[i].data

(***************************************************************************)
(* dataunpack promises a length or an error code for every frame           *)
(* ("正数 - 解出来的数据净荷的长度  0或负数 - error code"), one damaged on  *)
(* the line too.                                                           *)
(***************************************************************************)
DamageIsAnError == ~overrun

(***************************************************************************)
(* On a line that does nothing worse than add bytes between frames, every  *)
(* command is answered: the automaton finds the next frame again.  (Noise  *)
(* with the pair 55 AA would take the next frame's 55 AA for a length.)    *)
(* As long as nothing was damaged, unasked for or given up, each command   *)
(* but the one out has its answer.                                         *)
(***************************************************************************)
OnlyNoise ==
    /\ \A s \in noises : START2 \notin Range(s)
    /\ faults = 0
    /\ events = 0
    /\ Len(answers) = IF waiting THEN cmd - 1 ELSE cmd

EveryCommandAnswered == waiting /\ OnlyNoise ~> ~waiting \/ ~OnlyNoise
=============================================================================
