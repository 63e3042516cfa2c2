-------------------------------- MODULE Panel --------------------------------
(* Switching the panel on and off, and burning its one time memory.  The     *)
(* server thread handles SHUTDWN, the TST commands and the OTP commands      *)
(* itself; it hands SHUTON to the thread pool.  No lock keeps two of them    *)
(* apart, and each is a long sequence of writes, with delays between them,   *)
(* to the supply, to the MIPI bridge, to the driver chip behind it and to    *)
(* what the program remembers about them.                                    *)
(*                                                                           *)
(* A thread carries the writes it still has to do as a sequence of           *)
(* operations; a step does the first of them.  The driver chip (JD9367) and  *)
(* its memory are external, modelled from how chip_jd9367.c drives them: a   *)
(* command reaches the chip only when the supply and the bridge are on, and  *)
(* a cell is burned by the program command on page 0, with the key set and   *)
(* with the programming voltage, which is itself selected on page 0.         *)
(*                                                                           *)
(* Nothing checks what comes back from the hardware: a power command the     *)
(* board does not carry out, and a register the chip does not answer for,    *)
(* go unnoticed, and the program continues as if they had been.              *)
EXTENDS Integers, Sequences

CONSTANTS
    Pool,      \* the threads of the pool
    Signal,    \* timsignaltype: 1 eDP, 2 MIPI, 0 LVDS
    Value,     \* values the chip's memory may be asked to hold; 0 is a blank cell
    Cells,     \* how often a value can be burned (5)
    MaxCmds    \* bound on the commands

Thread == Pool \cup {"server"}
Kind   == {"vcom", "id"}
Blank  == 0

ASSUME PanelAssumption ==
    /\ "server" \notin Pool /\ Signal \in 0..2
    /\ Value \subseteq Nat /\ Cells \in Nat \ {0} /\ MaxCmds \in Nat

VARIABLES
    hw,      \* the supply, the bridge, the registers, and the program's view of them
    chip,    \* the driver chip
    code,    \* code[t]: what thread t still has to do
    rd,      \* what qc_otp_data_read_... returned last
    answer,  \* what the server was told about the last OTP command
    cmds,    \* commands so far
    what,    \* history: what[t], the kind of command t carries out
    mixed,   \* history: threads whose command has overlapped with another
    tainted  \* history: no switching on or off has run alone since one was mixed

vars == <<hw, chip, code, rd, answer, cmds, what, mixed, tainted>>

\* rails is the supply the panel has, asked (history) what the board was last told.
Off == [rails |-> FALSE, asked |-> FALSE, bridge |-> FALSE, driving |-> FALSE,
        HsSignalOnFlag |-> FALSE, channels |-> FALSE,
        REGA8 |-> 0, pg_pwr_status |-> FALSE, told |-> FALSE, monitor |-> FALSE]
NoAnswer == [could |-> FALSE, holds |-> FALSE]

\* right (history): the chip holds what was read of it.
NoRead   == [times |-> 0, value |-> Blank, right |-> FALSE, before |-> NoAnswer]

\* FPGA_CLOCK_REGA8: DP or MIPI.
OutputMode == Signal

TypeOK ==
    /\ hw.REGA8 \in 0..2
    /\ \A k \in Kind : Len(chip.cells[k]) \in 0..Cells
    /\ chip.page \in {0, 1} /\ \A k \in Kind : chip.reg[k] \in Value \cup {Blank}
    /\ rd.times \in 0..Cells /\ rd.value \in Value \cup {Blank}
    /\ cmds \in 0..MaxCmds /\ mixed \subseteq Thread /\ tainted \in BOOLEAN
    /\ \A t \in Thread : what[t] \in {"none", "on", "off", "test", "otp"}

\* main has switched everything off; the chip's memory is blank.
Init ==
    /\ hw = Off
    /\ chip = [page |-> 0, vpp |-> FALSE, key |-> FALSE, reg |-> [k \in Kind |-> Blank],
               cells |-> [k \in Kind |-> <<>>]]
    /\ code = [t \in Thread |-> <<>>]
    /\ rd = NoRead /\ answer = NoAnswer /\ cmds = 0
    /\ what = [t \in Thread |-> "none"] /\ mixed = {} /\ tainted = FALSE
-----------------------------------------------------------------------------
(* The sequences.                                                            *)

Op(name) == [do |-> name, kind |-> "vcom", v |-> Blank]
Ops(names) == [i \in DOMAIN names |-> Op(names[i])]

mipi_working == Ops(<<"hs_off", "reset", "init_code", "drive", "hs_on", "channels_on">>)
mipi_close   == Ops(<<"channels_off", "hs_off", "close", "hold">>)

\* client_pg_shutON(1, ...).
ShutOn ==
    Ops(<<"config", "rails_on", "told_on">>)
      \o (IF Signal = 2 THEN mipi_working ELSE <<>>)
      \o Ops(<<"status_on">>)
      \o (IF Signal \in {1, 2} THEN Ops(<<"output">>) ELSE <<>>)

\* Mutated form: the supply goes before the signal
OffRailsFirst ==
    Ops(<<"rails_off">>) \o mipi_close \o Ops(<<"no_output", "deconfig", "told_off", "status_off">>)

\* Mutated form: the program goes on believing that the panel is on
OffKeepsStatus == mipi_close \o Ops(<<"no_output", "rails_off", "deconfig", "told_off">>)

\* client_pg_shutON(0, ...).
ShutOff == mipi_close \o Ops(<<"no_output", "rails_off", "deconfig", "told_off", "status_off">>)

\* client_pg_mipiShutON.
TestOn  == Ops(<<"rails_on", "told_on">>) \o mipi_working
TestOff == mipi_close \o Ops(<<"rails_off", "told_off">>)

\* qc_otp_data_read_vcom and _id; an OTP command first reads what is there.
Read(k) == <<[do |-> "times", kind |-> k, v |-> Blank], [do |-> "cell", kind |-> k, v |-> Blank],
             Op("sleep_in")>>

\* Mutated form: the value is written after it has been burned
BurnThenWrite(k, v) ==
    <<Op("extend"), [do |-> "power", kind |-> k, v |-> v], Op("unlock"),
      [do |-> "program", kind |-> k, v |-> v], [do |-> "write", kind |-> k, v |-> v], Op("lock")>>
      \o ShutOff \o ShutOn

\* qc_otp_vcom and qc_otp_id: the six operations that burn, and off and on again.
Burn(k, v) ==
    <<Op("extend"), [do |-> "power", kind |-> k, v |-> v], [do |-> "write", kind |-> k, v |-> v],
      Op("unlock"), [do |-> "program", kind |-> k, v |-> v], Op("lock")>>
      \o ShutOff \o ShutOn

Otp(k, v) == Read(k) \o <<[do |-> "compare", kind |-> k, v |-> v]>>
-----------------------------------------------------------------------------
(* The chip.                                                                 *)

Reached == hw.rails /\ hw.bridge

LastCell(k) == IF chip.cells[k] = <<>> THEN Blank ELSE chip.cells[k][Len(chip.cells[k])].v

\* After a reset or without supply the registers hold what was burned last.
ChipReset == [chip EXCEPT !.page = 0, !.vpp = FALSE, !.key = FALSE,
                          !.reg = [k \in Kind |-> LastCell(k)]]

\* Mutated form: the voltage is selected on the page of the supply's registers
VppOnPageOne(k) == [chip EXCEPT !.page = 0]

\* The internal programming voltage: qc_otp_vcom goes back to page 0 before it
\* selects it ("fix page error"), qc_otp_id is still on page 1.
InternalPower(k) == [chip EXCEPT !.page = 0, !.vpp = @ \/ k = "vcom"]

\* The registers of vcom are on page 1, those of the id on page 0.
WriteValue(k, v) == [chip EXCEPT !.page = IF k = "vcom" THEN 1 ELSE 0, !.reg = [@ EXCEPT ![k] = v]]

Program(t, k, v) ==
    IF chip.page = 0 /\ chip.key /\ chip.vpp /\ Len(chip.cells[k]) < Cells
    THEN [chip EXCEPT !.cells = [@ EXCEPT ![k] =
             Append(chip.cells[k], [v |-> chip.reg[k], want |-> v, alone |-> t \notin mixed,
                                    sure |-> rd.right])]]
    ELSE chip

\* SendCode: it switches the bridge to the mode of HsSignalOnFlag on its way.
Command(after) ==
    /\ chip' = IF Reached THEN after ELSE chip
    /\ hw' = [hw EXCEPT !.driving = IF hw.bridge THEN hw.HsSignalOnFlag ELSE FALSE]

ChipOp(t, o) ==
    /\ o.do \in {"init_code", "extend", "power", "write", "unlock", "program", "lock", "sleep_in"}
    /\ Command(CASE o.do = "power"   -> InternalPower(o.kind)
                 [] o.do = "write"   -> WriteValue(o.kind, o.v)
                 [] o.do = "unlock"  -> [chip EXCEPT !.page = 0, !.key = TRUE]
                 [] o.do = "program" -> Program(t, o.kind, o.v)
                 [] o.do = "lock"    -> [chip EXCEPT !.key = IF chip.page = 0 THEN FALSE ELSE @]
                 [] OTHER            -> [chip EXCEPT !.page = 0])
    /\ UNCHANGED <<rd, answer>>
-----------------------------------------------------------------------------
(* The supply, the bridge and what the program remembers.                    *)

\* What operation o leaves of a flag: one of on sets it, one of off clears it.
Left(o, flag, on, off) == o \in on \/ (flag /\ o \notin off)

Switched(o, rails) ==
    [rails          |-> rails,
     asked          |-> Left(o, hw.asked, {"rails_on"}, {"rails_off"}),
     bridge         |-> Left(o, hw.bridge, {"config"}, {"deconfig"}),
     driving        |-> IF o = "drive" THEN hw.bridge
                        ELSE Left(o, hw.driving, {}, {"config", "deconfig", "reset", "hold", "close", "lp"}),
     HsSignalOnFlag |-> Left(o, hw.HsSignalOnFlag, {"hs_on"}, {"hs_off"}),
     channels       |-> Left(o, hw.channels, {"channels_on"}, {"channels_off"}),
     REGA8          |-> IF o = "output" THEN OutputMode ELSE IF o = "no_output" THEN 0 ELSE hw.REGA8,
     pg_pwr_status  |-> Left(o, hw.pg_pwr_status, {"status_on"}, {"status_off"}),
     told           |-> Left(o, hw.told, {"told_on"}, {"told_off"}),
     monitor        |-> Left(o, hw.monitor, {"monitor_on"}, {"monitor_off"})]

\* pwrSetOnOff drops the result of the command (power_message_proc): the board may
\* not have carried it out, and the supply is as it was.
Supplies(o) == IF o \in {"rails_on", "rails_off"} THEN {hw.rails, o = "rails_on"} ELSE {hw.rails}

PowerLost == hw.rails # hw.asked

Resets == {"config", "deconfig", "reset", "chip_reset", "hold"}
Switch == Resets \cup {"rails_on", "rails_off", "close", "drive", "lp", "hs_on", "hs_off",
                       "channels_on", "channels_off", "output", "no_output", "status_on", "status_off", "told_on", "told_off",
                       "monitor_on", "monitor_off"}

SwitchOp(o) ==
    /\ o.do \in Switch
    /\ \E rails \in Supplies(o.do) :
          /\ hw' = Switched(o.do, rails)
          /\ chip' = IF o.do \in Resets \/ ~rails THEN ChipReset ELSE chip
    /\ UNCHANGED <<rd, answer>>
-----------------------------------------------------------------------------
(* Reading the memory and deciding about it (SERVER2CLI_MSG_OTP,             *)
(* SERVER2CLI_MSG_WRITE_ID_OTP_INFO).  With ENABLE_OTP_TESE_MODE the limit   *)
(* of burns is always one more than there were, and what is read back is     *)
(* replaced by what was expected: neither test can fail.                     *)
(*                                                                           *)
(* _ReadModReg gives up after three tries, and its callers return the 0 their *)
(* buffer began with: a register that was not read is a 0.                   *)

\* How often a value was burned, or 0; an unreachable chip always reads as 0.
OtpTimes(t, o) ==
    /\ o.do = "times"
    /\ \E times \in {0, IF Reached THEN Len(chip.cells[o.kind]) ELSE 0} :
          rd' = [rd EXCEPT !.times = times, !.value = Blank, !.right = (times = Len(chip.cells[o.kind]))]
    /\ Command([chip EXCEPT !.page = IF o.kind = "vcom" THEN 1 ELSE 0])
    /\ UNCHANGED answer

\* A value is read byte by byte: with some of its bytes 0 it is a smaller one.
ReadAs(v) == {w \in Value \cup {Blank} : w <= v}

\* The last cell, unless the number of burns is none of 1 to 5.
OtpCell(t, o) ==
    /\ o.do = "cell"
    /\ \E v \in ReadAs(IF rd.times \in 1..Cells /\ Reached THEN chip.cells[o.kind][rd.times].v ELSE Blank) :
          rd' = [rd EXCEPT !.value = v, !.right = @ /\ v = LastCell(o.kind)]
    /\ Command(chip)
    /\ UNCHANGED answer

Needed(v) == rd.value # v

\* What the OTP command does after it has read the memory; the id is burned
\* through ic_manager, which must know the chip's channel.
AfterCompare(o) ==
    (IF ~Needed(o.v) THEN <<>>
     ELSE (IF o.kind = "id" /\ ~hw.channels THEN <<>> ELSE Burn(o.kind, o.v)) \o Read(o.kind))
      \o <<[do |-> "answer", kind |-> o.kind, v |-> o.v]>>

\* It is noted (history) whether the answer OK can be true: the chip can burn the
\* value, and no other value has been mistaken for it.
OtpCompare(t, o) ==
    /\ o.do = "compare"
    /\ rd' = [rd EXCEPT !.before =
                 [could |-> /\ Reached /\ Len(chip.cells[o.kind]) < Cells /\ o.v # Blank /\ o.kind = "vcom"
                            /\ Needed(o.v) \/ LastCell(o.kind) = o.v,
                  holds |-> FALSE]]
    /\ UNCHANGED <<hw, chip, answer>>

\* Every answer says E_ERROR_OK.
OtpAnswer(t, o) ==
    /\ o.do = "answer"
    /\ answer' = [could |-> rd.before.could /\ t \notin mixed, holds |-> LastCell(o.kind) = o.v]
    /\ rd' = NoRead
    /\ UNCHANGED <<hw, chip>>
-----------------------------------------------------------------------------
\* Thread t does the next of its operations.
Step(t) ==
    /\ code[t] # <<>>
    /\ LET o    == Head(code[t])
           rest == (IF o.do = "compare" THEN AfterCompare(o) ELSE <<>>) \o Tail(code[t])
           ends == rest = <<>>
       IN  /\ \/ SwitchOp(o) \/ ChipOp(t, o) \/ OtpTimes(t, o) \/ OtpCell(t, o)
              \/ OtpCompare(t, o) \/ OtpAnswer(t, o)
           /\ code' = [code EXCEPT ![t] = rest]
           /\ what' = IF ends THEN [what EXCEPT ![t] = "none"] ELSE what
           /\ mixed' = IF ends THEN mixed \ {t} ELSE mixed
           /\ tainted' = (tainted /\ ~(ends /\ t \notin mixed /\ what[t] \in {"on", "off"}))
    /\ UNCHANGED cmds

Active == {t \in Thread : code[t] # <<>>}

\* A command is given to thread t.  Commands arrive while the server thread waits
\* for them.
Begin(t, kind, ops) ==
    /\ code["server"] = <<>> /\ code[t] = <<>>
    /\ cmds < MaxCmds /\ cmds' = cmds + 1
    /\ code' = [code EXCEPT ![t] = ops] /\ what' = [what EXCEPT ![t] = kind]
    /\ mixed' = IF Active = {} THEN mixed ELSE mixed \cup Active \cup {t}
    /\ tainted' = (tainted \/ Active # {} \/ kind = "test")
    /\ UNCHANGED <<hw, chip, rd, answer>>

\* SHUTON of a module whose file is there, on a thread of the pool.
RecvShutOn == \E t \in Pool : Begin(t, "on", ShutOn \o Ops(<<"monitor_on">>))

\* Without the file nothing is switched, and the monitor is started all the same.
RecvShutOnNoFile == \E t \in Pool : Begin(t, "test", Ops(<<"monitor_on">>))

RecvShutDwn == Begin("server", "off", Ops(<<"monitor_off">>) \o ShutOff)

RecvTst == \/ Begin("server", "test", TestOn)
           \/ Begin("server", "test", TestOff)

\* GETPWRON and GETPWRDWN: the monitor alone.
RecvMonitor == \/ Begin("server", "test", Ops(<<"monitor_on">>))
               \/ Begin("server", "test", Ops(<<"monitor_off">>))

\* MIPI_MODE and MIPI_CHANNEL_RESET: the signal, or the chip, by hand.
RecvMipi == \/ Begin("server", "test", Ops(<<"drive", "hs_on">>))
            \/ Begin("server", "test", Ops(<<"lp", "hs_off">>))
            \/ Begin("server", "test", Ops(<<"chip_reset">>))

\* GAMMA_OTP: the JD9367 has no gamma to burn; what is left switches on, on the
\* server thread.
RecvGammaOtp == Begin("server", "on", ShutOn)

\* READ_VCOM_OTP_INFO and READ_ID_OTP_INFO.
RecvReadInfo == \E k \in Kind : Begin("server", "otp", Read(k))

RecvOtp == \E k \in Kind, v \in Value : Begin("server", "otp", Otp(k, v))

Next == \/ \E t \in Thread : Step(t)
        \/ RecvShutOn \/ RecvShutOnNoFile \/ RecvShutDwn \/ RecvTst
        \/ RecvMonitor \/ RecvMipi \/ RecvGammaOtp \/ RecvReadInfo \/ RecvOtp

Spec == Init /\ [][Next]_vars
-----------------------------------------------------------------------------
\* A switching on or off that ran alone puts everything right, whatever mixture
\* earlier ones left: when all threads are at rest, the bridge, its signal, the
\* registers and what the program remembers agree with what the server was told
\* and the board was asked for, and the monitor watches no supply that is off.  So
\* does the supply, unless the board has not carried out the last power command.
AtRestAllAgree ==
    Active = {} /\ ~tainted =>
        /\ \A on \in {hw.asked, hw.bridge, hw.pg_pwr_status} : on = hw.told
        /\ hw.REGA8 = IF hw.told THEN Signal ELSE 0
        /\ Signal = 2 => \A on \in {hw.driving, hw.HsSignalOnFlag, hw.channels} : on = hw.told
        /\ hw.monitor => hw.told
        /\ PowerLost \/ hw.rails = hw.told

\* The signal is taken away before the supply and given after it: a panel without
\* supply is not driven, unless commands were mixed or the last power command was
\* not carried out (the result is dropped, and mipi_working runs all the same).
SignalNeedsRails == hw.driving /\ ~tainted => hw.rails \/ PowerLost

\* A cell holds the value the command asked for.  Between the writing of the
\* register and the burning of the cell lie the key, a change of page and the
\* programming voltage; only a SHUTON in between can put the old value back.
BurnedAsAsked ==
    \A k \in Kind : \A i \in DOMAIN chip.cells[k] :
        chip.cells[k][i].alone => chip.cells[k][i].v = chip.cells[k][i].want

\* No cell is spent on a value the chip already holds, unless it was misread: the
\* test mode has lifted the limit of burns, so the comparison with what was read is
\* all that keeps a repeated command from burning again.
NoCellWasted ==
    \A k \in Kind : \A i \in DOMAIN chip.cells[k] :
        i > 1 /\ chip.cells[k][i].alone /\ chip.cells[k][i].sure =>
            chip.cells[k][i].v # chip.cells[k][i - 1].v

\* A memory that cannot be repaired (SERVER2CLI_MSG_OTP): whatever was switched,
\* lost, misread and burned before, each of its few cells went to the value that was
\* asked for, and to one that was there already only after a reading that failed.
CellsWellSpent == TypeOK /\ BurnedAsAsked /\ NoCellWasted

\* The answer OK is not checked against the chip (test mode), and still true of
\* vcom where the burn could succeed: the panel had its supply, a cell was left,
\* the value is not the one a blank chip reads as, none was mistaken for it, and no
\* other command was mixed in.
OkMeansBurned == answer.could => answer.holds
-----------------------------------------------------------------------------
(* The inductive invariant: types, what the rests of the sequences look      *)
(* like, and what has been reached when a rest is left to do.                *)

Commands  == {"init_code", "extend", "power", "write", "unlock", "program", "lock", "sleep_in",
              "times", "cell"}
OpName    == Switch \cup Commands \cup {"compare", "answer"}
Operation == [do: OpName, kind: Kind, v: Value \cup {Blank}]
Cell      == [v: Value \cup {Blank}, want: Value \cup {Blank}, alone: BOOLEAN, sure: BOOLEAN]
Answers   == [could: BOOLEAN, holds: BOOLEAN]
HwState   == [rails: BOOLEAN, asked: BOOLEAN, bridge: BOOLEAN, driving: BOOLEAN,
              HsSignalOnFlag: BOOLEAN, channels: BOOLEAN, REGA8: {0, Signal}, pg_pwr_status: BOOLEAN, told: BOOLEAN,
              monitor: BOOLEAN]
ChipState == [page: {0, 1}, vpp: BOOLEAN, key: BOOLEAN, reg: [Kind -> Value \cup {Blank}],
              cells: [Kind -> Seq(Cell)]]

RdState   == [times: 0..Cells, value: Value \cup {Blank}, right: BOOLEAN, before: Answers]

Typed ==
    /\ hw \in HwState /\ chip \in ChipState
    /\ \A k \in Kind : Len(chip.cells[k]) <= Cells
    /\ code \in [Thread -> Seq(Operation)]
    /\ rd \in RdState
    /\ answer \in Answers /\ cmds \in 0..MaxCmds
    /\ what \in [Thread -> {"none", "on", "off", "test", "otp"}]
    /\ mixed \subseteq Thread /\ tainted \in BOOLEAN

\* A thread whose command was not mixed, or did not taint, is the only active one.
Alone(t) == t \notin mixed \/ ~tainted

OneAlone ==
    \A t, u \in Thread : code[t] # <<>> /\ Alone(t) /\ u # t => code[u] = <<>>

\* The rest s of a sequence does one of B; does one of B after its i-th operation.
Does(s, B)     == \E i \in 1..Len(s) : s[i].do \in B
After(s, i, B) == \E j \in i + 1..Len(s) : s[j].do \in B

\* A cell is read after the number of cells; a value is burned after four
\* operations, and a decision follows three.
Is(o, name, p) == o.do = name /\ o.kind = p.kind /\ o.v = p.v

ReadShape(s) ==
    \A i, j \in 1..Len(s) : s[i].do = "cell" /\ i = j + 1 => s[j].do = "times" /\ s[j].kind = s[i].kind

ProgramShape(s) ==
    \A i, j \in 1..Len(s) : s[i].do = "program" =>
        /\ i <= 5
        /\ i = j + 1 => s[j].do = "unlock"
        /\ i = j + 2 => Is(s[j], "write", s[i])
        /\ i = j + 3 => Is(s[j], "power", s[i])
        /\ i = j + 4 => s[j].do = "extend"

CompareShape(s) ==
    \A i, j \in 1..Len(s) : s[i].do = "compare" =>
        /\ i = Len(s) /\ i <= 4
        /\ i = j + 1 => s[j].do = "sleep_in"
        /\ i = j + 2 => s[j].do = "cell" /\ s[j].kind = s[i].kind
        /\ i = j + 3 => s[j].do = "times" /\ s[j].kind = s[i].kind

\* The answer is about the value that is burned.
AnswerShape(s) ==
    \A i, j \in 1..Len(s) : s[i].do = "program" /\ s[j].do = "answer" => Is(s[j], "answer", s[i])

BurnShape(s) == ReadShape(s) /\ ProgramShape(s) /\ CompareShape(s) /\ AnswerShape(s)

\* What is true of the chip when s is left to do.
ProgramReady(s) ==
    \A i \in 1..Len(s) : s[i].do = "program" /\ Reached =>
        /\ rd.right => LastCell(s[i].kind) # s[i].v
        /\ i <= 2 => chip.reg[s[i].kind] = s[i].v

CompareReady(s) ==
    \A i \in 1..Len(s) : s[i].do = "compare" /\ rd.right =>
        /\ i <= 3 => rd.times = Len(chip.cells[s[i].kind])
        /\ i <= 2 => rd.value = LastCell(s[i].kind)

AnswerReady(s) ==
    \A j \in 1..Len(s) : s[j].do = "answer" /\ rd.before.could =>
        \/ \E i \in 1..Len(s) :
              /\ s[i].do = "program" /\ Reached /\ s[j].kind = "vcom"
              /\ Len(chip.cells["vcom"]) < Cells
              /\ i <= 3 => chip.vpp
              /\ i <= 1 => chip.page = 0 /\ chip.key
        \/ ~Does(s, {"program"}) /\ LastCell(s[j].kind) = s[j].v

Burning ==
    \A t \in Thread :
        /\ BurnShape(code[t])
        /\ t # "server" => ~Does(code[t], {"times", "cell", "compare", "answer"})
        /\ code[t] # <<>> /\ code[t][1].do = "cell" => rd.times <= Len(chip.cells[code[t][1].kind])
        /\ t \notin mixed => ProgramReady(code[t]) /\ CompareReady(code[t]) /\ AnswerReady(code[t])

\* Every operation is one of B; an operation of X is followed by one of B; by none
\* of B; and if by one of B, by one of C.
Only(s, B)          == \A i \in 1..Len(s) : s[i].do \in B
Then(s, X, B)       == \A i \in 1..Len(s) : s[i].do \in X => After(s, i, B)
Never(s, X, B)      == \A i \in 1..Len(s) : s[i].do \in X => ~After(s, i, B)
ThenIf(s, X, B, C)  == \A i \in 1..Len(s) : s[i].do \in X /\ After(s, i, B) => After(s, i, C)

\* The operations that switch something on, what they switch, and what undoes them.
Setters == {"config", "rails_on", "told_on", "status_on"}
             \cup (IF Signal \in {1, 2} THEN {"output"} ELSE {})
             \cup (IF Signal = 2 THEN {"drive", "hs_on", "channels_on"} ELSE {})

IsOn(a, h) == CASE a = "config"      -> h.bridge
                [] a = "rails_on"    -> h.asked
                [] a = "told_on"     -> h.told
                [] a = "status_on"   -> h.pg_pwr_status
                [] a = "output"      -> h.REGA8 = Signal
                [] a = "drive"       -> h.driving
                [] a = "hs_on"       -> h.HsSignalOnFlag
                [] a = "channels_on" -> h.channels

Undoes(a) == CASE a = "config"      -> {"deconfig"}
               [] a = "rails_on"    -> {"rails_off"}
               [] a = "told_on"     -> {"told_off"}
               [] a = "status_on"   -> {"status_off"}
               [] a = "output"      -> {"no_output"}
               [] a = "drive"       -> {"config", "deconfig", "reset", "hold", "close", "lp"}
               [] a = "hs_on"       -> {"hs_off"}
               [] a = "channels_on" -> {"channels_off"}

\* The bridge is closed right after its signal.
CloseShape(s) == \A i, j \in 1..Len(s) : s[i].do = "close" /\ i = j + 1 => s[j].do = "hs_off"

\* Before the supply goes the signal has gone, after it comes the signal comes.
SignalInside(s) ==
    /\ Never(s, {"drive"}, {"config", "rails_on"}) /\ Never(s, {"hs_on"}, {"rails_on"})
    /\ Never(s, {"rails_off"}, {"close"})
    /\ ThenIf(s, {"drive", "hs_on"}, {"rails_off"}, {"close"})
    /\ CloseShape(s)

SwitchesOn(s) ==
    /\ \A a \in Setters : Then(s, Undoes(a), {a})
    /\ Signal = 2 => ThenIf(s, Commands, {"hs_on", "config"}, {"drive"})
    /\ SignalInside(s) /\ ~Does(s, {"compare"})

OffOps  == {"monitor_off", "channels_off", "hs_off", "close", "hold", "no_output", "rails_off",
            "deconfig", "told_off", "status_off"}
ReadOps == {"times", "cell", "sleep_in", "compare", "answer"}

SwitchesOff(s) == Only(s, OffOps) /\ SignalInside(s)

\* What has not been switched yet is still to be switched.
ComesOn(s, h) == \A a \in Setters : IsOn(a, h) \/ Does(s, {a})

GoesOff(s, h) ==
    /\ h.monitor        => Does(s, {"monitor_off"})
    /\ h.channels       => Does(s, {"channels_off"})
    /\ h.HsSignalOnFlag => Does(s, {"hs_off"})
    /\ h.driving        => Does(s, {"close"})
    /\ h.REGA8 # 0      => Does(s, {"no_output"})
    /\ h.asked          => Does(s, {"rails_off"})
    /\ h.bridge         => Does(s, {"deconfig"})
    /\ h.told           => Does(s, {"told_off"})
    /\ h.pg_pwr_status  => Does(s, {"status_off"})

Silent(s, h) ==
    /\ Does(s, {"rails_off"}) => Does(s, {"close"}) \/ (~h.driving /\ ~h.HsSignalOnFlag)
    /\ (s # <<>> /\ s[1].do = "close") => ~h.HsSignalOnFlag

Agree(h) ==
    /\ \A on \in {h.bridge, h.pg_pwr_status, h.told} : on = h.asked
    /\ h.REGA8 = IF h.asked THEN Signal ELSE 0
    /\ Signal = 2 => \A on \in {h.driving, h.HsSignalOnFlag, h.channels} : on = h.asked
    /\ h.monitor => h.asked

Lit(h) == (h.driving \/ h.HsSignalOnFlag) => h.asked

WillBeOn(s, h)  == SwitchesOn(s) /\ ComesOn(s, h) /\ Silent(s, h)
WillBeOff(s, h) == SwitchesOff(s) /\ GoesOff(s, h) /\ Silent(s, h)

\* What the rest of a command that runs alone makes of the supply and its signal.
Switching ==
    /\ \A t \in Thread : code[t] # <<>> /\ Alone(t) =>
         /\ what[t] = "on"  => WillBeOn(code[t], hw)
         /\ what[t] = "off" => WillBeOff(code[t], hw)
         /\ what[t] = "otp" /\ ~tainted => WillBeOn(code[t], hw) \/ (Only(code[t], ReadOps) /\ Agree(hw))
         /\ ~tainted => what[t] \in {"on", "off", "otp"}
    /\ ~tainted => Lit(hw)
    /\ Active = {} /\ ~tainted => Agree(hw)

ChipInv == Typed /\ OneAlone /\ Burning /\ BurnedAsAsked /\ NoCellWasted /\ OkMeansBurned
IInv    == ChipInv /\ Switching
=============================================================================
