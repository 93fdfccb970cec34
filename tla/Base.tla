-------------------------------- MODULE Base --------------------------------
(***************************************************************************)
(* One DAC and one ADC of the gateware's top, base/base.v.m4, and the      *)
(* driver that runs on the board, linux/comm.py.  The DAC's wires go       *)
(* through a crossbar (spi/spi_switch.v) to the master behind the MMIO     *)
(* registers or to the master of the control loop.                         *)
(*                                                                         *)
(* The driver never looks at a `finished` flag.  It relies on a bus access *)
(* being slow: `Pace` cycles at least pass between two of them.  Both the  *)
(* bus and MicroPython are outside the repository.                         *)
(*                                                                         *)
(* One step is one rising edge of clk.                                     *)
(***************************************************************************)
EXTENDS Integers, Sequences

CONSTANTS
    DAC_SS_WAIT, ADC_CONV_WAIT,
    MaxShift,       \* the bits of a word take at most so many cycles
    Pace,           \* cycles between two accesses of the driver, at least
    DacVals         \* DAC codes

ASSUME WaitAssumption ==
    {DAC_SS_WAIT, ADC_CONV_WAIT} \subseteq Nat \ {0} /\ {MaxShift, Pace} \subseteq Nat
(* An access later than the lowering of arm comes after the transfer, and  *)
(* a change of the crossbar after slave select is released.                *)
ASSUME PaceAssumption ==
    /\ 2 * Pace >= ADC_CONV_WAIT + MaxShift + 3
    /\ 2 * Pace > DAC_SS_WAIT + MaxShift + 3
ASSUME ValsAssumption == {0, 1} \subseteq DacVals /\ DacVals \subseteq Nat

VARIABLES
    \* MMIO registers the driver writes
    dac_sel, dac_send_buf, dac_arm, adc_arm, cl_run_loop_in,
    \* DAC master of the MMIO registers
    mmio_phase, mmio_count, mmio_lag, dac_finished, dac_recv_buf, mmio_sent,
    mmio_loaded,
    \* ADC master of the MMIO registers
    adc_phase, adc_count, adc_lag, adc_finished, adc_recv_buf, adc_loaded,
    shifted,        \* cycles for which one of these two has been shifting
    \* the control loop's DAC master, and what the loop asks of it
    cl_phase, cl_count, cl_lag, cl_finished, from_dac, cl_sent, cl_loaded,
    cl_arm, cl_to_dac, cl_iterating,
    \* the converters
    curset, ctrl_register, dac_answer, adc_in,
    framing,        \* whose frame the DAC is receiving, if anyone's
    \* the driver: the accesses left of the current call, cycles since the last
    todo, quiet,
    \* history
    due,            \* commands the driver has written that have not arrived
    expect          \* what the DAC would answer when it was asked

registers == <<dac_sel, dac_send_buf, dac_arm, adc_arm, cl_run_loop_in>>
mmioVars == <<mmio_phase, mmio_count, mmio_lag, dac_finished, dac_recv_buf,
              mmio_sent, mmio_loaded>>
adcVars  == <<adc_phase, adc_count, adc_lag, adc_finished, adc_recv_buf,
              adc_loaded, shifted>>
clVars   == <<cl_phase, cl_count, cl_lag, cl_finished, from_dac, cl_sent,
              cl_loaded, cl_arm, cl_to_dac, cl_iterating>>
device   == <<curset, ctrl_register, dac_answer>>
vars     == <<registers, mmioVars, adcVars, clVars, device, adc_in, todo, quiet,
              framing, due, expect>>

(* A word on the DAC's wires: {R/W, register, value}. *)
DacWord == [op : {"nop", "read", "write"}, reg : {"dac", "ctrl"}, val : DacVals]
Word(op, reg, val) == [op |-> op, reg |-> reg, val |-> val]
Nop == Word("nop", "dac", 0)
Mixture == Word("nop", "dac", -1)       \* what shows of a word that is moving
Samples == 0..1

Mmio == INSTANCE SpiTransfer WITH
    SS_WAIT <- DAC_SS_WAIT, WordSet <- DacWord, ZeroWord <- Nop,
    Garbage <- {Mixture},
    arm <- dac_arm, to_slave <- dac_send_buf,
    to_master <- IF dac_sel = {} THEN dac_answer ELSE Nop,
    phase <- mmio_phase, count <- mmio_count, lag <- mmio_lag,
    finished <- dac_finished, from_slave <- dac_recv_buf, sent <- mmio_sent,
    loaded <- mmio_loaded

Adc == INSTANCE SpiTransfer WITH
    SS_WAIT <- ADC_CONV_WAIT, WordSet <- Samples, ZeroWord <- 0,
    Garbage <- {-1},
    arm <- adc_arm, to_slave <- 0, to_master <- adc_in,
    phase <- adc_phase, count <- adc_count, lag <- adc_lag,
    finished <- adc_finished, from_slave <- adc_recv_buf, sent <- 0,
    loaded <- adc_loaded

(* What the loop receives is ControlLoop's concern. *)
Loop == INSTANCE SpiTransfer WITH
    SS_WAIT <- DAC_SS_WAIT, WordSet <- DacWord, ZeroWord <- Nop,
    Garbage <- {Nop},
    arm <- cl_arm, to_slave <- cl_to_dac, to_master <- Nop,
    phase <- cl_phase, count <- cl_count, lag <- cl_lag,
    finished <- cl_finished, from_slave <- from_dac, sent <- cl_sent,
    loaded <- cl_loaded
-----------------------------------------------------------------------------
(* The crossbar: the highest selected port but 0, or port 0.               *)
spi_switch(select) ==
    IF 2 \in select THEN 2 ELSE IF 1 \in select THEN 1 ELSE 0

(* What the ports and the wire show for given select bits; each line is    *)
(* the set of ports on which it is high.                                   *)
Wire(select, ports)     == spi_switch(select) \in ports
MisoPorts(select, miso) == IF miso THEN {spi_switch(select)} ELSE {}

(* The masters of the DAC by their ports. *)
MMIO == 0
CONTROL_LOOP == 1
NoFrame == -1
Broken  == -2
Phase(p) == IF p = MMIO THEN mmio_phase ELSE cl_phase
Sent(p)  == IF p = MMIO THEN mmio_sent ELSE cl_sent
Selecting(phase) == phase \in {"select", "load", "shift", "settle"}

port      == spi_switch(dac_sel)
wirePhase == Phase(port)
Ending    == wirePhase = "settle"
Arriving  == Ending /\ port = MMIO
Released  == Selecting(wirePhase) /\ ~Selecting(wirePhase')

(* A frame is whole if the wires stay with one master from before the      *)
(* first bit until slave select is released.  After a change of hands the  *)
(* DAC may see the end of another one's frame, or its select line released *)
(* in the middle of a frame.                                               *)
WatchWires ==
    framing' = IF framing # NoFrame /\ Selecting(wirePhase) /\ ~Ending
               THEN IF port' = framing THEN framing ELSE Broken
               ELSE IF ~Selecting(wirePhase') THEN NoFrame
               ELSE IF wirePhase' = "select" THEN port'
               ELSE Broken

(* dac_sim.v: a frame takes effect when its select line is released.  What *)
(* it stores as its control register is not the word it received but the   *)
(* one it answered.                                                        *)
EndOfFrame(word) ==
    /\ curset' = IF word.op = "write" /\ word.reg = "dac" THEN word.val ELSE curset
    /\ ctrl_register' = IF word.op = "write" /\ word.reg = "ctrl"
                        THEN dac_answer.val ELSE ctrl_register
    /\ dac_answer' =
          IF word.op # "read" THEN Nop
          ELSE Word("read", word.reg,
                    IF word.reg = "dac" THEN curset ELSE ctrl_register)

(* spi_slave.v looks for too many bits but not for too few: whatever is in *)
(* its shift register after a broken frame is taken for a word.            *)
DacStep ==
    /\ \/ ~Released /\ UNCHANGED device
       \/ Released /\ framing = port /\ EndOfFrame(Sent(port))
       \/ Released /\ framing # port /\ \E word \in DacWord : EndOfFrame(word)
    /\ WatchWires
-----------------------------------------------------------------------------
(* The control loop as its DAC master sees it: it arms when the flag of    *)
(* the last transfer is down and lets go when the transfer has ended       *)
(* (ControlLoop!ReleaseAtTheEnd).  It stops at the end of an iteration     *)
(* only, so it may arm once more after cl_run_loop_in has fallen.          *)
LoopArms ==
    /\ cl_run_loop_in \/ cl_iterating
    /\ ~cl_arm /\ cl_phase = "idle" /\ ~cl_finished
    /\ cl_arm' = TRUE /\ cl_iterating' = TRUE
    /\ cl_to_dac' \in {Word("read", "dac", 0), Nop, Word("write", "dac", 1)}

LoopReleases ==
    /\ cl_arm /\ cl_finished
    /\ cl_arm' = FALSE
    /\ UNCHANGED <<cl_to_dac, cl_iterating>>

LoopStops ==
    /\ cl_iterating /\ ~cl_run_loop_in /\ ~cl_arm
    /\ cl_iterating' = FALSE
    /\ UNCHANGED <<cl_arm, cl_to_dac>>

LoopWaits ==
    /\ ~(cl_arm /\ cl_finished)
    /\ UNCHANGED <<cl_arm, cl_to_dac, cl_iterating>>

LoopStep == LoopArms \/ LoopReleases \/ LoopStops \/ LoopWaits
-----------------------------------------------------------------------------
(* The driver's routines as sequences of accesses to the registers.        *)
Access(reg, val) == [reg |-> reg, val |-> val]

RaiseAndLower(arm) == <<Access(arm, TRUE), Access(arm, FALSE)>>

CommandLate(word) ==            \* mutant: the buffer is filled after arming
    <<Access("dac_arm", TRUE), Access("dac_send_buf", word),
      Access("dac_arm", FALSE)>>

CommandUnlowered(word) ==       \* mutant: arm is left up
    <<Access("dac_send_buf", word), Access("dac_arm", TRUE)>>

Command(word) ==
    <<Access("dac_send_buf", word)>> \o RaiseAndLower("dac_arm")

dac_write_volt(val) == Command(Word("write", "dac", val))

dac_read_reg(reg) ==
    Command(Word("read", reg, 0)) \o <<Access("dac_recv_buf", reg)>>

dac_init ==
    <<Access("dac_sel", {})>> \o dac_write_volt(0)
        \o Command(Word("write", "ctrl", 1)) \o dac_read_reg("ctrl")

adc_read_early ==               \* mutant: read before arm is lowered
    <<Access("adc_arm", TRUE), Access("adc_recv_buf", 0),
      Access("adc_arm", FALSE)>>

adc_read == RaiseAndLower("adc_arm") \o <<Access("adc_recv_buf", 0)>>

(* Scripts also give the DAC to the control loop, start it and stop it.    *)
Calls ==
    {dac_write_volt(v) : v \in DacVals} \cup {dac_read_reg("dac"), dac_init,
     adc_read, <<Access("dac_sel", {CONTROL_LOOP})>>}
        \cup {<<Access("cl_run_loop_in", on)>> : on \in BOOLEAN}

(* A call is made no earlier than it takes to have its first access on     *)
(* time.                                                                   *)
Call ==
    /\ todo = <<>> /\ quiet >= Pace - 1
    /\ todo' \in Calls
    /\ quiet' = IF quiet < Pace THEN quiet + 1 ELSE quiet
    /\ UNCHANGED <<registers, adc_in>>

Wait ==
    /\ quiet' = IF quiet < Pace THEN quiet + 1 ELSE quiet
    /\ UNCHANGED <<registers, todo, adc_in>>

AboutTo(reg) == todo # <<>> /\ Head(todo).reg = reg /\ quiet = Pace

Perform(reg) ==
    /\ AboutTo(reg)
    /\ todo' = Tail(todo)
    /\ quiet' = 1

(* "This module is a co-operative crossbar", but dac_init and the scripts  *)
(* select a master whatever the loop is doing.                             *)
WriteDacSel ==
    /\ Perform("dac_sel")
    /\ dac_sel' = Head(todo).val
    /\ UNCHANGED <<dac_send_buf, dac_arm, adc_arm, cl_run_loop_in, adc_in>>

WriteSendBuf ==
    /\ Perform("dac_send_buf")
    /\ dac_send_buf' = Head(todo).val
    /\ UNCHANGED <<dac_sel, dac_arm, adc_arm, cl_run_loop_in, adc_in>>

WriteDacArm ==
    /\ Perform("dac_arm")
    /\ dac_arm' = Head(todo).val
    /\ UNCHANGED <<dac_sel, dac_send_buf, adc_arm, cl_run_loop_in, adc_in>>

(* Something else is at the ADC's input in every call. *)
WriteAdcArm ==
    /\ Perform("adc_arm")
    /\ adc_arm' = Head(todo).val
    /\ adc_in' = IF adc_arm' THEN 1 - adc_in ELSE adc_in
    /\ UNCHANGED <<dac_sel, dac_send_buf, dac_arm, cl_run_loop_in>>

WriteRunLoop ==
    /\ Perform("cl_run_loop_in")
    /\ cl_run_loop_in' = Head(todo).val
    /\ UNCHANGED <<dac_sel, dac_send_buf, dac_arm, adc_arm, adc_in>>

ReadBuffer ==
    /\ Perform("dac_recv_buf") \/ Perform("adc_recv_buf")
    /\ UNCHANGED <<registers, adc_in>>

Driver ==
    \/ WriteDacSel \/ WriteSendBuf \/ WriteDacArm \/ WriteAdcArm
    \/ WriteRunLoop \/ ReadBuffer
    \/ Call \/ Wait
-----------------------------------------------------------------------------
Init ==
    /\ dac_sel = {} /\ dac_send_buf = Nop /\ dac_arm = FALSE
    /\ adc_arm = FALSE /\ cl_run_loop_in = FALSE
    /\ Mmio!PowerUp /\ dac_recv_buf = Nop
    /\ Adc!PowerUp /\ shifted = 0
    /\ Loop!PowerUp /\ from_dac = Nop /\ cl_arm = FALSE
    /\ cl_to_dac = Nop /\ cl_iterating = FALSE
    /\ curset \in DacVals /\ ctrl_register = 0 /\ dac_answer = Nop
    /\ adc_in = 0 /\ todo = <<>> /\ quiet = Pace
    /\ framing = NoFrame /\ due = <<>> /\ expect = Nop

Masters ==
    /\ Mmio!Step /\ Adc!Step /\ Loop!Step
    /\ shifted' = IF "shift" \in {mmio_phase', adc_phase'} THEN shifted + 1 ELSE 0
    /\ shifted' <= MaxShift

(* History only.  With the DAC in other hands a command goes nowhere, and  *)
(* nothing comes back (mmio_descr.py, dac_arm).                            *)
Record ==
    /\ LET written == IF dac_sel = {} /\ WriteSendBuf THEN <<dac_send_buf'>> ELSE <<>>
           waiting == IF Arriving /\ due # <<>> THEN Tail(due) ELSE due
       IN  due' = waiting \o written
    /\ expect' = IF ~(dac_arm' /\ ~dac_arm) THEN expect
                 ELSE IF dac_sel = {} THEN dac_answer ELSE Nop

Next == Masters /\ LoopStep /\ Driver /\ DacStep /\ Record

Spec == Init /\ [][Next]_vars
-----------------------------------------------------------------------------
(* Properties *)

(* "it is currently not possible to interrupt SPI transfers in software    *)
(* without resetting the entire device" (mmio_descr.py, dac_arm): a frame  *)
(* that either master has begun stays on the wires to its last bit.        *)
Cut(p) == framing = p /\ framing' = Broken

FramesWhole == [][\A p \in {MMIO, CONTROL_LOOP} : ~Cut(p)]_vars

(* The same of the frames of the MMIO registers' master alone: while it    *)
(* has the wires the DAC sees all of its frame, and the wires are not      *)
(* taken away before the end, though the driver never looks at `finished`, *)
(* whatever frame of the loop was cut to begin with.                       *)
OwnFramesWhole ==
    [][/\ port' = MMIO /\ Selecting(wirePhase') => framing' = MMIO
       /\ ~Cut(MMIO)]_vars

(* comm.py, dac_write_volt and dac_init: what the driver commands while it *)
(* has the DAC gets there, each command once and before the next one.      *)
CommandsInOrder ==
    [][/\ Arriving => due # <<>> /\ mmio_sent = Head(due)
       /\ Len(due') <= 1]_vars

(* comm.py, adc_read and dac_read_reg: what the driver reads is what the   *)
(* converter answered in the transfer of this very call, and nothing when  *)
(* the DAC is in other hands.                                              *)
AnswersAreOwn ==
    /\ AboutTo("dac_recv_buf") => dac_recv_buf = expect
    /\ AboutTo("adc_recv_buf") => adc_recv_buf = adc_in

(* comm.py, dac_read_reg: "Read a register from a DAC".                    *)
RegisterIsRead ==
    AboutTo("dac_recv_buf") /\ dac_sel = {} =>
        dac_recv_buf.op = "read" /\ dac_recv_buf.reg = Head(todo).val
=============================================================================
