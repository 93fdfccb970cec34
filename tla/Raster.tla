------------------------------- MODULE Raster -------------------------------
(***************************************************************************)
(* The raster scanner, raster/raster.v, with the units around it: two DAC  *)
(* masters (each an SpiTransfer) and the DACs behind them, the ADCs, the   *)
(* side of the RAM shim that takes samples (ShimInput) in front of a FIFO  *)
(* that drains at any pace, and a processor that uses the register         *)
(* interface as raster_sim.cpp does.                                       *)
(*                                                                         *)
(* One step is one rising edge, followed by what the processor, the ADCs   *)
(* and the memory do when they see the registers as the edge left them.    *)
(*                                                                         *)
(* What an ADC measures is not told apart but by the ADC it comes from.    *)
(***************************************************************************)
EXTENDS Integers, Sequences, FiniteSets

CONSTANTS
    DAC_WAIT_BETWEEN_CMD,
    DAC_SS_WAIT,
    PosMod,             \* 2^DAC_DATA_WID
    SampleMod,          \* 2^SAMPLEWID
    ADCNUM,
    FIFO_DEPTH,
    ParamSets,          \* the parameter sets of the scans
    Origins,            \* where the probe is at first, pairs of DAC codes
    SCANS               \* how often the processor starts a scan

ASSUME RasterWaits ==
    /\ DAC_WAIT_BETWEEN_CMD \in Nat /\ DAC_SS_WAIT \in Nat \ {0}
    /\ SCANS \in Nat
(* With a shorter wait the second command is armed while `finished` of the *)
(* first is still up, and is given up at once; the source has 10.          *)
ASSUME RasterGap == DAC_WAIT_BETWEEN_CMD >= 2
ASSUME RasterSizes ==
    {PosMod, SampleMod, ADCNUM, 2^ADCNUM, FIFO_DEPTH} \subseteq Nat \ {0}
ASSUME RasterParams ==
    ParamSets \subseteq
        [max_samples : 0..SampleMod - 1, max_lines : 0..SampleMod - 1,
         settle_time : Nat, dx : 0..PosMod - 1, dy : 0..PosMod - 1,
         adc_used : 0..2^ADCNUM - 1]
ASSUME RasterOrigins == Origins \subseteq (0..PosMod - 1) \X (0..PosMod - 1)

VARIABLES
    \* the register interface
    kernel_cmd, kernel_data_in, kernel_ready, kernel_finished, kernel_data_out,
    regs, arm, running,
    \* the scan
    state, sample, line, counter, is_reverse, x_val, y_val,
    adc_used_tmp, adc_data_tmp,
    coord_arm,          \* x_arm and y_arm, always assigned together
    x_to_dac, y_to_dac, adc_arm, mem_commit, data,
    \* DAC masters
    x_phase, x_count, x_lag, x_finished, x_from_dac, x_sent, x_loaded,
    y_phase, y_count, y_lag, y_finished, y_from_dac, y_sent, y_loaded,
    \* DACs
    x_dac, y_dac, x_answer, y_answer,
    adc_finished,
    \* RAM shim and FIFO
    write_enable, write_dat, mem_finished, fifo_level,
    \* the processor
    script, access, scans, asked,
    \* history
    measured,           \* how many points of this scan were measured
    origin,             \* where the probe was when it began
    previous,           \* where it was at the last measurement
    accepted            \* what the FIFO took for this point

kernelRegs == <<kernel_finished, kernel_data_out, regs, arm>>
point   == <<sample, line, is_reverse>>
outputs == <<coord_arm, x_to_dac, y_to_dac, adc_arm, mem_commit, data>>
xMaster == <<x_phase, x_count, x_lag, x_finished, x_from_dac, x_sent, x_loaded>>
yMaster == <<y_phase, y_count, y_lag, y_finished, y_from_dac, y_sent, y_loaded>>
dacs    == <<x_dac, y_dac, x_answer, y_answer>>
shim    == <<write_enable, write_dat, mem_finished, fifo_level>>
bench   == <<kernel_cmd, kernel_data_in, kernel_ready, script, access, scans,
             asked>>
history == <<measured, origin, previous, accepted>>
vars == <<kernelRegs, running, state, point, counter, x_val, y_val, adc_used_tmp,
          adc_data_tmp, outputs, xMaster, yMaster, dacs, adc_finished, shim,
          bench, history>>

Adcs     == 0..ADCNUM - 1
Bits(m)  == {i \in Adcs : (m \div 2^i) % 2 = 1}
NoSample == ADCNUM      \* the power-up value of the data registers
Code     == 0..PosMod - 1
X        == PosMod      \* a code read in the middle of a frame

DacWord == [op : {"nop", "read", "write"}, val : Code]
Word(o, v) == [op |-> o, val |-> v]
Nop == Word("nop", 0)

XDac == INSTANCE SpiTransfer WITH
    SS_WAIT <- DAC_SS_WAIT, WordSet <- DacWord, ZeroWord <- Nop,
    Garbage <- {Word("nop", X)},
    arm <- coord_arm, to_slave <- x_to_dac, to_master <- x_answer,
    phase <- x_phase, count <- x_count, lag <- x_lag, finished <- x_finished,
    from_slave <- x_from_dac, sent <- x_sent, loaded <- x_loaded

YDac == INSTANCE SpiTransfer WITH
    SS_WAIT <- DAC_SS_WAIT, WordSet <- DacWord, ZeroWord <- Nop,
    Garbage <- {Word("nop", X)},
    arm <- coord_arm, to_slave <- y_to_dac, to_master <- y_answer,
    phase <- y_phase, count <- y_count, lag <- y_lag, finished <- y_finished,
    from_slave <- y_from_dac, sent <- y_sent, loaded <- y_loaded

Input == INSTANCE ShimInput WITH
    Zero <- NoSample, data_commit <- mem_commit, finished <- mem_finished
-----------------------------------------------------------------------------
(* The register interface.  A command that is held is executed again in    *)
(* every cycle; a write that is refused is not answered.                   *)

WritableAlways == TRUE          \* mutant: running is not looked at

Writable == ~running \/ kernel_cmd.reg = "arm"
Writes(r) == kernel_ready /\ kernel_cmd.write /\ Writable /\ kernel_cmd.reg = r

Bit(b) == IF b THEN 1 ELSE 0
Value(r) == CASE r = "arm" -> Bit(arm)
              [] r = "running" -> Bit(running)
              [] r \notin {"arm", "running"} -> regs[r]

Neg(v) == (-v) % PosMod

Answers == ~kernel_cmd.write \/ Writable

KernelInterface(turning) ==
    /\ kernel_finished' = (kernel_ready /\ (kernel_finished \/ Answers))
    /\ kernel_data_out' = IF kernel_ready /\ ~kernel_cmd.write
                          THEN Value(kernel_cmd.reg) ELSE kernel_data_out
    /\ arm' = IF Writes("arm") THEN kernel_data_in = 1 ELSE arm
    /\ regs' = [r \in DOMAIN regs |->
                  CASE Writes(r) -> kernel_data_in
                    [] ~Writes(r) /\ turning /\ r \in {"dx", "dy"} -> Neg(regs[r])
                    [] ~Writes(r) /\ ~(turning /\ r \in {"dx", "dy"}) -> regs[r]]
-----------------------------------------------------------------------------
(* The scan *)

PlusUnbounded(v, d) == v + d    \* mutant: no wrap

Plus(v, d) == (v + d) % PosMod

DacsFinished == x_finished /\ y_finished

(* The task check_arm: only while a timer runs. *)
check_arm(next) ==
    IF arm THEN state' = next /\ UNCHANGED running
           ELSE state' = "WAIT_ON_ARM" /\ running' = FALSE

WaitOnArm ==
    /\ state = "WAIT_ON_ARM"
    /\ IF arm
       THEN /\ running' = TRUE
            /\ is_reverse' = FALSE /\ sample' = 0 /\ line' = 0
            /\ x_to_dac' = Word("read", 0) /\ y_to_dac' = Word("read", 0)
            /\ coord_arm' = TRUE
            /\ adc_arm' = 0
            /\ state' = "REQUEST_DAC_VALUES"
       ELSE UNCHANGED <<running, point, x_to_dac, y_to_dac, coord_arm, adc_arm,
                        state>>
    /\ UNCHANGED <<counter, x_val, y_val, adc_used_tmp, adc_data_tmp,
                   mem_commit, data>>

RequestDacValues ==
    /\ state = "REQUEST_DAC_VALUES"
    /\ IF DacsFinished
       THEN /\ x_to_dac' = Nop /\ y_to_dac' = Nop
            /\ coord_arm' = FALSE
            /\ state' = "GET_DAC_VALUES"
            /\ counter' = 0
       ELSE UNCHANGED <<x_to_dac, y_to_dac, coord_arm, state, counter>>
    /\ UNCHANGED <<running, point, x_val, y_val, adc_used_tmp, adc_data_tmp,
                   adc_arm, mem_commit, data>>

WaitBetweenCommands ==
    /\ state = "GET_DAC_VALUES"
    /\ counter < DAC_WAIT_BETWEEN_CMD
    /\ counter' = counter + 1
    /\ check_arm("GET_DAC_VALUES")
    /\ UNCHANGED <<point, x_val, y_val, adc_used_tmp, adc_data_tmp, outputs>>

GetDacValues ==
    /\ state = "GET_DAC_VALUES"
    /\ counter = DAC_WAIT_BETWEEN_CMD
    /\ \/ /\ ~coord_arm
          /\ coord_arm' = TRUE
          /\ UNCHANGED <<x_val, y_val, counter, state>>
       \/ /\ coord_arm /\ DacsFinished
          /\ x_val' = x_from_dac.val /\ y_val' = y_from_dac.val
          /\ coord_arm' = FALSE
          /\ counter' = 0
          /\ state' = "WAIT_ADVANCE"
       \/ /\ coord_arm /\ ~DacsFinished
          /\ UNCHANGED <<x_val, y_val, coord_arm, counter, state>>
    /\ UNCHANGED <<running, point, adc_used_tmp, adc_data_tmp, x_to_dac,
                   y_to_dac, adc_arm, mem_commit, data>>

(* With a settle time of 0 arm is never looked at here. *)
Settle ==
    /\ state = "WAIT_ADVANCE"
    /\ counter < regs.settle_time
    /\ check_arm("WAIT_ADVANCE")
    /\ counter' = counter + 1
    /\ UNCHANGED <<point, x_val, y_val, adc_used_tmp, adc_data_tmp, outputs>>

ArmAdcs ==
    /\ state = "WAIT_ADVANCE"
    /\ counter >= regs.settle_time
    /\ adc_arm' = regs.adc_used
    /\ adc_used_tmp' = regs.adc_used
    /\ state' = "MEASURE"
    /\ UNCHANGED <<running, point, counter, x_val, y_val, adc_data_tmp,
                   coord_arm, x_to_dac, y_to_dac, mem_commit, data>>

(* adc_data[i] is the sample of ADC i. *)
Measure ==
    /\ state = "MEASURE"
    /\ IF adc_finished = adc_arm
       THEN /\ adc_arm' = 0
            /\ adc_data_tmp' = [i \in Adcs |-> i]
            /\ state' = "SCAN_ADC_VALUES"
            /\ counter' = 0
       ELSE UNCHANGED <<adc_arm, adc_data_tmp, state, counter>>
    /\ UNCHANGED <<running, point, x_val, y_val, adc_used_tmp, coord_arm,
                   x_to_dac, y_to_dac, mem_commit, data>>
-----------------------------------------------------------------------------
(* SCAN_ADC_VALUES *)

PointDone == state = "SCAN_ADC_VALUES" /\ adc_used_tmp = 0 /\ ~mem_commit
EndOfSweepLate == sample = regs.max_samples     \* mutant: one point more

(* max_samples - 1 has the 32 bits of the literal: sample never equals it  *)
(* when max_samples is 0.  The same goes for the lines.                    *)
EndOfSweep == sample = regs.max_samples - 1

TurningOutward == PointDone /\ EndOfSweep /\ ~is_reverse   \* mutant: only once a line

(* dx and dy are negated at the end of every sweep. *)
Turning == PointDone /\ EndOfSweep

NextPoint ==
    /\ PointDone
    /\ IF EndOfSweep
       THEN /\ state' = IF is_reverse THEN "NEXT_LINE" ELSE "ADVANCE_DAC_WRITE"
            /\ is_reverse' = ~is_reverse
            /\ sample' = 0
       ELSE /\ sample' = (sample + 1) % SampleMod
            /\ state' = "ADVANCE_DAC_WRITE"
            /\ UNCHANGED is_reverse
    /\ UNCHANGED <<running, line, counter, x_val, y_val, adc_used_tmp,
                   adc_data_tmp, outputs>>

SampleTaken ==
    /\ state = "SCAN_ADC_VALUES" /\ ~PointDone
    /\ mem_finished
    /\ mem_commit' = FALSE
    /\ UNCHANGED <<running, state, point, counter, x_val, y_val, adc_used_tmp,
                   adc_data_tmp, coord_arm, x_to_dac, y_to_dac, adc_arm, data>>

(* The shift goes on while a sample waits to be taken. *)
ShiftSamples ==
    /\ state = "SCAN_ADC_VALUES" /\ ~PointDone
    /\ ~mem_finished
    /\ adc_used_tmp' = (2 * adc_used_tmp) % 2^ADCNUM
    /\ adc_data_tmp' = [i \in Adcs |-> IF i = 0 THEN NoSample
                                                ELSE adc_data_tmp[i - 1]]
    /\ IF adc_used_tmp >= 2^(ADCNUM - 1)
       THEN data' = adc_data_tmp[ADCNUM - 1] /\ mem_commit' = TRUE
       ELSE UNCHANGED <<data, mem_commit>>
    /\ UNCHANGED <<running, state, point, counter, x_val, y_val, coord_arm,
                   x_to_dac, y_to_dac, adc_arm>>
-----------------------------------------------------------------------------
(* Moving the probe *)

Move(ax, ay) ==
    /\ x_val' = Plus(x_val, ax) /\ y_val' = Plus(y_val, ay)
    /\ x_to_dac' = Word("write", x_val') /\ y_to_dac' = Word("write", y_val')
    /\ coord_arm' = TRUE

ArriveUnlessAborted ==          \* mutant: abort in the middle of a transfer
    /\ coord_arm
    /\ counter' = 0
    /\ state' = IF ~arm THEN "WAIT_ON_ARM"
                ELSE IF DacsFinished THEN "WAIT_ADVANCE" ELSE state
    /\ coord_arm' = ~(arm /\ DacsFinished)
    /\ UNCHANGED <<x_val, y_val, x_to_dac, y_to_dac>>

Arrive ==
    /\ coord_arm
    /\ IF DacsFinished
       THEN counter' = 0 /\ state' = "WAIT_ADVANCE" /\ coord_arm' = FALSE
       ELSE UNCHANGED <<counter, state, coord_arm>>
    /\ UNCHANGED <<x_val, y_val, x_to_dac, y_to_dac>>

AdvanceDacWrite ==
    /\ state = "ADVANCE_DAC_WRITE"
    /\ \/ ~coord_arm /\ Move(regs.dx, regs.dy) /\ UNCHANGED <<counter, state>>
       \/ Arrive
    /\ UNCHANGED <<running, point, adc_used_tmp, adc_data_tmp, adc_arm,
                   mem_commit, data>>

(* A step at right angles, (dx,dy) turned by 90 degrees. *)
NextLine ==
    /\ state = "NEXT_LINE"
    /\ \/ /\ ~coord_arm
          /\ line = regs.max_lines - 1
          /\ state' = "WAIT_ON_ARM_DEASSERT"
          /\ UNCHANGED <<sample, line, counter, x_val, y_val, coord_arm,
                         x_to_dac, y_to_dac>>
       \/ /\ ~coord_arm
          /\ line # regs.max_lines - 1
          /\ sample' = 0 /\ line' = (line + 1) % SampleMod
          /\ Move(regs.dy, Neg(regs.dx))
          /\ UNCHANGED <<counter, state>>
       \/ Arrive /\ UNCHANGED <<sample, line>>
    /\ UNCHANGED <<running, is_reverse, adc_used_tmp, adc_data_tmp, adc_arm,
                   mem_commit, data>>

DeassertSilently ==             \* mutant: the scan does not say that it ended
    /\ state = "WAIT_ON_ARM_DEASSERT"
    /\ state' = IF arm THEN state ELSE "WAIT_ON_ARM"
    /\ UNCHANGED <<running, point, counter, x_val, y_val, adc_used_tmp,
                   adc_data_tmp, outputs>>

(* running is cleared only if arm is still up when the scan has ended.     *)
WaitOnArmDeassert ==
    /\ state = "WAIT_ON_ARM_DEASSERT"
    /\ IF arm THEN running' = FALSE /\ UNCHANGED state
              ELSE state' = "WAIT_ON_ARM" /\ UNCHANGED running
    /\ UNCHANGED <<point, counter, x_val, y_val, adc_used_tmp, adc_data_tmp,
                   outputs>>

ScanStep ==
    \/ WaitOnArm \/ RequestDacValues \/ WaitBetweenCommands \/ GetDacValues
    \/ Settle \/ ArmAdcs \/ Measure \/ NextPoint \/ SampleTaken \/ ShiftSamples
    \/ AdvanceDacWrite \/ NextLine \/ WaitOnArmDeassert
-----------------------------------------------------------------------------
(* The units around it *)

(* A DAC takes a frame when its select line is released. *)
Dac(phase, sent, current, answer) ==
    IF phase = "settle"
    THEN /\ current' = IF sent.op = "write" THEN sent.val ELSE current
         /\ answer' = IF sent.op = "read" THEN Word("read", current) ELSE Nop
    ELSE UNCHANGED <<current, answer>>

(* The ADCs answer in any order and keep their answer while armed.         *)
handle_adc ==
    \E f \in 0..2^ADCNUM - 1 :
        /\ Bits(f) \subseteq Bits(adc_arm')
        /\ adc_arm' # 0 => Bits(adc_finished) \subseteq Bits(f)
        /\ adc_finished' = f

full == fifo_level = FIFO_DEPTH

(* Behind the FIFO the RAM shim takes words away at its own pace.          *)
FifoDrains ==
    \E taken \in 0..1 :
        /\ taken <= fifo_level
        /\ fifo_level' = fifo_level - taken + IF write_enable THEN 1 ELSE 0
        /\ fifo_level' <= FIFO_DEPTH
-----------------------------------------------------------------------------
(* The processor.  Its script is a list of registers to write; each is     *)
(* read, written and read back, as write_raster_reg() does.                *)

Entry(r, v) == [reg |-> r, val |-> v]

(* What init_values() writes. *)
Configuration(p) ==
    <<Entry("max_samples", p.max_samples), Entry("max_lines", p.max_lines),
      Entry("settle_time", p.settle_time), Entry("dx", p.dx), Entry("dy", p.dy),
      Entry("adc_used", p.adc_used)>>

Issue(r, write, v) ==
    /\ kernel_cmd' = [reg |-> r, write |-> write]
    /\ kernel_data_in' = v
    /\ kernel_ready' = TRUE

AwaitFinished ==
    /\ kernel_ready
    /\ kernel_ready' = ~kernel_finished'
    /\ IF kernel_finished'
       THEN CASE access = "old"   -> access' = "write" /\ UNCHANGED script
              [] access = "write" -> access' = "check" /\ UNCHANGED script
              [] access = "check" -> access' = "old" /\ script' = Tail(script)
       ELSE UNCHANGED <<access, script>>
    /\ UNCHANGED <<kernel_cmd, kernel_data_in, scans, asked>>

write_raster_reg ==
    /\ ~kernel_ready /\ script # <<>>
    /\ IF access = "write"
       THEN Issue(Head(script).reg, TRUE, Head(script).val)
       ELSE Issue(Head(script).reg, FALSE, kernel_data_in)
    /\ UNCHANGED <<script, access, scans, asked>>

Plan(s) ==
    /\ ~kernel_ready /\ script = <<>>
    /\ script' = s
    /\ UNCHANGED <<kernel_cmd, kernel_data_in, kernel_ready, access>>

(* A scan is configured as a whole before it is started. *)
BeginScan ==
    /\ ~arm /\ ~running /\ scans < SCANS
    /\ \E p \in ParamSets :
          /\ Plan(Append(Configuration(p), Entry("arm", 1)))
          /\ asked' = p
    /\ scans' = scans + 1

(* The processor may lower arm when the scan has ended, or to end it, and  *)
(* may try to change a register meanwhile.                                 *)
LowerArm == arm /\ Plan(<<Entry("arm", 0)>>) /\ UNCHANGED <<scans, asked>>

WriteDuringScan ==
    /\ arm /\ running
    /\ Plan(<<Entry("dx", 0)>>)
    /\ UNCHANGED <<scans, asked>>

Kernel ==
    \/ AwaitFinished \/ write_raster_reg
    \/ BeginScan \/ LowerArm \/ WriteDuringScan
    \/ ~kernel_ready /\ script = <<>> /\ UNCHANGED bench
-----------------------------------------------------------------------------
Started == state = "WAIT_ON_ARM" /\ arm

(* History only. *)
Record ==
    /\ origin' = IF Started THEN <<x_dac, y_dac>> ELSE origin
    /\ measured' = IF Started THEN 0
                   ELSE IF state = "WAIT_ADVANCE" /\ state' = "MEASURE"
                   THEN measured + 1 ELSE measured
    /\ previous' = IF state = "MEASURE" /\ state' # "MEASURE"
                   THEN <<x_dac, y_dac>> ELSE previous
    /\ accepted' = IF state = "MEASURE" THEN <<>>
                   ELSE IF write_enable THEN Append(accepted, write_dat)
                   ELSE accepted

Init ==
    /\ kernel_cmd = [reg |-> "running", write |-> FALSE]
    /\ kernel_data_in = 0 /\ kernel_ready = FALSE
    /\ kernel_finished = FALSE /\ kernel_data_out = 0
    /\ regs = [max_samples |-> 0, max_lines |-> 0, settle_time |-> 0,
               dx |-> 0, dy |-> 0, adc_used |-> 0]
    /\ arm = FALSE /\ running = FALSE
    /\ state = "WAIT_ON_ARM"
    /\ sample = 0 /\ line = 0 /\ counter = 0 /\ is_reverse = FALSE
    /\ x_val = 0 /\ y_val = 0
    /\ adc_used_tmp = 0 /\ adc_data_tmp = [i \in Adcs |-> NoSample]
    /\ coord_arm = FALSE /\ x_to_dac = Nop /\ y_to_dac = Nop
    /\ adc_arm = 0 /\ mem_commit = FALSE /\ data = NoSample
    /\ XDac!PowerUp /\ x_from_dac = Nop
    /\ YDac!PowerUp /\ y_from_dac = Nop
    /\ \E o \in Origins : x_dac = o[1] /\ y_dac = o[2]
    /\ x_answer = Nop /\ y_answer = Nop
    /\ adc_finished = 0
    /\ Input!InputInit /\ fifo_level = 0
    /\ script = <<>> /\ access = "old" /\ scans = 0 /\ asked \in ParamSets
    /\ measured = 0 /\ origin = <<x_dac, y_dac>>
    /\ previous = origin /\ accepted = <<>>

Next ==
    /\ ScanStep /\ KernelInterface(Turning)
    /\ XDac!Step /\ Dac(x_phase, x_sent, x_dac, x_answer)
    /\ YDac!Step /\ Dac(y_phase, y_sent, y_dac, y_answer)
    /\ Input!Accept(full) /\ FifoDrains
    /\ handle_adc
    /\ Kernel
    /\ Record

(* The clock does not stop; a frame comes to its end (SpiTransfer), the    *)
(* ADCs answer and system memory takes what is in the FIFO.                *)
Fairness ==
    /\ WF_vars(Next)
    /\ []<>(x_phase # "shift") /\ []<>(y_phase # "shift")
    /\ []<>(adc_finished = adc_arm)
    /\ []<>(~full)

Spec == Init /\ [][Next]_vars /\ Fairness
-----------------------------------------------------------------------------
(* Properties *)

ScanStates == {"WAIT_ON_ARM", "REQUEST_DAC_VALUES", "GET_DAC_VALUES",
               "WAIT_ADVANCE", "MEASURE", "SCAN_ADC_VALUES", "ADVANCE_DAC_WRITE",
               "NEXT_LINE", "WAIT_ON_ARM_DEASSERT"}

RasterTypeOK ==
    /\ {kernel_ready, kernel_finished, arm, running, is_reverse, coord_arm,
        mem_commit} \subseteq BOOLEAN
    /\ state \in ScanStates
    /\ {sample, line} \subseteq 0..SampleMod - 1
    /\ {x_val, y_val, x_dac, y_dac, regs.dx, regs.dy} \subseteq Code
    /\ {adc_used_tmp, adc_arm, adc_finished} \subseteq 0..2^ADCNUM - 1
    /\ data \in Adcs \cup {NoSample}
    /\ adc_data_tmp \in [Adcs -> Adcs \cup {NoSample}]
    /\ XDac!TypeOK /\ YDac!TypeOK
    /\ fifo_level \in 0..FIFO_DEPTH

(* "After a single step, the ADCs connected to the raster scanner are      *)
(* activated" (raster.v:7): whenever ADCs are armed both DACs are at rest, *)
(* the first point of a scan is where the probe was when it began, and     *)
(* every other is one step from the last, whatever the registers hold by   *)
(* then: (dx, dy) as it was asked for on the way out, the same backwards   *)
(* on the way back, and at right angles to begin a new line.  (A scan with *)
(* a size of 0 has no lines.)                                              *)
StepTo(k) ==
    LET i == k % (2 * asked.max_samples)
    IN  IF i = 0 THEN <<asked.dy, -asked.dx>>
        ELSE IF i < asked.max_samples THEN <<asked.dx, asked.dy>>
        ELSE <<-asked.dx, -asked.dy>>

Sized == asked.max_samples > 0 /\ asked.max_lines > 0

AtRest == {x_phase, y_phase} \cap {"select", "load", "shift", "settle"} = {}

SingleStep ==
    state = "MEASURE" /\ Sized =>
        /\ AtRest
        /\ IF measured = 1 THEN <<x_dac, y_dac>> = origin
           ELSE LET step == StepTo(measured - 1)
                IN  /\ x_dac = (previous[1] + step[1]) % PosMod
                    /\ y_dac = (previous[2] + step[2]) % PosMod

(* "This module sweeps two DACs (the X and Y piezos) across a box, where   *)
(* the X and Y axes may be at an angle" (raster.v:6): no point is measured *)
(* outside the box of max_samples by max_lines points that the probe is    *)
(* asked to sweep, with its corner where the scan began.                   *)
InBox ==
    state = "MEASURE" =>
        \E i \in 0..asked.max_samples - 1, j \in 0..asked.max_lines - 1 :
            <<x_dac, y_dac>> =
                <<(origin[1] + i * asked.dx + j * asked.dy) % PosMod,
                  (origin[2] + i * asked.dy - j * asked.dx) % PosMod>>

(* A scan that runs to its end measures every point once (store_index in   *)
(* raster_sim.cpp).                                                        *)
EveryPoint ==
    state = "WAIT_ON_ARM_DEASSERT" =>
        measured = 2 * asked.max_samples * asked.max_lines

(* "each register can only be modified when the loop is not running": from *)
(* its start to its end a scan works with what was asked for, but for the  *)
(* signs of dx and dy.                                                     *)
ParamsKept ==
    state \notin {"WAIT_ON_ARM", "WAIT_ON_ARM_DEASSERT"} =>
        /\ \A r \in DOMAIN asked \ {"dx", "dy"} : regs[r] = asked[r]
        /\ \/ regs.dx = asked.dx /\ regs.dy = asked.dy
           \/ regs.dx = Neg(asked.dx) /\ regs.dy = Neg(asked.dy)

(* "each register can only be modified when the loop is not running"       *)
(* (raster.v:155-157): when no scan is under way the registers hold what   *)
(* the processor wrote into them and read back, for the next scan too.     *)
RegistersStand ==
    state = "WAIT_ON_ARM" /\ ~arm /\ script = <<>> /\ scans > 0 => regs = asked

(* An aborted scan leaves nothing behind: no DAC or ADC is armed and no    *)
(* sample is offered while the scanner waits to be armed                   *)
(* (check_deassert_dac_arm).                                               *)
AbortIsClean ==
    state = "WAIT_ON_ARM" => ~coord_arm /\ adc_arm = 0 /\ ~mem_commit

(* A scan ends, unless arm is taken away in the middle of it.              *)
ScanEnds == running ~> ~running \/ ~arm

(* "The arm register is special: it can be adjusted while the loop is      *)
(* running (in order to terminate the scan)": without arm the scanner is   *)
(* stopped in the end, and says so.                                        *)
AbortEnds == running /\ ~arm ~> ~running \/ arm

(* "each value read into system memory (see ram_shim)", the highest ADC    *)
(* first: when the probe moves on the FIFO has taken the samples of the    *)
(* point that was measured, each once.                                     *)
Descending(S) ==
    CHOOSE s \in [1..Cardinality(S) -> S] :
        \A i, j \in DOMAIN s : i < j => s[i] > s[j]

SamplesTaken ==
    state = "WAIT_ADVANCE" /\ measured > 0 =>
        accepted = Descending(Bits(asked.adc_used))
=============================================================================
