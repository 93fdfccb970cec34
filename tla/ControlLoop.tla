---------------------------- MODULE ControlLoop ----------------------------
(***************************************************************************)
(* The control loop, control_loop/control_loop.v.m4, with the units it     *)
(* drives: its DAC master and its ADC master (each an SpiTransfer), the    *)
(* arithmetic unit (MathUnit, the handshake of control_loop_math.v.m4),    *)
(* the DAC on the other end of the wire (control_loop/dac_sim.v) and the   *)
(* software behind the cl_* MMIO registers.                                *)
(*                                                                         *)
(* One step is one rising edge of clk: every unit takes its step in it.    *)
(*                                                                         *)
(* Setpoints and constants are only told apart, an error is represented by *)
(* the setpoint it was measured against and an adjustment by the I it was  *)
(* computed with.  What the arithmetic unit returns for the DAC is any     *)
(* value.                                                                  *)
(***************************************************************************)
EXTENDS Integers

CONSTANTS
    READ_DAC_DELAY,     \* cycles between the two frames of a DAC read
    DAC_SS_WAIT,
    ADC_CONV_WAIT,
    CountMod,           \* 2^CYCLE_COUNT_WID
    DacVals,            \* DAC codes
    ParamSets,          \* the parameter sets software writes
    Rules               \* the rules that software keeps to

(* With READ_DAC_DELAY below 3 the `finished` of the first read frame      *)
(* would still be up when the answer is awaited.                           *)
ASSUME DelayAssumption  == READ_DAC_DELAY \in Nat /\ READ_DAC_DELAY >= 3
ASSUME WaitAssumption   == {DAC_SS_WAIT, ADC_CONV_WAIT} \subseteq Nat \ {0}
ASSUME CountAssumption  == CountMod \in Nat \ {0, 1}
ASSUME ValsAssumption   == DacVals \subseteq Nat /\ 0 \in DacVals
ASSUME ParamsAssumption ==
    ParamSets \subseteq [setpt : Nat, P : Nat, I : Nat, delay : Nat]
ASSUME RulesAssumption == Rules \subseteq {"rewrite", "request", "start"}

VARIABLES
    \* MMIO registers written by software
    run_loop_in, assert_change, setpt_in, P_in, I_in, delay_in,
    \* registers of the loop
    state, timer, running, to_dac, dac_arm, adc_arm, arm_math,
    stored_dac_val, setpt, cl_p_reg, cl_I_reg, dely, adjval_prev, err_prev,
    change_made, counting_timer, last_timer,
    \* DAC master
    dac_phase, dac_count, dac_lag, dac_finished, from_dac, dac_sent, dac_loaded,
    \* ADC master
    adc_phase, adc_count, adc_lag, adc_finished, measured_value,
    \* arithmetic unit
    math_state, math_finished, new_dac_val, e_cur, adj_val,
    \* the DAC
    curset, dac_answer,
    clk,        \* alternates with every step: there always is a next one
    since,     \* cycles since the current iteration began
    period,     \* cycles between the beginnings of the last two iterations
    warm,       \* has the loop completed an iteration since it was started?
    offer,      \* the parameters as they stood when assert_change rose
    dropped     \* has the loop stopped since it acknowledged them?

software == <<run_loop_in, assert_change, setpt_in, P_in, I_in, delay_in>>
params   == <<setpt, cl_p_reg, cl_I_reg, dely>>
loopRegs == <<state, timer, running, to_dac, dac_arm, adc_arm, arm_math,
              stored_dac_val, params, adjval_prev, err_prev>>
timing   == <<counting_timer, last_timer>>
dacVars  == <<dac_phase, dac_count, dac_lag, dac_finished, from_dac, dac_sent,
              dac_loaded>>
adcVars  == <<adc_phase, adc_count, adc_lag, adc_finished, measured_value>>
mathVars == <<math_state, math_finished, new_dac_val, e_cur, adj_val>>
device   == <<curset, dac_answer>>
history  == <<clk, since, period, warm, offer, dropped>>
vars     == <<software, loopRegs, change_made, timing, dacVars, adcVars,
              mathVars, device, history>>

None == -1      \* the value 0 of err_prev and adjval_prev: nothing remembered
X    == -2      \* a DAC code read in the middle of a frame

(* The frames on the DAC's wires, {R/W, DAC_REGISTER, value}. *)
DacWord      == [op : {"nop", "read", "write"}, val : DacVals]
Nop          == [op |-> "nop", val |-> 0]
ReadFrame    == [op |-> "read", val |-> 0]
WriteFrame(v) == [op |-> "write", val |-> v]
Answer(v)    == [op |-> "read", val |-> v]

offered == <<setpt_in, P_in, I_in, delay_in>>

Dac == INSTANCE SpiTransfer WITH
    SS_WAIT <- DAC_SS_WAIT, WordSet <- DacWord, ZeroWord <- Nop,
    Garbage <- {[op |-> "nop", val |-> X]},
    arm <- dac_arm, to_slave <- to_dac, to_master <- dac_answer,
    phase <- dac_phase, count <- dac_count, lag <- dac_lag,
    finished <- dac_finished, from_slave <- from_dac, sent <- dac_sent,
    loaded <- dac_loaded

(* The master of the ADC has no MOSI, and its samples are not told apart.  *)
Adc == INSTANCE SpiTransfer WITH
    SS_WAIT <- ADC_CONV_WAIT, WordSet <- {0}, ZeroWord <- 0, Garbage <- {X},
    arm <- adc_arm, to_slave <- 0, to_master <- 0,
    phase <- adc_phase, count <- adc_count, lag <- adc_lag,
    finished <- adc_finished, from_slave <- measured_value, sent <- 0,
    loaded <- 0

Math == INSTANCE MathUnit WITH
    arm <- arm_math, phase <- math_state, finished <- math_finished,
    results <- <<new_dac_val, e_cur, adj_val>>
-----------------------------------------------------------------------------
States == {"INIT_READ_FROM_DAC", "WAIT_FOR_DAC_READ", "WAIT_FOR_DAC_RESPONSE",
           "CYCLE_START", "WAIT_ON_ADC", "WAIT_ON_MATH", "WAIT_ON_DAC"}

LoopTypeOK ==
    /\ {run_loop_in, assert_change, running, dac_arm, adc_arm, arm_math,
        change_made, math_finished, warm, dropped} \subseteq BOOLEAN
    /\ {setpt_in, P_in, I_in, delay_in, setpt, cl_p_reg, cl_I_reg, dely,
        timer} \subseteq Nat
    /\ state \in States
    /\ to_dac \in DacWord
    /\ {stored_dac_val, new_dac_val, curset} \subseteq DacVals
    /\ {adjval_prev, err_prev, e_cur, adj_val} \subseteq Nat \cup {None}
    /\ {counting_timer, last_timer, since, period} \subseteq 0..CountMod - 1
    /\ math_state \in {"idle", "busy", "disarm"}
    /\ dac_answer \in DacWord
    /\ Dac!TypeOK /\ Adc!TypeOK

(* The registers of an FPGA come up 0 where the source gives no value.     *)
Init ==
    /\ run_loop_in = FALSE /\ assert_change = FALSE
    /\ setpt_in = 0 /\ P_in = 0 /\ I_in = 0 /\ delay_in = 0
    /\ state = "INIT_READ_FROM_DAC"
    /\ timer = 0 /\ running = FALSE
    /\ to_dac = Nop /\ dac_arm = FALSE /\ adc_arm = FALSE /\ arm_math = FALSE
    /\ stored_dac_val = 0
    /\ setpt = 0 /\ cl_p_reg = 0 /\ cl_I_reg = 0 /\ dely = 0
    /\ adjval_prev = None /\ err_prev = None
    /\ change_made = FALSE
    /\ counting_timer = 0 /\ last_timer = 0
    /\ Dac!PowerUp /\ from_dac = Nop
    /\ Adc!PowerUp
    /\ math_state = "idle" /\ math_finished = FALSE
    /\ new_dac_val = 0 /\ e_cur = None /\ adj_val = None
    /\ curset \in DacVals /\ dac_answer = Nop
    /\ clk = FALSE /\ since = 0 /\ period = 0 /\ warm = FALSE /\ offer = offered
    /\ dropped = FALSE
-----------------------------------------------------------------------------
(* The main state machine *)

reset_loop ==
    /\ to_dac' = Nop
    /\ dac_arm' = FALSE /\ adc_arm' = FALSE /\ arm_math' = FALSE
    /\ state' = "INIT_READ_FROM_DAC"
    /\ timer' = 0
    /\ stored_dac_val' = 0
    /\ setpt' = 0 /\ dely' = 0 /\ cl_I_reg' = 0
    /\ adjval_prev' = None /\ err_prev' = None
    /\ UNCHANGED <<cl_p_reg, running>>

StayStopped ==
    /\ state = "INIT_READ_FROM_DAC"
    /\ ~run_loop_in
    /\ reset_loop

(* Ask the DAC for its register. *)
StartLoop ==
    /\ state = "INIT_READ_FROM_DAC"
    /\ run_loop_in
    /\ running' = TRUE
    /\ to_dac' = ReadFrame
    /\ dac_arm' = TRUE
    /\ state' = "WAIT_FOR_DAC_READ"
    /\ UNCHANGED <<timer, adc_arm, arm_math, stored_dac_val, params,
                   adjval_prev, err_prev>>

WaitForDacRead ==
    /\ state = "WAIT_FOR_DAC_READ"
    /\ IF dac_finished
       THEN /\ state' = "WAIT_FOR_DAC_RESPONSE"
            /\ dac_arm' = FALSE
            /\ timer' = 1
       ELSE UNCHANGED <<state, dac_arm, timer>>
    /\ UNCHANGED <<running, to_dac, adc_arm, arm_math, stored_dac_val, params,
                   adjval_prev, err_prev>>

FrameGapOfOne == 1              \* mutant: the next frame follows at once

FrameGap == READ_DAC_DELAY

ArmSecondFrameUnarmed == dac_arm' = FALSE /\ to_dac' = Nop      \* mutant

ArmSecondFrame == dac_arm' = TRUE /\ to_dac' = Nop

(* The answer comes in the frame after the one that asked for it. *)
WaitBetweenFrames ==
    /\ state = "WAIT_FOR_DAC_RESPONSE"
    /\ timer # 0
    /\ \/ /\ timer < FrameGap
          /\ timer' = timer + 1
          /\ UNCHANGED <<dac_arm, to_dac>>
       \/ /\ timer = FrameGap
          /\ ArmSecondFrame
          /\ timer' = 0
    /\ UNCHANGED <<state, running, adc_arm, arm_math, stored_dac_val, params,
                   adjval_prev, err_prev>>

WaitForDacResponse ==
    /\ state = "WAIT_FOR_DAC_RESPONSE"
    /\ timer = 0
    /\ IF dac_finished
       THEN /\ state' = "CYCLE_START"
            /\ dac_arm' = FALSE
            /\ stored_dac_val' = from_dac.val
       ELSE UNCHANGED <<state, dac_arm, stored_dac_val>>
    /\ UNCHANGED <<timer, running, to_dac, adc_arm, arm_math, params,
                   adjval_prev, err_prev>>
-----------------------------------------------------------------------------
(* CYCLE_START *)

Stop ==
    /\ state = "CYCLE_START"
    /\ ~run_loop_in
    /\ reset_loop
    /\ UNCHANGED change_made

DelayCycle ==
    /\ state = "CYCLE_START"
    /\ run_loop_in
    /\ timer < dely
    /\ timer' = timer + 1
    /\ UNCHANGED <<state, running, to_dac, dac_arm, adc_arm, arm_math,
                   stored_dac_val, params, adjval_prev, err_prev, change_made>>

TakeParamsButDelay ==           \* mutant: one parameter is forgotten
    /\ setpt' = setpt_in
    /\ cl_I_reg' = I_in
    /\ cl_p_reg' = P_in
    /\ UNCHANGED dely

TakeParams ==
    /\ setpt' = setpt_in
    /\ dely' = delay_in
    /\ cl_I_reg' = I_in
    /\ cl_p_reg' = P_in

ApplyChangeAgain ==             \* mutant: applied in every iteration
    \/ /\ assert_change
       /\ change_made' = TRUE
       /\ TakeParams
       /\ adjval_prev' = None
       /\ err_prev' = None
    \/ /\ ~assert_change
       /\ UNCHANGED <<change_made, params, adjval_prev, err_prev>>

ApplyChangeKeepHistory ==       \* mutant: previous values are kept
    \/ /\ assert_change /\ ~change_made
       /\ change_made' = TRUE
       /\ TakeParams
       /\ UNCHANGED <<adjval_prev, err_prev>>
    \/ /\ ~(assert_change /\ ~change_made)
       /\ UNCHANGED <<change_made, params, adjval_prev, err_prev>>

ApplyChangeSilently ==          \* mutant: no acknowledgement
    /\ IF assert_change /\ ~change_made
       THEN TakeParams /\ adjval_prev' = None /\ err_prev' = None
       ELSE UNCHANGED <<params, adjval_prev, err_prev>>
    /\ UNCHANGED change_made

ApplyChange ==
    \/ /\ assert_change /\ ~change_made
       /\ change_made' = TRUE
       /\ TakeParams
       /\ adjval_prev' = None
       /\ err_prev' = None
    \/ /\ ~(assert_change /\ ~change_made)
       /\ UNCHANGED <<change_made, params, adjval_prev, err_prev>>

BeginIteration ==
    /\ state = "CYCLE_START"
    /\ run_loop_in
    /\ timer >= dely
    /\ ApplyChange
    /\ state' = "WAIT_ON_ADC"
    /\ timer' = 0
    /\ adc_arm' = TRUE
    /\ UNCHANGED <<running, to_dac, dac_arm, arm_math, stored_dac_val>>
-----------------------------------------------------------------------------
WaitOnAdcNot ==                 \* mutant: the sample is used too early
    /\ state = "WAIT_ON_ADC"
    /\ adc_arm' = FALSE /\ arm_math' = TRUE /\ state' = "WAIT_ON_MATH"
    /\ UNCHANGED <<timer, running, to_dac, dac_arm, stored_dac_val, params,
                   adjval_prev, err_prev>>

WaitOnAdc ==
    /\ state = "WAIT_ON_ADC"
    /\ IF adc_finished
       THEN adc_arm' = FALSE /\ arm_math' = TRUE /\ state' = "WAIT_ON_MATH"
       ELSE UNCHANGED <<adc_arm, arm_math, state>>
    /\ UNCHANGED <<timer, running, to_dac, dac_arm, stored_dac_val, params,
                   adjval_prev, err_prev>>

WaitOnMath ==
    /\ state = "WAIT_ON_MATH"
    /\ IF math_finished
       THEN /\ arm_math' = FALSE
            /\ dac_arm' = TRUE
            /\ stored_dac_val' = new_dac_val
            /\ to_dac' = WriteFrame(new_dac_val)
            /\ state' = "WAIT_ON_DAC"
       ELSE UNCHANGED <<arm_math, dac_arm, stored_dac_val, to_dac, state>>
    /\ UNCHANGED <<timer, running, adc_arm, params, adjval_prev, err_prev>>

WaitOnDac ==
    /\ state = "WAIT_ON_DAC"
    /\ IF dac_finished
       THEN /\ state' = "CYCLE_START"
            /\ dac_arm' = FALSE
            /\ err_prev' = e_cur
            /\ adjval_prev' = adj_val
       ELSE UNCHANGED <<state, dac_arm, err_prev, adjval_prev>>
    /\ UNCHANGED <<timer, running, to_dac, adc_arm, arm_math, stored_dac_val,
                   params>>

(* A second always block: the acknowledge falls once software has taken    *)
(* its request back, but never while the loop is in CYCLE_START.           *)
ClearChangeMade ==
    /\ state # "CYCLE_START"
    /\ change_made' = (change_made /\ assert_change)

LoopStep ==
    \/ Stop \/ DelayCycle \/ BeginIteration
    \/ /\ \/ StayStopped \/ StartLoop \/ WaitForDacRead \/ WaitBetweenFrames
          \/ WaitForDacResponse \/ WaitOnAdc \/ WaitOnMath \/ WaitOnDac
       /\ ClearChangeMade

CountCyclesFromZero ==          \* mutant: one cycle is not counted
    IF state = "CYCLE_START" /\ timer = 0
    THEN counting_timer' = 0 /\ last_timer' = counting_timer
    ELSE /\ counting_timer' = IF running
                              THEN (counting_timer + 1) % CountMod
                              ELSE counting_timer
         /\ UNCHANGED last_timer

CountCyclesUnbounded ==         \* mutant: the counter does not wrap
    IF state = "CYCLE_START" /\ timer = 0
    THEN counting_timer' = 1 /\ last_timer' = counting_timer
    ELSE /\ counting_timer' = IF running THEN counting_timer + 1
                                         ELSE counting_timer
         /\ UNCHANGED last_timer

(* The counters run from the first start on: nothing but power-up clears   *)
(* `running`, so they also count the time the loop is stopped.             *)
CountCycles ==
    IF state = "CYCLE_START" /\ timer = 0
    THEN counting_timer' = 1 /\ last_timer' = counting_timer
    ELSE /\ counting_timer' = IF running
                              THEN (counting_timer + 1) % CountMod
                              ELSE counting_timer
         /\ UNCHANGED last_timer
-----------------------------------------------------------------------------
(* The arithmetic unit: it works while armed, shows `finished` only while  *)
(* armed, and keeps its results until it is armed again.                   *)

MathIdle == Math!Idle /\ UNCHANGED <<new_dac_val, e_cur, adj_val>>

MathWork ==
    /\ Math!Work
    /\ IF math_state' = "disarm"
       THEN new_dac_val' \in DacVals /\ e_cur' = setpt /\ adj_val' = cl_I_reg
       ELSE UNCHANGED <<new_dac_val, e_cur, adj_val>>

MathDone == Math!Done /\ UNCHANGED <<new_dac_val, e_cur, adj_val>>

MathStep == MathIdle \/ MathWork \/ MathDone

MathHalt ==
    /\ Math!Halt
    /\ e_cur' = None /\ adj_val' = None
    /\ UNCHANGED new_dac_val
-----------------------------------------------------------------------------
(* The DAC: a frame takes effect when its select line is released. *)

EndOfFrame ==
    CASE dac_sent.op = "read"  -> curset' = curset /\ dac_answer' = Answer(curset)
      [] dac_sent.op = "write" -> curset' = dac_sent.val /\ dac_answer' = Nop
      [] dac_sent.op = "nop"   -> curset' = curset /\ dac_answer' = Nop

(* While the loop is stopped the DAC may be given to the MMIO master.      *)
OtherMaster ==
    /\ state = "INIT_READ_FROM_DAC" /\ ~run_loop_in
    /\ dac_phase = "idle" /\ ~dac_finished
    /\ curset' \in DacVals /\ dac_answer' = Nop

DeviceStep ==
    \/ dac_phase = "settle" /\ EndOfFrame
    \/ dac_phase # "settle" /\ UNCHANGED device
    \/ OtherMaster

(* A reset cuts a frame off; if it does so after the last clock pulse, the *)
(* frame still counts.                                                     *)
DeviceHalt ==
    \/ dac_phase \in {"shift", "settle"} /\ EndOfFrame
    \/ dac_phase # "settle" /\ UNCHANGED device
-----------------------------------------------------------------------------
(* Software *)

SetParams(p) ==
    /\ setpt_in' = p.setpt /\ P_in' = p.P /\ I_in' = p.I
    /\ delay_in' = p.delay

KeepParams == UNCHANGED <<setpt_in, P_in, I_in, delay_in>>

(* What the descriptions in mmio_descr.py suggest software should do, and  *)
(* a little more.  The parameters are not rewritten between a request and  *)
(* its acknowledgement, a request is made only after the acknowledgement   *)
(* of the last one has fallen, and the loop is started with no request     *)
(* pending and not in the one cycle in which it stops.                     *)
Careful == {"rewrite", "request", "start"} \subseteq Rules

MayRewrite == "rewrite" \in Rules => (assert_change => change_made)
MayRequest == "request" \in Rules => ~change_made
MayStart   ==
    "start" \in Rules => ~assert_change /\ ~change_made /\ state # "CYCLE_START"

(* Nothing reads the parameters before a request is made, so a whole set   *)
(* of them is written at once.                                             *)
WriteParams ==
    /\ MayRewrite
    /\ \E p \in ParamSets : SetParams(p)
    /\ UNCHANGED <<run_loop_in, assert_change>>

WriteAssertChange ==
    /\ ~assert_change => MayRequest
    /\ assert_change' = ~assert_change
    /\ UNCHANGED run_loop_in /\ KeepParams

WriteRunLoop ==
    /\ ~run_loop_in => MayStart
    /\ run_loop_in' = ~run_loop_in
    /\ UNCHANGED assert_change /\ KeepParams

(* At most one write reaches the MMIO registers in a cycle.                *)
SoftwareStep ==
    WriteParams \/ WriteAssertChange \/ WriteRunLoop \/ UNCHANGED software

-----------------------------------------------------------------------------
Entering == state' = "CYCLE_START" /\ state # "CYCLE_START"

(* History only: never read by the circuit. *)
Record ==
    /\ clk' = ~clk
    /\ since' = IF Entering \/ state' = "INIT_READ_FROM_DAC"
                THEN 0 ELSE (since + 1) % CountMod
    /\ period' = IF Entering THEN (since + 1) % CountMod ELSE period
    /\ warm' = IF Entering THEN state = "WAIT_ON_DAC" ELSE warm
    /\ IF assert_change' /\ ~assert_change
       THEN offer' = offered' /\ dropped' = FALSE
       ELSE /\ offer' = offer
            /\ dropped' = (dropped \/ (change_made' /\ state' = "INIT_READ_FROM_DAC"))

Tick ==
    /\ LoopStep /\ CountCycles
    /\ Dac!Step /\ Adc!Step /\ MathStep /\ DeviceStep

(* The module reset.  change_made, running and cl_p_reg have none.         *)
Reset ==
    /\ reset_loop
    /\ ClearChangeMade \/ (state = "CYCLE_START" /\ UNCHANGED change_made)
    /\ counting_timer' = 0 /\ last_timer' = 0
    /\ Dac!Halt /\ Adc!Halt /\ MathHalt /\ DeviceHalt

Next == (Tick \/ Reset) /\ SoftwareStep /\ Record

(* The clock never stops.  (Stated with clk, a state formula, and not as   *)
(* the equivalent WF_vars(Next), which TLC evaluates slowly.)  A transfer  *)
(* that is under way comes to its end, as the contract of the SPI masters  *)
(* promises (SpiTransfer!Spec), and so does a calculation.                 *)
Fairness ==
    /\ []<>clk /\ []<>~clk
    /\ []<>(dac_phase # "shift")
    /\ []<>(adc_phase # "shift")
    /\ []<>(math_state # "busy")

Spec == Init /\ [][Next]_vars /\ Fairness
-----------------------------------------------------------------------------
(* Properties *)

Iterating == {"CYCLE_START", "WAIT_ON_ADC", "WAIT_ON_MATH"}

(* "When the loop starts it must find the current value from the DAC [...] *)
(* Afterwards it does not need to query the DAC for the updated value      *)
(* since it was the one that updated the value in the first place"         *)
(* (control_loop.v.m4, Outline): whenever an iteration begins, and until   *)
(* the arithmetic unit has used it, the stored value is the DAC's.         *)
TracksDac == state \in Iterating => stored_dac_val = curset

(* A unit is released only when the transfer it was armed for has ended,   *)
(* and the same transfer is never taken for two: dac_arm and adc_arm fall  *)
(* exactly in the cycle after `finished` rose.                             *)
ReleaseAtTheEnd ==
    [][/\ dac_arm /\ ~dac_arm' /\ Tick => dac_phase = "settle"
       /\ adc_arm /\ ~adc_arm' /\ Tick => adc_phase = "settle"]_vars

(* What the arithmetic unit reads stays put while it works: the ADC master *)
(* is not shifting into measured_value, and no parameter changes.          *)
OperandsStable ==
    [][math_state = "busy" /\ Tick =>
          /\ adc_phase \notin {"load", "shift"} /\ measured_value # X
          /\ UNCHANGED <<params, stored_dac_val, err_prev, adjval_prev,
                         last_timer>>]_vars

(* "On change of constants, previous values are invalidated": an iteration *)
(* never combines a remembered error or adjustment with parameters other   *)
(* than those it was computed with.                                        *)
HistoryMatchesParams ==
    math_state = "busy" =>
        err_prev \in {None, setpt} /\ adjval_prev \in {None, cl_I_reg}

(* cl_change_made: "the parameters have been applied".  While request and  *)
(* acknowledgement are both up and the loop is iterating, it works with    *)
(* the complete set that was on the registers when the request was made.   *)
AckMeansApplied ==
    /\ state \in Iterating \cup {"WAIT_ON_DAC"}
    /\ assert_change /\ change_made
    => <<setpt, cl_p_reg, cl_I_reg, dely>> = offer

(* The code keeps to it as long as the loop is not stopped or reset: that  *)
(* clears setpt, cl_I_reg and dely, and leaves change_made as it is.       *)
AckMeansAppliedInSession == ~dropped => AckMeansApplied

(* cl_assert_change: "While the bit is raised high, the control loop will  *)
(* read the constants at most once": with both bits high the parameters    *)
(* change only by being cleared when the loop stops.                       *)
AppliedOnce ==
    [][assert_change /\ change_made =>
          UNCHANGED params \/ state' = "INIT_READ_FROM_DAC"]_vars

(* The time step handed to the arithmetic unit is the time since the       *)
(* previous iteration began, modulo the width of the counter.  It is not   *)
(* for the first iteration after a start, which has no predecessor.        *)
CyclesArePeriod ==
    warm /\ state \in {"WAIT_ON_ADC", "WAIT_ON_MATH"} => last_timer = period

(* The handshakes of the loop with its three units never deadlock: it      *)
(* keeps coming back to the start of an iteration, and leaves it.          *)
LoopNeverStalls ==
    /\ []<>(state \in {"CYCLE_START", "INIT_READ_FROM_DAC"})
    /\ state = "CYCLE_START" ~> state # "CYCLE_START"

(* A request that software does not take back is acknowledged, unless the  *)
(* loop is stopped or reset first.                                         *)
ChangeIsMade ==
    assert_change /\ state # "INIT_READ_FROM_DAC"
        ~> change_made \/ ~assert_change \/ state = "INIT_READ_FROM_DAC"
=============================================================================
