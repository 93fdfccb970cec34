------------------------- MODULE ControlLoop_proofs -------------------------
(***************************************************************************)
(* The promises of the control loop, for every width of its counters, every*)
(* wait of its units, every delay and every set of parameters:             *)
(*   - the time step it hands to the arithmetic unit (TimeInv);            *)
(*   - what its acknowledgement of a parameter change means (AckInv);      *)
(*   - what its handshakes with the DAC, the ADC and the arithmetic unit   *)
(*     guarantee, the DAC's value first of all (LoopInv).                  *)
(* The last two hold for software that keeps to the protocol.              *)
(***************************************************************************)
EXTENDS ControlLoop, TLAPS

(***************************************************************************)
(* The time step.                                                          *)
(*                                                                         *)
(* timer is 0 in CYCLE_START for one cycle only, the first.  In that cycle *)
(* counting_timer holds the length of the iteration that has just ended;   *)
(* from the next one on it counts the new one.                             *)
(***************************************************************************)
Session   == Iterating \cup {"WAIT_ON_DAC"}
FirstTick == state = "CYCLE_START" /\ timer = 0

TimeTypeOK ==
    /\ state \in States /\ timer \in Nat
    /\ counting_timer \in Nat /\ since \in Nat

TimerInv == state \notin {"WAIT_FOR_DAC_RESPONSE", "CYCLE_START"} => timer = 0

RunningInv == state # "INIT_READ_FROM_DAC" => running

CountInv ==
    state \in Session =>
        IF FirstTick
        THEN since = 0 /\ (warm => counting_timer = period)
        ELSE counting_timer = since /\ (warm => last_timer = period)

TimeInv == TimeTypeOK /\ TimerInv /\ RunningInv /\ CountInv

LEMMA OneMod == 1 % CountMod = 1
BY CountAssumption

LEMMA ModNat == ASSUME NEW x \in Nat PROVE x % CountMod \in Nat
BY CountAssumption

LEMMA TimeInit == Init => TimeInv
BY DEF Init, TimeInv, TimeTypeOK, TimerInv, RunningInv, CountInv, FirstTick,
       Session, Iterating, States, reset_loop

(* How the counters move in a cycle without reset. *)
LEMMA Counting ==
    ASSUME TimeInv, CountCycles, state # "INIT_READ_FROM_DAC"
    PROVE  IF FirstTick
           THEN counting_timer' = 1 /\ last_timer' = counting_timer
           ELSE /\ counting_timer' = (counting_timer + 1) % CountMod
                /\ last_timer' = last_timer
BY DEF TimeInv, RunningInv, CountCycles, FirstTick

(* A step that stays within an iteration, or begins to measure in it.      *)
LEMMA WithinIteration ==
    ASSUME TimeInv, Record, CountCycles, state \in Session, state' \in Session,
           state' = "CYCLE_START" => state = "CYCLE_START" /\ timer' # 0
    PROVE  CountInv'
<1>1. /\ ~FirstTick' /\ ~Entering /\ state' # "INIT_READ_FROM_DAC"
      /\ state # "INIT_READ_FROM_DAC"
    BY DEF FirstTick, Entering, Session, Iterating
<1>2. since' = (since + 1) % CountMod /\ period' = period /\ warm' = warm
    BY <1>1 DEF Record
<1>3. CASE FirstTick
    <2>1. counting_timer' = 1 /\ last_timer' = counting_timer /\ since = 0
        BY <1>1, <1>3, Counting DEF TimeInv, CountInv
    <2>2. since' = 1
        BY <1>2, <2>1, OneMod
    <2>3. warm => counting_timer = period
        BY <1>3 DEF TimeInv, CountInv
    <2>. QED
        BY <1>1, <1>2, <2>1, <2>2, <2>3 DEF CountInv
<1>4. CASE ~FirstTick
    <2>1. /\ counting_timer' = (counting_timer + 1) % CountMod
          /\ last_timer' = last_timer
        BY <1>1, <1>4, Counting
    <2>2. counting_timer = since /\ (warm => last_timer = period)
        BY <1>4 DEF TimeInv, CountInv
    <2>. QED
        BY <1>1, <1>2, <2>1, <2>2 DEF CountInv
<1>. QED
    BY <1>3, <1>4

(* The step from the DAC write into the next iteration. *)
LEMMA NextIteration ==
    ASSUME TimeInv, Record, CountCycles, state = "WAIT_ON_DAC",
           state' = "CYCLE_START", timer' = timer
    PROVE  CountInv'
<1>1. timer = 0 /\ FirstTick' /\ Entering /\ ~FirstTick
    BY DEF TimeInv, TimerInv, FirstTick, Entering
<1>2. since' = 0 /\ period' = (since + 1) % CountMod /\ warm' = TRUE
    BY <1>1 DEF Record
<1>3. counting_timer' = (counting_timer + 1) % CountMod
    BY <1>1, Counting
<1>4. counting_timer = since
    BY <1>1 DEF TimeInv, CountInv, Session
<1>. QED
    BY <1>1, <1>2, <1>3, <1>4 DEF CountInv

(* The step from the DAC read into the first iteration. *)
LEMMA FirstIteration ==
    ASSUME TimeInv, Record, state = "WAIT_FOR_DAC_RESPONSE", timer = 0,
           state' = "CYCLE_START", timer' = timer
    PROVE  CountInv'
<1>1. FirstTick' /\ Entering
    BY DEF FirstTick, Entering
<1>2. since' = 0 /\ warm' = FALSE
    BY <1>1 DEF Record
<1>. QED
    BY <1>1, <1>2 DEF CountInv

LEMMA TimeTyped ==
    ASSUME TimeInv, Record, CountCycles
    PROVE  since' \in Nat /\ counting_timer' \in Nat
<1>1. (since + 1) % CountMod \in Nat /\ (counting_timer + 1) % CountMod \in Nat
    BY ModNat DEF TimeInv, TimeTypeOK
<1>. QED
    BY <1>1 DEF Record, CountCycles, TimeInv, TimeTypeOK

LEMMA TimeTick ==
    ASSUME TimeInv, Tick, Record
    PROVE  TimeInv'
<1>. USE DEF TimeInv
<1>1. CountCycles /\ LoopStep
    BY DEF Tick
<1>2. since' \in Nat /\ counting_timer' \in Nat
    BY <1>1, TimeTyped
<1>3. ASSUME reset_loop
      PROVE  TimeInv'
    BY <1>2, <1>3
    DEF reset_loop, TimeTypeOK, TimerInv, RunningInv, CountInv, States, Session,
        Iterating
<1>4. CASE StayStopped
    BY <1>3, <1>4 DEF StayStopped
<1>5. CASE Stop
    BY <1>3, <1>5 DEF Stop
<1>6. CASE StartLoop
    BY <1>2, <1>6
    DEF StartLoop, TimeTypeOK, TimerInv, RunningInv, CountInv, States, Session,
        Iterating
<1>7. CASE WaitForDacRead
    BY <1>2, <1>7
    DEF WaitForDacRead, TimeTypeOK, TimerInv, RunningInv, CountInv, States,
        Session, Iterating
<1>8. CASE WaitBetweenFrames
    BY <1>2, <1>8
    DEF WaitBetweenFrames, TimeTypeOK, TimerInv, RunningInv, CountInv, States,
        Session, Iterating
<1>9. CASE WaitForDacResponse
    <2>1. /\ state = "WAIT_FOR_DAC_RESPONSE" /\ timer = 0 /\ timer' = timer
          /\ state' \in {state, "CYCLE_START"} /\ running' = running
        BY <1>9 DEF WaitForDacResponse
    <2>2. CountInv'
        BY <2>1, FirstIteration DEF CountInv, Session, Iterating
    <2>. QED
        BY <1>2, <2>1, <2>2 DEF TimeTypeOK, TimerInv, RunningInv, States
<1>10. CASE DelayCycle
    <2>1. /\ state = "CYCLE_START" /\ state' = state /\ timer' = timer + 1
          /\ running' = running
        BY <1>10 DEF DelayCycle
    <2>2. CountInv'
        BY <1>1, <2>1, WithinIteration DEF TimeTypeOK, Session, Iterating
    <2>. QED
        BY <1>2, <2>1, <2>2 DEF TimeTypeOK, TimerInv, RunningInv
<1>11. CASE BeginIteration
    <2>1. /\ state = "CYCLE_START" /\ state' = "WAIT_ON_ADC" /\ timer' = 0
          /\ running' = running
        BY <1>11 DEF BeginIteration
    <2>2. CountInv'
        BY <1>1, <2>1, WithinIteration DEF Session, Iterating
    <2>. QED
        BY <1>2, <2>1, <2>2 DEF TimeTypeOK, TimerInv, RunningInv, States
<1>12. CASE WaitOnAdc
    <2>1. /\ state = "WAIT_ON_ADC" /\ state' \in {"WAIT_ON_ADC", "WAIT_ON_MATH"}
          /\ timer' = timer /\ running' = running
        BY <1>12 DEF WaitOnAdc
    <2>2. CountInv'
        BY <1>1, <2>1, WithinIteration DEF Session, Iterating
    <2>. QED
        BY <1>2, <2>1, <2>2 DEF TimeTypeOK, TimerInv, RunningInv, States
<1>13. CASE WaitOnMath
    <2>1. /\ state = "WAIT_ON_MATH" /\ state' \in {"WAIT_ON_MATH", "WAIT_ON_DAC"}
          /\ timer' = timer /\ running' = running
        BY <1>13 DEF WaitOnMath
    <2>2. CountInv'
        BY <1>1, <2>1, WithinIteration DEF Session, Iterating
    <2>. QED
        BY <1>2, <2>1, <2>2 DEF TimeTypeOK, TimerInv, RunningInv, States
<1>14. CASE WaitOnDac
    <2>1. /\ state = "WAIT_ON_DAC" /\ state' \in {"WAIT_ON_DAC", "CYCLE_START"}
          /\ timer' = timer /\ running' = running
        BY <1>14 DEF WaitOnDac
    <2>2. CASE state' = "WAIT_ON_DAC"
        <3>1. CountInv'
            BY <1>1, <2>1, <2>2, WithinIteration DEF Session
        <3>. QED
            BY <1>2, <2>1, <2>2, <3>1 DEF TimeTypeOK, TimerInv, RunningInv
    <2>3. CASE state' = "CYCLE_START"
        <3>1. CountInv'
            BY <1>1, <2>1, <2>3, NextIteration
        <3>. QED
            BY <1>2, <2>1, <2>3, <3>1
            DEF TimeTypeOK, TimerInv, RunningInv, States
    <2>. QED
        BY <2>1, <2>2, <2>3
<1>. QED
    BY <1>1, <1>4, <1>5, <1>6, <1>7, <1>8, <1>9, <1>10, <1>11, <1>12, <1>13, <1>14
    DEF LoopStep

LEMMA TimeNext == TimeInv /\ [Next]_vars => TimeInv'
<1>. SUFFICES ASSUME TimeInv, [Next]_vars PROVE TimeInv'
    OBVIOUS
<1>1. CASE Tick /\ Record
    BY <1>1, TimeTick
<1>2. CASE Reset /\ Record
    <2>1. since' \in Nat
        BY <1>2 DEF Record, Reset, reset_loop
    <2>. QED
        BY <1>2, <2>1
        DEF Reset, reset_loop, TimeInv, TimeTypeOK, TimerInv, RunningInv, CountInv,
            States, Session, Iterating
<1>3. CASE UNCHANGED vars
    BY <1>3
    DEF vars, loopRegs, timing, history, TimeInv, TimeTypeOK, TimerInv, RunningInv,
        CountInv, FirstTick
<1>. QED
    BY <1>1, <1>2, <1>3 DEF Next

(* In every iteration but the first after a start, the arithmetic unit is  *)
(* handed the number of cycles since the previous iteration began, modulo  *)
(* the width of the counter: also across delays, parameter changes and     *)
(* stops and starts of the loop.                                           *)
THEOREM TimeStepIsPeriod == Spec => []CyclesArePeriod
<1>1. TimeInv => CyclesArePeriod
    BY DEF TimeInv, CountInv, CyclesArePeriod, Session, Iterating, FirstTick
<1>. QED
    BY <1>1, TimeInit, TimeNext, PTL DEF Spec
-----------------------------------------------------------------------------
(***************************************************************************)
(* The acknowledgement.                                                    *)
(*                                                                         *)
(* Between a request and its acknowledgement the registers hold what was   *)
(* offered; from then on, the loop does, until it stops.                   *)
(***************************************************************************)
OfferStands == assert_change /\ ~change_made => offered = offer

OfferTaken == assert_change /\ change_made /\ ~dropped => params = offer

AckInv ==
    /\ assert_change \in BOOLEAN /\ change_made \in BOOLEAN /\ dropped \in BOOLEAN
    /\ OfferStands /\ OfferTaken

(* What a cycle can do to the parameters and the acknowledgement. *)
Keeps == UNCHANGED params /\ (change_made' => change_made)
Takes == /\ assert_change /\ ~change_made
         /\ change_made' = TRUE /\ params' = offered
Clears == state' = "INIT_READ_FROM_DAC" /\ (change_made' => change_made)

LEMMA ParamSteps ==
    ASSUME Tick \/ Reset, change_made \in BOOLEAN
    PROVE  /\ change_made' \in BOOLEAN
           /\ Keeps \/ Takes \/ Clears
           /\ change_made /\ assert_change => change_made'
<1>1. ASSUME ClearChangeMade
      PROVE  /\ change_made' \in BOOLEAN /\ (change_made' => change_made)
             /\ change_made /\ assert_change => change_made'
    BY <1>1 DEF ClearChangeMade
<1>2. CASE Reset
    <2>1. state' = "INIT_READ_FROM_DAC"
        BY <1>2 DEF Reset, reset_loop
    <2>2. ClearChangeMade \/ change_made' = change_made
        BY <1>2 DEF Reset
    <2>. QED
        BY <1>1, <2>1, <2>2 DEF Clears
<1>3. CASE LoopStep
    <2>1. CASE Stop
        BY <2>1 DEF Stop, reset_loop, Clears
    <2>2. CASE DelayCycle
        BY <2>2 DEF DelayCycle, Keeps
    <2>3. CASE BeginIteration
        <3>1. CASE assert_change /\ ~change_made
            <4>1. change_made' = TRUE /\ TakeParams
                BY <2>3, <3>1 DEF BeginIteration, ApplyChange
            <4>2. params' = offered
                BY <4>1 DEF TakeParams, params, offered
            <4>. QED
                BY <3>1, <4>1, <4>2 DEF Takes
        <3>2. CASE ~(assert_change /\ ~change_made)
            <4>1. UNCHANGED <<change_made, params>>
                BY <2>3, <3>2 DEF BeginIteration, ApplyChange
            <4>. QED
                BY <4>1 DEF Keeps
        <3>. QED
            BY <3>1, <3>2
    <2>4. CASE StayStopped /\ ClearChangeMade
        BY <1>1, <2>4 DEF StayStopped, reset_loop, Clears
    <2>5. CASE /\ \/ StartLoop \/ WaitForDacRead \/ WaitBetweenFrames
                  \/ WaitForDacResponse \/ WaitOnAdc \/ WaitOnMath \/ WaitOnDac
               /\ ClearChangeMade
        <3>1. UNCHANGED params
            BY <2>5
            DEF StartLoop, WaitForDacRead, WaitBetweenFrames, WaitForDacResponse,
                WaitOnAdc, WaitOnMath, WaitOnDac
        <3>. QED
            BY <1>1, <2>5, <3>1 DEF Keeps
    <2>. QED
        BY <1>3, <2>1, <2>2, <2>3, <2>4, <2>5 DEF LoopStep
<1>. QED
    BY <1>2, <1>3 DEF Tick

(* What careful software can do to a request and what it offers. *)
LEMMA SoftwareSteps ==
    ASSUME Careful, SoftwareStep, assert_change \in BOOLEAN
    PROVE  /\ assert_change' \in BOOLEAN
           /\ assert_change /\ ~change_made => offered' = offered
           /\ ~assert_change /\ assert_change' => ~change_made
<1>1. CASE WriteParams
    BY <1>1 DEF WriteParams, MayRewrite, Careful
<1>2. CASE WriteAssertChange
    BY <1>2 DEF WriteAssertChange, MayRequest, Careful, KeepParams, offered
<1>3. CASE WriteRunLoop
    BY <1>3 DEF WriteRunLoop, KeepParams, offered
<1>4. CASE UNCHANGED software
    BY <1>4 DEF software, offered
<1>. QED
    BY <1>1, <1>2, <1>3, <1>4 DEF SoftwareStep

LEMMA AckNext ==
    ASSUME Careful, AckInv, [Next]_vars
    PROVE  AckInv'
<1>1. CASE Next
    <2>1. /\ change_made' \in BOOLEAN /\ (Keeps \/ Takes \/ Clears)
          /\ change_made /\ assert_change => change_made'
        BY <1>1, ParamSteps DEF Next, AckInv
    <2>2. /\ assert_change' \in BOOLEAN
          /\ assert_change /\ ~change_made => offered' = offered
          /\ ~assert_change /\ assert_change' => ~change_made
        BY <1>1, SoftwareSteps DEF Next, AckInv
    <2>3. CASE assert_change' /\ ~assert_change
        <3>1. offer' = offered' /\ dropped' = FALSE
            BY <1>1, <2>3 DEF Next, Record
        <3>2. ~change_made /\ ~change_made'
            BY <2>1, <2>2, <2>3 DEF Keeps, Takes, Clears
        <3>. QED
            BY <2>1, <2>2, <3>1, <3>2 DEF AckInv, OfferStands, OfferTaken
    <2>4. CASE ~(assert_change' /\ ~assert_change)
        <3>1. /\ offer' = offer
              /\ dropped' = (dropped \/ (change_made' /\ state' = "INIT_READ_FROM_DAC"))
            BY <1>1, <2>4 DEF Next, Record
        <3>2. dropped' \in BOOLEAN
            BY <3>1, <2>1 DEF AckInv
        <3>3. OfferStands'
            BY <2>1, <2>2, <2>4, <3>1 DEF AckInv, OfferStands
        <3>4. OfferTaken'
            <4>1. CASE Keeps
                BY <2>4, <3>1, <4>1 DEF AckInv, OfferTaken, Keeps
            <4>2. CASE Takes
                BY <3>1, <4>2 DEF AckInv, OfferStands, OfferTaken, Takes
            <4>3. CASE Clears
                BY <3>1, <4>3 DEF OfferTaken, Clears
            <4>. QED
                BY <2>1, <4>1, <4>2, <4>3
        <3>. QED
            BY <2>1, <2>2, <3>2, <3>3, <3>4 DEF AckInv
    <2>. QED
        BY <2>3, <2>4
<1>2. CASE UNCHANGED vars
    BY <1>2
    DEF vars, software, loopRegs, history, AckInv, OfferStands, OfferTaken, params,
        offered
<1>. QED
    BY <1>1, <1>2

(* While request and acknowledgement are both up, the loop works with the  *)
(* complete parameter set that stood on the registers when the request was *)
(* made, until the loop is stopped or reset: for software that neither     *)
(* rewrites the registers before the acknowledgement nor makes a request   *)
(* while the acknowledgement of the last one is up.                        *)
THEOREM AckIsHonest ==
    ASSUME Careful
    PROVE  Spec => []AckMeansAppliedInSession
<1>1. Init => AckInv
    BY DEF Init, AckInv, OfferStands, OfferTaken
<1>2. AckInv /\ [Next]_vars => AckInv'
    BY AckNext
<1>3. AckInv => AckMeansAppliedInSession
    BY DEF AckInv, OfferTaken, AckMeansAppliedInSession, AckMeansApplied, params
<1>. QED
    BY <1>1, <1>2, <1>3, PTL DEF Spec
-----------------------------------------------------------------------------
(***************************************************************************)
(* The handshakes, and what the loop gets through them.                    *)
(*                                                                         *)
(* A unit is armed in the states that wait for it and in no other.  That   *)
(* does not make its `finished` trustworthy: the flag of an SPI master     *)
(* outlives the release of arm, so each conjunct below follows one flag    *)
(* until it has faded, through states that wait for something else.        *)
(***************************************************************************)
FlagOK(phase, count, lag, finished) ==
    /\ finished = (phase \in {"settle", "done"} \/ lag > 0)
    /\ lag > 0 => phase \in {"idle", "select"}
    /\ phase = "select" => count > 0 /\ (lag > 0 => count = 1 /\ lag = 1)

FlagsInv ==
    /\ FlagOK(dac_phase, dac_count, dac_lag, dac_finished)
    /\ FlagOK(adc_phase, adc_count, adc_lag, adc_finished)

Answering == state = "WAIT_FOR_DAC_RESPONSE" /\ timer = 0

ArmInv ==
    /\ dac_arm <=> (state \in {"WAIT_FOR_DAC_READ", "WAIT_ON_DAC"} \/ Answering)
    /\ adc_arm <=> (state = "WAIT_ON_ADC")
    /\ arm_math <=> (state = "WAIT_ON_MATH")

(* The gap between the two frames of the DAC read, a stop, and the ADC's   *)
(* transfer each leave the DAC's flag the time to fade.                    *)
DacInv ==
    /\ IF dac_arm THEN dac_phase # "done" /\ dac_lag = 0
                  ELSE dac_phase \in {"idle", "done"}
    /\ dac_phase = "done" =>
          FirstTick \/ (state = "WAIT_FOR_DAC_RESPONSE" /\ timer = 1)
    /\ state = "WAIT_FOR_DAC_RESPONSE" => dac_lag = 0 \/ dac_lag + timer <= 4
    /\ state = "INIT_READ_FROM_DAC" /\ run_loop_in => dac_lag <= 1
    /\ state = "WAIT_ON_ADC" =>
          /\ adc_phase # "idle" => dac_lag <= 1
          /\ adc_phase \notin {"idle", "select"} => dac_lag = 0
    /\ state = "WAIT_ON_MATH" => dac_lag = 0

(* The calculation leaves the ADC's flag the time to fade. *)
AdcInv ==
    /\ adc_phase # "shift" => measured_value = 0
    /\ state = "WAIT_ON_ADC" => adc_phase # "done" /\ adc_lag = 0
    /\ state = "WAIT_ON_MATH" =>
          /\ math_state = "idle" => adc_phase = "done"
          /\ math_state # "idle" => adc_phase = "idle"
          /\ math_state = "disarm" => adc_lag <= 1
          /\ math_finished => adc_lag = 0
    /\ state \notin {"WAIT_ON_ADC", "WAIT_ON_MATH"} =>
          adc_phase = "idle" /\ adc_lag <= 1
    /\ state \notin {"WAIT_ON_MATH", "INIT_READ_FROM_DAC"} => adc_lag = 0

MathInv ==
    /\ math_finished => math_state = "disarm"
    /\ math_state # "idle" =>
          \/ state = "WAIT_ON_MATH"
          \/ state = "WAIT_ON_DAC" /\ dac_phase = "idle" /\ math_state = "disarm"

HandshakeInv == FlagsInv /\ ArmInv /\ DacInv /\ AdcInv /\ MathInv

(* The frame that is under way is the one the loop asked for, and what     *)
(* comes back in the second frame of the DAC read is the DAC's code.       *)
Copied ==
    \/ dac_phase = "select" /\ dac_count > 1
    \/ dac_phase \in {"load", "shift", "settle"}

FrameInv ==
    /\ dac_phase \in {"shift", "settle"} => dac_sent = to_dac
    /\ dac_phase = "settle" => from_dac = dac_loaded
    /\ state = "WAIT_FOR_DAC_READ" => to_dac = ReadFrame
    /\ state = "WAIT_FOR_DAC_RESPONSE" => dac_answer = Answer(curset)
    /\ Answering => to_dac = Nop /\ (Copied => dac_loaded = Answer(curset))
    /\ state = "WAIT_ON_DAC" => to_dac = WriteFrame(stored_dac_val)

(* What is remembered was computed with the parameters in use.             *)
HistoryInv ==
    /\ err_prev \in {None, setpt} /\ adjval_prev \in {None, cl_I_reg}
    /\ state = "WAIT_ON_DAC" \/ math_state = "disarm" =>
          e_cur = setpt /\ adj_val = cl_I_reg

LoopInv ==
    /\ LoopTypeOK /\ HandshakeInv
    /\ FrameInv /\ TracksDac /\ HistoryInv

(* What a cycle does to the phase and the stale flag of a master. *)
Moves(arm, phase, lag, nextPhase, nextLag) ==
    /\ phase = "idle"   => nextPhase = IF arm THEN "select" ELSE "idle"
    /\ phase = "select" => nextPhase \in {"select", "load"}
    /\ phase = "load"   => nextPhase = "shift"
    /\ phase = "shift"  => nextPhase \in {"shift", "settle"}
    /\ phase = "settle" => nextPhase = "done"
    /\ phase = "done"   => nextPhase = IF arm THEN "done" ELSE "idle"
    /\ nextLag = IF phase = "done" /\ ~arm THEN 2
                 ELSE IF lag > 0 THEN lag - 1 ELSE 0

DacMoves == Moves(dac_arm, dac_phase, dac_lag, dac_phase', dac_lag')
AdcMoves == Moves(adc_arm, adc_phase, adc_lag, adc_phase', adc_lag')

LEMMA DacSteps ==
    ASSUME Dac!TypeOK, FlagOK(dac_phase, dac_count, dac_lag, dac_finished), Dac!Step
    PROVE  /\ DacMoves
           /\ FlagOK(dac_phase, dac_count, dac_lag, dac_finished)'
<1>. USE DEF Dac!TypeOK, Dac!Phases, FlagOK, DacMoves, Moves, Dac!Step, Dac!Fade
<1>1. CASE Dac!Waiting
    BY <1>1 DEF Dac!Waiting
<1>2. CASE Dac!Selecting
    BY <1>2 DEF Dac!Selecting
<1>3. CASE Dac!Loading \/ Dac!Shifting \/ Dac!Complete \/ Dac!Deselect
    BY <1>3 DEF Dac!Loading, Dac!Shifting, Dac!Complete, Dac!Deselect
<1>4. CASE Dac!Done
    BY <1>4 DEF Dac!Done
<1>. QED
    BY <1>1, <1>2, <1>3, <1>4

LEMMA AdcSteps ==
    ASSUME Adc!TypeOK, FlagOK(adc_phase, adc_count, adc_lag, adc_finished), Adc!Step
    PROVE  /\ AdcMoves
           /\ FlagOK(adc_phase, adc_count, adc_lag, adc_finished)'
           /\ (adc_phase # "shift" => measured_value = 0)
                => (adc_phase' # "shift" => measured_value' = 0)
<1>. USE DEF Adc!TypeOK, Adc!Phases, FlagOK, AdcMoves, Moves, Adc!Step, Adc!Fade
<1>1. CASE Adc!Waiting
    BY <1>1 DEF Adc!Waiting
<1>2. CASE Adc!Selecting
    BY <1>2 DEF Adc!Selecting
<1>3. CASE Adc!Loading \/ Adc!Shifting \/ Adc!Complete \/ Adc!Deselect
    BY <1>3 DEF Adc!Loading, Adc!Shifting, Adc!Complete, Adc!Deselect
<1>4. CASE Adc!Done
    BY <1>4 DEF Adc!Done
<1>. QED
    BY <1>1, <1>2, <1>3, <1>4

(* The calculation, seen from the loop. *)
MathMoves ==
    /\ math_state = "idle" =>
          /\ math_state' = IF arm_math THEN "busy" ELSE "idle"
          /\ (math_finished' => arm_math /\ math_finished)
    /\ math_state = "busy" =>
          math_state' \in {"busy", "disarm"} /\ math_finished' = math_finished
    /\ math_state = "disarm" =>
          /\ math_state' = IF arm_math THEN "disarm" ELSE "idle"
          /\ math_finished' = arm_math
    /\ IF math_state = "busy" /\ math_state' = "disarm"
       THEN new_dac_val' \in DacVals /\ e_cur' = setpt /\ adj_val' = cl_I_reg
       ELSE UNCHANGED <<new_dac_val, e_cur, adj_val>>

LEMMA MathSteps ==
    ASSUME LoopTypeOK, MathStep
    PROVE  MathMoves
BY DEF LoopTypeOK, MathMoves, MathStep, MathIdle, MathWork, MathDone, Math!Idle,
       Math!Work, Math!Done

(* Careful software does not raise cl_run_loop_in in the cycle of a stop.  *)
LEMMA NoRestartInStop ==
    ASSUME Careful, SoftwareStep, Stop
    PROVE  ~run_loop_in'
BY DEF SoftwareStep, WriteParams, WriteAssertChange, WriteRunLoop, MayStart, Careful, Stop,
       software

(* While a unit is armed its flag is the one of the transfer under way.    *)
LEMMA DacFlag ==
    ASSUME FlagsInv, DacInv, dac_arm
    PROVE  /\ dac_finished => dac_phase = "settle" /\ dac_lag = 0
           /\ ~dac_finished => dac_phase # "settle" /\ dac_lag = 0
<1>1. dac_lag = 0 /\ dac_phase # "done"
    BY DEF DacInv
<1>2. dac_finished = (dac_phase \in {"settle", "done"} \/ dac_lag > 0)
    BY DEF FlagsInv, FlagOK
<1>3. (dac_phase \in {"settle", "done"} \/ dac_lag > 0) <=> dac_phase = "settle"
    BY <1>1
<1>. QED
    BY <1>1, <1>2, <1>3, Zenon

LEMMA AdcFlag ==
    ASSUME FlagsInv, AdcInv, state = "WAIT_ON_ADC"
    PROVE  /\ adc_finished => adc_phase = "settle" /\ adc_lag = 0
           /\ ~adc_finished => adc_phase # "settle" /\ adc_lag = 0
<1>1. adc_lag = 0 /\ adc_phase # "done"
    BY DEF AdcInv
<1>2. adc_finished = (adc_phase \in {"settle", "done"} \/ adc_lag > 0)
    BY DEF FlagsInv, FlagOK
<1>3. (adc_phase \in {"settle", "done"} \/ adc_lag > 0) <=> adc_phase = "settle"
    BY <1>1
<1>. QED
    BY <1>1, <1>2, <1>3, Zenon

LEMMA HandshakeTick ==
    ASSUME Careful, LoopInv, TimeInv, Tick, SoftwareStep
    PROVE  HandshakeInv'
<1>. USE DEF LoopInv, HandshakeInv, TimeInv, TimeTypeOK, TimerInv
<1>0. /\ Dac!TypeOK /\ Adc!TypeOK
      /\ math_state \in {"idle", "busy", "disarm"} /\ math_finished \in BOOLEAN
      /\ {dac_arm, adc_arm, arm_math, run_loop_in, dac_finished, adc_finished} \subseteq BOOLEAN
      /\ dac_lag \in 0..2 /\ adc_lag \in 0..2 /\ dac_phase \in Dac!Phases
      /\ adc_phase \in Adc!Phases /\ timer \in Nat
    BY DEF LoopTypeOK, Dac!TypeOK, Adc!TypeOK
<1>1. /\ DacMoves /\ AdcMoves /\ MathMoves /\ FlagsInv'
      /\ adc_phase' # "shift" => measured_value' = 0
    BY <1>0, DacSteps, AdcSteps, MathSteps DEF Tick, FlagsInv, AdcInv
<1>. USE <1>0, <1>1
     DEF DacMoves, AdcMoves, MathMoves, Moves, FlagsInv, FlagOK, ArmInv, DacInv,
         AdcInv, MathInv, FirstTick, Answering, Dac!Phases, Adc!Phases
<1>2. CASE StayStopped
    <2>1. ArmInv'
        BY <1>2 DEF StayStopped, reset_loop
    <2>2. DacInv'
        BY <1>2 DEF StayStopped, reset_loop
    <2>3. AdcInv'
        BY <1>2 DEF StayStopped, reset_loop
    <2>4. MathInv'
        BY <1>2 DEF StayStopped, reset_loop
    <2>. QED
        BY <2>1, <2>2, <2>3, <2>4
<1>3. CASE Stop
    <2>1. ArmInv'
        BY <1>3, NoRestartInStop DEF Stop, reset_loop
    <2>2. DacInv'
        BY <1>3, NoRestartInStop DEF Stop, reset_loop
    <2>3. AdcInv'
        BY <1>3, NoRestartInStop DEF Stop, reset_loop
    <2>4. MathInv'
        BY <1>3, NoRestartInStop DEF Stop, reset_loop
    <2>. QED
        BY <2>1, <2>2, <2>3, <2>4
<1>4. CASE StartLoop
    <2>1. ArmInv'
        BY <1>4 DEF StartLoop
    <2>2. DacInv'
        BY <1>4 DEF StartLoop
    <2>3. AdcInv'
        BY <1>4 DEF StartLoop
    <2>4. MathInv'
        BY <1>4 DEF StartLoop
    <2>. QED
        BY <2>1, <2>2, <2>3, <2>4
<1>5. CASE WaitForDacRead
    <2>1. CASE dac_finished
        <3>0. state' = "WAIT_FOR_DAC_RESPONSE" /\ timer' = 1 /\ dac_arm' = FALSE
            BY <1>5, <2>1 DEF WaitForDacRead
        <3>1. ArmInv'
            BY <1>5, <3>0 DEF WaitForDacRead
        <3>2. DacInv'
            BY <1>5, <2>1, DacFlag DEF WaitForDacRead
        <3>3. AdcInv'
            BY <1>5, <2>1, DacFlag DEF WaitForDacRead
        <3>4. MathInv'
            BY <1>5, <2>1, DacFlag DEF WaitForDacRead
        <3>. QED
            BY <3>1, <3>2, <3>3, <3>4
    <2>2. CASE ~dac_finished
        <3>1. ArmInv'
            BY <1>5, <2>2, DacFlag DEF WaitForDacRead
        <3>2. DacInv'
            BY <1>5, <2>2, DacFlag DEF WaitForDacRead
        <3>3. AdcInv'
            BY <1>5, <2>2, DacFlag DEF WaitForDacRead
        <3>4. MathInv'
            BY <1>5, <2>2, DacFlag DEF WaitForDacRead
        <3>. QED
            BY <3>1, <3>2, <3>3, <3>4
    <2>. QED
        BY <2>1, <2>2
<1>6. CASE WaitBetweenFrames
    <2>1. ArmInv'
        BY <1>6, DelayAssumption DEF WaitBetweenFrames, FrameGap, ArmSecondFrame
    <2>2. DacInv'
        BY <1>6, DelayAssumption DEF WaitBetweenFrames, FrameGap, ArmSecondFrame
    <2>3. AdcInv'
        BY <1>6, DelayAssumption DEF WaitBetweenFrames, FrameGap, ArmSecondFrame
    <2>4. MathInv'
        BY <1>6, DelayAssumption DEF WaitBetweenFrames, FrameGap, ArmSecondFrame
    <2>. QED
        BY <2>1, <2>2, <2>3, <2>4
<1>7. CASE WaitForDacResponse
    <2>1. CASE dac_finished
        <3>1. ArmInv'
            BY <1>7, <2>1, DacFlag DEF WaitForDacResponse
        <3>2. DacInv'
            BY <1>7, <2>1, DacFlag DEF WaitForDacResponse
        <3>3. AdcInv'
            BY <1>7, <2>1, DacFlag DEF WaitForDacResponse
        <3>4. MathInv'
            BY <1>7, <2>1, DacFlag DEF WaitForDacResponse
        <3>. QED
            BY <3>1, <3>2, <3>3, <3>4
    <2>2. CASE ~dac_finished
        <3>1. ArmInv'
            BY <1>7, <2>2, DacFlag DEF WaitForDacResponse
        <3>2. DacInv'
            BY <1>7, <2>2, DacFlag DEF WaitForDacResponse
        <3>3. AdcInv'
            BY <1>7, <2>2, DacFlag DEF WaitForDacResponse
        <3>4. MathInv'
            BY <1>7, <2>2, DacFlag DEF WaitForDacResponse
        <3>. QED
            BY <3>1, <3>2, <3>3, <3>4
    <2>. QED
        BY <2>1, <2>2
<1>8. CASE DelayCycle
    <2>1. ArmInv'
        BY <1>8 DEF DelayCycle
    <2>2. DacInv'
        BY <1>8 DEF DelayCycle
    <2>3. AdcInv'
        BY <1>8 DEF DelayCycle
    <2>4. MathInv'
        BY <1>8 DEF DelayCycle
    <2>. QED
        BY <2>1, <2>2, <2>3, <2>4
<1>9. CASE BeginIteration
    <2>1. ArmInv'
        BY <1>9 DEF BeginIteration
    <2>2. DacInv'
        BY <1>9 DEF BeginIteration
    <2>3. AdcInv'
        BY <1>9 DEF BeginIteration
    <2>4. MathInv'
        BY <1>9 DEF BeginIteration
    <2>. QED
        BY <2>1, <2>2, <2>3, <2>4
<1>10. CASE WaitOnAdc
    <2>1. CASE adc_finished
        <3>1. ArmInv'
            BY <1>10, <2>1, AdcFlag DEF WaitOnAdc
        <3>2. DacInv'
            BY <1>10, <2>1, AdcFlag DEF WaitOnAdc
        <3>3. AdcInv'
            BY <1>10, <2>1, AdcFlag DEF WaitOnAdc
        <3>4. MathInv'
            BY <1>10, <2>1, AdcFlag DEF WaitOnAdc
        <3>. QED
            BY <3>1, <3>2, <3>3, <3>4
    <2>2. CASE ~adc_finished
        <3>1. ArmInv'
            BY <1>10, <2>2, AdcFlag DEF WaitOnAdc
        <3>2. DacInv'
            BY <1>10, <2>2, AdcFlag DEF WaitOnAdc
        <3>3. AdcInv'
            BY <1>10, <2>2, AdcFlag DEF WaitOnAdc
        <3>4. MathInv'
            BY <1>10, <2>2, AdcFlag DEF WaitOnAdc
        <3>. QED
            BY <3>1, <3>2, <3>3, <3>4
    <2>. QED
        BY <2>1, <2>2
<1>11. CASE WaitOnMath
    <2>1. CASE math_finished
        <3>1. ArmInv'
            BY <1>11, <2>1 DEF WaitOnMath
        <3>2. DacInv'
            BY <1>11, <2>1 DEF WaitOnMath
        <3>3. AdcInv'
            BY <1>11, <2>1 DEF WaitOnMath
        <3>4. MathInv'
            BY <1>11, <2>1 DEF WaitOnMath
        <3>. QED
            BY <3>1, <3>2, <3>3, <3>4
    <2>2. CASE ~math_finished
        <3>1. ArmInv'
            BY <1>11, <2>2 DEF WaitOnMath
        <3>2. DacInv'
            BY <1>11, <2>2 DEF WaitOnMath
        <3>. /\ state = "WAIT_ON_MATH" /\ state' = "WAIT_ON_MATH"
             /\ arm_math /\ ~adc_arm
            BY <1>11, <2>2 DEF WaitOnMath
        <3>3. math_finished' => math_state = "disarm"
            BY <2>2
        <3>4. MathInv'
            BY <3>3
        <3>5. AdcInv'
            <4>1. CASE math_state = "idle"
                BY <3>3, <4>1
            <4>2. CASE math_state = "busy"
                BY <3>3, <4>2
            <4>3. CASE math_state = "disarm"
                BY <4>3
            <4>. QED
                BY <4>1, <4>2, <4>3
        <3>. QED
            BY <3>1, <3>2, <3>4, <3>5
    <2>. QED
        BY <2>1, <2>2
<1>12. CASE WaitOnDac
    <2>1. CASE dac_finished
        <3>1. ArmInv'
            BY <1>12, <2>1, DacFlag DEF WaitOnDac
        <3>2. DacInv'
            BY <1>12, <2>1, DacFlag DEF WaitOnDac
        <3>3. AdcInv'
            BY <1>12, <2>1, DacFlag DEF WaitOnDac
        <3>4. MathInv'
            BY <1>12, <2>1, DacFlag DEF WaitOnDac
        <3>. QED
            BY <3>1, <3>2, <3>3, <3>4
    <2>2. CASE ~dac_finished
        <3>1. ArmInv'
            BY <1>12, <2>2, DacFlag DEF WaitOnDac
        <3>2. DacInv'
            BY <1>12, <2>2, DacFlag DEF WaitOnDac
        <3>3. AdcInv'
            BY <1>12, <2>2, DacFlag DEF WaitOnDac
        <3>4. MathInv'
            BY <1>12, <2>2, DacFlag DEF WaitOnDac
        <3>. QED
            BY <3>1, <3>2, <3>3, <3>4
    <2>. QED
        BY <2>1, <2>2
<1>. QED
    BY <1>2, <1>3, <1>4, <1>5, <1>6, <1>7, <1>8, <1>9, <1>10, <1>11, <1>12
    DEF Tick, LoopStep

(* What a cycle does to the words. *)
DacWords ==
    /\ dac_phase' \in {"shift", "settle"} =>
          dac_sent' = IF dac_phase = "load" THEN to_dac ELSE dac_sent
    /\ dac_phase' = "settle" => from_dac' = dac_loaded'
    /\ Copied' =>
          \/ Copied /\ dac_loaded' = dac_loaded
          \/ dac_phase = "select" /\ dac_loaded' = dac_answer

LEMMA DacWordSteps ==
    ASSUME Dac!TypeOK, FlagOK(dac_phase, dac_count, dac_lag, dac_finished), Dac!Step
    PROVE  DacWords
<1>. USE DEF Dac!TypeOK, Dac!Phases, FlagOK, DacWords, Copied, Dac!Step
<1>1. CASE Dac!Waiting
    BY <1>1 DEF Dac!Waiting
<1>2. CASE Dac!Selecting
    BY <1>2 DEF Dac!Selecting
<1>3. CASE Dac!Loading \/ Dac!Shifting \/ Dac!Complete \/ Dac!Deselect
    BY <1>3 DEF Dac!Loading, Dac!Shifting, Dac!Complete, Dac!Deselect
<1>4. CASE Dac!Done
    BY <1>4 DEF Dac!Done
<1>. QED
    BY <1>1, <1>2, <1>3, <1>4

(* The DAC changes at the end of a frame, or in the hands of another       *)
(* master, which has it only while the loop is at rest.                    *)
LEMMA DeviceSteps ==
    ASSUME DeviceStep, dac_sent \in DacWord
    PROVE  /\ dac_phase # "settle" /\ state # "INIT_READ_FROM_DAC" =>
                 curset' = curset /\ dac_answer' = dac_answer
           /\ dac_phase = "settle" =>
                 /\ dac_sent = ReadFrame =>
                       curset' = curset /\ dac_answer' = Answer(curset')
                 /\ dac_sent = Nop => curset' = curset
                 /\ \A v \in DacVals : dac_sent = WriteFrame(v) => curset' = v
<1>1. CASE dac_phase = "settle" /\ EndOfFrame
    <2>1. CASE dac_sent.op = "read"
        BY <1>1, <2>1 DEF EndOfFrame, ReadFrame, Nop, WriteFrame
    <2>2. CASE dac_sent.op = "write"
        BY <1>1, <2>2 DEF EndOfFrame, ReadFrame, Nop, WriteFrame
    <2>3. CASE dac_sent.op = "nop"
        BY <1>1, <2>3 DEF EndOfFrame, ReadFrame, Nop, WriteFrame
    <2>. QED
        BY <2>1, <2>2, <2>3 DEF DacWord
<1>2. CASE dac_phase # "settle" /\ UNCHANGED device
    BY <1>2 DEF device
<1>3. CASE OtherMaster
    BY <1>3 DEF OtherMaster
<1>. QED
    BY <1>1, <1>2, <1>3 DEF DeviceStep

LEMMA FrameTick ==
    ASSUME LoopInv, TimeInv, Tick
    PROVE  FrameInv' /\ TracksDac'
<1>. USE DEF LoopInv, HandshakeInv, TimeInv, TimeTypeOK, TimerInv
<1>0. /\ Dac!TypeOK /\ dac_sent \in DacWord /\ {stored_dac_val, new_dac_val} \subseteq DacVals
      /\ dac_lag \in 0..2 /\ dac_phase \in Dac!Phases /\ timer \in Nat
      /\ {dac_arm, dac_finished} \subseteq BOOLEAN
    BY DEF LoopTypeOK, Dac!TypeOK
<1>1. DacMoves /\ DacWords
    BY <1>0, DacSteps, DacWordSteps DEF Tick, FlagsInv
<1>2. /\ dac_phase # "settle" /\ state # "INIT_READ_FROM_DAC" =>
            curset' = curset /\ dac_answer' = dac_answer
      /\ dac_phase = "settle" =>
            /\ dac_sent = ReadFrame =>
                  curset' = curset /\ dac_answer' = Answer(curset')
            /\ dac_sent = Nop => curset' = curset
            /\ \A v \in DacVals : dac_sent = WriteFrame(v) => curset' = v
    BY <1>0, DeviceSteps DEF Tick
<1>. USE <1>0, <1>1, <1>2
     DEF DacMoves, DacWords, Moves, Dac!Phases, FirstTick, Answering, Copied
<1>3. CASE StayStopped \/ Stop
    BY <1>3 DEF StayStopped, Stop, reset_loop, ArmInv, DacInv, FrameInv, TracksDac, Iterating
<1>4. CASE StartLoop
    BY <1>4 DEF StartLoop, ArmInv, DacInv, FrameInv, TracksDac, Iterating
<1>5. CASE WaitForDacRead
    <2>0. state = "WAIT_FOR_DAC_READ" /\ dac_arm /\ to_dac' = to_dac
        BY <1>5 DEF WaitForDacRead, ArmInv
    <2>1. CASE dac_finished
        <3>1. dac_phase = "settle" /\ state' = "WAIT_FOR_DAC_RESPONSE" /\ timer' = 1
            BY <1>5, <2>0, <2>1, DacFlag DEF WaitForDacRead
        <3>2. dac_answer' = Answer(curset')
            BY <2>0, <3>1 DEF FrameInv
        <3>. QED
            BY <2>0, <3>1, <3>2 DEF FrameInv, TracksDac, Iterating
    <2>2. CASE ~dac_finished
        <3>1. state' = state
            BY <1>5, <2>2 DEF WaitForDacRead
        <3>. QED
            BY <2>0, <3>1 DEF FrameInv, TracksDac, Iterating
    <2>. QED
        BY <2>1, <2>2
<1>6. CASE WaitBetweenFrames
    <2>1. /\ state = "WAIT_FOR_DAC_RESPONSE" /\ state' = state /\ timer # 0
          /\ ~dac_arm
          /\ timer' = 0 => to_dac' = Nop
        BY <1>6 DEF WaitBetweenFrames, ArmSecondFrame, ArmInv
    <2>2. dac_phase \in {"idle", "done"} /\ dac_phase' \in {"idle", "done"}
        BY <2>1 DEF DacInv
    <2>. QED
        BY <2>1, <2>2 DEF FrameInv, TracksDac, Iterating
<1>7. CASE WaitForDacResponse
    <2>0. /\ state = "WAIT_FOR_DAC_RESPONSE" /\ dac_arm /\ to_dac' = to_dac
          /\ timer = 0 /\ timer' = 0
        BY <1>7 DEF WaitForDacResponse, ArmInv
    <2>1. CASE dac_finished
        <3>1. /\ dac_phase = "settle" /\ state' = "CYCLE_START"
              /\ stored_dac_val' = from_dac.val
            BY <1>7, <2>0, <2>1, DacFlag DEF WaitForDacResponse
        <3>2. from_dac = Answer(curset) /\ curset' = curset
            BY <2>0, <3>1 DEF FrameInv
        <3>3. stored_dac_val' = curset'
            BY <3>1, <3>2 DEF Answer
        <3>. QED
            BY <2>0, <3>1, <3>3 DEF FrameInv, TracksDac
    <2>2. CASE ~dac_finished
        <3>1. state' = state /\ dac_phase # "settle"
            BY <1>7, <2>0, <2>2, DacFlag DEF WaitForDacResponse
        <3>. QED
            BY <2>0, <3>1 DEF FrameInv, TracksDac, Iterating
    <2>. QED
        BY <2>1, <2>2
<1>8. CASE DelayCycle \/ BeginIteration \/ WaitOnAdc
    <2>1. /\ state \in Iterating /\ state' \in Iterating /\ ~dac_arm
          /\ stored_dac_val' = stored_dac_val
        BY <1>8 DEF DelayCycle, BeginIteration, WaitOnAdc, Iterating, ArmInv
    <2>2. dac_phase \in {"idle", "done"} /\ dac_phase' \in {"idle", "done"}
        BY <2>1 DEF DacInv
    <2>. QED
        BY <2>1, <2>2 DEF FrameInv, TracksDac, Iterating
<1>9. CASE WaitOnMath
    <2>1. state = "WAIT_ON_MATH" /\ ~dac_arm
        BY <1>9 DEF WaitOnMath, ArmInv
    <2>2. dac_phase = "idle" /\ dac_phase' = "idle"
        BY <2>1 DEF DacInv
    <2>. QED
        BY <1>9, <2>1, <2>2 DEF WaitOnMath, FrameInv, TracksDac, Iterating
<1>10. CASE WaitOnDac
    <2>0. /\ state = "WAIT_ON_DAC" /\ dac_arm /\ to_dac' = to_dac
          /\ stored_dac_val' = stored_dac_val
        BY <1>10 DEF WaitOnDac, ArmInv
    <2>1. CASE dac_finished
        <3>1. dac_phase = "settle" /\ state' = "CYCLE_START"
            BY <1>10, <2>0, <2>1, DacFlag DEF WaitOnDac
        <3>2. curset' = stored_dac_val
            BY <2>0, <3>1 DEF FrameInv
        <3>. QED
            BY <2>0, <3>1, <3>2 DEF FrameInv, TracksDac
    <2>2. CASE ~dac_finished
        <3>1. state' = state
            BY <1>10, <2>2 DEF WaitOnDac
        <3>. QED
            BY <2>0, <3>1 DEF FrameInv, TracksDac, Iterating
    <2>. QED
        BY <2>1, <2>2
<1>. QED
    BY <1>3, <1>4, <1>5, <1>6, <1>7, <1>8, <1>9, <1>10 DEF Tick, LoopStep

LEMMA HistoryTick ==
    ASSUME LoopInv, Tick
    PROVE  HistoryInv'
<1>. USE DEF LoopInv, HandshakeInv, HistoryInv
<1>1. /\ MathMoves /\ math_state \in {"idle", "busy", "disarm"}
      /\ {dac_arm, dac_finished, arm_math} \subseteq BOOLEAN
    BY MathSteps DEF Tick, LoopTypeOK, Dac!TypeOK
<1>. USE <1>1 DEF MathMoves
<1>2. CASE StayStopped \/ Stop
    BY <1>2 DEF StayStopped, Stop, reset_loop, MathInv
<1>3. CASE BeginIteration
    BY <1>3 DEF BeginIteration, ApplyChange, TakeParams, params, MathInv
<1>4. CASE WaitOnDac
    <2>1. UNCHANGED params /\ state = "WAIT_ON_DAC" /\ e_cur' = e_cur /\ adj_val' = adj_val
        BY <1>4 DEF WaitOnDac, MathInv
    <2>2. err_prev' \in {err_prev, e_cur} /\ adjval_prev' \in {adjval_prev, adj_val}
        BY <1>4 DEF WaitOnDac
    <2>. QED
        BY <2>1, <2>2 DEF params
<1>5. CASE WaitOnMath
    <2>1. /\ UNCHANGED <<params, err_prev, adjval_prev>> /\ state = "WAIT_ON_MATH"
          /\ state' = "WAIT_ON_DAC" => math_finished
        BY <1>5 DEF WaitOnMath
    <2>2. math_finished => math_state = "disarm"
        BY DEF MathInv
    <2>. QED
        BY <2>1, <2>2 DEF params
<1>6. CASE \/ DelayCycle \/ StartLoop \/ WaitForDacRead \/ WaitBetweenFrames
           \/ WaitForDacResponse \/ WaitOnAdc
    <2>1. UNCHANGED <<params, err_prev, adjval_prev>>
        BY <1>6
        DEF DelayCycle, StartLoop, WaitForDacRead, WaitBetweenFrames,
            WaitForDacResponse, WaitOnAdc
    <2>2. state' # "WAIT_ON_DAC" /\ state \notin {"WAIT_ON_DAC", "WAIT_ON_MATH"}
        BY <1>6
        DEF DelayCycle, StartLoop, WaitForDacRead, WaitBetweenFrames,
            WaitForDacResponse, WaitOnAdc
    <2>3. math_state = "idle"
        BY <2>2 DEF MathInv
    <2>. QED
        BY <2>1, <2>2, <2>3 DEF params
<1>. QED
    BY <1>2, <1>3, <1>4, <1>5, <1>6 DEF Tick, LoopStep

(* Typing, unit by unit. *)
SoftwareTypeOK ==
    /\ {run_loop_in, assert_change} \subseteq BOOLEAN
    /\ {setpt_in, P_in, I_in, delay_in} \subseteq Nat

LoopRegsTypeOK ==
    /\ {running, dac_arm, adc_arm, arm_math, change_made} \subseteq BOOLEAN
    /\ {setpt, cl_p_reg, cl_I_reg, dely, timer} \subseteq Nat
    /\ state \in States
    /\ to_dac \in DacWord
    /\ stored_dac_val \in DacVals
    /\ {adjval_prev, err_prev} \subseteq Nat \cup {None}

DeviceTypeOK == curset \in DacVals /\ dac_answer \in DacWord

MathTypeOK ==
    /\ math_state \in {"idle", "busy", "disarm"} /\ math_finished \in BOOLEAN
    /\ new_dac_val \in DacVals /\ {e_cur, adj_val} \subseteq Nat \cup {None}

HistoryTypeOK ==
    /\ {counting_timer, last_timer, since, period} \subseteq 0..CountMod - 1
    /\ {warm, dropped} \subseteq BOOLEAN

DacRegsTypeOK ==
    /\ dac_phase \in Dac!Phases /\ dac_count \in 0..DAC_SS_WAIT /\ dac_lag \in 0..2
    /\ dac_finished \in BOOLEAN /\ {dac_sent, dac_loaded} \subseteq DacWord
    /\ from_dac \in DacWord \cup {[op |-> "nop", val |-> X]}

AdcRegsTypeOK ==
    /\ adc_phase \in Adc!Phases /\ adc_count \in 0..ADC_CONV_WAIT /\ adc_lag \in 0..2
    /\ adc_finished \in BOOLEAN /\ measured_value \in {0, X}

PartsTypeOK ==
    /\ SoftwareTypeOK /\ LoopRegsTypeOK /\ DeviceTypeOK /\ MathTypeOK
    /\ HistoryTypeOK /\ DacRegsTypeOK /\ AdcRegsTypeOK

LEMMA TypeParts == (LoopTypeOK <=> PartsTypeOK) /\ (LoopTypeOK <=> PartsTypeOK)'
BY DEF LoopTypeOK, PartsTypeOK, SoftwareTypeOK, LoopRegsTypeOK, DeviceTypeOK, MathTypeOK,
       HistoryTypeOK, DacRegsTypeOK, AdcRegsTypeOK, Dac!TypeOK, Adc!TypeOK

LEMMA FramesTyped ==
    /\ Nop \in DacWord /\ ReadFrame \in DacWord
    /\ \A v \in DacVals : WriteFrame(v) \in DacWord /\ Answer(v) \in DacWord
BY ValsAssumption DEF Nop, ReadFrame, WriteFrame, Answer, DacWord

LEMMA SoftwareTyped ==
    ASSUME SoftwareTypeOK, SoftwareStep
    PROVE  SoftwareTypeOK'
BY ParamsAssumption
DEF SoftwareTypeOK, SoftwareStep, WriteParams, SetParams, WriteAssertChange,
    WriteRunLoop, KeepParams, software

LEMMA DacTyped ==
    ASSUME DacRegsTypeOK, to_dac \in DacWord, dac_answer \in DacWord,
           Dac!Step \/ Dac!Halt
    PROVE  DacRegsTypeOK'
<1>. USE DEF DacRegsTypeOK, Dac!Phases, Dac!Fade
<1>0. 0 \in 0..DAC_SS_WAIT
    BY WaitAssumption
<1>1. CASE Dac!Halt
    <2>1. /\ dac_phase' = "idle" /\ dac_count' = 0 /\ dac_lag' = 0
          /\ dac_finished' = FALSE /\ from_dac' = Nop
          /\ dac_sent' = dac_sent /\ dac_loaded' = dac_loaded
        BY <1>1 DEF Dac!Halt
    <2>2. dac_phase' \in Dac!Phases
        BY <2>1
    <2>3. dac_count' \in 0..DAC_SS_WAIT /\ dac_lag' \in 0..2
        BY <1>0, <2>1
    <2>4. dac_finished' \in BOOLEAN
        BY <2>1
    <2>5. {dac_sent', dac_loaded'} \subseteq DacWord /\ from_dac' \in DacWord
        BY <2>1, FramesTyped
    <2>. QED
        BY <2>2, <2>3, <2>4, <2>5
<1>2. CASE Dac!Waiting /\ Dac!Step
    BY <1>2, WaitAssumption DEF Dac!Waiting, Dac!Step
<1>3. CASE Dac!Selecting /\ Dac!Step
    BY <1>3, WaitAssumption DEF Dac!Selecting, Dac!Step
<1>4. CASE (Dac!Loading \/ Dac!Shifting \/ Dac!Complete \/ Dac!Deselect) /\ Dac!Step
    BY <1>4 DEF Dac!Loading, Dac!Shifting, Dac!Complete, Dac!Deselect, Dac!Step
<1>5. CASE Dac!Done /\ Dac!Step
    BY <1>5 DEF Dac!Done, Dac!Step
<1>. QED
    BY <1>1, <1>2, <1>3, <1>4, <1>5 DEF Dac!Step

LEMMA AdcTyped ==
    ASSUME AdcRegsTypeOK, Adc!Step \/ Adc!Halt
    PROVE  AdcRegsTypeOK'
<1>. USE DEF AdcRegsTypeOK, Adc!Phases, Adc!Fade
<1>0. 0 \in 0..ADC_CONV_WAIT
    BY WaitAssumption
<1>1. CASE Adc!Halt
    <2>1. /\ adc_phase' = "idle" /\ adc_count' = 0 /\ adc_lag' = 0
          /\ adc_finished' = FALSE /\ measured_value' = 0
        BY <1>1 DEF Adc!Halt
    <2>2. adc_phase' \in Adc!Phases
        BY <2>1
    <2>3. adc_count' \in 0..ADC_CONV_WAIT /\ adc_lag' \in 0..2
        BY <1>0, <2>1
    <2>4. adc_finished' \in BOOLEAN
        BY <2>1
    <2>5. measured_value' \in {0, X}
        BY <2>1
    <2>. QED
        BY <2>2, <2>3, <2>4, <2>5
<1>2. CASE Adc!Waiting /\ Adc!Step
    BY <1>2, WaitAssumption DEF Adc!Waiting, Adc!Step
<1>3. CASE Adc!Selecting /\ Adc!Step
    BY <1>3, WaitAssumption DEF Adc!Selecting, Adc!Step
<1>4. CASE (Adc!Loading \/ Adc!Shifting \/ Adc!Complete \/ Adc!Deselect) /\ Adc!Step
    BY <1>4 DEF Adc!Loading, Adc!Shifting, Adc!Complete, Adc!Deselect, Adc!Step
<1>5. CASE Adc!Done /\ Adc!Step
    BY <1>5 DEF Adc!Done, Adc!Step
<1>. QED
    BY <1>1, <1>2, <1>3, <1>4, <1>5 DEF Adc!Step

LEMMA MathTyped ==
    ASSUME MathTypeOK, LoopRegsTypeOK, MathStep \/ MathHalt
    PROVE  MathTypeOK'
BY DEF MathTypeOK, LoopRegsTypeOK, MathStep, MathIdle, MathWork, MathDone, MathHalt,
       Math!Idle, Math!Work, Math!Done, Math!Halt

LEMMA DeviceTyped ==
    ASSUME DeviceTypeOK, dac_sent \in DacWord, DeviceStep \/ DeviceHalt
    PROVE  DeviceTypeOK'
<1>1. CASE EndOfFrame
    BY <1>1, FramesTyped DEF EndOfFrame, DeviceTypeOK, DacWord
<1>2. CASE UNCHANGED device
    BY <1>2 DEF device, DeviceTypeOK
<1>3. CASE OtherMaster
    BY <1>3, FramesTyped DEF OtherMaster, DeviceTypeOK
<1>. QED
    BY <1>1, <1>2, <1>3 DEF DeviceStep, DeviceHalt

LEMMA HistoryTyped ==
    ASSUME HistoryTypeOK, Record, CountCycles \/ Reset, change_made' \in BOOLEAN
    PROVE  HistoryTypeOK'
<1>1. \A x \in 0..CountMod - 1 : (x + 1) % CountMod \in 0..CountMod - 1
    BY CountAssumption
<1>2. {0, 1} \subseteq 0..CountMod - 1
    BY CountAssumption
<1>3. {counting_timer', last_timer'} \subseteq 0..CountMod - 1
    BY <1>1, <1>2 DEF CountCycles, Reset, HistoryTypeOK
<1>4. {since', period'} \subseteq 0..CountMod - 1
    BY <1>1, <1>2 DEF Record, HistoryTypeOK
<1>5. {warm', dropped'} \subseteq BOOLEAN
    BY DEF Record, HistoryTypeOK
<1>. QED
    BY <1>3, <1>4, <1>5 DEF HistoryTypeOK

(* The one value the loop takes from the wires is not garbage, because the *)
(* flag it waits for is that of a finished transfer.                       *)
LEMMA LoopRegsTyped ==
    ASSUME LoopInv, Tick
    PROVE  LoopRegsTypeOK'
<1>. USE DEF LoopRegsTypeOK, States
<1>1. /\ LoopRegsTypeOK /\ new_dac_val \in DacVals /\ curset \in DacVals
      /\ {setpt_in, P_in, I_in, delay_in, 0} \subseteq Nat
      /\ {e_cur, adj_val} \subseteq Nat \cup {None} /\ assert_change \in BOOLEAN
      /\ dac_finished \in BOOLEAN
    BY TypeParts DEF LoopInv, PartsTypeOK, MathTypeOK, DeviceTypeOK, SoftwareTypeOK, DacRegsTypeOK
<1>2. CASE StayStopped /\ ClearChangeMade
    BY <1>1, <1>2, FramesTyped, ValsAssumption
    DEF StayStopped, reset_loop, ClearChangeMade
<1>3. CASE Stop
    BY <1>1, <1>3, FramesTyped, ValsAssumption DEF Stop, reset_loop
<1>4. CASE StartLoop /\ ClearChangeMade
    BY <1>1, <1>4, FramesTyped DEF StartLoop, params, ClearChangeMade
<1>5. CASE WaitForDacRead /\ ClearChangeMade
    <2>1. CASE dac_finished
        <3>1. /\ state' = "WAIT_FOR_DAC_RESPONSE" /\ dac_arm' = FALSE /\ timer' = 1
              /\ UNCHANGED <<running, to_dac, adc_arm, arm_math, stored_dac_val, params,
                             adjval_prev, err_prev>>
            BY <1>5, <2>1 DEF WaitForDacRead
        <3>2. timer' \in Nat /\ state' \in States /\ dac_arm' \in BOOLEAN
            BY <3>1
        <3>3. {running', adc_arm', arm_math', change_made'} \subseteq BOOLEAN
            BY <1>1, <1>5, <3>1 DEF ClearChangeMade
        <3>. QED
            BY <1>1, <3>1, <3>2, <3>3 DEF params
    <2>2. CASE ~dac_finished
        BY <1>1, <1>5, <2>2 DEF WaitForDacRead, params, ClearChangeMade
    <2>. QED
        BY <2>1, <2>2
<1>6. CASE WaitBetweenFrames /\ ClearChangeMade
    <2>1. /\ state' = state /\ timer' \in {timer + 1, 0} /\ dac_arm' \in {dac_arm, TRUE}
          /\ to_dac' \in {to_dac, Nop}
          /\ UNCHANGED <<running, adc_arm, arm_math, stored_dac_val, params,
                         adjval_prev, err_prev>>
        BY <1>6 DEF WaitBetweenFrames, ArmSecondFrame
    <2>2. timer' \in Nat
        BY <1>1, <2>1
    <2>4. dac_arm' \in BOOLEAN
        BY <1>1, <2>1
    <2>5. to_dac' \in DacWord
        BY <1>1, <2>1, FramesTyped
    <2>3. {running', adc_arm', arm_math', change_made'} \subseteq BOOLEAN
        BY <1>1, <1>6, <2>1 DEF ClearChangeMade
    <2>. QED
        BY <1>1, <2>1, <2>2, <2>3, <2>4, <2>5 DEF params
<1>7. CASE WaitForDacResponse /\ ClearChangeMade
    <2>1. stored_dac_val' \in DacVals
        <3>1. CASE dac_finished
            <4>1. dac_arm /\ Answering
                BY <1>7 DEF WaitForDacResponse, LoopInv, HandshakeInv, ArmInv, Answering
            <4>2. dac_phase = "settle"
                BY <3>1, <4>1, DacFlag DEF LoopInv, HandshakeInv
            <4>3. from_dac = Answer(curset)
                BY <4>1, <4>2 DEF LoopInv, FrameInv, Copied
            <4>. QED
                BY <1>1, <1>7, <3>1, <4>3 DEF WaitForDacResponse, Answer
        <3>2. CASE ~dac_finished
            BY <1>1, <1>7, <3>2 DEF WaitForDacResponse
        <3>. QED
            BY <3>1, <3>2
    <2>. QED
        BY <1>1, <1>7, <2>1 DEF WaitForDacResponse, params, ClearChangeMade
<1>8. CASE DelayCycle
    BY <1>1, <1>8 DEF DelayCycle, params
<1>9. CASE BeginIteration
    BY <1>1, <1>9 DEF BeginIteration, ApplyChange, TakeParams, params
<1>10. CASE WaitOnAdc /\ ClearChangeMade
    BY <1>1, <1>10 DEF WaitOnAdc, params, ClearChangeMade
<1>11. CASE WaitOnMath /\ ClearChangeMade
    BY <1>1, <1>11, FramesTyped DEF WaitOnMath, params, ClearChangeMade
<1>12. CASE WaitOnDac /\ ClearChangeMade
    BY <1>1, <1>12 DEF WaitOnDac, params, ClearChangeMade
<1>. QED
    BY <1>2, <1>3, <1>4, <1>5, <1>6, <1>7, <1>8, <1>9, <1>10, <1>11, <1>12
    DEF Tick, LoopStep

LEMMA LoopTick ==
    ASSUME Careful, LoopInv, TimeInv, Tick, SoftwareStep, Record
    PROVE  LoopInv'
<1>1. /\ SoftwareTypeOK /\ LoopRegsTypeOK /\ DeviceTypeOK /\ MathTypeOK
      /\ HistoryTypeOK /\ DacRegsTypeOK /\ AdcRegsTypeOK
    BY TypeParts DEF LoopInv, PartsTypeOK
<1>2. LoopRegsTypeOK'
    BY LoopRegsTyped
<1>3. SoftwareTypeOK' /\ MathTypeOK' /\ AdcRegsTypeOK'
    BY <1>1, SoftwareTyped, MathTyped, AdcTyped DEF Tick
<1>4. DacRegsTypeOK'
    BY <1>1, DacTyped DEF Tick, LoopRegsTypeOK, DeviceTypeOK
<1>5. DeviceTypeOK'
    BY <1>1, DeviceTyped DEF Tick, DacRegsTypeOK
<1>6. HistoryTypeOK'
    BY <1>1, <1>2, HistoryTyped DEF Tick, LoopRegsTypeOK
<1>7. LoopTypeOK'
    BY <1>2, <1>3, <1>4, <1>5, <1>6, TypeParts DEF PartsTypeOK
<1>. QED
    BY <1>7, HandshakeTick, FrameTick, HistoryTick DEF LoopInv

LEMMA LoopReset ==
    ASSUME LoopInv, TimeInv, Reset, SoftwareStep, Record
    PROVE  LoopInv'
<1>1. /\ SoftwareTypeOK /\ LoopRegsTypeOK /\ DeviceTypeOK /\ MathTypeOK
      /\ HistoryTypeOK /\ DacRegsTypeOK /\ AdcRegsTypeOK
    BY TypeParts DEF LoopInv, PartsTypeOK
<1>2. LoopRegsTypeOK'
    BY <1>1, FramesTyped, ValsAssumption
    DEF Reset, reset_loop, LoopRegsTypeOK, SoftwareTypeOK, States, ClearChangeMade
<1>3. SoftwareTypeOK' /\ MathTypeOK' /\ AdcRegsTypeOK'
    BY <1>1, SoftwareTyped, MathTyped, AdcTyped DEF Reset
<1>4. DacRegsTypeOK'
    BY <1>1, DacTyped DEF Reset, LoopRegsTypeOK, DeviceTypeOK
<1>5. DeviceTypeOK'
    BY <1>1, DeviceTyped DEF Reset, DacRegsTypeOK
<1>6. HistoryTypeOK'
    BY <1>1, <1>2, HistoryTyped DEF Reset, LoopRegsTypeOK
<1>7. LoopTypeOK'
    BY <1>2, <1>3, <1>4, <1>5, <1>6, TypeParts DEF PartsTypeOK
<1>8. HandshakeInv'
    <2>1. FlagsInv'
        <3>1. /\ dac_phase' = "idle" /\ dac_lag' = 0 /\ dac_finished' = FALSE
              /\ adc_phase' = "idle" /\ adc_lag' = 0 /\ adc_finished' = FALSE
            BY DEF Reset, Dac!Halt, Adc!Halt
        <3>2. /\ ~(dac_phase' \in {"settle", "done"} \/ dac_lag' > 0)
              /\ ~(adc_phase' \in {"settle", "done"} \/ adc_lag' > 0)
            BY <3>1
        <3>3. /\ dac_finished' = (dac_phase' \in {"settle", "done"} \/ dac_lag' > 0)
              /\ adc_finished' = (adc_phase' \in {"settle", "done"} \/ adc_lag' > 0)
            BY <3>1, <3>2, Zenon
        <3>. QED
            BY <3>1, <3>3 DEF FlagsInv, FlagOK
    <2>. QED
      BY <2>1 DEF Reset, reset_loop, Dac!Halt, Adc!Halt, MathHalt, Math!Halt, HandshakeInv,
           ArmInv, Answering, DacInv, AdcInv, MathInv
<1>9. FrameInv' /\ TracksDac' /\ HistoryInv'
    BY DEF Reset, reset_loop, Dac!Halt, Math!Halt, MathHalt, FrameInv, Answering,
           TracksDac, Iterating, HistoryInv
<1>. QED
    BY <1>7, <1>8, <1>9 DEF LoopInv

LEMMA LoopInit == Init => LoopInv
<1>. SUFFICES ASSUME Init PROVE LoopInv
    OBVIOUS
<1>1. LoopTypeOK
    <2>1. SoftwareTypeOK /\ LoopRegsTypeOK /\ DeviceTypeOK /\ MathTypeOK
        BY FramesTyped, ValsAssumption
        DEF Init, SoftwareTypeOK, LoopRegsTypeOK, DeviceTypeOK, MathTypeOK, States
    <2>2. HistoryTypeOK
        <3>1. 0 \in 0..CountMod - 1
            BY CountAssumption
        <3>. QED
            BY <3>1 DEF Init, HistoryTypeOK
    <2>3. DacRegsTypeOK /\ AdcRegsTypeOK
        BY FramesTyped, WaitAssumption
        DEF Init, Dac!PowerUp, Adc!PowerUp, DacRegsTypeOK, AdcRegsTypeOK, Dac!Phases,
            Adc!Phases
    <2>. QED
        BY <2>1, <2>2, <2>3, TypeParts DEF PartsTypeOK
<1>2. HandshakeInv
    BY DEF Init, Dac!PowerUp, Adc!PowerUp, HandshakeInv, FlagsInv, FlagOK, ArmInv,
           Answering, DacInv, AdcInv, MathInv
<1>3. FrameInv /\ TracksDac /\ HistoryInv
    BY DEF Init, Dac!PowerUp, FrameInv, Answering, TracksDac, Iterating, HistoryInv
<1>. QED
    BY <1>1, <1>2, <1>3 DEF LoopInv

LEMMA LoopStutter ==
    ASSUME LoopInv, UNCHANGED vars
    PROVE  LoopInv'
<1>1. UNCHANGED <<software, loopRegs, change_made, timing, dacVars, adcVars, mathVars,
                  device, history>>
    BY DEF vars
<1>. USE <1>1
     DEF software, loopRegs, params, timing, dacVars, adcVars, mathVars, device, history
<1>2. LoopTypeOK'
    BY DEF LoopInv, LoopTypeOK, Dac!TypeOK, Adc!TypeOK
<1>3. HandshakeInv'
    BY DEF LoopInv, HandshakeInv, FlagsInv, FlagOK, ArmInv, Answering, DacInv, AdcInv,
           MathInv, FirstTick
<1>4. FrameInv' /\ TracksDac' /\ HistoryInv'
    BY DEF LoopInv, FrameInv, Answering, Copied, TracksDac, Iterating, HistoryInv
<1>. QED
    BY <1>2, <1>3, <1>4 DEF LoopInv

LEMMA LoopAlways ==
    ASSUME Careful
    PROVE  Spec => [](LoopInv /\ TimeInv)
<1>1. Init => LoopInv /\ TimeInv
    BY LoopInit, TimeInit
<1>2. LoopInv /\ TimeInv /\ [Next]_vars => (LoopInv /\ TimeInv)'
    <2>. SUFFICES ASSUME LoopInv, TimeInv, [Next]_vars PROVE (LoopInv /\ TimeInv)'
        OBVIOUS
    <2>1. LoopInv'
        BY LoopTick, LoopReset, LoopStutter DEF Next
    <2>. QED
        BY <2>1, TimeNext
<1>. QED
    BY <1>1, <1>2, PTL DEF Spec

(* Every register and every history variable keeps its type: for careful   *)
(* software, since only then is what the loop takes from the DAC's wires   *)
(* never the middle of a frame.                                            *)
THEOREM LoopIsTyped ==
    ASSUME Careful
    PROVE  Spec => []LoopTypeOK
<1>1. LoopInv => LoopTypeOK
    BY DEF LoopInv
<1>. QED
    BY <1>1, LoopAlways, PTL

(* Whenever an iteration begins, and until the arithmetic unit has used    *)
(* it, the stored value is the one on the DAC: for every transfer time,    *)
(* every wait of the masters, every gap between the frames of at least 3   *)
(* cycles, and across resets, stops and what another master did meanwhile. *)
THEOREM LoopTracksDac ==
    ASSUME Careful
    PROVE  Spec => []TracksDac
<1>1. LoopInv => TracksDac
    BY DEF LoopInv
<1>. QED
    BY <1>1, LoopAlways, PTL

(* A remembered error or adjustment is only ever used with the parameters  *)
(* it was computed with.                                                   *)
THEOREM HistoryIsConsistent ==
    ASSUME Careful
    PROVE  Spec => []HistoryMatchesParams
<1>1. LoopInv => HistoryMatchesParams
    BY DEF LoopInv, HistoryInv, HistoryMatchesParams
<1>. QED
    BY <1>1, LoopAlways, PTL

(* A master is released exactly when the transfer it was armed for ends.   *)
LEMMA ReleaseStep ==
    ASSUME LoopInv, Tick
    PROVE  /\ dac_arm /\ ~dac_arm' => dac_phase = "settle"
           /\ adc_arm /\ ~adc_arm' => adc_phase = "settle"
<1>. USE DEF LoopInv, HandshakeInv
<1>1. ASSUME dac_arm, ~dac_arm'
      PROVE  dac_phase = "settle"
    <2>1. state \in {"WAIT_FOR_DAC_READ", "WAIT_ON_DAC"} \/ Answering
        BY <1>1 DEF ArmInv
    <2>2. dac_finished
        BY <1>1, <2>1
        DEF Tick, LoopStep, Stop, DelayCycle, BeginIteration, StayStopped, StartLoop,
            WaitForDacRead, WaitBetweenFrames, WaitForDacResponse, WaitOnAdc,
            WaitOnMath, WaitOnDac, Answering
    <2>. QED
        BY <1>1, <2>2, DacFlag
<1>2. ASSUME adc_arm, ~adc_arm'
      PROVE  adc_phase = "settle"
    <2>1. state = "WAIT_ON_ADC"
        BY <1>2 DEF ArmInv
    <2>2. adc_finished
        BY <1>2, <2>1
        DEF Tick, LoopStep, Stop, DelayCycle, BeginIteration, StayStopped, StartLoop,
            WaitForDacRead, WaitBetweenFrames, WaitForDacResponse, WaitOnAdc,
            WaitOnMath, WaitOnDac
    <2>. QED
        BY <2>1, <2>2, AdcFlag
<1>. QED
    BY <1>1, <1>2

(* In a cycle without reset, dac_arm and adc_arm fall only in the cycle in *)
(* which `finished` rose: no transfer is cut, and none counts twice.       *)
THEOREM UnitsReleasedAtTheEnd ==
    ASSUME Careful
    PROVE  Spec => ReleaseAtTheEnd
<1>1. LoopInv /\ [Next]_vars =>
         [/\ dac_arm /\ ~dac_arm' /\ Tick => dac_phase = "settle"
          /\ adc_arm /\ ~adc_arm' /\ Tick => adc_phase = "settle"]_vars
    BY ReleaseStep
<1>. QED
    BY <1>1, LoopAlways, PTL DEF Spec, ReleaseAtTheEnd

LEMMA OperandStep ==
    ASSUME LoopInv, Tick, math_state = "busy"
    PROVE  /\ adc_phase \notin {"load", "shift"} /\ measured_value # X
           /\ UNCHANGED <<params, stored_dac_val, err_prev, adjval_prev, last_timer>>
<1>. USE DEF LoopInv, HandshakeInv
<1>1. state = "WAIT_ON_MATH" /\ ~math_finished
    BY DEF MathInv
<1>2. adc_phase = "idle" /\ measured_value = 0
    BY <1>1 DEF AdcInv
<1>3. WaitOnMath /\ CountCycles
    BY <1>1 DEF Tick, LoopStep, Stop, DelayCycle, BeginIteration, StayStopped, StartLoop,
                WaitForDacRead, WaitBetweenFrames, WaitForDacResponse, WaitOnAdc,
                WaitOnDac
<1>. QED
    BY <1>1, <1>2, <1>3 DEF WaitOnMath, CountCycles, X

(* While the arithmetic unit works, neither the ADC's shift register nor a *)
(* parameter nor anything else it reads changes.                           *)
THEOREM OperandsAreStable ==
    ASSUME Careful
    PROVE  Spec => OperandsStable
<1>1. LoopInv /\ [Next]_vars =>
         [math_state = "busy" /\ Tick =>
             /\ adc_phase \notin {"load", "shift"} /\ measured_value # X
             /\ UNCHANGED <<params, stored_dac_val, err_prev, adjval_prev,
                            last_timer>>]_vars
    BY OperandStep
<1>. QED
    BY <1>1, LoopAlways, PTL DEF Spec, OperandsStable

(* While request and acknowledgement are both up, the parameters change    *)
(* only by being cleared when the loop stops: whatever software does.      *)
THEOREM ParamsAppliedOnce == Spec => AppliedOnce
<1>1. Init => change_made \in BOOLEAN
    BY DEF Init
<1>2. change_made \in BOOLEAN /\ [Next]_vars => (change_made \in BOOLEAN)'
    BY ParamSteps DEF Next, vars
<1>3. change_made \in BOOLEAN /\ [Next]_vars =>
         [assert_change /\ change_made =>
             UNCHANGED params \/ state' = "INIT_READ_FROM_DAC"]_vars
    BY ParamSteps DEF Next, Keeps, Takes, Clears
<1>. QED
    BY <1>1, <1>2, <1>3, PTL DEF Spec, AppliedOnce
=============================================================================
