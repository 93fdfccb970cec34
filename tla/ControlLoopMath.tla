--------------------------- MODULE ControlLoopMath ---------------------------
(***************************************************************************)
(* The arithmetic of the control loop, control_loop/control_loop_math.v.m4 *)
(*   e = (setpoint - measured) * ADC_TO_DAC                                *)
(*   A = A_prev + e * (P + I * dt) - e_prev * P                            *)
(*   DAC = DAC_prev + A                                                    *)
(* in fixed point numbers of CONSTS_WHOLE + CONSTS_FRAC bits, with one     *)
(* sequential multiplier, and its user in control_loop_math_sim.cpp.       *)
(*                                                                         *)
(* Words are signed integers; every assignment states the width it is cut  *)
(* to.  One step is one rising edge, followed by what the user does when   *)
(* it sees the registers as the edge left them.                            *)
(***************************************************************************)
EXTENDS IntSat

CONSTANTS
    CONSTS_FRAC, CONSTS_SIZ, ADC_WID, CYCLE_COUNT_WID, DAC_WID,
    SEC_PER_CYCLE, ADC_TO_DAC,
    Gains,              \* the pairs <<P, I>> the loop is run with
    Setpoint,
    Samples,            \* what the ADC measures
    Periods,            \* the lengths of the loop's iterations
    Settings            \* where the DAC stands at first

E_WID        == DAC_WID + 1
CONSTS_WHOLE == E_WID       \* "This works [...] because CONSTS_WHOLE = E_WID"
CONSTS_WID   == CONSTS_WHOLE + CONSTS_FRAC

One       == 2^CONSTS_FRAC          \* the number 1
ConstHalf == 2^(CONSTS_WID - 1)
DacHalf   == 2^(DAC_WID - 1)

Const     == -ConstHalf..ConstHalf - 1

ASSUME WidthAssumption ==
    /\ {CONSTS_FRAC, ADC_WID, CYCLE_COUNT_WID, DAC_WID} \subseteq Nat \ {0}
    /\ ADC_WID + 1 < CONSTS_WHOLE /\ CYCLE_COUNT_WID < CONSTS_WHOLE
    /\ 2^CONSTS_SIZ \in Nat /\ 2^CONSTS_SIZ > CONSTS_WID + 2
(* What the provers do not know of powers of two. *)
ASSUME PowerAssumption ==
    /\ 2^0 = 1 /\ 2^1 = 2
    /\ \A i, j \in 0..2 * CONSTS_WID + 1 : i + j <= 2 * CONSTS_WID + 1 =>
          2^i \in Nat \ {0} /\ 2^(i + j) = 2^i * 2^j
ASSUME InputAssumption ==
    /\ {SEC_PER_CYCLE, ADC_TO_DAC} \subseteq Const
    /\ Gains \subseteq Const \X Const
    /\ Samples \cup {Setpoint} \subseteq -2^(ADC_WID - 1)..2^(ADC_WID - 1) - 1
    /\ Periods \subseteq 0..2^CYCLE_COUNT_WID - 1
    /\ Settings \subseteq -DacHalf..DacHalf - 1

VARIABLES
    \* inputs
    arm, measured, gains, cycles, e_prev, adjval_prev, stored_dac_val,
    \* the unit
    state, finished, a1, a2, mul_arm, add_sat, tmpstore, adj_sat, add_sat_dac,
    e_cur, adj_val,
    \* the multiplier
    p, a1_reg, loop_accul, mul_fin, factors,
    \* the user
    rest,               \* cycles it still waits
    asked               \* the inputs the last calculation was made for

operands == <<measured, gains, cycles, e_prev, adjval_prev, stored_dac_val>>
unitRegs == <<state, finished, a1, a2, mul_arm, add_sat, tmpstore, adj_sat,
              add_sat_dac, e_cur, adj_val>>
product  == <<p, a1_reg, loop_accul, mul_fin, factors>>
vars     == <<arm, operands, unitRegs, product, rest, asked>>

cl_P == gains[1]
cl_I == gains[2]

Multiplier == INSTANCE BoothMul WITH
    A1_LEN <- CONSTS_WID, A2_LEN <- CONSTS_WID, A2LEN_SIZ <- CONSTS_SIZ,
    arm <- mul_arm, fin <- mul_fin
-----------------------------------------------------------------------------
(* Wires *)

(* Q(2X).(2Y) to Q(2X).Y, then to QX.Y *)
mul_out       == intsat(Multiplier!outn \div One, ConstHalf)
saturated_add == intsat(add_sat, ConstHalf)
adj_final     == intsat(adj_sat, DacHalf)
new_dac_val   == intsat(add_sat_dac, DacHalf)

SumHalfNarrow == ConstHalf      \* mutant: a sum without a carry bit

SumHalf == 2 * ConstHalf        \* add_sat and tmpstore have a bit more

Sum(x) == sign_extend(x, SumHalf)
-----------------------------------------------------------------------------
(* One action per state; a product is awaited as long as mul_fin is down.  *)

WaitOnArm ==
    /\ state = "WAIT_ON_ARM"
    /\ IF arm
       THEN \* the lower bits; those above are those of the last calculation
            LET slot == 2^(CONSTS_FRAC + ADC_WID + 1)
            IN /\ a1' = (a1 \div slot) * slot
                          + (((Setpoint - measured) * One) % slot)
               /\ state' = "CALCULATE_ERR"
               /\ UNCHANGED <<finished, mul_arm>>
       ELSE finished' = FALSE /\ mul_arm' = FALSE /\ UNCHANGED <<a1, state>>
    /\ UNCHANGED <<a2, add_sat, tmpstore, adj_sat, add_sat_dac, e_cur, adj_val>>

CalculateErrUnsigned ==         \* mutant: the error is not sign extended
    /\ state = "CALCULATE_ERR"
    /\ a1' = a1 % 2^(CONSTS_FRAC + ADC_WID + 1)
    /\ a2' = ADC_TO_DAC
    /\ mul_arm' = TRUE
    /\ state' = "CALCULATE_DAC_E"
    /\ UNCHANGED <<finished, add_sat, tmpstore, adj_sat, add_sat_dac, e_cur,
                   adj_val>>

CalculateErr ==
    /\ state = "CALCULATE_ERR"
    /\ a1' = sign_extend(a1, 2^(CONSTS_FRAC + ADC_WID))
    /\ a2' = ADC_TO_DAC
    /\ mul_arm' = TRUE
    /\ state' = "CALCULATE_DAC_E"
    /\ UNCHANGED <<finished, add_sat, tmpstore, adj_sat, add_sat_dac, e_cur,
                   adj_val>>

CalculateDacE ==
    /\ state = "CALCULATE_DAC_E" /\ mul_fin
    /\ e_cur' = mul_out \div One
    /\ a1' = SEC_PER_CYCLE
    /\ a2' = cycles * One
    /\ mul_arm' = FALSE
    /\ state' = "WAIT_ON_CALCULATE_DT"
    /\ UNCHANGED <<finished, add_sat, tmpstore, adj_sat, add_sat_dac, adj_val>>

WaitOnCalculateDtArmed ==       \* mutant: the multiplier is not released
    /\ state = "WAIT_ON_CALCULATE_DT" /\ mul_arm /\ mul_fin
    /\ a1' = mul_out
    /\ a2' = cl_I
    /\ state' = "CALCULATE_IDT"
    /\ UNCHANGED <<finished, mul_arm, add_sat, tmpstore, adj_sat, add_sat_dac,
                   e_cur, adj_val>>

WaitOnCalculateDt ==
    /\ state = "WAIT_ON_CALCULATE_DT" /\ mul_arm /\ mul_fin
    /\ mul_arm' = FALSE
    /\ a1' = mul_out
    /\ a2' = cl_I
    /\ state' = "CALCULATE_IDT"
    /\ UNCHANGED <<finished, add_sat, tmpstore, adj_sat, add_sat_dac, e_cur,
                   adj_val>>

CalculateIdt ==
    /\ state = "CALCULATE_IDT" /\ mul_arm /\ mul_fin
    /\ mul_arm' = FALSE
    /\ add_sat' = Sum(mul_out + cl_P)
    /\ a2' = e_cur * One
    /\ state' = "CALCULATE_EPIDT"
    /\ UNCHANGED <<finished, a1, tmpstore, adj_sat, add_sat_dac, e_cur, adj_val>>

CalculateEpidt ==
    /\ state = "CALCULATE_EPIDT" /\ mul_arm /\ mul_fin
    /\ mul_arm' = FALSE
    /\ tmpstore' = mul_out
    /\ a1' = cl_P
    /\ a2' = e_prev * One
    /\ state' = "CALCULATE_EP"
    /\ UNCHANGED <<finished, add_sat, adj_sat, add_sat_dac, e_cur, adj_val>>

CalculateEp ==
    /\ state = "CALCULATE_EP" /\ mul_arm /\ mul_fin
    /\ mul_arm' = FALSE
    /\ add_sat' = Sum(tmpstore - mul_out)
    /\ state' = "CALCULATE_A_PART_1"
    /\ UNCHANGED <<finished, a1, a2, tmpstore, adj_sat, add_sat_dac, e_cur,
                   adj_val>>

(* In the states but the first a multiplication begins a cycle after its   *)
(* operands were set; P + I * dt is only there by then.                    *)
ArmMultiplier ==
    /\ state \in {"WAIT_ON_CALCULATE_DT", "CALCULATE_IDT", "CALCULATE_EPIDT",
                  "CALCULATE_EP"}
    /\ ~mul_arm
    /\ mul_arm' = TRUE
    /\ a1' = IF state = "CALCULATE_EPIDT" THEN saturated_add ELSE a1
    /\ UNCHANGED <<state, finished, a2, add_sat, tmpstore, adj_sat, add_sat_dac,
                   e_cur, adj_val>>

AwaitProduct ==
    /\ state \in {"CALCULATE_DAC_E", "WAIT_ON_CALCULATE_DT", "CALCULATE_IDT",
                  "CALCULATE_EPIDT", "CALCULATE_EP"}
    /\ mul_arm /\ ~mul_fin
    /\ UNCHANGED unitRegs
-----------------------------------------------------------------------------
CalculateAPart1 ==
    /\ state = "CALCULATE_A_PART_1"
    /\ tmpstore' = Sum(saturated_add + adjval_prev)
    /\ state' = "CALCULATE_A_PART_2"
    /\ UNCHANGED <<finished, a1, a2, mul_arm, add_sat, adj_sat, add_sat_dac,
                   e_cur, adj_val>>

CalculateAPart2 ==
    /\ state = "CALCULATE_A_PART_2"
    /\ add_sat' = tmpstore
    /\ state' = "CALCULATE_NEW_DAC_VALUE_PART_1"
    /\ UNCHANGED <<finished, a1, a2, mul_arm, tmpstore, adj_sat, add_sat_dac,
                   e_cur, adj_val>>

CalculateNewDacValuePart1 ==
    /\ state = "CALCULATE_NEW_DAC_VALUE_PART_1"
    /\ adj_sat' = saturated_add \div One
    /\ adj_val' = saturated_add
    /\ state' = "CALCULATE_NEW_DAC_VALUE_PART_2"
    /\ UNCHANGED <<finished, a1, a2, mul_arm, add_sat, tmpstore, add_sat_dac,
                   e_cur>>

CalculateNewDacValuePart2 ==
    /\ state = "CALCULATE_NEW_DAC_VALUE_PART_2"
    /\ add_sat_dac' = sign_extend(adj_final + stored_dac_val, 2 * DacHalf)
    /\ state' = "WAIT_ON_DISARM"
    /\ UNCHANGED <<finished, a1, a2, mul_arm, add_sat, tmpstore, adj_sat, e_cur,
                   adj_val>>

WaitOnDisarmHolding ==          \* mutant: finished is not taken back
    /\ state = "WAIT_ON_DISARM"
    /\ adj_val' = saturated_add
    /\ finished' = TRUE
    /\ state' = IF arm THEN state ELSE "WAIT_ON_ARM"
    /\ UNCHANGED <<a1, a2, mul_arm, add_sat, tmpstore, adj_sat, add_sat_dac,
                   e_cur>>

WaitOnDisarm ==
    /\ state = "WAIT_ON_DISARM"
    /\ adj_val' = saturated_add
    /\ finished' = arm
    /\ state' = IF arm THEN state ELSE "WAIT_ON_ARM"
    /\ UNCHANGED <<a1, a2, mul_arm, add_sat, tmpstore, adj_sat, add_sat_dac,
                   e_cur>>

UnitStep ==
    \/ WaitOnArm \/ CalculateErr \/ CalculateDacE \/ WaitOnCalculateDt
    \/ CalculateIdt \/ CalculateEpidt \/ CalculateEp \/ ArmMultiplier
    \/ AwaitProduct \/ CalculateAPart1 \/ CalculateAPart2
    \/ CalculateNewDacValuePart1 \/ CalculateNewDacValuePart2 \/ WaitOnDisarm

(* add_sat_dac and adj_sat have no reset. *)
UnitHalt ==
    /\ state' = "WAIT_ON_ARM" /\ finished' = FALSE
    /\ a1' = 0 /\ a2' = 0 /\ mul_arm' = FALSE
    /\ add_sat' = 0 /\ tmpstore' = 0 /\ e_cur' = 0 /\ adj_val' = 0
    /\ UNCHANGED <<adj_sat, add_sat_dac>>
-----------------------------------------------------------------------------
(* The user, control_loop_math_sim.cpp *)

Inputs == [measured |-> measured, gains |-> gains, cycles |-> cycles,
           e_prev |-> e_prev, adjval_prev |-> adjval_prev,
           stored_dac_val |-> stored_dac_val]

(* calculate(): arm, wait for finished, and two cycles more. *)
Calculating ==
    /\ arm
    /\ arm' = ~finished'
    /\ rest' = IF finished' THEN 2 ELSE 0
    /\ UNCHANGED <<operands, asked>>

Resting ==
    /\ ~arm /\ rest > 0
    /\ rest' = rest - 1
    /\ UNCHANGED <<arm, operands, asked>>

(* The test bench adds the adjustment, rounded toward 0, to the setting;   *)
(* the control loop takes the new value as it is.                          *)
adjusted ==
    LET adj == IF adj_val > 0 THEN adj_val \div One ELSE -((-adj_val) \div One)
    IN sign_extend(stored_dac_val + adj, DacHalf)

(* The loop of main(): the results are fed back, the next sample comes in. *)
NextCalculation ==
    /\ ~arm /\ rest = 0
    /\ arm' = TRUE
    /\ e_prev' = e_cur /\ adjval_prev' = adj_val
    /\ stored_dac_val' \in {adjusted, new_dac_val}
    /\ measured' \in Samples /\ cycles' \in Periods
    /\ UNCHANGED <<gains, rest>>
    /\ asked' = Inputs'

User == Calculating \/ Resting \/ NextCalculation
-----------------------------------------------------------------------------
Init ==
    /\ arm = FALSE /\ rest = 0
    /\ measured = Setpoint /\ cycles \in Periods /\ gains \in Gains
    /\ e_prev = 0 /\ adjval_prev = 0 /\ stored_dac_val \in Settings
    /\ state = "WAIT_ON_ARM" /\ finished = FALSE
    /\ a1 = 0 /\ a2 = 0 /\ mul_arm = FALSE
    /\ add_sat = 0 /\ tmpstore = 0 /\ adj_sat = 0 /\ add_sat_dac = 0
    /\ e_cur = 0 /\ adj_val = 0
    /\ Multiplier!MulInit
    /\ asked = Inputs

Tick == UnitStep /\ Multiplier!MulStep /\ User

(* The reset of the whole loop: it also lowers arm. *)
Reset ==
    /\ UnitHalt /\ Multiplier!MulHalt
    /\ arm' = FALSE /\ rest' = 0
    /\ UNCHANGED <<operands, asked>>

Next == Tick \/ Reset

(* The clock does not stop, and the reset button is let go. *)
Fairness == WF_vars(Next) /\ <>[][~Reset]_vars

Spec == Init /\ [][Next]_vars /\ Fairness
-----------------------------------------------------------------------------
(* The reference of the test bench, in plain integers (int64_t there, wide *)
(* enough for what is in range).                                           *)

(* The lower limit is half of what it should be. *)
sat(r) ==
    IF r >= ConstHalf - 1 THEN ConstHalf - 1
    ELSE IF r <= -(ConstHalf - 1) THEN -(ConstHalf \div 2) ELSE r

mul(x, y)    == (x * y) \div One
mulsat(x, y) == sat(mul(x, y))

calculate(in) ==
    LET P     == in.gains[1]
        err   == mulsat(Setpoint - in.measured, ADC_TO_DAC)
        dt    == mulsat(SEC_PER_CYCLE, in.cycles * One)
        idt   == mulsat(dt, in.gains[2])
        epidt == mulsat(err * One, P + idt)
        ep    == mulsat(in.e_prev * One, P)
    IN [err_cur    |-> err,
        new_adjval |-> in.adjval_prev + epidt - ep,
        values     |-> {err * One, mul(SEC_PER_CYCLE, in.cycles * One),
                        mul(dt, in.gains[2]), P + idt, mul(err * One, P + idt),
                        mul(in.e_prev * One, P), epidt - ep,
                        in.adjval_prev + epidt - ep}]

(* What the formula at the head of this module comes to when every product *)
(* and every sum saturates.                                                *)
Reference(in) ==
    LET Narrow(x) == Expected(x, ConstHalf)
        Times(x, y) == Narrow(mul(x, y))
        P     == in.gains[1]
        err   == Times((Setpoint - in.measured) * One, ADC_TO_DAC) \div One
        idt   == Times(Times(SEC_PER_CYCLE, in.cycles * One), in.gains[2])
        epidt == Times(err * One, Narrow(P + idt))
        ep    == Times(in.e_prev * One, P)
        adj   == Narrow(Narrow(epidt - ep) + in.adjval_prev)
    IN <<err, adj,
         Expected(in.stored_dac_val + Expected(adj \div One, DacHalf), DacHalf)>>
-----------------------------------------------------------------------------
(* Properties *)

(* Whenever the unit looks at a product, it is of the operands that are in *)
(* the registers now and not of those before, whose mul_fin falls only a   *)
(* cycle after mul_arm ...                                                 *)
FactorsCurrent == mul_arm /\ mul_fin => factors = <<a1, a2>>

(* ... and it is exact, for the most negative numbers too. *)
ProductExact == mul_arm /\ mul_fin => Multiplier!outn = a1 * a2

(* finished says that error, adjustment and DAC value are those of the     *)
(* formula in saturating arithmetic, with no carry lost on the way.        *)
ResultIsRight == finished => <<e_cur, adj_val, new_dac_val>> = Reference(asked)

(* The test bench prints the unit's values beside those of calculate():    *)
(* they are the same as long as none of the latter saturates, the limits   *)
(* (where its lower one is wrong) included.                                *)
BenchAgrees ==
    LET bench == calculate(asked)
    IN finished /\ (\A v \in bench.values :
                       -(ConstHalf - 1) < v /\ v < ConstHalf - 1)
       => e_cur = bench.err_cur /\ adj_val = bench.new_adjval

(* The unit keeps the contract the control loop is built on: it answers    *)
(* when armed, shows finished only while armed, and its results stay put   *)
(* until it is armed again (the loop reads them when its DAC is done).     *)
phase == IF state = "WAIT_ON_ARM" THEN "idle"
         ELSE IF state = "WAIT_ON_DISARM" THEN "disarm" ELSE "busy"

Unit == INSTANCE MathUnit WITH results <- <<e_cur, adj_val, new_dac_val>>

MathContract == Unit!UnitSpec
=============================================================================
