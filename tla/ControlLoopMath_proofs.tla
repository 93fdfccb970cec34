----------------------- MODULE ControlLoopMath_proofs -----------------------
(***************************************************************************)
(* What the arithmetic unit computes, for every width: the multiplier      *)
(* multiplies, the unit never takes a product of other operands than its   *)
(* own, what comes with finished is the formula in saturating arithmetic,  *)
(* and the contract of MathUnit is kept but for liveness.                  *)
(***************************************************************************)
EXTENDS ControlLoopMath, TLAPS

(* intsat.v is a clamp: comparing the bits that are cut off with the sign  *)
(* is the same as comparing the number with the limits.                    *)
THEOREM SaturationClamps ==
    ASSUME NEW inp \in Int, NEW half \in Nat \ {0}
    PROVE  intsat(inp, half) = Expected(inp, half)
<1> DEFINE q == inp \div half
<1>1. q \in Int /\ q * half <= inp /\ inp < q * half + half
  OBVIOUS
<1>2. q = 0 <=> 0 <= inp /\ inp < half
  BY <1>1
<1>3. q = -1 <=> -half <= inp /\ inp < 0
  BY <1>1
<1> QED
  BY <1>2, <1>3 DEF intsat, Expected

LEMMA Unwrapped == ASSUME NEW n \in Nat, NEW m \in Nat, n < m PROVE n % m = n
  OBVIOUS
-----------------------------------------------------------------------------
(* The multiplier is disarmed wherever it is not used, mul_fin is up only  *)
(* after the last round, and from the first round on its operands are the  *)
(* ones it took: they change only together with mul_arm falling, and the   *)
(* multiplier starts over before mul_arm can rise again.                   *)
Unused == {"WAIT_ON_ARM", "CALCULATE_ERR", "CALCULATE_A_PART_1",
           "CALCULATE_A_PART_2", "CALCULATE_NEW_DAC_VALUE_PART_1",
           "CALCULATE_NEW_DAC_VALUE_PART_2", "WAIT_ON_DISARM"}

MulInv ==
    /\ mul_arm \in BOOLEAN /\ mul_fin \in BOOLEAN
    /\ loop_accul \in 0..CONSTS_WID + 1
    /\ state \in Unused => ~mul_arm
    /\ mul_fin => loop_accul = CONSTS_WID + 1
    /\ mul_arm /\ loop_accul # 0 => factors = <<a1, a2>>

LEMMA WidthIsNat ==
    /\ CONSTS_WID \in Nat \ {0}
    /\ {0, 1} \subseteq 0..CONSTS_WID + 1 /\ CONSTS_WID + 1 # 0
  BY WidthAssumption DEF CONSTS_WID, CONSTS_WHOLE, E_WID

LEMMA MulInvInit == Init => MulInv
  BY WidthIsNat DEF Init, MulInv, Unused, Multiplier!MulInit

(* One round at a time the counter stays below its limit. *)
LEMMA MulStepCounts ==
    ASSUME MulInv, Multiplier!MulStep
    PROVE  /\ loop_accul' \in 0..CONSTS_WID + 1
           /\ mul_fin' \in BOOLEAN
           /\ mul_fin' => loop_accul' = CONSTS_WID + 1
           /\ ~mul_arm => loop_accul' = 0
           /\ mul_arm /\ loop_accul = 0 => factors' = <<a1, a2>>
           /\ mul_arm /\ loop_accul # 0 => factors' = factors
<1> USE WidthIsNat DEF MulInv
<1>1. CASE Multiplier!Disarmed
  BY <1>1 DEF Multiplier!Disarmed
<1>2. CASE Multiplier!TakeOperands
  BY <1>2 DEF Multiplier!TakeOperands
<1>3. CASE Multiplier!AddAndShift
  <2>1. loop_accul + 1 \in Nat /\ loop_accul + 1 < 2^CONSTS_SIZ
    BY <1>3, WidthAssumption DEF Multiplier!AddAndShift, Multiplier!MoreRounds
  <2>2. (loop_accul + 1) % 2^CONSTS_SIZ = loop_accul + 1
    BY <2>1, Unwrapped, WidthAssumption
  <2>3. loop_accul' = loop_accul + 1
    BY <1>3, <2>2 DEF Multiplier!AddAndShift
  <2> QED
    BY <1>3, <2>3 DEF Multiplier!AddAndShift, Multiplier!MoreRounds
<1>4. CASE Multiplier!Finish
  BY <1>4 DEF Multiplier!Finish, Multiplier!MoreRounds
<1> QED
  BY <1>1, <1>2, <1>3, <1>4 DEF Multiplier!MulStep

(* What the unit does to the operands and to mul_arm in any of its states. *)
LEMMA UnitStepReleases ==
    ASSUME MulInv, UnitStep
    PROVE  /\ mul_arm' \in BOOLEAN
           /\ state' \in Unused => ~mul_arm'
           /\ mul_arm /\ mul_arm' => UNCHANGED <<a1, a2>>
<1> USE DEF MulInv, Unused
<1>1. CASE WaitOnArm BY <1>1 DEF WaitOnArm
<1>2. CASE CalculateErr BY <1>2 DEF CalculateErr
<1>3. CASE CalculateDacE BY <1>3 DEF CalculateDacE
<1>4. CASE WaitOnCalculateDt BY <1>4 DEF WaitOnCalculateDt
<1>5. CASE CalculateIdt BY <1>5 DEF CalculateIdt
<1>6. CASE CalculateEpidt BY <1>6 DEF CalculateEpidt
<1>7. CASE CalculateEp BY <1>7 DEF CalculateEp
<1>8. CASE ArmMultiplier BY <1>8 DEF ArmMultiplier
<1>9. CASE AwaitProduct BY <1>9 DEF AwaitProduct, unitRegs
<1>10. CASE CalculateAPart1 BY <1>10 DEF CalculateAPart1
<1>11. CASE CalculateAPart2 BY <1>11 DEF CalculateAPart2
<1>12. CASE CalculateNewDacValuePart1 BY <1>12 DEF CalculateNewDacValuePart1
<1>13. CASE CalculateNewDacValuePart2 BY <1>13 DEF CalculateNewDacValuePart2
<1>14. CASE WaitOnDisarm BY <1>14 DEF WaitOnDisarm
<1> QED
  BY <1>1, <1>2, <1>3, <1>4, <1>5, <1>6, <1>7, <1>8, <1>9, <1>10, <1>11, <1>12,
     <1>13, <1>14 DEF UnitStep

LEMMA MulInvNext == MulInv /\ [Next]_vars => MulInv'
<1> SUFFICES ASSUME MulInv, [Next]_vars PROVE MulInv'
  OBVIOUS
<1>1. CASE Tick
  <2>1. UnitStep /\ Multiplier!MulStep
    BY <1>1 DEF Tick
  <2>2. mul_arm' /\ loop_accul' # 0 => factors' = <<a1', a2'>>
    BY <2>1, MulStepCounts, UnitStepReleases DEF MulInv
  <2> QED
    BY <2>1, <2>2, MulStepCounts, UnitStepReleases DEF MulInv
<1>2. CASE Reset
  BY <1>2, WidthIsNat DEF Reset, UnitHalt, Multiplier!MulHalt, MulInv, Unused
<1>3. CASE UNCHANGED vars
  BY <1>3 DEF vars, unitRegs, product, MulInv
<1> QED
  BY <1>1, <1>2, <1>3 DEF Next

(* Whenever the unit looks at a product, the multiplier has finished with  *)
(* the operands that are in the registers at that moment, although mul_fin *)
(* outlives mul_arm by a cycle.                                            *)
THEOREM FactorsAreCurrent == Spec => []FactorsCurrent
<1>1. Init => MulInv BY MulInvInit
<1>2. MulInv /\ [Next]_vars => MulInv' BY MulInvNext
<1>3. MulInv => FactorsCurrent
  BY WidthIsNat DEF MulInv, FactorsCurrent
<1> QED BY <1>1, <1>2, <1>3, PTL DEF Spec
-----------------------------------------------------------------------------
(* The results are those of add_sat once the unit has answered. *)
ResultInv ==
    state \in {"CALCULATE_NEW_DAC_VALUE_PART_2", "WAIT_ON_DISARM"} =>
        adj_val = saturated_add

StateInv == state \in Unused \cup {"CALCULATE_DAC_E", "WAIT_ON_CALCULATE_DT",
                                   "CALCULATE_IDT", "CALCULATE_EPIDT",
                                   "CALCULATE_EP"}

UnitInv == ResultInv /\ StateInv /\ {arm, finished} \subseteq BOOLEAN

LEMMA UnitStepImplements ==
    ASSUME UnitInv, UnitStep
    PROVE  /\ ResultInv' /\ StateInv' /\ finished' \in BOOLEAN
           /\ Unit!UnitNext
<1> USE DEF UnitInv, ResultInv, StateInv, Unused, phase, saturated_add,
            new_dac_val, Unit!UnitNext, Unit!Idle, Unit!Work, Unit!Done, Unit!Kept
<1>1. CASE WaitOnArm BY <1>1 DEF WaitOnArm
<1>2. CASE CalculateErr BY <1>2 DEF CalculateErr
<1>3. CASE CalculateDacE BY <1>3 DEF CalculateDacE
<1>4. CASE WaitOnCalculateDt BY <1>4 DEF WaitOnCalculateDt
<1>5. CASE CalculateIdt BY <1>5 DEF CalculateIdt
<1>6. CASE CalculateEpidt BY <1>6 DEF CalculateEpidt
<1>7. CASE CalculateEp BY <1>7 DEF CalculateEp
<1>8. CASE ArmMultiplier BY <1>8 DEF ArmMultiplier
<1>9. CASE AwaitProduct BY <1>9 DEF AwaitProduct, unitRegs
<1>10. CASE CalculateAPart1 BY <1>10 DEF CalculateAPart1
<1>11. CASE CalculateAPart2 BY <1>11 DEF CalculateAPart2
<1>12. CASE CalculateNewDacValuePart1 BY <1>12 DEF CalculateNewDacValuePart1
<1>13. CASE CalculateNewDacValuePart2 BY <1>13 DEF CalculateNewDacValuePart2
<1>14. CASE WaitOnDisarm BY <1>14 DEF WaitOnDisarm
<1> QED
  BY <1>1, <1>2, <1>3, <1>4, <1>5, <1>6, <1>7, <1>8, <1>9, <1>10, <1>11, <1>12,
     <1>13, <1>14 DEF UnitStep

(* The safety half of the contract, for every width and every user: work   *)
(* only when armed, finished only while armed, results kept in between.    *)
THEOREM UnitKeepsContract == Spec => Unit!UnitSafety
<1>1. Init => UnitInv /\ Unit!UnitInit
  BY DEF Init, UnitInv, ResultInv, StateInv, Unused, Unit!UnitInit, phase
<1>2. UnitInv /\ [Next]_vars => UnitInv' /\ [Unit!UnitNext]_(Unit!unit)
  <2> SUFFICES ASSUME UnitInv, [Next]_vars
               PROVE  UnitInv' /\ [Unit!UnitNext]_(Unit!unit)
    OBVIOUS
  <2>1. CASE Tick
    <3>1. arm' \in BOOLEAN
      BY <2>1, UnitStepImplements
         DEF Tick, User, Calculating, Resting, NextCalculation, UnitInv
    <3> QED
      BY <2>1, <3>1, UnitStepImplements DEF Tick, UnitInv
  <2>2. CASE Reset
    BY <2>2 DEF Reset, UnitHalt, UnitInv, ResultInv, StateInv, Unused, phase,
                Unit!UnitNext, Unit!Halt
  <2>3. CASE UNCHANGED vars
    BY <2>3 DEF vars, unitRegs, UnitInv, ResultInv, StateInv, phase,
                saturated_add, new_dac_val, Unit!unit
  <2> QED
    BY <2>1, <2>2, <2>3 DEF Next
<1> QED
  BY <1>1, <1>2, PTL DEF Spec, Unit!UnitSafety
-----------------------------------------------------------------------------
(* Arithmetic *)

LEMMA ModRange ==
    ASSUME NEW m \in Nat \ {0}, NEW x \in Int
    PROVE  /\ x % m \in 0..m - 1 /\ x \div m \in Int
           /\ x = (x \div m) * m + (x % m)
<1>1. x % m \in 0..m - 1 /\ x \div m \in Int
    OBVIOUS
<1>2. x % m = x - m * (x \div m)
    BY SMTT(30)
<1> DEFINE r == x % m
           q == x \div m
<1>3. r \in Int /\ q \in Int /\ r = x - m * q
    BY <1>1, <1>2
<1> HIDE DEF r, q
<1>4. m * q \in Int /\ m * q = q * m
    BY <1>3
<1>5. x = q * m + r
    BY <1>3, <1>4
<1> QED
    BY <1>1, <1>5 DEF r, q

LEMMA DivUnique ==
    ASSUME NEW m \in Nat \ {0}, NEW q \in Int, NEW r \in 0..m - 1
    PROVE  (q * m + r) % m = r /\ (q * m + r) \div m = q
<1> DEFINE x == q * m + r
           n == x \div m
           s == x % m
<1>1. x \in Int /\ n \in Int /\ s \in 0..m - 1 /\ x = n * m + s
    BY ModRange
<1>2. (q - n) * m = s - r
    BY <1>1
<1> HIDE DEF x, n, s
<1>3. ~(q - n >= 1)
    <2>1. SUFFICES ASSUME q - n >= 1 PROVE FALSE
        OBVIOUS
    <2>2. (q - n) * m >= m
        BY <1>1, <2>1
    <2> QED
        BY <1>1, <1>2, <2>2
<1>4. ~(q - n <= -1)
    <2>1. SUFFICES ASSUME q - n <= -1 PROVE FALSE
        OBVIOUS
    <2>2. (q - n) * m <= -m
        BY <1>1, <2>1
    <2> QED
        BY <1>1, <1>2, <2>2
<1>5. q = n
    BY <1>1, <1>3, <1>4
<1>6. r = s
    BY <1>1, <1>2, <1>5
<1> QED
    BY <1>5, <1>6 DEF x, n, s

(* A word that is in range stays as it is; any other one gets there.       *)
LEMMA SignExtension ==
    ASSUME NEW x \in Int, NEW half \in Nat \ {0}
    PROVE  /\ sign_extend(x, half) \in -half..half - 1
           /\ x \in -half..half - 1 => sign_extend(x, half) = x
<1>1. x % (2 * half) \in 0..2 * half - 1
    BY ModRange
<1>2. CASE 0 <= x /\ x < half
    <2>1. x % (2 * half) = x
        BY <1>2, Unwrapped
    <2> QED
        BY <1>1, <1>2, <2>1 DEF sign_extend
<1>3. CASE -half <= x /\ x < 0
    <2>1. ((-1) * (2 * half) + (x + 2 * half)) % (2 * half) = x + 2 * half
        BY <1>3, DivUnique
    <2>2. (-1) * (2 * half) + (x + 2 * half) = x
        OBVIOUS
    <2>3. x % (2 * half) = x + 2 * half
        BY <2>1, <2>2
    <2> QED
        BY <1>1, <1>3, <2>3 DEF sign_extend
<1>4. CASE ~(x \in -half..half - 1)
    BY <1>1, <1>4 DEF sign_extend
<1> QED
    BY <1>2, <1>3, <1>4

(* Words with the same bits are extended alike. *)
LEMMA SameBits ==
    ASSUME NEW x \in Int, NEW y \in Int, NEW half \in Nat \ {0},
           x % (2 * half) = y % (2 * half), y \in -half..half - 1
    PROVE  sign_extend(x, half) = y
<1>1. sign_extend(y, half) = y
    BY SignExtension
<1> QED
    BY <1>1 DEF sign_extend

LEMMA ExpectedRange ==
    ASSUME NEW x \in Int, NEW half \in Nat \ {0}
    PROVE  Expected(x, half) \in -half..half - 1
BY DEF Expected

LEMMA Factor ==
    ASSUME NEW a \in Nat, NEW x \in Int, NEW y \in Int, x <= y
    PROVE  a * x \in Int /\ a * x <= a * y
<1>1. a * (y - x) >= 0
    OBVIOUS
<1> QED
    BY <1>1

LEMMA ProductBound ==
    ASSUME NEW x \in Int, NEW y \in Int, NEW a \in Nat, NEW b \in Nat,
           -a <= x, x <= a, -b <= y, y <= b
    PROVE  x * y \in Int /\ -(a * b) <= x * y /\ x * y <= a * b
<1>1. a * b \in Int /\ x * y \in Int
    OBVIOUS
<1>2. CASE y >= 0
    <2>1. y * x <= y * a /\ y * (-a) <= y * x /\ a * y <= a * b
        BY <1>2, Factor
    <2>2. y * (-a) = -(a * y) /\ y * a = a * y /\ y * x = x * y
        OBVIOUS
    <2> DEFINE xy == x * y
               ay == a * y
               ab == a * b
    <2>3. xy \in Int /\ ay \in Int /\ ab \in Int /\ xy <= ay /\ -ay <= xy /\ ay <= ab
        BY <1>1, <2>1, <2>2
    <2> HIDE DEF xy, ay, ab
    <2>4. -ab <= xy /\ xy <= ab
        BY <2>3
    <2> QED
        BY <1>1, <2>4 DEF xy, ab
<1>3. CASE y < 0
    <2> DEFINE z == -y
    <2>0. z \in Nat /\ z <= b
        BY <1>3
    <2>1. z * x <= z * a /\ z * (-a) <= z * x /\ a * z <= a * b
        BY <2>0, Factor
    <2>2. z * (-a) = -(a * z) /\ z * a = a * z /\ z * x = -(x * y)
        OBVIOUS
    <2>5. a * z \in Int
        BY <2>0
    <2> DEFINE xy == x * y
               az == a * z
               ab == a * b
    <2>3. xy \in Int /\ az \in Int /\ ab \in Int /\ -xy <= az /\ -az <= -xy /\ az <= ab
        BY <1>1, <2>1, <2>2, <2>5
    <2> HIDE DEF xy, az, ab, z
    <2>4. -ab <= xy /\ xy <= ab
        BY <2>3
    <2> QED
        BY <1>1, <2>4 DEF xy, ab
<1> QED
    BY <1>2, <1>3
-----------------------------------------------------------------------------
(* Widths *)

LEMMA Widths ==
    /\ {CONSTS_WID, CONSTS_WHOLE, CONSTS_FRAC, ADC_WID, CYCLE_COUNT_WID, DAC_WID}
          \subseteq Nat \ {0}
    /\ CONSTS_WID = CONSTS_WHOLE + CONSTS_FRAC /\ CONSTS_WHOLE = DAC_WID + 1
    /\ ADC_WID + 1 < CONSTS_WHOLE /\ CYCLE_COUNT_WID < CONSTS_WHOLE
BY WidthAssumption DEF CONSTS_WID, CONSTS_WHOLE, E_WID

LEMMA Power ==
    ASSUME NEW i \in Nat, NEW j \in Nat, i + j <= 2 * CONSTS_WID + 1
    PROVE  2^i \in Nat \ {0} /\ 2^j \in Nat \ {0} /\ 2^(i + j) = 2^i * 2^j
<1>1. i \in 0..2 * CONSTS_WID + 1 /\ j \in 0..2 * CONSTS_WID + 1 /\ j + i <= 2 * CONSTS_WID + 1
    BY Widths
<1> QED
    BY <1>1, PowerAssumption

LEMMA Doubled ==
    ASSUME NEW i \in Nat, i <= 2 * CONSTS_WID
    PROVE  2^i \in Nat \ {0} /\ 2^(i + 1) = 2 * 2^i
<1>1. i + 1 <= 2 * CONSTS_WID + 1 /\ 1 \in Nat
    BY Widths
<1>2. 2^i \in Nat \ {0} /\ 2^(i + 1) = 2^i * 2^1
    BY <1>1, Power
<1> QED
    BY <1>2, PowerAssumption

(* The constants of the module in terms of each other. *)
LEMMA Sizes ==
    /\ ConstHalf \in Nat \ {0} /\ 2^CONSTS_WID = 2 * ConstHalf
    /\ One \in Nat \ {0} /\ DacHalf \in Nat \ {0} /\ SumHalf = 2 * ConstHalf
    /\ 2^(CONSTS_WHOLE - 1) \in Nat \ {0} /\ ConstHalf = 2^(CONSTS_WHOLE - 1) * One
    /\ Multiplier!RegHalf = 2 * (2^CONSTS_WID * 2^CONSTS_WID)
    /\ 2^(Multiplier!OUT_LEN - 1) = ConstHalf * 2^CONSTS_WID
<1> USE Widths
<1>1. ConstHalf \in Nat \ {0} /\ 2^CONSTS_WID = 2 * ConstHalf
    <2>1. CONSTS_WID - 1 \in Nat /\ CONSTS_WID - 1 <= 2 * CONSTS_WID /\ (CONSTS_WID - 1) + 1 = CONSTS_WID
        OBVIOUS
    <2>2. 2^(CONSTS_WID - 1) \in Nat \ {0} /\ 2^((CONSTS_WID - 1) + 1) = 2 * 2^(CONSTS_WID - 1)
        BY <2>1, Doubled
    <2> QED
        BY <2>1, <2>2 DEF ConstHalf
<1>2. /\ One \in Nat \ {0} /\ 2^(CONSTS_WHOLE - 1) \in Nat \ {0}
      /\ ConstHalf = 2^(CONSTS_WHOLE - 1) * One
    <2>1. /\ CONSTS_WHOLE - 1 \in Nat /\ CONSTS_FRAC \in Nat
          /\ (CONSTS_WHOLE - 1) + CONSTS_FRAC <= 2 * CONSTS_WID + 1
          /\ (CONSTS_WHOLE - 1) + CONSTS_FRAC = CONSTS_WID - 1
        OBVIOUS
    <2>2. /\ 2^(CONSTS_WHOLE - 1) \in Nat \ {0} /\ 2^CONSTS_FRAC \in Nat \ {0}
          /\ 2^((CONSTS_WHOLE - 1) + CONSTS_FRAC) = 2^(CONSTS_WHOLE - 1) * 2^CONSTS_FRAC
        BY <2>1, Power
    <2> QED
        BY <2>1, <2>2 DEF ConstHalf, One
<1>3. DacHalf \in Nat \ {0}
    <2>1. DAC_WID - 1 \in Nat /\ DAC_WID - 1 <= 2 * CONSTS_WID
        OBVIOUS
    <2> QED
        BY <2>1, Doubled DEF DacHalf
<1>4. Multiplier!RegHalf = 2 * (2^CONSTS_WID * 2^CONSTS_WID)
    <2>1. CONSTS_WID + CONSTS_WID \in Nat /\ CONSTS_WID + CONSTS_WID <= 2 * CONSTS_WID
        OBVIOUS
    <2>2. 2^((CONSTS_WID + CONSTS_WID) + 1) = 2 * 2^(CONSTS_WID + CONSTS_WID)
        BY <2>1, Doubled
    <2>3. 2^(CONSTS_WID + CONSTS_WID) = 2^CONSTS_WID * 2^CONSTS_WID
        BY Power
    <2> QED
        BY <2>2, <2>3 DEF Multiplier!RegHalf, Multiplier!OUT_LEN
<1>5. 2^(Multiplier!OUT_LEN - 1) = ConstHalf * 2^CONSTS_WID
    <2>1. /\ CONSTS_WID - 1 \in Nat
          /\ (CONSTS_WID - 1) + CONSTS_WID <= 2 * CONSTS_WID + 1
          /\ (CONSTS_WID - 1) + CONSTS_WID = (CONSTS_WID + CONSTS_WID) - 1
        OBVIOUS
    <2>2. 2^((CONSTS_WID - 1) + CONSTS_WID) = 2^(CONSTS_WID - 1) * 2^CONSTS_WID
        BY <2>1, Power
    <2> QED
        BY <2>1, <2>2 DEF ConstHalf, Multiplier!OUT_LEN
<1> QED
    BY <1>1, <1>2, <1>3, <1>4, <1>5 DEF SumHalf
-----------------------------------------------------------------------------
(* The register p after n rounds of a multiplication of m by u: low is the *)
(* signed number of the n bits of u that are used up, more the bits that   *)
(* are not, and carry the last bit shifted out, which Booth's rule looks   *)
(* at.                                                                     *)
Partial(q, m, u, n) ==
    LET K == 2^n
        R == 2^(CONSTS_WID - n)
    IN \E low \in -K..K, more \in 0..R - 1, carry \in {0, 1} :
          /\ q = 2 * (R * (m * low)) + 2 * more + carry
          /\ u = low + K * (more + carry)
          /\ IF carry = 0 THEN 0 <= low /\ 2 * low < K ELSE -K <= 2 * low /\ low < 0

LEMMA PartialStarts ==
    ASSUME NEW m \in Int, NEW u \in 0..2^CONSTS_WID - 1
    PROVE  Partial(2 * u, m, u, 0)
<1>1. CONSTS_WID - 0 = CONSTS_WID /\ 2^0 = 1
    BY Widths, PowerAssumption
<1> DEFINE R == 2^CONSTS_WID
<1>2. R \in Nat \ {0}
    BY Sizes
<1> HIDE DEF R
<1>3. R * (m * 0) = 0
    BY <1>2
<1>4. /\ 2 * u = 2 * (R * (m * 0)) + 2 * u + 0
      /\ u = 0 + 1 * (u + 0)
    BY <1>2, <1>3 DEF R
<1>5. 0 \in -1..1 /\ u \in 0..R - 1 /\ 0 \in {0, 1}
    BY DEF R
<1> QED
    BY <1>1, <1>4, <1>5 DEF Partial, R

(* A round uses up one more bit. *)
LEMMA RoundKept ==
    ASSUME NEW n \in 0..CONSTS_WID - 1, NEW m \in Const, NEW u, NEW q,
           Partial(q, m, u, n)
    PROVE  Partial(Multiplier!Round(q, m), m, u, n + 1)
<1> DEFINE T  == 2^CONSTS_WID
           H  == ConstHalf
           K  == 2^n
           K1 == 2^(n + 1)
           R  == 2^(CONSTS_WID - n)
           R1 == 2^(CONSTS_WID - (n + 1))
<1>1. /\ H \in Nat \ {0} /\ T = 2 * H /\ Multiplier!RegHalf = 2 * (T * T)
      /\ m \in Int /\ -H <= m /\ m <= H
    BY Sizes DEF Const
<1>2. /\ K \in Nat \ {0} /\ K1 = 2 * K
      /\ R1 \in Nat \ {0} /\ R = 2 * R1 /\ T = K * R
    <2>1. n \in Nat /\ n <= 2 * CONSTS_WID
        BY Widths
    <2>2. K \in Nat \ {0} /\ K1 = 2 * K
        BY <2>1, Doubled
    <2>3. /\ CONSTS_WID - (n + 1) \in Nat /\ CONSTS_WID - (n + 1) <= 2 * CONSTS_WID
          /\ (CONSTS_WID - (n + 1)) + 1 = CONSTS_WID - n
        BY Widths
    <2>4. R1 \in Nat \ {0} /\ 2^((CONSTS_WID - (n + 1)) + 1) = 2 * R1
        BY <2>3, Doubled
    <2>5. /\ n \in Nat /\ CONSTS_WID - n \in Nat /\ n + (CONSTS_WID - n) <= 2 * CONSTS_WID + 1
          /\ n + (CONSTS_WID - n) = CONSTS_WID
        BY Widths
    <2>6. 2^(n + (CONSTS_WID - n)) = K * R
        BY <2>5, Power
    <2> QED
        BY <2>2, <2>3, <2>4, <2>5, <2>6
<1>3. 2^(CONSTS_WID + 1) = 2 * T
    <2>1. CONSTS_WID \in Nat /\ CONSTS_WID <= 2 * CONSTS_WID
        BY Widths
    <2> QED
        BY <2>1, Doubled
<1>4. PICK low \in -K..K, more \in 0..R - 1, carry \in {0, 1} :
          /\ q = 2 * (R * (m * low)) + 2 * more + carry
          /\ u = low + K * (more + carry)
          /\ IF carry = 0 THEN 0 <= low /\ 2 * low < K ELSE -K <= 2 * low /\ low < 0
    BY DEF Partial
<1> HIDE DEF T, H, K, K1, R, R1
<1> DEFINE bit   == more % 2
           more1 == more \div 2
           low1  == IF bit = 1 /\ carry = 0 THEN low - K
                    ELSE IF bit = 0 /\ carry = 1 THEN low + K ELSE low
<1>5. bit \in {0, 1} /\ more1 \in Int /\ more = 2 * more1 + bit
    <2>1. 2 \in Nat \ {0} /\ more \in Int
        BY <1>2
    <2> QED
        BY <2>1, ModRange
<1>6. more1 \in 0..R1 - 1
    BY <1>2, <1>5
<1> HIDE DEF bit, more1
<1>7. /\ low1 \in -K..K
      /\ IF bit = 0 THEN 0 <= low1 /\ 2 * low1 < K1 ELSE -K1 <= 2 * low1 /\ low1 < 0
    BY <1>2, <1>4, <1>5
<1>8. u = low1 + K1 * (more1 + bit)
    <2>1. K * (more + carry) = 2 * (K * more1) + K * (bit + carry)
        BY <1>2, <1>4, <1>5, <1>6
    <2>2. K1 * (more1 + bit) = 2 * (K * more1) + 2 * (K * bit)
        BY <1>2, <1>5, <1>6
    <2> DEFINE km == K * more1
    <2>3. km \in Int
        BY <1>2, <1>6
    <2> HIDE DEF km
    <2>4. /\ u = low + (2 * km + K * (bit + carry))
          /\ K1 * (more1 + bit) = 2 * km + 2 * (K * bit)
        BY <1>4, <2>1, <2>2 DEF km
    <2> QED
        BY <1>2, <1>4, <1>5, <2>3, <2>4
(* The register before the shift, and what was added. *)
<1> DEFINE x == R * (m * low)
           y == R * (m * low1)
           a == m * 2^(CONSTS_WID + 1)
           v == 2 * y + 2 * more + carry
<1>9. low \in Int /\ low1 \in Int /\ x \in Int /\ y \in Int /\ a \in Int
    BY <1>1, <1>2, <1>3, <1>7
<1>10. a = 2 * (R * (m * K))
    BY <1>1, <1>2, <1>3
<1>11. q = 2 * x + 2 * more + carry
    BY <1>4
<1>12. /\ low1 = low - K => y = x - R * (m * K)
       /\ low1 = low + K => y = x + R * (m * K)
    <2>1. /\ R * (m * (low - K)) = x - R * (m * K)
          /\ R * (m * (low + K)) = x + R * (m * K)
        BY <1>1, <1>2, <1>9
    <2> HIDE DEF low1
    <2> QED
        BY <2>1
<1>13. q % 4 = 2 * bit + carry
    <2> DEFINE z == R1 * (m * low) + more1
    <2>1. z \in Int
        BY <1>1, <1>2, <1>6, <1>9
    <2>2. x = 2 * (R1 * (m * low))
        BY <1>1, <1>2, <1>9
    <2>3. q = z * 4 + (2 * bit + carry)
        BY <1>1, <1>2, <1>5, <1>6, <1>9, <1>11, <2>2
    <2> HIDE DEF z
    <2>4. 2 * bit + carry \in 0..4 - 1 /\ 4 \in Nat \ {0}
        BY <1>4, <1>5
    <2> QED
        BY <2>1, <2>3, <2>4, DivUnique
<1>14. v = IF q % 4 = 2 THEN q - a ELSE IF q % 4 = 1 THEN q + a ELSE q
    <2> DEFINE w == R * (m * K)
    <2>1. w \in Int /\ a = 2 * w
        BY <1>1, <1>2, <1>10
    <2>2. /\ low1 = low - K => y = x - w
          /\ low1 = low + K => y = x + w
          /\ low1 = low => y = x
        BY <1>12
    <2> HIDE DEF w, x, y, a
    <2> QED
        BY <1>2, <1>4, <1>5, <1>9, <1>11, <1>13, <2>1, <2>2
<1>15. -(T * H) <= y /\ y <= T * H
    <2>1. m * low1 \in Int /\ -(H * K) <= m * low1 /\ m * low1 <= H * K
        <3>1. -K <= low1 /\ low1 <= K /\ K \in Nat /\ H \in Nat
            BY <1>1, <1>2, <1>7
        <3> HIDE DEF low1
        <3> QED
            BY <1>1, <1>9, <3>1, ProductBound
    <2> DEFINE z == m * low1
               hk == H * K
    <2>2. hk \in Int /\ z \in Int /\ -hk <= z /\ z <= hk
        BY <1>1, <1>2, <2>1
    <2>3. R * hk = T * H /\ R * (-hk) = -(T * H)
        BY <1>1, <1>2
    <2> HIDE DEF z, hk
    <2>4. R \in Nat
        BY <1>2
    <2>5. R * (-hk) <= R * z /\ R * z <= R * hk
        BY <2>2, <2>4, Factor
    <2> QED
        BY <2>3, <2>5 DEF z
<1>16. v \in -(2 * (T * T))..2 * (T * T) - 1 /\ 2 * (T * T) \in Nat \ {0} /\ v \in Int
    <2> DEFINE th == T * H
    <2>1. th \in Nat \ {0} /\ T * T = 2 * th /\ T <= th
        BY <1>1
    <2>2. R <= T
        BY <1>2
    <2> HIDE DEF th, y
    <2> QED
        BY <1>1, <1>2, <1>4, <1>9, <1>15, <2>1, <2>2 DEF th
<1>17. Multiplier!Round(q, m) = v \div 2
    <2>1. sign_extend(v, Multiplier!RegHalf) = v
        BY <1>1, <1>16, SignExtension
    <2> HIDE DEF v
    <2>2. Multiplier!Round(q, m) =
              sign_extend(IF q % 4 = 2 THEN q - a ELSE IF q % 4 = 1 THEN q + a ELSE q,
                          Multiplier!RegHalf) \div 2
        BY DEF Multiplier!Round, Multiplier!sign_extend, sign_extend
    <2> QED
        BY <1>14, <2>1, <2>2
<1>18. v \div 2 = y + more
    <2>1. y + more \in Int /\ carry \in 0..2 - 1 /\ 2 \in Nat \ {0}
        BY <1>2, <1>4, <1>9
    <2>2. v = (y + more) * 2 + carry
        <3> HIDE DEF y
        <3> QED
            BY <1>2, <1>4, <1>9
    <2> HIDE DEF v, y
    <2> QED
        BY <2>1, <2>2, DivUnique
<1>19. Multiplier!Round(q, m) = 2 * (R1 * (m * low1)) + 2 * more1 + bit
    <2>1. y = 2 * (R1 * (m * low1))
        BY <1>1, <1>2, <1>9
    <2> DEFINE r == R1 * (m * low1)
    <2>2. r \in Int
        BY <1>1, <1>2, <1>9
    <2> HIDE DEF y, v, r
    <2>3. y = 2 * r
        BY <2>1 DEF r
    <2>4. Multiplier!Round(q, m) = 2 * r + 2 * more1 + bit
        BY <1>2, <1>5, <1>6, <1>17, <1>18, <2>2, <2>3
    <2> QED
        BY <2>4 DEF r
<1>20. low1 \in -K1..K1
    BY <1>2, <1>7
<1> HIDE DEF low1
<1> QED
    BY <1>5, <1>6, <1>7, <1>8, <1>19, <1>20 DEF Partial, K1, R1

(* After the last round the register holds the product. *)
LEMMA PartialEnds ==
    ASSUME NEW m \in Const, NEW x \in Const, NEW q,
           Partial(q, m, x % 2^CONSTS_WID, CONSTS_WID)
    PROVE  sign_extend(q \div 2, 2^(Multiplier!OUT_LEN - 1)) = m * x
<1> DEFINE T == 2^CONSTS_WID
           H == ConstHalf
<1>1. /\ H \in Nat \ {0} /\ T = 2 * H /\ 2^(Multiplier!OUT_LEN - 1) = H * T
      /\ m \in Int /\ -H <= m /\ m <= H /\ x \in Int /\ -H <= x /\ x < H
    BY Sizes DEF Const
<1> DEFINE R == 2^(CONSTS_WID - CONSTS_WID)
<1>2. R = 1
    <2>1. CONSTS_WID - CONSTS_WID = 0
        BY Widths
    <2> QED
        BY <2>1, PowerAssumption
<1>3. PICK low \in -T..T, more \in 0..R - 1, carry \in {0, 1} :
          /\ q = 2 * (R * (m * low)) + 2 * more + carry
          /\ x % T = low + T * (more + carry)
          /\ IF carry = 0 THEN 0 <= low /\ 2 * low < T ELSE -T <= 2 * low /\ low < 0
    BY DEF Partial
<1> HIDE DEF T, H, R
<1>4. more = 0 /\ low \in Int /\ -H <= low /\ low < H /\ x % T = low + T * carry
    BY <1>1, <1>2, <1>3
<1>5. low = x
    <2>1. low % T = x % T
        <3>1. carry = 0 \/ carry = 1
            BY <1>3
        <3>2. ((-carry) * T + (low + T * carry)) % T = low + T * carry
            <4>1. low + T * carry \in 0..T - 1 /\ -carry \in Int
                BY <1>1, <1>3, <1>4
            <4>2. T \in Nat \ {0}
                BY <1>1
            <4> QED
                BY <4>1, <4>2, DivUnique
        <3>3. (-carry) * T + (low + T * carry) = low
            BY <1>1, <1>4, <3>1
        <3> QED
            BY <1>4, <3>2, <3>3
    <2>2. sign_extend(low, H) = x
        BY <1>1, <1>4, <2>1, SameBits
    <2>3. sign_extend(low, H) = low
        BY <1>1, <1>4, SignExtension
    <2> QED
        BY <2>2, <2>3
<1>6. q \div 2 = m * x
    <2> DEFINE y == m * x
    <2>1. y \in Int
        BY <1>1
    <2>2. q = 2 * (R * y) + 2 * more + carry
        BY <1>3, <1>5
    <2> HIDE DEF y
    <2>3. q = y * 2 + carry /\ carry \in 0..2 - 1 /\ 2 \in Nat \ {0}
        BY <1>2, <1>3, <1>4, <2>1, <2>2
    <2> QED
        BY <2>1, <2>3, DivUnique DEF y
<1>7. m * x \in -(H * T)..H * T - 1 /\ H * T \in Nat \ {0}
    <2>1. m * x \in Int /\ -(H * H) <= m * x /\ m * x <= H * H
        BY <1>1, ProductBound
    <2>2. H * T = 2 * (H * H) /\ H * H >= 1
        BY <1>1
    <2> DEFINE y == m * x
               hh == H * H
    <2>3. y \in Int /\ hh \in Int /\ -hh <= y /\ y <= hh /\ H * T = 2 * hh /\ hh >= 1
        BY <1>1, <2>1, <2>2
    <2> HIDE DEF y, hh
    <2>4. y \in -(H * T)..H * T - 1 /\ H * T \in Nat \ {0}
        BY <2>3
    <2> QED
        BY <2>4 DEF y
<1> QED
    BY <1>1, <1>6, <1>7, SignExtension
-----------------------------------------------------------------------------
(* Every register holds what its width allows. *)
Whole == -2^(CONSTS_WHOLE - 1)..2^(CONSTS_WHOLE - 1) - 1
Code  == -DacHalf..DacHalf - 1

RangeInv ==
    /\ {a1, a2, a1_reg, adj_val, adjval_prev} \subseteq Const
    /\ gains \in Const \X Const
    /\ {e_cur, e_prev} \subseteq Whole
    /\ cycles \in 0..2^CYCLE_COUNT_WID - 1
    /\ measured \in -2^(ADC_WID - 1)..2^(ADC_WID - 1) - 1
    /\ stored_dac_val \in Code
    /\ {add_sat, tmpstore, adj_sat, add_sat_dac, p} \subseteq Int

Narrow(x) == Expected(x, ConstHalf)

LEMMA NarrowRange == ASSUME NEW x \in Int PROVE Narrow(x) \in Const /\ Narrow(x) \in Int
<1>1. Narrow(x) \in Const
    BY Sizes, ExpectedRange DEF Narrow, Const
<1> QED
    BY <1>1, Sizes DEF Const

(* The whole numbers that there is room for, as constants and back. *)
LEMMA Scaled ==
    /\ \A x \in Whole : x * One \in Const
    /\ \A x \in Const : x \div One \in Whole
<1> DEFINE W == 2^(CONSTS_WHOLE - 1)
           F == One
           H == ConstHalf
<1>1. W \in Nat \ {0} /\ F \in Nat \ {0} /\ H = W * F
    BY Sizes
<1> HIDE DEF W, F, H
<1>2. ASSUME NEW x \in Int, -W <= x, x <= W - 1
      PROVE  x * F \in Int /\ -H <= x * F /\ x * F <= H - 1
    <2>1. F * x \in Int /\ F * (-W) <= F * x /\ F * x <= F * (W - 1)
        BY <1>1, <1>2, Factor
    <2>2. F * (-W) = -H /\ F * (W - 1) = H - F /\ F * x = x * F
        BY <1>1
    <2> DEFINE y == x * F
    <2>3. y \in Int /\ -H <= y /\ y <= H - F /\ H \in Int
        BY <1>1, <2>1, <2>2
    <2> HIDE DEF y
    <2>4. -H <= y /\ y <= H - 1
        BY <1>1, <2>3
    <2> QED
        BY <2>3, <2>4 DEF y
<1>3. ASSUME NEW x \in Int, -H <= x, x <= H - 1
      PROVE  x \div F \in Int /\ -W <= x \div F /\ x \div F <= W - 1
    <2> DEFINE q == x \div F
               r == x % F
    <2>1. q \in Int /\ r \in 0..F - 1 /\ x = q * F + r
        BY <1>1, ModRange
    <2> HIDE DEF q, r
    <2>2. ~(q >= W)
        <3> SUFFICES ASSUME q >= W PROVE FALSE
            OBVIOUS
        <3>1. F * q >= F * W
            BY <1>1, <2>1, Factor
        <3>2. F * q = q * F /\ F * W = H /\ q * F \in Int /\ H \in Int
            BY <1>1, <2>1
        <3> QED
            BY <1>1, <1>3, <2>1, <3>1, <3>2
    <2>3. ~(q + 1 <= -W)
        <3> SUFFICES ASSUME q + 1 <= -W PROVE FALSE
            OBVIOUS
        <3>1. F * (q + 1) <= F * (-W)
            BY <1>1, <2>1, Factor
        <3>2. F * (q + 1) = q * F + F /\ F * (-W) = -H /\ q * F \in Int /\ H \in Int
            BY <1>1, <2>1
        <3> QED
            BY <1>1, <1>3, <2>1, <3>1, <3>2
    <2> QED
        BY <1>1, <2>1, <2>2, <2>3 DEF q
<1>4. Whole = -W..W - 1 /\ Const = -H..H - 1
    BY DEF Whole, Const, W, H
<1> QED
    BY <1>1, <1>2, <1>3, <1>4 DEF F

(* A smaller width is a smaller power. *)
LEMMA Monotone ==
    ASSUME NEW i \in Nat, NEW j \in Nat, i <= j, j <= 2 * CONSTS_WID
    PROVE  /\ 2^i \in Nat \ {0} /\ 2^j \in Nat \ {0} /\ 2^i <= 2^j
           /\ \E k \in Nat \ {0} : 2^j = k * 2^i
<1>1. j - i \in Nat /\ (j - i) + i = j /\ j <= 2 * CONSTS_WID + 1
    BY Widths
<1>2. 2^(j - i) \in Nat \ {0} /\ 2^i \in Nat \ {0} /\ 2^((j - i) + i) = 2^(j - i) * 2^i
    BY <1>1, Power
<1> DEFINE a == 2^(j - i)
           b == 2^i
           c == 2^j
<1>3. a \in Nat \ {0} /\ b \in Nat \ {0} /\ c = a * b
    BY <1>1, <1>2
<1> HIDE DEF a, b, c
<1>4. c \in Nat \ {0} /\ b <= c
    BY <1>3
<1> QED
    BY <1>3, <1>4 DEF b, c

(* The error before it is scaled, and the length of an iteration. *)
Miss == (Setpoint - measured) * One
Slot == 2^(CONSTS_FRAC + ADC_WID + 1)

LEMMA InputSizes ==
    ASSUME RangeInv
    PROVE  /\ Slot \in Nat \ {0} /\ Slot = 2 * 2^(CONSTS_FRAC + ADC_WID)
           /\ 2^(CONSTS_FRAC + ADC_WID) \in Nat \ {0}
           /\ 2^(CONSTS_FRAC + ADC_WID) <= ConstHalf
           /\ \E k \in Nat \ {0} : ConstHalf = k * Slot
           /\ Miss \in -2^(CONSTS_FRAC + ADC_WID)..2^(CONSTS_FRAC + ADC_WID) - 1
           /\ cycles \in Whole
<1> USE Widths
<1> DEFINE b == 2^(CONSTS_FRAC + ADC_WID)
           a == 2^ADC_WID
           h == 2^(ADC_WID - 1)
<1>1. Slot \in Nat \ {0} /\ b \in Nat \ {0} /\ Slot = 2 * b
    <2>1. /\ CONSTS_FRAC + ADC_WID \in Nat /\ CONSTS_FRAC + ADC_WID <= 2 * CONSTS_WID
        OBVIOUS
    <2>2. b \in Nat \ {0} /\ 2^((CONSTS_FRAC + ADC_WID) + 1) = 2 * b
        BY <2>1, Doubled
    <2>3. (CONSTS_FRAC + ADC_WID) + 1 = CONSTS_FRAC + ADC_WID + 1
        OBVIOUS
    <2> HIDE DEF b
    <2> QED
        BY <2>2, <2>3 DEF Slot
<1>2. \E k \in Nat \ {0} : ConstHalf = k * Slot
    <2>1. /\ CONSTS_FRAC + ADC_WID + 1 \in Nat /\ CONSTS_WID - 1 \in Nat
          /\ CONSTS_FRAC + ADC_WID + 1 <= CONSTS_WID - 1
          /\ CONSTS_WID - 1 <= 2 * CONSTS_WID
        OBVIOUS
    <2> QED
        BY <2>1, Monotone DEF Slot, ConstHalf
<1>3. b <= ConstHalf
    <2>1. /\ CONSTS_FRAC + ADC_WID \in Nat /\ CONSTS_WID - 1 \in Nat
          /\ CONSTS_FRAC + ADC_WID <= CONSTS_WID - 1
          /\ CONSTS_WID - 1 <= 2 * CONSTS_WID
        OBVIOUS
    <2> QED
        BY <2>1, Monotone DEF ConstHalf
<1>4. a \in Nat \ {0} /\ h \in Nat \ {0} /\ a = 2 * h
    <2>1. ADC_WID - 1 \in Nat /\ ADC_WID - 1 <= 2 * CONSTS_WID /\ (ADC_WID - 1) + 1 = ADC_WID
        OBVIOUS
    <2> QED
        BY <2>1, Doubled
<1>5. b = One * a
    <2>1. CONSTS_FRAC \in Nat /\ ADC_WID \in Nat /\ CONSTS_FRAC + ADC_WID <= 2 * CONSTS_WID + 1
        OBVIOUS
    <2> QED
        BY <2>1, Power DEF One
<1>6. Setpoint \in -h..h - 1 /\ measured \in -h..h - 1
    BY InputAssumption DEF RangeInv
<1>7. Miss \in -b..b - 1
    <2> DEFINE d == Setpoint - measured
               F == One
    <2>1. F \in Nat \ {0}
        BY Sizes
    <2> HIDE DEF a, h, b
    <2>2. d \in Int /\ -a + 1 <= d /\ d <= a - 1
        BY <1>4, <1>6
    <2> HIDE DEF F, d
    <2>3. F * d \in Int /\ F * (-a + 1) <= F * d /\ F * d <= F * (a - 1)
        BY <1>4, <2>1, <2>2, Factor
    <2>4. F * (-a + 1) = -b + F /\ F * (a - 1) = b - F /\ F * d = d * F
        BY <1>4, <1>5, <2>1, <2>2 DEF F
    <2> DEFINE y == d * F
    <2>5. y \in Int /\ -b + F <= y /\ y <= b - F
        BY <2>3, <2>4
    <2> HIDE DEF y
    <2>6. y \in -b..b - 1
        BY <1>1, <2>1, <2>5
    <2> QED
        BY <2>6 DEF y, d, F, Miss
<1>8. cycles \in Whole
    <2>1. /\ CYCLE_COUNT_WID \in Nat /\ CONSTS_WHOLE - 1 \in Nat
          /\ CYCLE_COUNT_WID <= CONSTS_WHOLE - 1 /\ CONSTS_WHOLE - 1 <= 2 * CONSTS_WID
        OBVIOUS
    <2>2. /\ 2^CYCLE_COUNT_WID \in Nat /\ 2^(CONSTS_WHOLE - 1) \in Nat
          /\ 2^CYCLE_COUNT_WID <= 2^(CONSTS_WHOLE - 1)
        BY <2>1, Monotone
    <2> QED
        BY <2>2 DEF Whole, RangeInv
<1> QED
    BY <1>1, <1>2, <1>3, <1>7, <1>8

(* The wires behind the registers. *)
LEMMA Wires ==
    ASSUME RangeInv
    PROVE  /\ Multiplier!outn \in Int
           /\ mul_out \in Const /\ mul_out = Narrow(Multiplier!outn \div One)
           /\ saturated_add \in Const /\ saturated_add = Narrow(add_sat)
           /\ adj_final \in Code /\ adj_final = Expected(adj_sat, DacHalf)
           /\ new_dac_val \in Code /\ new_dac_val = Expected(add_sat_dac, DacHalf)
<1> USE Sizes DEF RangeInv
<1>1. Multiplier!outn \in Int
    <2> DEFINE h == 2^(Multiplier!OUT_LEN - 1)
    <2>1. h \in Nat \ {0}
        <3>1. 2^CONSTS_WID \in Nat \ {0} /\ ConstHalf \in Nat \ {0}
            BY Widths, Power
        <3> DEFINE x == 2^CONSTS_WID
                   y == ConstHalf
        <3>2. h = y * x /\ x \in Nat \ {0} /\ y \in Nat \ {0}
            BY <3>1
        <3> HIDE DEF h, x, y
        <3> QED
            BY <3>2
    <2>2. p \div 2 \in Int
        OBVIOUS
    <2>3. Multiplier!outn = sign_extend(p \div 2, h)
        BY DEF Multiplier!outn, Multiplier!sign_extend, sign_extend
    <2> HIDE DEF h
    <2>4. sign_extend(p \div 2, h) \in Int
        BY <2>1, <2>2, SignExtension
    <2> QED
        BY <2>3, <2>4
<1>2. mul_out \in Const /\ mul_out = Narrow(Multiplier!outn \div One)
    <2>1. Multiplier!outn \div One \in Int
        BY <1>1
    <2> QED
        BY <2>1, SaturationClamps, NarrowRange DEF mul_out, Narrow
<1>3. saturated_add \in Const /\ saturated_add = Narrow(add_sat)
    BY SaturationClamps, NarrowRange DEF saturated_add, Narrow
<1>4. adj_final \in Code /\ adj_final = Expected(adj_sat, DacHalf)
    BY SaturationClamps, ExpectedRange DEF adj_final, Code
<1>5. new_dac_val \in Code /\ new_dac_val = Expected(add_sat_dac, DacHalf)
    BY SaturationClamps, ExpectedRange DEF new_dac_val, Code
<1> QED
    BY <1>1, <1>2, <1>3, <1>4, <1>5

LEMMA ConstIsInt == Const \subseteq Int /\ Whole \subseteq Int /\ Code \subseteq Int /\ 0 \in Const
                    /\ 0 \in Whole
BY Sizes DEF Const, Whole, Code

LEMMA SumIsInt == ASSUME NEW x \in Int PROVE Sum(x) \in Int
<1>1. SumHalf \in Nat \ {0}
    BY Sizes
<1> QED
    BY <1>1, SignExtension DEF Sum

LEMMA RangeInit == Init => RangeInv
<1> SUFFICES ASSUME Init PROVE RangeInv
    OBVIOUS
<1>1. a1_reg = 0 /\ p = 0
    BY DEF Init, Multiplier!MulInit
<1>2. measured \in -2^(ADC_WID - 1)..2^(ADC_WID - 1) - 1
    BY InputAssumption DEF Init
<1>3. gains \in Const \X Const
    BY InputAssumption DEF Init
<1>4. cycles \in 0..2^CYCLE_COUNT_WID - 1 /\ stored_dac_val \in Code
    BY InputAssumption DEF Init, Code
<1> QED
    BY <1>1, <1>2, <1>3, <1>4, ConstIsInt DEF RangeInv, Init

(* What the unit loads into its registers. *)
LEMMA UnitRange ==
    ASSUME RangeInv, UnitStep
    PROVE  /\ a1' \in Const /\ a2' \in Const /\ adj_val' \in Const /\ e_cur' \in Whole
           /\ add_sat' \in Int /\ tmpstore' \in Int /\ adj_sat' \in Int /\ add_sat_dac' \in Int
<1>0. /\ a1 \in Const /\ a2 \in Const /\ adj_val \in Const /\ e_cur \in Whole /\ e_prev \in Whole
      /\ adjval_prev \in Const /\ stored_dac_val \in Code
      /\ add_sat \in Int /\ tmpstore \in Int /\ adj_sat \in Int /\ add_sat_dac \in Int
    BY DEF RangeInv
<1>w. /\ mul_out \in Const /\ saturated_add \in Const /\ adj_final \in Code
      /\ SEC_PER_CYCLE \in Const /\ ADC_TO_DAC \in Const /\ cl_P \in Const /\ cl_I \in Const
    BY Wires, InputAssumption DEF RangeInv, cl_P, cl_I
<1>1. CASE WaitOnArm
    <2> DEFINE x == (a1 \div Slot) * Slot + (((Setpoint - measured) * One) % Slot)
    <2>1. x \in Const
        <3>1. PICK k \in Nat \ {0} : ConstHalf = k * Slot
            BY InputSizes
        <3>2. Slot \in Nat \ {0} /\ Miss \in Int
            BY InputSizes
        <3> DEFINE s == Slot
                   q == a1 \div s
                   t == a1 % s
                   r == Miss % s
        <3>3. q \in Int /\ t \in 0..s - 1 /\ a1 = q * s + t /\ r \in 0..s - 1
            BY <1>0, <3>2, ModRange, ConstIsInt
        <3>4. x = q * s + r
            BY DEF Miss
        <3>5. -(k * s) <= a1 /\ a1 <= k * s - 1 /\ ConstHalf = k * s /\ s \in Nat \ {0}
            BY <1>0, <3>1, <3>2 DEF Const
        <3> HIDE DEF s, q, t, r, x
        <3>6. ~(q >= k)
            <4> SUFFICES ASSUME q >= k PROVE FALSE
                OBVIOUS
            <4>1. s * q >= s * k
                BY <3>3, <3>5, Factor
            <4>2. s * q = q * s /\ s * k = k * s /\ q * s \in Int /\ k * s \in Int
                BY <3>3, <3>5
            <4> QED
                BY <3>3, <3>5, <4>1, <4>2
        <3>7. ~(q + 1 <= -k)
            <4> SUFFICES ASSUME q + 1 <= -k PROVE FALSE
                OBVIOUS
            <4>1. s * (q + 1) <= s * (-k)
                BY <3>3, <3>5, Factor
            <4>2. s * (q + 1) = q * s + s /\ s * (-k) = -(k * s) /\ q * s \in Int /\ k * s \in Int
                BY <3>3, <3>5
            <4> QED
                BY <3>3, <3>5, <4>1, <4>2
        <3>8. -(k * s) <= q * s /\ q * s <= k * s - s /\ q * s \in Int /\ k * s \in Int
            <4>1. s * (-k) <= s * q /\ s * q <= s * (k - 1)
                BY <3>3, <3>5, <3>6, <3>7, Factor
            <4>2. s * q = q * s /\ s * (-k) = -(k * s) /\ s * (k - 1) = k * s - s
                  /\ q * s \in Int /\ k * s \in Int
                BY <3>3, <3>5
            <4> QED
                BY <4>1, <4>2
        <3>9. x \in -(k * s)..k * s - 1
            BY <3>3, <3>4, <3>5, <3>8
        <3> QED
            BY <3>5, <3>9 DEF Const
    <2>2. a1' = x \/ a1' = a1
        BY <1>1 DEF WaitOnArm, Slot
    <2> QED
        BY <1>0, <1>1, <2>1, <2>2 DEF WaitOnArm
<1>2. CASE CalculateErr
    <2> DEFINE b == 2^(CONSTS_FRAC + ADC_WID)
    <2>1. b \in Nat \ {0} /\ b <= ConstHalf /\ a1 \in Int
        BY <1>0, ConstIsInt, InputSizes
    <2>2. a1' = sign_extend(a1, b)
        BY <1>2 DEF CalculateErr
    <2> HIDE DEF b
    <2>3. a1' \in -b..b - 1
        BY <2>1, <2>2, SignExtension
    <2>4. a1' \in Const
        BY <2>1, <2>3, Sizes DEF Const
    <2> QED
        BY <1>0, <1>2, <1>w, <2>4 DEF CalculateErr
<1>3. CASE CalculateDacE
    <2>1. mul_out \div One \in Whole /\ cycles * One \in Const
        BY <1>w, Scaled, InputSizes
    <2> QED
        BY <1>0, <1>3, <1>w, <2>1 DEF CalculateDacE
<1>4. CASE WaitOnCalculateDt BY <1>0, <1>4, <1>w DEF WaitOnCalculateDt
<1>5. CASE CalculateIdt
    <2>1. e_cur * One \in Const /\ Sum(mul_out + cl_P) \in Int
        BY <1>0, <1>w, Scaled, SumIsInt, ConstIsInt
    <2> QED
        BY <1>0, <1>5, <2>1 DEF CalculateIdt
<1>6. CASE CalculateEpidt
    <2>1. e_prev * One \in Const /\ mul_out \in Int
        BY <1>0, <1>w, Scaled, ConstIsInt
    <2> QED
        BY <1>0, <1>6, <1>w, <2>1 DEF CalculateEpidt
<1>7. CASE CalculateEp
    <2>1. Sum(tmpstore - mul_out) \in Int
        BY <1>0, <1>w, SumIsInt, ConstIsInt
    <2> QED
        BY <1>0, <1>7, <2>1 DEF CalculateEp
<1>8. CASE ArmMultiplier BY <1>0, <1>8, <1>w DEF ArmMultiplier
<1>9. CASE AwaitProduct BY <1>0, <1>9 DEF AwaitProduct, unitRegs
<1>10. CASE CalculateAPart1
    <2>1. Sum(saturated_add + adjval_prev) \in Int
        BY <1>0, <1>w, SumIsInt, ConstIsInt
    <2> QED
        BY <1>0, <1>10, <2>1 DEF CalculateAPart1
<1>11. CASE CalculateAPart2 BY <1>0, <1>11 DEF CalculateAPart2
<1>12. CASE CalculateNewDacValuePart1
    <2>1. saturated_add \div One \in Int
        BY <1>w, Scaled, ConstIsInt
    <2> QED
        BY <1>0, <1>12, <1>w, <2>1 DEF CalculateNewDacValuePart1
<1>13. CASE CalculateNewDacValuePart2
    <2>1. adj_final + stored_dac_val \in Int /\ 2 * DacHalf \in Nat \ {0}
        BY <1>0, <1>w, ConstIsInt, Sizes
    <2>2. sign_extend(adj_final + stored_dac_val, 2 * DacHalf) \in Int
        BY <2>1, SignExtension
    <2> QED
        BY <1>0, <1>13, <2>2 DEF CalculateNewDacValuePart2
<1>14. CASE WaitOnDisarm BY <1>0, <1>14, <1>w DEF WaitOnDisarm
<1> QED
  BY <1>1, <1>2, <1>3, <1>4, <1>5, <1>6, <1>7, <1>8, <1>9, <1>10, <1>11, <1>12,
     <1>13, <1>14 DEF UnitStep

LEMMA MulRange ==
    ASSUME RangeInv, Multiplier!MulStep
    PROVE  p' \in Int /\ a1_reg' \in Const
<1>0. p \in Int /\ a1 \in Const /\ a2 \in Int /\ a1_reg \in Const
    BY ConstIsInt DEF RangeInv
<1>1. CASE Multiplier!Disarmed
  BY <1>0, <1>1 DEF Multiplier!Disarmed
<1>2. CASE Multiplier!TakeOperands
  <2>1. 2^CONSTS_WID \in Nat \ {0}
    BY Widths, Power
  <2>2. a2 % 2^CONSTS_WID \in Int
    BY <1>0, <2>1, ModRange
  <2> QED
    BY <1>0, <1>2, <2>2 DEF Multiplier!TakeOperands
<1>3. CASE Multiplier!AddAndShift
  <2> DEFINE a == a1_reg * 2^(CONSTS_WID + 1)
             v == IF p % 4 = 2 THEN p - a ELSE IF p % 4 = 1 THEN p + a ELSE p
  <2>1. 2^(CONSTS_WID + 1) \in Int
    BY Widths, Doubled
  <2>2. a \in Int
    BY <1>0, <2>1, ConstIsInt
  <2>3. v \in Int
    <3> HIDE DEF a
    <3> QED
      BY <1>0, <2>2
  <2>4. Multiplier!RegHalf \in Nat \ {0}
    <3>1. 2^CONSTS_WID \in Nat \ {0}
      BY Widths, Power
    <3> DEFINE x == 2^CONSTS_WID
    <3>2. x \in Nat \ {0} /\ Multiplier!RegHalf = 2 * (x * x)
      BY <3>1, Sizes
    <3> HIDE DEF x
    <3> QED
      BY <3>2
  <2>5. p' = sign_extend(v, Multiplier!RegHalf) \div 2
    BY <1>3 DEF Multiplier!AddAndShift, Multiplier!Round, Multiplier!sign_extend, sign_extend
  <2> HIDE DEF v
  <2>6. sign_extend(v, Multiplier!RegHalf) \in Int
    BY <2>3, <2>4, SignExtension
  <2> QED
    BY <1>0, <1>3, <2>5, <2>6 DEF Multiplier!AddAndShift
<1>4. CASE Multiplier!Finish
  BY <1>0, <1>4 DEF Multiplier!Finish
<1> QED
  BY <1>1, <1>2, <1>3, <1>4 DEF Multiplier!MulStep

LEMMA UserRange ==
    ASSUME RangeInv, User
    PROVE  /\ adjval_prev' \in Const /\ gains' \in Const \X Const /\ e_prev' \in Whole
           /\ cycles' \in 0..2^CYCLE_COUNT_WID - 1 /\ stored_dac_val' \in Code
           /\ measured' \in -2^(ADC_WID - 1)..2^(ADC_WID - 1) - 1
<1>1. CASE Calculating \/ Resting
    BY <1>1 DEF Calculating, Resting, operands, RangeInv
<1>2. CASE NextCalculation
    <2>1. adjusted \in Code
        <3> DEFINE adj == IF adj_val > 0 THEN adj_val \div One ELSE -((-adj_val) \div One)
        <3>1. adj_val \in Int /\ One \in Nat \ {0} /\ stored_dac_val \in Int /\ DacHalf \in Nat \ {0}
            BY ConstIsInt, Sizes DEF RangeInv
        <3>2. adj \in Int
            BY <3>1
        <3> HIDE DEF adj
        <3>3. sign_extend(stored_dac_val + adj, DacHalf) \in Code
            BY <3>1, <3>2, SignExtension DEF Code
        <3> QED
            BY <3>3 DEF adjusted, adj
    <2>2. stored_dac_val' \in Code
        BY <1>2, <2>1, Wires DEF NextCalculation
    <2>3. measured' \in -2^(ADC_WID - 1)..2^(ADC_WID - 1) - 1
        BY <1>2, InputAssumption DEF NextCalculation
    <2>4. cycles' \in 0..2^CYCLE_COUNT_WID - 1
        BY <1>2, InputAssumption DEF NextCalculation
    <2> QED
        BY <1>2, <2>2, <2>3, <2>4 DEF NextCalculation, RangeInv
<1> QED
    BY <1>1, <1>2 DEF User

LEMMA RangeNext == RangeInv /\ [Next]_vars => RangeInv'
<1> SUFFICES ASSUME RangeInv, [Next]_vars PROVE RangeInv'
  OBVIOUS
<1>1. CASE Tick
  BY <1>1, UnitRange, MulRange, UserRange DEF Tick, RangeInv
<1>2. CASE Reset
  <2>1. adj_sat' \in Int /\ add_sat_dac' \in Int /\ UNCHANGED operands
    BY <1>2 DEF Reset, UnitHalt, RangeInv
  <2>2. a1_reg' = 0 /\ p' = 0
    BY <1>2 DEF Reset, Multiplier!MulHalt
  <2> QED
    BY <1>2, <2>1, <2>2, ConstIsInt DEF Reset, UnitHalt, RangeInv, operands
<1>3. CASE UNCHANGED vars
  BY <1>3 DEF vars, unitRegs, product, operands, RangeInv
<1> QED
  BY <1>1, <1>2, <1>3 DEF Next
-----------------------------------------------------------------------------
(* How far a multiplication is. *)
BoothInv ==
    loop_accul # 0 =>
        /\ factors \in Const \X Const /\ a1_reg = factors[1]
        /\ Partial(p, a1_reg, factors[2] % 2^CONSTS_WID, loop_accul - 1)

LEMMA BoothKept ==
    ASSUME MulInv, RangeInv, BoothInv, Multiplier!MulStep
    PROVE  BoothInv'
<1>1. CASE Multiplier!Disarmed
  BY <1>1 DEF Multiplier!Disarmed, BoothInv
<1>2. CASE Multiplier!TakeOperands
  <2> DEFINE u == a2 % 2^CONSTS_WID
  <2>1. a1 \in Const /\ a2 \in Const /\ a1 \in Int /\ a2 \in Int
    BY ConstIsInt DEF RangeInv
  <2>2. 2^CONSTS_WID \in Nat \ {0}
    BY Widths, Power
  <2>3. u \in 0..2^CONSTS_WID - 1
    BY <2>1, <2>2, ModRange
  <2>4. Partial(2 * u, a1, u, 0)
    BY <2>1, <2>3, PartialStarts
  <2>5. p' = 2 * u /\ a1_reg' = a1 /\ loop_accul' = 1 /\ factors' = <<a1, a2>>
    BY <1>2 DEF Multiplier!TakeOperands
  <2> HIDE DEF u
  <2>6. loop_accul' - 1 = 0 /\ factors'[1] = a1 /\ factors'[2] = a2
        /\ factors' \in Const \X Const
    BY <2>1, <2>5
  <2>7. Partial(p', a1_reg', factors'[2] % 2^CONSTS_WID, loop_accul' - 1)
    BY <2>4, <2>5, <2>6 DEF u
  <2>8. Partial(p, a1_reg, factors[2] % 2^CONSTS_WID, loop_accul - 1)'
    BY <2>7 DEF Partial
  <2> QED
    BY <2>5, <2>6, <2>8 DEF BoothInv
<1>3. CASE Multiplier!AddAndShift
  <2> DEFINE u == factors[2] % 2^CONSTS_WID
             n == loop_accul - 1
  <2>1. /\ loop_accul # 0 /\ loop_accul < CONSTS_WID + 1 /\ p' = Multiplier!Round(p, a1_reg)
        /\ UNCHANGED <<a1_reg, factors>>
        /\ loop_accul' = (loop_accul + 1) % 2^CONSTS_SIZ
    BY <1>3 DEF Multiplier!AddAndShift, Multiplier!MoreRounds
  <2>2. loop_accul \in Nat /\ loop_accul + 1 < 2^CONSTS_SIZ /\ CONSTS_WID \in Nat
    BY <2>1, WidthIsNat, WidthAssumption DEF MulInv
  <2>3. loop_accul' = loop_accul + 1
    BY <2>1, <2>2, Unwrapped, WidthAssumption
  <2>4. n \in 0..CONSTS_WID - 1 /\ loop_accul' - 1 = n + 1
    BY <2>1, <2>2, <2>3
  <2>5. a1_reg \in Const /\ factors \in Const \X Const /\ a1_reg = factors[1] /\ Partial(p, a1_reg, u, n)
    BY <2>1 DEF BoothInv, RangeInv
  <2> HIDE DEF u, n
  <2>6. Partial(Multiplier!Round(p, a1_reg), a1_reg, u, n + 1)
    BY <2>4, <2>5, RoundKept
  <2>7. Partial(p', a1_reg', factors'[2] % 2^CONSTS_WID, loop_accul' - 1)
    BY <2>1, <2>4, <2>6 DEF u
  <2>8. Partial(p, a1_reg, factors[2] % 2^CONSTS_WID, loop_accul - 1)'
    BY <2>7 DEF Partial
  <2> QED
    BY <2>1, <2>5, <2>8 DEF BoothInv
<1>4. CASE Multiplier!Finish
  <2>1. loop_accul # 0 /\ UNCHANGED <<p, a1_reg, loop_accul, factors>>
    BY <1>4 DEF Multiplier!Finish
  <2> QED
    BY <2>1 DEF BoothInv, Partial
<1> QED
  BY <1>1, <1>2, <1>3, <1>4 DEF Multiplier!MulStep

ProductInv == MulInv /\ RangeInv /\ BoothInv

LEMMA ProductInvInit == Init => ProductInv
<1> SUFFICES ASSUME Init PROVE BoothInv
  BY MulInvInit, RangeInit DEF ProductInv
<1> QED
  BY DEF Init, Multiplier!MulInit, BoothInv

LEMMA ProductInvNext == ProductInv /\ [Next]_vars => ProductInv'
<1> SUFFICES ASSUME MulInv, RangeInv, BoothInv, [Next]_vars PROVE BoothInv'
  BY MulInvNext, RangeNext DEF ProductInv
<1>1. CASE Tick
  BY <1>1, BoothKept DEF Tick
<1>2. CASE Reset
  BY <1>2 DEF Reset, Multiplier!MulHalt, BoothInv
<1>3. CASE UNCHANGED vars
  BY <1>3 DEF vars, product, BoothInv, Partial
<1> QED
  BY <1>1, <1>2, <1>3 DEF Next

LEMMA ProductIsThere == ProductInv => ProductExact
<1> SUFFICES ASSUME MulInv, RangeInv, BoothInv, mul_arm, mul_fin
             PROVE  Multiplier!outn = a1 * a2
  BY DEF ProductInv, ProductExact
<1>1. loop_accul = CONSTS_WID + 1 /\ loop_accul # 0 /\ loop_accul - 1 = CONSTS_WID
  BY WidthIsNat DEF MulInv
<1>2. factors = <<a1, a2>>
  BY <1>1 DEF MulInv
<1>3. a1 \in Const /\ a2 \in Const
  BY DEF RangeInv
<1>4. a1_reg = a1 /\ factors[2] = a2
  BY <1>1, <1>2 DEF BoothInv
<1>5. Partial(p, a1, a2 % 2^CONSTS_WID, CONSTS_WID)
  BY <1>1, <1>4 DEF BoothInv
<1>6. sign_extend(p \div 2, 2^(Multiplier!OUT_LEN - 1)) = a1 * a2
  BY <1>3, <1>5, PartialEnds
<1> QED
  BY <1>6 DEF Multiplier!outn, Multiplier!sign_extend, sign_extend

(* boothmul.v multiplies: whatever the operands, the most negative ones    *)
(* too, what stands in outn when the unit looks at it is their product.    *)
THEOREM ProductsAreExact == Spec => []ProductExact
<1>1. Init => ProductInv BY ProductInvInit
<1>2. ProductInv /\ [Next]_vars => ProductInv' BY ProductInvNext
<1>3. ProductInv => ProductExact BY ProductIsThere
<1> QED BY <1>1, <1>2, <1>3, PTL DEF Spec
-----------------------------------------------------------------------------
(* The user and the unit: the operands change only while the unit waits to *)
(* be armed, and finished is up in the last state only.                    *)
UserInv ==
    /\ asked = Inputs
    /\ arm \in BOOLEAN /\ finished \in BOOLEAN
    /\ StateInv
    /\ finished => state = "WAIT_ON_DISARM"
    /\ state \notin {"WAIT_ON_ARM", "WAIT_ON_DISARM"} => arm
    /\ state = "WAIT_ON_DISARM" => (arm /\ ~finished) \/ (~arm /\ rest = 2)

LEMMA UserInvInit == Init => UserInv
BY DEF Init, UserInv, StateInv, Unused

(* How the unit moves from state to state, and when it has an answer. *)
LEMMA UnitMoves ==
    ASSUME UserInv, UnitStep
    PROVE  /\ StateInv' /\ finished' \in BOOLEAN
           /\ finished' => state' = "WAIT_ON_DISARM" /\ arm /\ state = "WAIT_ON_DISARM"
           /\ state' # "WAIT_ON_ARM" => arm
           /\ state = "WAIT_ON_DISARM" /\ arm => finished'
<1> USE DEF UserInv, StateInv, Unused
<1>1. CASE WaitOnArm BY <1>1 DEF WaitOnArm
<1>2. CASE CalculateErr BY <1>2 DEF CalculateErr
<1>3. CASE CalculateDacE BY <1>3 DEF CalculateDacE
<1>4. CASE WaitOnCalculateDt BY <1>4 DEF WaitOnCalculateDt
<1>5. CASE CalculateIdt BY <1>5 DEF CalculateIdt
<1>6. CASE CalculateEpidt BY <1>6 DEF CalculateEpidt
<1>7. CASE CalculateEp BY <1>7 DEF CalculateEp
<1>8. CASE ArmMultiplier BY <1>8 DEF ArmMultiplier
<1>9. CASE AwaitProduct BY <1>9 DEF AwaitProduct, unitRegs
<1>10. CASE CalculateAPart1 BY <1>10 DEF CalculateAPart1
<1>11. CASE CalculateAPart2 BY <1>11 DEF CalculateAPart2
<1>12. CASE CalculateNewDacValuePart1 BY <1>12 DEF CalculateNewDacValuePart1
<1>13. CASE CalculateNewDacValuePart2 BY <1>13 DEF CalculateNewDacValuePart2
<1>14. CASE WaitOnDisarm BY <1>14 DEF WaitOnDisarm
<1> QED
  BY <1>1, <1>2, <1>3, <1>4, <1>5, <1>6, <1>7, <1>8, <1>9, <1>10, <1>11, <1>12,
     <1>13, <1>14 DEF UnitStep

(* While it is armed nobody touches its operands. *)
LEMMA OperandsHeld ==
    ASSUME UserInv, UnitStep, User, state' # "WAIT_ON_ARM"
    PROVE  Calculating /\ UNCHANGED operands
<1>1. arm
    BY UnitMoves
<1>2. Calculating
    BY <1>1 DEF User, Resting, NextCalculation
<1> QED
    BY <1>2 DEF Calculating

LEMMA UserInvNext == UserInv /\ [Next]_vars => UserInv'
<1> SUFFICES ASSUME UserInv, [Next]_vars PROVE UserInv'
  OBVIOUS
<1>1. CASE Tick
  <2>0. UnitStep /\ User
    BY <1>1 DEF Tick
  <2>1. asked' = Inputs' /\ arm' \in BOOLEAN
    <3>1. CASE Calculating
      BY <2>0, <3>1, UnitMoves DEF Calculating, operands, UserInv, Inputs
    <3>2. CASE Resting
      BY <3>2 DEF Resting, operands, UserInv, Inputs
    <3>3. CASE NextCalculation
      BY <3>3 DEF NextCalculation
    <3> QED
      BY <2>0, <3>1, <3>2, <3>3 DEF User
  <2>2. CASE state' = "WAIT_ON_ARM"
    BY <2>0, <2>1, <2>2, UnitMoves DEF UserInv
  <2>3. CASE state' # "WAIT_ON_ARM"
    <3>1. arm' = ~finished' /\ rest' = IF finished' THEN 2 ELSE 0
      BY <2>0, <2>3, OperandsHeld DEF Calculating
    <3>2. finished' => state' = "WAIT_ON_DISARM" /\ state = "WAIT_ON_DISARM"
      BY <2>0, UnitMoves
    <3>3. state' \notin {"WAIT_ON_ARM", "WAIT_ON_DISARM"} => arm'
      BY <3>1, <3>2
    <3>4. state' = "WAIT_ON_DISARM" => (arm' /\ ~finished') \/ (~arm' /\ rest' = 2)
      BY <3>1
    <3> QED
      BY <2>0, <2>1, <3>2, <3>3, <3>4, UnitMoves DEF UserInv
  <2> QED
    BY <2>2, <2>3
<1>2. CASE Reset
  BY <1>2 DEF Reset, UnitHalt, operands, UserInv, Inputs, StateInv, Unused
<1>3. CASE UNCHANGED vars
  BY <1>3 DEF vars, unitRegs, operands, UserInv, Inputs, StateInv
<1> QED
  BY <1>1, <1>2, <1>3 DEF Next
-----------------------------------------------------------------------------
(* The terms of the formula, in the order the unit works them out. *)
Times(x, y) == Narrow(mul(x, y))
Err   == Times(Miss, ADC_TO_DAC) \div One
Dt    == Times(SEC_PER_CYCLE, cycles * One)
Idt   == Times(Dt, cl_I)
Epidt == Times(Err * One, Narrow(cl_P + Idt))
Ep    == Times(e_prev * One, cl_P)
Diff  == Narrow(Epidt - Ep)
Adj   == Narrow(Diff + adjval_prev)
New   == stored_dac_val + Expected(Adj \div One, DacHalf)

LEMMA TimesRange ==
    ASSUME NEW x \in Int, NEW y \in Int
    PROVE  Times(x, y) \in Const
<1> DEFINE z == x * y
<1>1. z \in Int /\ One \in Nat \ {0}
    BY Sizes
<1> HIDE DEF z
<1>2. z \div One \in Int
    BY <1>1, ModRange
<1> QED
    BY <1>2, NarrowRange DEF Times, mul, z

LEMMA TermRanges ==
    ASSUME RangeInv
    PROVE  /\ Miss \in Int /\ Err \in Whole /\ Err * One \in Const
           /\ cycles * One \in Const /\ e_prev * One \in Const
           /\ cl_P \in Const /\ cl_I \in Const
           /\ Dt \in Const /\ Idt \in Const /\ Epidt \in Const /\ Ep \in Const
           /\ Diff \in Const /\ Adj \in Const
<1> USE ConstIsInt
<1>1. Miss \in Int
    <2>1. 2^(CONSTS_FRAC + ADC_WID) \in Nat
        BY InputSizes
    <2> QED
        BY <2>1, InputSizes
<1>2. /\ cl_P \in Const /\ cl_I \in Const /\ cycles * One \in Const /\ e_prev * One \in Const
      /\ ADC_TO_DAC \in Const /\ SEC_PER_CYCLE \in Const /\ adjval_prev \in Const
    BY InputSizes, Scaled, InputAssumption DEF RangeInv, cl_P, cl_I
<1>3. Err \in Whole /\ Err * One \in Const
    <2>1. Times(Miss, ADC_TO_DAC) \in Const
        BY <1>1, <1>2, TimesRange
    <2> QED
        BY <2>1, Scaled DEF Err
<1>4. Dt \in Const
    BY <1>2, TimesRange DEF Dt
<1>5. Idt \in Const
    BY <1>2, <1>4, TimesRange DEF Idt
<1>6. Epidt \in Const
    <2>1. cl_P + Idt \in Int
        BY <1>2, <1>5
    <2>2. Narrow(cl_P + Idt) \in Int /\ Err * One \in Int
        BY <1>3, <2>1, NarrowRange
    <2> QED
        BY <2>2, TimesRange DEF Epidt
<1>7. Ep \in Const
    BY <1>2, TimesRange DEF Ep
<1>8. Diff \in Const
    <2>1. Epidt - Ep \in Int
        BY <1>6, <1>7
    <2> QED
        BY <2>1, NarrowRange DEF Diff
<1>9. Adj \in Const
    <2>1. Diff + adjval_prev \in Int
        BY <1>2, <1>8
    <2> QED
        BY <2>1, NarrowRange DEF Adj
<1> QED
    BY <1>1, <1>2, <1>3, <1>4, <1>5, <1>6, <1>7, <1>8, <1>9

(* The carry bit is enough: no sum of two constants is cut. *)
LEMMA SumIsWhole ==
    ASSUME NEW x \in Const, NEW y \in Const
    PROVE  Sum(x + y) = x + y /\ Sum(x - y) = x - y
<1> DEFINE H == ConstHalf
<1>1. H \in Nat \ {0} /\ SumHalf = 2 * H
    BY Sizes
<1> HIDE DEF H
<1>2. x \in -H..H - 1 /\ y \in -H..H - 1
    BY DEF Const, H
<1>3. x + y \in -(2 * H)..2 * H - 1 /\ x - y \in -(2 * H)..2 * H - 1
    BY <1>1, <1>2
<1>4. 2 * H \in Nat \ {0} /\ x + y \in Int /\ x - y \in Int
    BY <1>1, <1>2
<1> QED
    BY <1>1, <1>3, <1>4, SignExtension DEF Sum

(* What the registers hold in each state. *)
Late == {"CALCULATE_A_PART_1", "CALCULATE_A_PART_2",
         "CALCULATE_NEW_DAC_VALUE_PART_1", "CALCULATE_NEW_DAC_VALUE_PART_2",
         "WAIT_ON_DISARM"}

ValueInv ==
    /\ state = "CALCULATE_ERR" => a1 % Slot = Miss % Slot
    /\ state = "CALCULATE_DAC_E" => mul_arm /\ a1 = Miss /\ a2 = ADC_TO_DAC
    /\ state \in {"WAIT_ON_CALCULATE_DT", "CALCULATE_IDT", "CALCULATE_EPIDT",
                  "CALCULATE_EP"} \cup Late => e_cur = Err
    /\ state = "WAIT_ON_CALCULATE_DT" => a1 = SEC_PER_CYCLE /\ a2 = cycles * One
    /\ state = "CALCULATE_IDT" => a1 = Dt /\ a2 = cl_I
    /\ state = "CALCULATE_EPIDT" =>
          /\ a2 = Err * One
          /\ mul_arm => a1 = Narrow(cl_P + Idt)
          /\ ~mul_arm => add_sat = cl_P + Idt
    /\ state = "CALCULATE_EP" => tmpstore = Epidt /\ a1 = cl_P /\ a2 = e_prev * One
    /\ state = "CALCULATE_A_PART_1" => add_sat = Epidt - Ep
    /\ state = "CALCULATE_A_PART_2" => tmpstore = Diff + adjval_prev
    /\ state \in {"CALCULATE_NEW_DAC_VALUE_PART_1", "CALCULATE_NEW_DAC_VALUE_PART_2",
                  "WAIT_ON_DISARM"} => add_sat = Diff + adjval_prev
    /\ state \in {"CALCULATE_NEW_DAC_VALUE_PART_2", "WAIT_ON_DISARM"} => adj_val = Adj
    /\ state = "CALCULATE_NEW_DAC_VALUE_PART_2" => adj_sat = Adj \div One
    /\ state = "WAIT_ON_DISARM" => add_sat_dac = New

LEMMA TermsHeld ==
    ASSUME UNCHANGED operands
    PROVE  /\ Miss' = Miss /\ Err' = Err /\ Dt' = Dt /\ Idt' = Idt /\ Epidt' = Epidt
           /\ Ep' = Ep /\ Diff' = Diff /\ Adj' = Adj /\ New' = New
           /\ cl_P' = cl_P /\ cl_I' = cl_I /\ e_prev' = e_prev /\ cycles' = cycles
           /\ adjval_prev' = adjval_prev
<1>1. UNCHANGED <<measured, gains, cycles, e_prev, adjval_prev, stored_dac_val>>
    BY DEF operands
<1>2. Miss' = Miss /\ cl_P' = cl_P /\ cl_I' = cl_I
    BY <1>1 DEF Miss, cl_P, cl_I
<1>3. Err' = Err /\ Dt' = Dt
    BY <1>1, <1>2 DEF Err, Dt
<1>4. Idt' = Idt
    BY <1>2, <1>3 DEF Idt
<1>5. Epidt' = Epidt /\ Ep' = Ep
    BY <1>1, <1>2, <1>3, <1>4 DEF Epidt, Ep
<1>6. Diff' = Diff
    BY <1>5 DEF Diff
<1>7. Adj' = Adj
    BY <1>1, <1>6 DEF Adj
<1> QED
    BY <1>1, <1>2, <1>3, <1>4, <1>5, <1>6, <1>7 DEF New

LEMMA ProductNarrowed ==
    ASSUME RangeInv, ProductExact, mul_arm, mul_fin
    PROVE  mul_out = Times(a1, a2) /\ mul_out = Times(a2, a1)
<1>1. Multiplier!outn = a1 * a2 /\ mul_out = Narrow(Multiplier!outn \div One)
    BY Wires DEF ProductExact
<1>2. a1 \in Int /\ a2 \in Int
    BY ConstIsInt DEF RangeInv
<1>3. a1 * a2 = a2 * a1
    BY <1>2
<1> QED
    BY <1>1, <1>3 DEF Times, mul

LEMMA SlotKept ==
    ASSUME NEW x \in Int, NEW y \in Int, NEW s \in Nat \ {0}
    PROVE  ((x \div s) * s + (y % s)) % s = y % s
<1> DEFINE q == x \div s
           r == y % s
<1>1. q \in Int /\ r \in 0..s - 1
    BY ModRange
<1> HIDE DEF q, r
<1>2. (q * s + r) % s = r
    BY <1>1, DivUnique
<1> QED
    BY <1>2 DEF q, r

(* Each state works out the next term from those before it. *)
LEMMA ValueKept ==
    ASSUME MulInv, RangeInv, ProductExact, StateInv, ValueInv, UnitStep, UNCHANGED operands
    PROVE  ValueInv'
<1> USE DEF ValueInv, Late
<1>t. /\ Miss' = Miss /\ Err' = Err /\ Dt' = Dt /\ Idt' = Idt /\ Epidt' = Epidt
      /\ Ep' = Ep /\ Diff' = Diff /\ Adj' = Adj /\ New' = New
      /\ cl_P' = cl_P /\ cl_I' = cl_I /\ e_prev' = e_prev /\ cycles' = cycles
      /\ adjval_prev' = adjval_prev
    BY TermsHeld
<1>r. /\ a1 \in Int /\ Miss \in Int /\ Slot \in Nat \ {0} /\ Slot' = Slot
    BY ConstIsInt, InputSizes, TermRanges DEF RangeInv, Slot
<1>1. CASE WaitOnArm
    <2>1. CASE arm
        <3>1. a1' = (a1 \div Slot) * Slot + (Miss % Slot) /\ state' = "CALCULATE_ERR"
            BY <1>1, <2>1 DEF WaitOnArm, Slot, Miss
        <3>2. a1' % Slot = Miss % Slot
            BY <1>r, <3>1, SlotKept
        <3> QED
            BY <1>t, <1>r, <3>1, <3>2
    <2>2. CASE ~arm
        BY <1>1, <2>2 DEF WaitOnArm
    <2> QED
        BY <2>1, <2>2
<1>2. CASE CalculateErr
    <2> DEFINE b == 2^(CONSTS_FRAC + ADC_WID)
    <2>1. b \in Nat \ {0} /\ Slot = 2 * b /\ Miss \in -b..b - 1
        BY InputSizes
    <2>2. a1 % Slot = Miss % Slot
        BY <1>2 DEF CalculateErr
    <2>3. a1' = sign_extend(a1, b)
        BY <1>2 DEF CalculateErr
    <2> HIDE DEF b
    <2>4. a1' = Miss
        BY <1>r, <2>1, <2>2, <2>3, SameBits
    <2> QED
        BY <1>2, <1>t, <2>4 DEF CalculateErr
<1>3. CASE CalculateDacE
    <2>1. mul_arm /\ mul_fin /\ a1 = Miss /\ a2 = ADC_TO_DAC
        BY <1>3 DEF CalculateDacE
    <2>2. mul_out \div One = Err
        BY <2>1, ProductNarrowed DEF Err
    <2> QED
        BY <1>3, <1>t, <2>2 DEF CalculateDacE
<1>4. CASE WaitOnCalculateDt
    <2>1. mul_arm /\ mul_fin /\ a1 = SEC_PER_CYCLE /\ a2 = cycles * One /\ e_cur = Err
        BY <1>4 DEF WaitOnCalculateDt
    <2>2. mul_out = Dt
        BY <2>1, ProductNarrowed DEF Dt
    <2> QED
        BY <1>4, <1>t, <2>1, <2>2 DEF WaitOnCalculateDt
<1>5. CASE CalculateIdt
    <2>1. mul_arm /\ mul_fin /\ a1 = Dt /\ a2 = cl_I /\ e_cur = Err
        BY <1>5 DEF CalculateIdt
    <2>2. mul_out = Idt
        BY <2>1, ProductNarrowed DEF Idt
    <2>3. Idt \in Const /\ cl_P \in Const
        BY TermRanges
    <2>4. Idt \in Int /\ cl_P \in Int
        BY <2>3, ConstIsInt
    <2>5. Idt + cl_P = cl_P + Idt
        BY <2>4
    <2>6. Sum(mul_out + cl_P) = cl_P + Idt
        BY <2>2, <2>3, <2>5, SumIsWhole
    <2> QED
        BY <1>5, <1>t, <2>1, <2>6 DEF CalculateIdt
<1>6. CASE CalculateEpidt
    <2>1. mul_arm /\ mul_fin /\ a1 = Narrow(cl_P + Idt) /\ a2 = Err * One /\ e_cur = Err
        BY <1>6 DEF CalculateEpidt
    <2>2. mul_out = Epidt
        BY <2>1, ProductNarrowed DEF Epidt
    <2> QED
        BY <1>6, <1>t, <2>1, <2>2 DEF CalculateEpidt
<1>7. CASE CalculateEp
    <2>1. mul_arm /\ mul_fin /\ a1 = cl_P /\ a2 = e_prev * One /\ e_cur = Err /\ tmpstore = Epidt
        BY <1>7 DEF CalculateEp
    <2>2. mul_out = Ep
        BY <2>1, ProductNarrowed DEF Ep
    <2>3. Sum(tmpstore - mul_out) = Epidt - Ep
        BY <2>1, <2>2, TermRanges, SumIsWhole
    <2> QED
        BY <1>7, <1>t, <2>1, <2>3 DEF CalculateEp
<1>8. CASE ArmMultiplier
    <2>1. state = "CALCULATE_EPIDT" => saturated_add = Narrow(cl_P + Idt)
        BY <1>8, Wires DEF ArmMultiplier
    <2> QED
        BY <1>8, <1>t, <2>1 DEF ArmMultiplier
<1>9. CASE AwaitProduct
    BY <1>9, <1>t, <1>r DEF AwaitProduct, unitRegs
<1>10. CASE CalculateAPart1
    <2>1. saturated_add = Diff /\ e_cur = Err
        BY <1>10, Wires DEF CalculateAPart1, Diff
    <2>2. Sum(saturated_add + adjval_prev) = Diff + adjval_prev
        BY <2>1, TermRanges, SumIsWhole DEF RangeInv
    <2> QED
        BY <1>10, <1>t, <2>1, <2>2 DEF CalculateAPart1
<1>11. CASE CalculateAPart2
    BY <1>11, <1>t DEF CalculateAPart2
<1>12. CASE CalculateNewDacValuePart1
    <2>1. saturated_add = Adj
        BY <1>12, Wires DEF CalculateNewDacValuePart1, Adj
    <2> QED
        BY <1>12, <1>t, <2>1 DEF CalculateNewDacValuePart1
<1>13. CASE CalculateNewDacValuePart2
    <2>1. adj_final = Expected(Adj \div One, DacHalf)
        BY <1>13, Wires DEF CalculateNewDacValuePart2
    <2> DEFINE D == DacHalf
               x == adj_final + stored_dac_val
    <2>2. D \in Nat \ {0} /\ adj_final \in -D..D - 1 /\ stored_dac_val \in -D..D - 1
        BY Sizes, Wires DEF RangeInv, Code
    <2>3. x = New
        BY <2>1, <2>2 DEF New
    <2>4. x \in -(2 * D)..2 * D - 1 /\ x \in Int /\ 2 * D \in Nat \ {0}
        <3> HIDE DEF D
        <3> QED
            BY <2>2
    <2> HIDE DEF x
    <2>5. sign_extend(x, 2 * D) = x
        BY <2>4, SignExtension
    <2>6. add_sat_dac' = New
        BY <1>13, <2>3, <2>5 DEF CalculateNewDacValuePart2, x
    <2> QED
        BY <1>13, <1>t, <2>6 DEF CalculateNewDacValuePart2
<1>14. CASE WaitOnDisarm
    <2>1. saturated_add = Adj
        BY <1>14, Wires DEF WaitOnDisarm, Adj
    <2> QED
        BY <1>14, <1>t, <2>1 DEF WaitOnDisarm
<1> QED
  BY <1>1, <1>2, <1>3, <1>4, <1>5, <1>6, <1>7, <1>8, <1>9, <1>10, <1>11, <1>12,
     <1>13, <1>14 DEF UnitStep

MathInv == ProductInv /\ UserInv /\ ValueInv

LEMMA MathInvInit == Init => MathInv
<1> SUFFICES ASSUME Init PROVE ValueInv
  BY ProductInvInit, UserInvInit DEF MathInv
<1> QED
  BY DEF Init, ValueInv, Late

LEMMA MathInvNext == MathInv /\ [Next]_vars => MathInv'
<1> SUFFICES ASSUME ProductInv, UserInv, ValueInv, [Next]_vars PROVE ValueInv'
  BY ProductInvNext, UserInvNext DEF MathInv
<1>1. CASE Tick
  <2>1. CASE state' = "WAIT_ON_ARM"
    BY <2>1 DEF ValueInv, Late
  <2>2. CASE state' # "WAIT_ON_ARM"
    <3>1. UnitStep /\ User
      BY <1>1 DEF Tick
    <3>2. UNCHANGED operands
      BY <2>2, <3>1, OperandsHeld
    <3> QED
      BY <3>1, <3>2, ProductIsThere, ValueKept DEF ProductInv, UserInv
  <2> QED
    BY <2>1, <2>2
<1>2. CASE Reset
  BY <1>2 DEF Reset, UnitHalt, ValueInv, Late
<1>3. CASE UNCHANGED vars
  <2>1. UNCHANGED operands /\ UNCHANGED unitRegs /\ Slot' = Slot
    BY <1>3 DEF vars, Slot
  <2> QED
    BY <2>1, TermsHeld DEF unitRegs, ValueInv, Late
<1> QED
  BY <1>1, <1>2, <1>3 DEF Next

LEMMA FormulaHolds == MathInv => ResultIsRight
<1> SUFFICES ASSUME RangeInv, UserInv, ValueInv, finished
             PROVE  <<e_cur, adj_val, new_dac_val>> = Reference(asked)
  BY DEF MathInv, ProductInv, ResultIsRight
<1>1. state = "WAIT_ON_DISARM" /\ asked = Inputs
  BY DEF UserInv
<1>2. e_cur = Err /\ adj_val = Adj /\ add_sat_dac = New
  BY <1>1 DEF ValueInv, Late
<1>3. new_dac_val = Expected(New, DacHalf)
  BY <1>2, Wires
<1>4. /\ asked.measured = measured /\ asked.gains = gains /\ asked.cycles = cycles
      /\ asked.e_prev = e_prev /\ asked.adjval_prev = adjval_prev
      /\ asked.stored_dac_val = stored_dac_val
  BY <1>1 DEF Inputs
<1>5. Reference(asked) = <<Err, Adj, Expected(New, DacHalf)>>
  BY <1>4 DEF Reference, Err, Adj, New, Diff, Epidt, Ep, Idt, Dt, Miss, Times, Narrow, cl_P, cl_I
<1> QED
  BY <1>2, <1>3, <1>5

(* Whatever the gains, the sample, the length of the iteration and the     *)
(* results of the one before, finished comes with the error, the           *)
(* adjustment and the DAC value of the formula in saturating arithmetic:   *)
(* the operands stay while the unit works on them, each state takes the    *)
(* terms it needs from the registers that hold them, and no sum loses its  *)
(* carry.                                                                  *)
THEOREM ResultsAreRight == Spec => []ResultIsRight
<1>1. Init => MathInv BY MathInvInit
<1>2. MathInv /\ [Next]_vars => MathInv' BY MathInvNext
<1>3. MathInv => ResultIsRight BY FormulaHolds
<1> QED BY <1>1, <1>2, <1>3, PTL DEF Spec
-----------------------------------------------------------------------------
(* The reference of the test bench *)

LEMMA Unsaturated ==
    ASSUME NEW x \in Int, -(ConstHalf - 1) < x, x < ConstHalf - 1
    PROVE  sat(x) = x /\ Narrow(x) = x
<1>1. ConstHalf \in Nat \ {0}
    BY Sizes
<1> QED
    BY <1>1 DEF sat, Narrow, Expected

LEMMA MulIsInt == ASSUME NEW x \in Int, NEW y \in Int PROVE mul(x, y) \in Int
<1> DEFINE z == x * y
<1>1. z \in Int /\ One \in Nat \ {0}
    BY Sizes
<1> HIDE DEF z
<1>2. z \div One \in Int
    BY <1>1, ModRange
<1> QED
    BY <1>2 DEF mul, z

LEMMA Bits == One >= 2 /\ ConstHalf >= 2 /\ ConstHalf = 2 * (ConstHalf \div 2) /\ ConstHalf \div 2 \in Nat
<1> USE Widths
<1>1. /\ CONSTS_FRAC - 1 \in Nat /\ CONSTS_FRAC - 1 <= 2 * CONSTS_WID
      /\ (CONSTS_FRAC - 1) + 1 = CONSTS_FRAC
      /\ CONSTS_WID - 2 \in Nat /\ CONSTS_WID - 2 <= 2 * CONSTS_WID
      /\ (CONSTS_WID - 2) + 1 = CONSTS_WID - 1
    OBVIOUS
<1>2. 2^(CONSTS_FRAC - 1) \in Nat \ {0} /\ One = 2 * 2^(CONSTS_FRAC - 1)
    BY <1>1, Doubled DEF One
<1> DEFINE h == 2^(CONSTS_WID - 2)
<1>3. h \in Nat \ {0} /\ ConstHalf = 2 * h
    BY <1>1, Doubled DEF ConstHalf
<1>4. One >= 2
    <2> DEFINE f == 2^(CONSTS_FRAC - 1)
    <2> HIDE DEF f
    <2> QED
        BY <1>2 DEF f
<1> HIDE DEF h
<1> QED
    BY <1>3, <1>4

(* The error in whole numbers: the bench does not scale it up first. *)
LEMMA ErrorAgrees ==
    ASSUME RangeInv,
           NEW r \in Int, r = mulsat(Setpoint - measured, ADC_TO_DAC),
           -(ConstHalf - 1) < r * One, r * One < ConstHalf - 1
    PROVE  Err = r
<1> DEFINE d == Setpoint - measured
           dA == d * ADC_TO_DAC
           F == One
           H == ConstHalf
           W == 2^(CONSTS_WHOLE - 1)
           n == dA \div F
           left == dA % F
           g == H \div 2
<1>1. d \in Int /\ ADC_TO_DAC \in Int
    <2>1. 2^(ADC_WID - 1) \in Nat
        BY Widths, Doubled
    <2>2. Setpoint \in Int /\ measured \in Int
        BY <2>1, InputAssumption DEF RangeInv
    <2>3. ADC_TO_DAC \in Const
        BY InputAssumption
    <2>4. ADC_TO_DAC \in Int
        BY <2>3, ConstIsInt
    <2> QED
        BY <2>2, <2>4
<1>2. /\ F \in Nat /\ F >= 2 /\ H \in Nat /\ H >= 2 /\ H = 2 * g /\ g \in Nat
      /\ W \in Nat \ {0} /\ H = W * F
    BY Sizes, Bits
<1>3. dA \in Int
    BY <1>1
<1>4. n \in Int /\ left \in 0..F - 1 /\ dA = n * F + left
    <2>1. F \in Nat \ {0}
        BY <1>2
    <2> HIDE DEF dA, F
    <2> QED
        BY <1>3, <2>1, ModRange
<1>5. r = sat(n)
    BY DEF mulsat, mul
<1>6. mul(Miss, ADC_TO_DAC) = dA
    <2>1. Miss * ADC_TO_DAC = dA * F
        BY <1>1, <1>2 DEF Miss
    <2> HIDE DEF dA, F
    <2>2. (dA * F + 0) \div F = dA /\ dA * F + 0 = dA * F
        BY <1>2, <1>3, DivUnique
    <2> QED
        BY <2>1, <2>2 DEF mul, F
<1>7. -(H - 1) < r * F /\ r * F < H - 1
    OBVIOUS
<1> HIDE DEF d, dA, F, H, W, n, left, g
<1>8. ~(r = H - 1)
    BY <1>2, <1>7
<1>9. ~(r = -g)
    <2> SUFFICES ASSUME r = -g PROVE FALSE
        OBVIOUS
    <2>1. g * F >= g * 2
        BY <1>2
    <2>2. r * F = -(g * F)
        BY <1>2
    <2> DEFINE y == g * F
    <2>3. y \in Int /\ y >= 2 * g /\ r * F = -y
        BY <1>2, <2>1, <2>2
    <2> HIDE DEF y
    <2> QED
        BY <1>2, <1>7, <2>3
<1>10. r = n
    BY <1>5, <1>8, <1>9 DEF sat, H, g
<1> DEFINE m == n * F
<1>11. m \in Int /\ dA = m + left /\ -(H - 1) < m /\ m < H - 1
    BY <1>2, <1>4, <1>7, <1>10
<1>12. m <= H - F
    <2>1. n < W
        <3> SUFFICES ASSUME n >= W PROVE FALSE
            BY <1>2, <1>4
        <3>1. F * n >= F * W
            BY <1>2, <1>4, Factor
        <3>2. F * n = m /\ F * W = H
            BY <1>2, <1>4
        <3> QED
            BY <1>2, <1>11, <3>1, <3>2
    <2>2. F * n <= F * (W - 1)
        BY <1>2, <1>4, <2>1, Factor
    <2>3. F * n = m /\ F * (W - 1) = H - F
        BY <1>2, <1>4
    <2> QED
        BY <2>2, <2>3
<1> HIDE DEF m
<1>13. -H <= dA /\ dA <= H - 1
    BY <1>2, <1>4, <1>11, <1>12
<1>14. Narrow(dA) = dA
    BY <1>2, <1>3, <1>13 DEF Narrow, Expected, H
<1>15. Times(Miss, ADC_TO_DAC) = dA
    BY <1>6, <1>14 DEF Times
<1> QED
    BY <1>10, <1>15 DEF Err, n, F

LEMMA BenchHolds == MathInv => BenchAgrees
<1> DEFINE bench == calculate(asked)
           Fits(v) == -(ConstHalf - 1) < v /\ v < ConstHalf - 1
<1> SUFFICES ASSUME RangeInv, UserInv, ValueInv, finished, \A v \in bench.values : Fits(v)
             PROVE  e_cur = bench.err_cur /\ adj_val = bench.new_adjval
  BY DEF MathInv, ProductInv, BenchAgrees
<1>1. state = "WAIT_ON_DISARM" /\ asked = Inputs
  BY DEF UserInv
<1>2. e_cur = Err /\ adj_val = Adj
  BY <1>1 DEF ValueInv, Late
<1>3. /\ asked.measured = measured /\ asked.gains = gains /\ asked.cycles = cycles
      /\ asked.e_prev = e_prev /\ asked.adjval_prev = adjval_prev
  BY <1>1 DEF Inputs
<1> DEFINE err   == mulsat(Setpoint - measured, ADC_TO_DAC)
           dt    == mulsat(SEC_PER_CYCLE, cycles * One)
           idt   == mulsat(dt, cl_I)
           epidt == mulsat(err * One, cl_P + idt)
           ep    == mulsat(e_prev * One, cl_P)
<1>4. /\ bench.err_cur = err
      /\ bench.new_adjval = adjval_prev + epidt - ep
      /\ bench.values = {err * One, mul(SEC_PER_CYCLE, cycles * One),
                         mul(dt, cl_I), cl_P + idt, mul(err * One, cl_P + idt),
                         mul(e_prev * One, cl_P), epidt - ep,
                         adjval_prev + epidt - ep}
  BY <1>3 DEF calculate, cl_P, cl_I
<1>5. /\ Fits(err * One) /\ Fits(mul(SEC_PER_CYCLE, cycles * One))
      /\ Fits(mul(dt, cl_I)) /\ Fits(cl_P + idt) /\ Fits(mul(err * One, cl_P + idt))
      /\ Fits(mul(e_prev * One, cl_P)) /\ Fits(epidt - ep)
      /\ Fits(adjval_prev + epidt - ep)
  <2> HIDE DEF bench, Fits, err, dt, idt, epidt, ep
  <2> QED
    BY <1>4
<1>6. /\ SEC_PER_CYCLE \in Int /\ ADC_TO_DAC \in Int /\ cl_P \in Int /\ cl_I \in Int
      /\ cycles * One \in Int /\ e_prev * One \in Int /\ adjval_prev \in Int
      /\ One \in Nat \ {0} /\ Setpoint - measured \in Int
  <2>1. 2^(ADC_WID - 1) \in Nat
    BY Widths, Doubled
  <2>2. Setpoint \in Int /\ measured \in Int
    BY <2>1, InputAssumption DEF RangeInv
  <2>3. /\ SEC_PER_CYCLE \in Const /\ ADC_TO_DAC \in Const /\ cl_P \in Const /\ cl_I \in Const
        /\ cycles * One \in Const /\ e_prev * One \in Const /\ adjval_prev \in Const
    BY TermRanges, InputAssumption DEF RangeInv
  <2>4. One \in Nat \ {0} /\ Setpoint - measured \in Int
    BY <2>2, Sizes
  <2> QED
    BY <2>3, <2>4, ConstIsInt
<1> HIDE DEF bench
<1>7. err \in Int /\ Err = err
  <2>1. mul(Setpoint - measured, ADC_TO_DAC) \in Int
    BY <1>6, MulIsInt
  <2>2. err \in Int
    <3>1. ConstHalf \in Nat /\ ConstHalf \div 2 \in Nat
      BY Bits, Sizes
    <3> QED
      BY <2>1, <3>1 DEF mulsat, sat
  <2>3. -(ConstHalf - 1) < err * One /\ err * One < ConstHalf - 1
    BY <1>5
  <2> DEFINE x == err
  <2>4. x \in Int /\ x = mulsat(Setpoint - measured, ADC_TO_DAC)
        /\ -(ConstHalf - 1) < x * One /\ x * One < ConstHalf - 1
    BY <2>2, <2>3
  <2> HIDE DEF x
  <2>5. Err = x
    BY <2>4, ErrorAgrees
  <2> QED
    BY <2>4, <2>5 DEF x
<1>8. dt = Dt /\ dt \in Int
  <2>1. mul(SEC_PER_CYCLE, cycles * One) \in Int
    BY <1>6, MulIsInt
  <2> QED
    BY <1>5, <2>1, Unsaturated DEF mulsat, Dt, Times
<1> HIDE DEF dt, err
<1>9. idt = Idt /\ idt \in Int
  <2>1. mul(dt, cl_I) \in Int
    BY <1>6, <1>8, MulIsInt
  <2> QED
    BY <1>5, <1>8, <2>1, Unsaturated DEF mulsat, Idt, Times
<1> HIDE DEF idt
<1>10. epidt = Epidt /\ epidt \in Int
  <2>1. cl_P + idt \in Int /\ err * One \in Int
    BY <1>6, <1>7, <1>9
  <2>2. mul(err * One, cl_P + idt) \in Int /\ Narrow(cl_P + idt) = cl_P + idt
    BY <1>5, <2>1, MulIsInt, Unsaturated
  <2> QED
    BY <1>5, <1>7, <1>9, <2>2, Unsaturated DEF mulsat, Epidt, Times
<1>11. ep = Ep /\ ep \in Int
  <2>1. mul(e_prev * One, cl_P) \in Int
    BY <1>6, MulIsInt
  <2> QED
    BY <1>5, <2>1, Unsaturated DEF mulsat, Ep, Times
<1> HIDE DEF epidt, ep
<1>12. Diff = epidt - ep
  <2>1. epidt - ep \in Int
    BY <1>10, <1>11
  <2> QED
    BY <1>5, <1>10, <1>11, <2>1, Unsaturated DEF Diff
<1>13. Adj = adjval_prev + epidt - ep
  <2> DEFINE x == adjval_prev + epidt - ep
  <2>1. x \in Int /\ Diff + adjval_prev = x
    BY <1>6, <1>10, <1>11, <1>12
  <2>2. Fits(x)
    BY <1>5
  <2> HIDE DEF x
  <2>3. Narrow(x) = x
    BY <2>1, <2>2, Unsaturated
  <2> QED
    BY <2>1, <2>3 DEF Adj, x
<1> QED
  BY <1>2, <1>4, <1>7, <1>13

(* The unit's error and adjustment are those the test bench works out in   *)
(* plain integers, whenever none of the latter reaches a limit.            *)
THEOREM BenchIsMet == Spec => []BenchAgrees
<1>1. Init => MathInv BY MathInvInit
<1>2. MathInv /\ [Next]_vars => MathInv' BY MathInvNext
<1>3. MathInv => BenchAgrees BY BenchHolds
<1> QED BY <1>1, <1>2, <1>3, PTL DEF Spec
=============================================================================
