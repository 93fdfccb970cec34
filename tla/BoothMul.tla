------------------------------ MODULE BoothMul ------------------------------
(***************************************************************************)
(* The sequential multiplier control_loop/boothmul.v: while armed it takes *)
(* its operands, shifts A2_LEN times and raises fin.  p is the register of *)
(* OUT_LEN + 2 bits, as a signed number.                                   *)
(***************************************************************************)
EXTENDS IntSat

CONSTANTS A1_LEN, A2_LEN, A2LEN_SIZ

(* Natural numbers above 0; A2LEN_SIZ bits "must be able to store          *)
(* A2_LEN + 2".                                                            *)

VARIABLES
    arm, a1, a2,                    \* inputs
    p, a1_reg, loop_accul, fin,
    factors                         \* history: the operands that were taken

mulRegs == <<p, a1_reg, loop_accul, fin>>

OUT_LEN == A1_LEN + A2_LEN

(* The overflow bit above the product: without it the most negative        *)
(* multiplicand cannot be subtracted.                                      *)
RegHalf == 2^(OUT_LEN + 1)

outn == sign_extend(p \div 2, 2^(OUT_LEN - 1))

(* One round of the algorithm: add, subtract or neither, and shift.        *)
Round(q, m) ==
    LET a   == m * 2^(A2_LEN + 1)
        low == q % 4
    IN sign_extend(IF low = 2 THEN q - a ELSE IF low = 1 THEN q + a ELSE q,
                   RegHalf) \div 2

(* A multiplication as a whole (boothmul_sim.cpp): it gives i * j.         *)
run(i, j) ==
    LET q[n \in 0..A2_LEN] == IF n = 0 THEN 2 * (j % 2^A2_LEN)
                                       ELSE Round(q[n - 1], i)
    IN sign_extend(q[A2_LEN] \div 2, 2^(OUT_LEN - 1))

MulInit ==
    /\ p = 0 /\ a1_reg = 0 /\ loop_accul = 0 /\ fin = FALSE
    /\ factors = <<0, 0>>

Disarmed ==
    /\ ~arm
    /\ loop_accul' = 0 /\ fin' = FALSE
    /\ UNCHANGED <<p, a1_reg, factors>>

TakeOperands ==
    /\ arm /\ loop_accul = 0
    /\ p' = 2 * (a2 % 2^A2_LEN)
    /\ a1_reg' = a1
    /\ loop_accul' = 1
    /\ factors' = <<a1, a2>>
    /\ UNCHANGED fin

MoreRoundsByOne == loop_accul < A2_LEN + 2  \* mutant: a round too many

MoreRounds == loop_accul < A2_LEN + 1

AddAndShift ==
    /\ arm /\ loop_accul # 0 /\ MoreRounds
    /\ loop_accul' = (loop_accul + 1) % 2^A2LEN_SIZ
    /\ p' = Round(p, a1_reg)
    /\ UNCHANGED <<a1_reg, fin, factors>>

Finish ==
    /\ arm /\ loop_accul # 0 /\ ~MoreRounds
    /\ fin' = TRUE
    /\ UNCHANGED <<p, a1_reg, loop_accul, factors>>

MulStep == Disarmed \/ TakeOperands \/ AddAndShift \/ Finish

MulHalt ==
    /\ p' = 0 /\ a1_reg' = 0 /\ loop_accul' = 0 /\ fin' = FALSE
    /\ UNCHANGED factors
=============================================================================
