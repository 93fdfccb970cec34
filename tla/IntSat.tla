------------------------------- MODULE IntSat -------------------------------
(***************************************************************************)
(* Two's complement words as integers, and control_loop/intsat.v, which    *)
(* narrows a word by saturation.  A size is given as the number of values  *)
(* of half the range: a word of w bits has half == 2^(w-1).                *)
(***************************************************************************)
EXTENDS Integers

(* The bits of x as a signed word (sign_extend() of the test benches).     *)
sign_extend(x, half) ==
    LET bits == x % (2 * half) IN IF bits < half THEN bits ELSE bits - 2 * half

(* The truncated bits and the highest one that is kept have to be equal.   *)
intsat(inp, half) ==
    LET checked == inp \div half        \* an arithmetic shift to the right
    IN IF checked \in {0, -1} THEN inp
       ELSE IF inp < 0 THEN -half ELSE half - 1

(* What intsat_sim.cpp expects of it. *)
Expected(inp, half) ==
    LET max == half - 1
        min == -half
    IN IF inp > max THEN max ELSE IF inp < min THEN min ELSE inp
=============================================================================
