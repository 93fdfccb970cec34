------------------------- MODULE MCControlLoopMath -------------------------
(* Words of five bits, one of them fractional, with every operand of the    *)
(* multiplier at its limits.                                               *)
EXTENDS ControlLoopMath

MCGains == {<<2, 3>>, <<-16, 15>>}
MCSamples == {1, -2}

(* boothmul_sim.cpp, on every pair of operands. *)
BoothmulBench == \A i, j \in Const : Multiplier!run(i, j) = i * j

(* intsat_sim.cpp, on every ten-bit word, saturated to one to six bits.    *)
IntsatBench ==
    \A half \in {1, 2, 4, 8, 16, 32}, inp \in -512..511 :
        intsat(inp, half) = Expected(inp, half)

ASSUME BoothmulBench /\ IntsatBench
=============================================================================
