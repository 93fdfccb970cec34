------------------------------- MODULE MCBase -------------------------------
EXTENDS Base

(* spi_switch_sim.cpp: for every value of the select bits it tries, and a  *)
(* single port driven high, the wires follow that port only if it is the   *)
(* selected one, and the selected port alone gets MISO.                    *)
SwitchBench ==
    \A bits \in {{}, {0}, {1}, {2}}, num \in 0..2 :
        LET selected == IF bits \subseteq {0} THEN 0 ELSE CHOOSE n \in bits : TRUE IN
        /\ Wire(bits, {num}) <=> num = selected
        /\ MisoPorts(bits, TRUE) = {selected}

ASSUME SwitchBench
=============================================================================
