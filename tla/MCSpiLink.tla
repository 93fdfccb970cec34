----------------------------- MODULE MCSpiLink -----------------------------
(* A link with 3-bit words in all four SPI modes. *)
EXTENDS SpiLink

MCModes ==
    [POLARITY : Bit, PHASE : Bit, CYCLE_HALF_WAIT : {2}]
        \cup {[POLARITY |-> 0, PHASE |-> 1, CYCLE_HALF_WAIT |-> 3]}

(* Neither word is a shift of itself by one place, whatever bit comes in. *)
MCWords == {<<1, 0, 1>>, <<0, 1, 1>>}
=============================================================================
