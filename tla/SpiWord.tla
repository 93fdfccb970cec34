------------------------------ MODULE SpiWord ------------------------------
(***************************************************************************)
(* Vocabulary shared by the two ends of an SPI link (spi/spi_master.v and  *)
(* spi/spi_slave.v).  A word is a WID-bit vector, most significant bit at  *)
(* index 1.  `mode` holds the Verilog parameters an instance of the pair   *)
(* is elaborated with: they never change while the circuit runs.           *)
(***************************************************************************)
EXTENDS Integers

CONSTANTS
    WID,        \* bits per transfer
    Modes       \* the parameter sets to consider

Bit  == {0, 1}
Word == [1..WID -> Bit]

ModeType == [POLARITY : Bit, PHASE : Bit, CYCLE_HALF_WAIT : Nat]

ASSUME WidAssumption  == WID \in Nat \ {0}
ASSUME ModeAssumption == Modes \subseteq ModeType

Zero == [i \in 1..WID |-> 0]

(* w << 1 with b entering at the least significant end. *)
ShiftIn(w, b) == [i \in 1..WID |-> IF i < WID THEN w[i + 1] ELSE b]
=============================================================================
