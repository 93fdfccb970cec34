--------------------------- MODULE MCControlLoop ---------------------------
(* A control loop with two DAC codes and two parameter sets, one of which  *)
(* slows the loop down.                                                    *)
EXTENDS ControlLoop

MCParamSets == {[setpt |-> 0, P |-> 0, I |-> 0, delay |-> 0],
                [setpt |-> 1, P |-> 1, I |-> 1, delay |-> 1]}
=============================================================================
