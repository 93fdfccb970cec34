----------------------------- MODULE MCRamShim -----------------------------
(* A shim of 2-bit words and 3-bit samples with a FIFO of two places.      *)
EXTENDS RamShim
=============================================================================
