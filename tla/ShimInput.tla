----------------------------- MODULE ShimInput -----------------------------
(* The side of the RAM shim that takes samples, the last always block of   *)
(* raster/ram_shim.v: it pushes `data` into the FIFO and answers with      *)
(* `finished`.  The FIFO writes at the edge that ends the cycle in which   *)
(* write_enable is up.                                                     *)
CONSTANT Zero           \* the power-up value of write_dat

VARIABLES
    data, data_commit,                      \* inputs from the user
    write_enable, write_dat, finished

inputVars == <<write_enable, write_dat, finished>>

InputInit == write_enable = FALSE /\ write_dat = Zero /\ finished = FALSE

TakeAlways(full) == data_commit /\ ~write_enable    \* mutant: full is not looked at

Take(full) == data_commit /\ ~write_enable /\ ~full

(* Nothing here remembers that the sample on `data` has been taken: a      *)
(* commit that is still up after `finished` is a new one.                  *)
Accept(full) ==
    \/ /\ Take(full)
       /\ write_dat' = data /\ write_enable' = TRUE
       /\ UNCHANGED finished
    \/ /\ data_commit /\ write_enable
       /\ write_enable' = FALSE /\ finished' = TRUE
       /\ UNCHANGED write_dat
    \/ /\ ~data_commit /\ finished
       /\ finished' = FALSE /\ write_enable' = FALSE
       /\ UNCHANGED write_dat
    \/ /\ ~Take(full) /\ ~(data_commit /\ write_enable)
       /\ ~(~data_commit /\ finished)
       /\ UNCHANGED inputVars
=============================================================================
