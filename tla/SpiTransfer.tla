---------------------------- MODULE SpiTransfer ----------------------------
(***************************************************************************)
(* What an SPI master with slave select promises to the unit that arms it, *)
(* cycle by cycle, without the wires: the contract of SpiMasterSS as the   *)
(* control loop, the raster unit and the MMIO registers use it.  SpiLink   *)
(* implements it (SpiLink!Contract); ControlLoop instantiates it once for  *)
(* its DAC and once for its ADC.                                           *)
(*                                                                         *)
(* phase  idle    waiting for arm                                          *)
(*        select  slave select is up, the transfer has not begun           *)
(*        load    the cycle in which to_slave is copied                    *)
(*        shift   bits are moving; from_slave holds garbage                *)
(*        settle  `finished` is up, slave select falls at the next edge    *)
(*        done    waiting for arm to fall                                  *)
(*                                                                         *)
(* `finished` outlives the release of arm by `lag` cycles.                 *)
(***************************************************************************)
EXTENDS Integers

CONSTANTS
    SS_WAIT,        \* cycles between slave select and the first bit
    WordSet,        \* what a word can be
    Garbage,        \* what from_slave can hold in the middle of a transfer
    ZeroWord        \* what the registers hold after a reset

VARIABLES
    arm, to_slave,          \* inputs from the user
    to_master,              \* input from the device: the word it would answer
    phase, count, lag,
    finished, from_slave,   \* outputs
    sent,                   \* the word being shifted out
    loaded                  \* the word being shifted in

outputs == <<phase, count, lag, finished, from_slave, sent, loaded>>
Phases == {"idle", "select", "load", "shift", "settle", "done"}

TypeOK ==
    /\ phase \in Phases
    /\ count \in 0..SS_WAIT
    /\ lag \in 0..2
    /\ finished \in BOOLEAN
    /\ {sent, loaded, to_slave, to_master} \subseteq WordSet
    /\ from_slave \in WordSet \cup Garbage

PowerUp ==
    /\ phase = "idle"
    /\ count = 0
    /\ lag \in {0, 1}
    /\ finished = (lag > 0)
    /\ sent = ZeroWord /\ loaded = ZeroWord
    /\ from_slave \in WordSet

Fade == IF lag > 0 THEN lag - 1 ELSE 0

Waiting ==
    /\ phase = "idle"
    /\ lag' = Fade
    /\ IF arm
       THEN phase' = "select" /\ count' = 1
       ELSE UNCHANGED <<phase, count>>
    /\ UNCHANGED <<from_slave, sent, loaded>>

(* The device sees its select line one cycle late and copies its answer.   *)
Selecting ==
    /\ phase = "select"
    /\ lag' = Fade
    /\ loaded' = IF count = 1 THEN to_master ELSE loaded
    /\ IF count = SS_WAIT
       THEN phase' = "load" /\ UNCHANGED count
       ELSE count' = count + 1 /\ UNCHANGED phase
    /\ UNCHANGED <<from_slave, sent>>

Loading ==
    /\ phase = "load"
    /\ sent' = to_slave
    /\ phase' = "shift"
    /\ UNCHANGED <<count, lag, from_slave, loaded>>

Shifting ==
    /\ phase = "shift"
    /\ from_slave' \in Garbage
    /\ UNCHANGED <<phase, count, lag, sent, loaded>>

(* arm is not looked at: a transfer, once begun, runs to its end. *)
Complete ==
    /\ phase = "shift"
    /\ phase' = "settle"
    /\ from_slave' = loaded
    /\ UNCHANGED <<count, lag, sent, loaded>>

Deselect ==
    /\ phase = "settle"
    /\ phase' = "done"
    /\ UNCHANGED <<count, lag, from_slave, sent, loaded>>

Done ==
    /\ phase = "done"
    /\ IF arm
       THEN UNCHANGED <<phase, lag>>
       ELSE phase' = "idle" /\ lag' = 2
    /\ UNCHANGED <<count, from_slave, sent, loaded>>

Step ==
    /\ \/ Waiting \/ Selecting \/ Loading \/ Shifting \/ Complete
       \/ Deselect \/ Done
    /\ finished' = (phase' \in {"settle", "done"} \/ lag' > 0)

Halt ==
    /\ phase' = "idle"
    /\ count' = 0 /\ lag' = 0
    /\ finished' = FALSE
    /\ from_slave' = ZeroWord
    /\ UNCHANGED <<sent, loaded>>

(* What happens in each cycle; and a transfer, once begun, ends.           *)
Safety == PowerUp /\ [][Step \/ Halt]_outputs

Spec == Safety /\ (phase = "shift" ~> phase # "shift")
=============================================================================
