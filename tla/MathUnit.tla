------------------------------ MODULE MathUnit ------------------------------
(***************************************************************************)
(* What the arithmetic unit promises to the control loop: it works while   *)
(* armed, shows `finished` only while armed, and keeps its results until   *)
(* it is armed again.  ControlLoop uses it, ControlLoopMath implements it. *)
(***************************************************************************)
VARIABLES
    arm,                \* input
    phase,              \* "idle", "busy" or "disarm"
    finished, results   \* outputs

unit == <<phase, finished, results>>

Idle ==
    /\ phase = "idle"
    /\ IF arm
       THEN phase' = "busy" /\ UNCHANGED finished
       ELSE finished' = FALSE /\ UNCHANGED phase

Work ==
    /\ phase = "busy"
    /\ phase' \in {"busy", "disarm"}
    /\ UNCHANGED finished

Done ==
    /\ phase = "disarm"
    /\ finished' = arm
    /\ phase' = IF arm THEN "disarm" ELSE "idle"

Halt == phase' = "idle" /\ finished' = FALSE

Kept == phase # "busy" => UNCHANGED results

UnitInit == phase = "idle" /\ finished = FALSE
UnitNext == ((Idle \/ Work \/ Done) /\ Kept) \/ Halt

UnitSafety == UnitInit /\ [][UnitNext]_unit

UnitSpec == UnitSafety /\ (phase = "busy" ~> phase # "busy")
=============================================================================
