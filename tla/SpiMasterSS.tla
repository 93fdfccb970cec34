---------------------------- MODULE SpiMasterSS ----------------------------
(***************************************************************************)
(* The SPI master as the rest of the gateware uses it,                     *)
(* spi/spi_master_ss_template.v: the core of SpiMaster, plus a wrapper     *)
(* that asserts the slave-select line SS_WAIT cycles before it arms the    *)
(* core and drops it when the core is finished.  `arm` and `to_slave` come *)
(* from the user of the master (MMIO registers, the control loop, the      *)
(* raster unit, the waveform unit); `finished` and `from_slave` go back.   *)
(***************************************************************************)
EXTENDS SpiMaster

CONSTANT SS_WAIT

(* With SS_WAIT = 0 the wrapper arms the core while `finished` may still   *)
(* be high from the previous transfer and drops slave select at once.      *)
(* Every instance in base.v.m4 waits (DAC 5 cycles, ADC 60).               *)
ASSUME SSWaitAssumption == SS_WAIT \in Nat \ {0}

VARIABLES
    arm,            \* input
    ss,             \* NOT ss_L
    ss_state,
    ss_timer,
    \* history
    sent,           \* the word the core copied from to_slave for this frame
    edges           \* sck edges since slave select was asserted

wrapperRegs == <<arm_master, ss, ss_state, ss_timer>>
history     == <<sent, edges>>

ssVars == <<mode, masterInputs, masterRegs, arm, ss, ss_state, ss_timer, history>>

SSStates == {"WAIT_ON_ARM", "WAIT_ON_SS", "WAIT_ON_MASTER",
             "WAIT_ON_ARM_DEASSERT"}

WrapperTypeOK ==
    /\ arm \in BOOLEAN
    /\ ss \in BOOLEAN
    /\ ss_state \in SSStates
    /\ ss_timer \in 0..SS_WAIT
    /\ sent \in Word
    /\ edges \in Nat

(* Type invariant of the master with its wrapper. *)
SSTypeOK == MasterTypeOK /\ WrapperTypeOK

WrapperInit ==
    /\ ss = FALSE
    /\ arm_master = FALSE
    /\ ss_state = "WAIT_ON_ARM"
    /\ ss_timer = 0
-----------------------------------------------------------------------------
WrapperReset ==
    /\ ss_state' = "WAIT_ON_ARM"
    /\ ss_timer' = 0
    /\ arm_master' = FALSE
    /\ ss' = FALSE

NotArmed ==
    /\ ss_state = "WAIT_ON_ARM"
    /\ ~arm
    /\ UNCHANGED wrapperRegs

Select ==
    /\ ss_state = "WAIT_ON_ARM"
    /\ arm
    /\ ss_timer' = 1
    /\ ss_state' = "WAIT_ON_SS"
    /\ ss' = TRUE
    /\ UNCHANGED arm_master

CountSelect ==
    /\ ss_state = "WAIT_ON_SS"
    /\ \/ /\ ss_timer = SS_WAIT
          /\ arm_master' = TRUE
          /\ ss_state' = "WAIT_ON_MASTER"
          /\ UNCHANGED ss_timer
       \/ /\ ss_timer # SS_WAIT
          /\ ss_timer' = ss_timer + 1
          /\ UNCHANGED <<arm_master, ss_state>>
    /\ UNCHANGED ss

WaitOnMaster ==
    /\ ss_state = "WAIT_ON_MASTER"
    /\ \/ /\ finished
          /\ ss_state' = "WAIT_ON_ARM_DEASSERT"
          /\ ss' = FALSE
       \/ /\ ~finished
          /\ UNCHANGED <<ss_state, ss>>
    /\ UNCHANGED <<arm_master, ss_timer>>

ReleaseKeepsCoreArmed ==  \* mutant: arm_master is not lowered
    /\ ss_state = "WAIT_ON_ARM_DEASSERT"
    /\ IF arm
       THEN UNCHANGED ss_state
       ELSE ss_state' = "WAIT_ON_ARM"
    /\ UNCHANGED <<arm_master, ss, ss_timer>>

Release ==
    /\ ss_state = "WAIT_ON_ARM_DEASSERT"
    /\ IF arm
       THEN UNCHANGED <<ss_state, arm_master>>
       ELSE ss_state' = "WAIT_ON_ARM" /\ arm_master' = FALSE
    /\ UNCHANGED <<ss, ss_timer>>

WrapperStep == NotArmed \/ Select \/ CountSelect \/ WaitOnMaster \/ Release

(* History only: never read by the circuit. *)
Record ==
    /\ sent' = IF state = "WAIT_ON_ARM" /\ arm_master THEN to_slave ELSE sent
    /\ edges' = IF ~ss THEN 0 ELSE IF sck' # sck THEN edges + 1 ELSE edges
-----------------------------------------------------------------------------
(* One clock cycle of the master with rst_L high, and one with rst_L low.  *)
SSStep == MasterStep /\ WrapperStep /\ Record
SSHalt == MasterHalt /\ WrapperReset /\ sent' = sent /\ edges' = 0

(* The surroundings: anything may be on the inputs in any cycle. *)
FreeInputs == arm' \in BOOLEAN /\ to_slave' \in Word /\ miso' \in Bit

SSInit ==
    /\ MasterInit
    /\ WrapperInit
    /\ arm \in BOOLEAN /\ to_slave \in Word /\ miso \in Bit
    /\ sent = Zero
    /\ edges = 0

SSNext == (SSStep \/ SSHalt) /\ FreeInputs

SSSpec == SSInit /\ [][SSNext]_ssVars
-----------------------------------------------------------------------------
(* What a transfer must look like on the wires *)

(* A frame always has WID clock pulses: when slave select is dropped by    *)
(* the end of a transfer (and not by a reset), sck has made exactly WID    *)
(* pulses since slave select rose, in every SPI mode, whatever `arm` did   *)
(* meanwhile.  A user of the master relies on this when it lowers arm      *)
(* early; an LTC ADC loses its framing otherwise.                          *)
FramesAreWhole ==
    [][ss /\ ~ss' /\ SSStep => edges = 2 * WID /\ sck = POLARITY]_ssVars

(* The clock is quiet while the slave is not selected and during the       *)
(* SS_WAIT cycles after it was: no sck edge happens before the core has    *)
(* been armed.  The power-up and reset levels of sck are put right by the  *)
(* first idle cycle.                                                       *)
ClockQuiet ==
    ss_state \in {"WAIT_ON_SS", "WAIT_ON_ARM_DEASSERT"} =>
        sck = POLARITY /\ (ss => edges = 0)

(* A stale `finished` never ends a transfer: when the core accepts a new   *)
(* frame, the flag of the previous one has been cleared.  setup_bits does  *)
(* not clear it; only the idle cycle between two frames does.              *)
FinishedIsFresh == state = "WAIT_ON_ARM" /\ arm_master => ~finished
=============================================================================
