----------------------------- MODULE SpiMaster -----------------------------
(***************************************************************************)
(* The SPI master core, spi/spi_master.v.  One step is one rising edge of  *)
(* clk.  Non-blocking assignments become primed variables; a register the  *)
(* always block does not assign keeps its value.  The Verilog tasks are    *)
(* action fragments with the same names.                                   *)
(*                                                                         *)
(* spi_master_no_write and spi_master_no_read are the same circuit with    *)
(* the MOSI or the MISO registers removed.                                 *)
(***************************************************************************)
EXTENDS SpiWord

VARIABLES
    mode,           \* elaborated parameters of this instance
    \* inputs
    arm_master,     \* `arm` of the core, driven by the slave-select wrapper
    to_slave,
    miso,
    \* registers
    state,
    bit_counter,
    timer,
    send_buf,
    sck,
    mosi,
    finished,
    ready_to_arm,
    from_slave,
    miso_hot,
    read_miso

masterInputs == <<arm_master, to_slave, miso>>
masterRegs   == <<state, bit_counter, timer, send_buf, sck, mosi, finished,
                  ready_to_arm, from_slave, miso_hot, read_miso>>

POLARITY        == mode.POLARITY
PHASE           == mode.PHASE
CYCLE_HALF_WAIT == mode.CYCLE_HALF_WAIT

MasterStates == {"WAIT_ON_ARM", "ON_CYCLE", "CYCLE_WAIT", "WAIT_FINISHED"}

MasterTypeOK ==
    /\ mode \in Modes
    /\ arm_master \in BOOLEAN
    /\ to_slave \in Word
    /\ miso \in Bit
    /\ state \in MasterStates
    /\ bit_counter \in 0..WID
    /\ timer \in 0..(IF CYCLE_HALF_WAIT = 0 THEN 1 ELSE CYCLE_HALF_WAIT)
    /\ send_buf \in Word
    /\ sck \in Bit
    /\ mosi \in Bit
    /\ finished \in BOOLEAN
    /\ ready_to_arm \in BOOLEAN
    /\ from_slave \in Word
    /\ miso_hot \in Bit
    /\ read_miso \in Bit

(* Power-up values.  sck starts low whatever POLARITY is; mosi, finished   *)
(* and from_slave have no initialiser and may hold anything.               *)
MasterInit ==
    /\ mode \in Modes
    /\ state = "WAIT_ON_ARM"
    /\ bit_counter = 0
    /\ timer = 0
    /\ send_buf = Zero
    /\ sck = 0
    /\ mosi \in Bit
    /\ finished \in BOOLEAN
    /\ ready_to_arm = TRUE
    /\ from_slave \in Word
    /\ miso_hot = 0
    /\ read_miso = 0
-----------------------------------------------------------------------------
(* Tasks *)

idle_state_keeps_sck ==         \* mutant: the idle level is never restored
    /\ UNCHANGED sck
    /\ mosi' = 0
    /\ timer' = 0
    /\ bit_counter' = 0

idle_state ==
    /\ sck' = POLARITY
    /\ mosi' = 0
    /\ timer' = 0
    /\ bit_counter' = 0

read_data ==
    /\ from_slave' = ShiftIn(from_slave, read_miso)
    /\ UNCHANGED <<mosi, send_buf>>

write_data ==
    /\ mosi' = send_buf[1]
    /\ send_buf' = ShiftIn(send_buf, 0)
    /\ UNCHANGED from_slave

setup_bits_unshifted ==         \* mutant: the first bit is sent twice
    \/ /\ POLARITY = PHASE
       /\ mosi' = to_slave[1]
       /\ send_buf' = to_slave
       /\ state' = "CYCLE_WAIT"
    \/ /\ POLARITY # PHASE
       /\ send_buf' = to_slave
       /\ state' = "ON_CYCLE"
       /\ UNCHANGED mosi

setup_bits ==
    \/ /\ POLARITY = PHASE
       /\ mosi' = to_slave[1]
       /\ send_buf' = ShiftIn(to_slave, 0)
       /\ state' = "CYCLE_WAIT"
    \/ /\ POLARITY # PHASE
       /\ send_buf' = to_slave
       /\ state' = "ON_CYCLE"
       /\ UNCHANGED mosi

ReadLevelOfSlave == PHASE       \* mutant: samples on the driving edge

(* A bit is sampled on the sck level of the reading phase and driven on    *)
(* the other level.                                                        *)
ReadLevel == IF PHASE = 1 THEN 0 ELSE 1

LastHalfCycleEarly == bit_counter = WID - 1 /\ sck = POLARITY  \* mutant

LastHalfCycleLate == bit_counter > WID /\ sck = POLARITY       \* mutant

(* The last bit has been counted and sck is back at its idle level. *)
LastHalfCycle == bit_counter = WID /\ sck = POLARITY

cycle_change ==
    \/ /\ LastHalfCycle
       /\ state' = "WAIT_FINISHED"
       /\ UNCHANGED sck
    \/ /\ ~LastHalfCycle
       /\ sck' = 1 - sck
       /\ state' = "ON_CYCLE"
-----------------------------------------------------------------------------
(* One action per branch of the state machine *)

MasterReset ==
    /\ idle_state
    /\ finished' = FALSE
    /\ state' = "WAIT_ON_ARM"
    /\ ready_to_arm' = TRUE
    /\ from_slave' = Zero
    /\ send_buf' = Zero

IdleKeepsFinished ==            \* mutant: the flag is not cleared
    /\ state = "WAIT_ON_ARM"
    /\ ~arm_master
    /\ idle_state
    /\ UNCHANGED <<state, finished, send_buf, ready_to_arm, from_slave>>

Idle ==
    /\ state = "WAIT_ON_ARM"
    /\ ~arm_master
    /\ idle_state
    /\ finished' = FALSE
    /\ UNCHANGED <<state, send_buf, ready_to_arm, from_slave>>

(* `finished` is not touched here: it falls only through Idle. *)
AcceptArm ==
    /\ state = "WAIT_ON_ARM"
    /\ arm_master
    /\ setup_bits
    /\ ready_to_arm' = FALSE
    /\ UNCHANGED <<bit_counter, timer, sck, finished, from_slave>>

(* An edge of sck was produced by the previous step, or, when POLARITY and *)
(* PHASE differ, the transfer has just begun at the idle level.            *)
OnCycle ==
    /\ state = "ON_CYCLE"
    /\ IF sck = ReadLevel THEN read_data ELSE write_data
    /\ bit_counter' = IF sck = POLARITY THEN bit_counter ELSE bit_counter + 1
    /\ IF CYCLE_HALF_WAIT = 0
       THEN cycle_change
       ELSE state' = "CYCLE_WAIT" /\ UNCHANGED sck
    /\ UNCHANGED <<timer, finished, ready_to_arm>>

CycleWait ==
    /\ state = "CYCLE_WAIT"
    /\ \/ /\ timer = CYCLE_HALF_WAIT
          /\ timer' = 1
          /\ cycle_change
       \/ /\ timer # CYCLE_HALF_WAIT
          /\ timer' = timer + 1
          /\ UNCHANGED <<state, sck>>
    /\ UNCHANGED <<bit_counter, send_buf, mosi, finished, ready_to_arm,
                   from_slave>>

WaitFinished ==
    /\ state = "WAIT_FINISHED"
    /\ finished' = TRUE
    /\ idle_state
    /\ \/ /\ ~arm_master
          /\ state' = "WAIT_ON_ARM"
          /\ ready_to_arm' = TRUE
       \/ /\ arm_master
          /\ UNCHANGED <<state, ready_to_arm>>
    /\ UNCHANGED <<send_buf, from_slave>>

(* MISO is an external wire: it goes through two flip-flops, in every      *)
(* cycle, even during reset.                                               *)
MisoBuffer ==
    /\ read_miso' = miso_hot
    /\ miso_hot' = miso

MasterStep ==
    /\ Idle \/ AcceptArm \/ OnCycle \/ CycleWait \/ WaitFinished
    /\ MisoBuffer
    /\ UNCHANGED mode

MasterHalt ==
    /\ MasterReset
    /\ MisoBuffer
    /\ UNCHANGED mode
=============================================================================
