------------------------- MODULE SpiMasterSS_proofs -------------------------
(***************************************************************************)
(* What SpiMasterSS promises, for every word size, every slave-select      *)
(* delay and every set of SPI modes.  Everything follows from SSInv, which *)
(* relates the two state machines (core and wrapper) and counts the edges  *)
(* of sck against bit_counter.                                             *)
(***************************************************************************)
EXTENDS SpiMasterSS, TLAPS

CoreIdle  == state \in {"WAIT_ON_ARM", "WAIT_FINISHED"}
CoreReady == /\ state = "WAIT_ON_ARM" /\ sck = POLARITY
             /\ bit_counter = 0 /\ timer = 0

(* Between two frames the core is idle or on its way there. *)
InvDeselected ==
    ss_state = "WAIT_ON_ARM" => ~ss /\ ~arm_master /\ CoreIdle

(* While slave select settles the core is ready; `finished` may still be   *)
(* up, but only in the first of these cycles.                              *)
InvSelecting ==
    ss_state = "WAIT_ON_SS" =>
        /\ ss /\ ~arm_master /\ CoreReady /\ edges = 0
        /\ ss_timer \in 1..SS_WAIT

(* During the transfer, bit_counter counts whole pulses: it lags behind    *)
(* edges by one until the core has looked at the edge that ends a pulse's  *)
(* first half.                                                             *)
Counting ==
    /\ finished => state = "WAIT_FINISHED"
    /\ state = "WAIT_ON_ARM" => CoreReady /\ edges = 0
    /\ state = "WAIT_FINISHED" => sck = POLARITY /\ edges = 2 * WID
    /\ state \in {"ON_CYCLE", "CYCLE_WAIT"} /\ sck = POLARITY =>
           edges = 2 * bit_counter
    /\ state = "ON_CYCLE" /\ sck # POLARITY =>
           edges = 2 * bit_counter + 1 /\ bit_counter < WID
    /\ state = "CYCLE_WAIT" /\ sck # POLARITY =>
           edges = 2 * bit_counter - 1
    /\ state = "CYCLE_WAIT" => timer <= CYCLE_HALF_WAIT

InvTransfer == ss_state = "WAIT_ON_MASTER" => ss /\ arm_master /\ Counting

InvReleasing ==
    ss_state = "WAIT_ON_ARM_DEASSERT" =>
        ~ss /\ arm_master /\ state = "WAIT_FINISHED" /\ sck = POLARITY

SSInv == SSTypeOK /\ InvDeselected /\ InvSelecting /\ InvTransfer /\ InvReleasing
-----------------------------------------------------------------------------
(* The parameters of an instance are those of an SPI mode. *)
LEMMA ModeFacts ==
    ASSUME mode \in Modes
    PROVE  POLARITY \in {0, 1} /\ PHASE \in {0, 1} /\ CYCLE_HALF_WAIT \in Nat
BY ModeAssumption DEF ModeType, Bit, POLARITY, PHASE, CYCLE_HALF_WAIT

(* Shifting keeps the width of a word. *)
LEMMA ShiftInType ==
    ASSUME NEW w \in Word, NEW b \in Bit
    PROVE  ShiftIn(w, b) \in Word
BY WidAssumption DEF ShiftIn, Word

LEMMA ZeroType == Zero \in Word
BY DEF Zero, Word, Bit

(* The data path is typed in every step: no action has to be told apart.   *)
DataTypeOK ==
    /\ to_slave \in Word /\ send_buf \in Word /\ from_slave \in Word
    /\ sent \in Word
    /\ miso \in Bit /\ mosi \in Bit /\ miso_hot \in Bit /\ read_miso \in Bit

LEMMA DataTyped ==
    ASSUME DataTypeOK, SSNext
    PROVE  DataTypeOK'
<1>. USE DEF DataTypeOK
<1>1. to_slave' \in Word /\ miso' \in Bit
    BY DEF SSNext, FreeInputs
<1>2. miso_hot' \in Bit /\ read_miso' \in Bit
    BY DEF SSNext, SSStep, SSHalt, MasterStep, MasterHalt, MisoBuffer
<1>3. sent' \in Word
    BY DEF SSNext, SSStep, SSHalt, Record
<1>4. 0 \in Bit /\ send_buf[1] \in Bit /\ to_slave[1] \in Bit
    BY WidAssumption DEF Word, Bit
<1>5. send_buf' \in Word /\ from_slave' \in Word /\ mosi' \in Bit
    <2>1. CASE Idle
        BY <2>1, <1>4 DEF Idle, idle_state
    <2>2. CASE AcceptArm
        <3>1. ShiftIn(to_slave, 0) \in Word
            BY <1>4, ShiftInType
        <3>. QED
            BY <2>2, <3>1, <1>4 DEF AcceptArm, setup_bits
    <2>3. CASE OnCycle
        <3>1. ShiftIn(send_buf, 0) \in Word /\ ShiftIn(from_slave, read_miso) \in Word
            BY <1>4, ShiftInType
        <3>. QED
            BY <2>3, <3>1, <1>4 DEF OnCycle, read_data, write_data
    <2>4. CASE CycleWait
        BY <2>4 DEF CycleWait
    <2>5. CASE WaitFinished
        BY <2>5, <1>4 DEF WaitFinished, idle_state
    <2>6. CASE MasterReset
        BY <2>6, <1>4, ZeroType DEF MasterReset, idle_state
    <2>. QED
        BY <2>1, <2>2, <2>3, <2>4, <2>5, <2>6
        DEF SSNext, SSStep, SSHalt, MasterStep, MasterHalt
<1>. QED
    BY <1>1, <1>2, <1>3, <1>5
-----------------------------------------------------------------------------
(* The control state: everything of SSTypeOK that is not DataTypeOK. *)
CoreTypeOK ==
    /\ state \in MasterStates
    /\ bit_counter \in 0..WID
    /\ timer \in 0..(IF CYCLE_HALF_WAIT = 0 THEN 1 ELSE CYCLE_HALF_WAIT)
    /\ sck \in Bit
    /\ finished \in BOOLEAN
    /\ ready_to_arm \in BOOLEAN

ControlTypeOK ==
    /\ mode \in Modes
    /\ CoreTypeOK
    /\ arm_master \in BOOLEAN /\ arm \in BOOLEAN /\ ss \in BOOLEAN
    /\ ss_state \in SSStates
    /\ ss_timer \in 0..SS_WAIT
    /\ edges \in Nat

LEMMA TypeSplit == SSTypeOK <=> ControlTypeOK /\ DataTypeOK
BY DEF SSTypeOK, MasterTypeOK, WrapperTypeOK, ControlTypeOK, CoreTypeOK,
       DataTypeOK

LEMMA TypeSplitPrime == SSTypeOK' <=> ControlTypeOK' /\ DataTypeOK'
BY TypeSplit, PTL

LEMMA InitInv == SSInit => SSInv
<1>. SUFFICES ASSUME SSInit PROVE SSInv
    OBVIOUS
<1>. USE DEF SSInit, MasterInit, WrapperInit
<1>1. DataTypeOK
    BY ZeroType DEF DataTypeOK, Bit
<1>2. CYCLE_HALF_WAIT \in Nat
    BY ModeFacts
<1>3. bit_counter \in 0..WID /\ ss_timer \in 0..SS_WAIT /\ edges \in Nat
    BY WidAssumption, SSWaitAssumption
<1>4. timer \in 0..(IF CYCLE_HALF_WAIT = 0 THEN 1 ELSE CYCLE_HALF_WAIT)
    BY <1>2
<1>5. ControlTypeOK
    BY <1>3, <1>4 DEF ControlTypeOK, CoreTypeOK, MasterStates, SSStates, Bit
<1>. QED
    BY <1>1, <1>5, TypeSplit
    DEF SSInv, InvDeselected, InvSelecting, InvTransfer, InvReleasing, CoreIdle
-----------------------------------------------------------------------------
LEMMA ParamsKept ==
    ASSUME mode' = mode
    PROVE  POLARITY' = POLARITY /\ CYCLE_HALF_WAIT' = CYCLE_HALF_WAIT
BY DEF POLARITY, CYCLE_HALF_WAIT

(* A cycle in which the core waits for arm or ends its transfer leaves it  *)
(* idle, with the clock at its idle level.                                 *)
LEMMA IdleCycle ==
    ASSUME ControlTypeOK, MasterStep, ~arm_master, CoreIdle
    PROVE  /\ state' = "WAIT_ON_ARM" /\ sck' = POLARITY
           /\ bit_counter' = 0 /\ timer' = 0
           /\ state = "WAIT_ON_ARM" => ~finished'
           /\ CoreIdle' /\ CoreTypeOK'
<1>1. Idle \/ WaitFinished
    BY DEF MasterStep, AcceptArm, OnCycle, CycleWait, CoreIdle
<1>2. /\ state' = "WAIT_ON_ARM" /\ sck' = POLARITY /\ bit_counter' = 0 /\ timer' = 0
      /\ state = "WAIT_ON_ARM" => finished' = FALSE
      /\ finished' \in BOOLEAN /\ ready_to_arm' \in BOOLEAN
    <2>1. CASE Idle
        BY <2>1 DEF Idle, idle_state, ControlTypeOK, CoreTypeOK
    <2>2. CASE WaitFinished
        BY <2>2 DEF WaitFinished, idle_state
    <2>. QED
        BY <1>1, <2>1, <2>2
<1>3. POLARITY \in {0, 1} /\ CYCLE_HALF_WAIT' = CYCLE_HALF_WAIT
      /\ CYCLE_HALF_WAIT \in Nat
    BY ModeFacts, ParamsKept DEF MasterStep, ControlTypeOK
<1>4. timer' \in 0..(IF CYCLE_HALF_WAIT' = 0 THEN 1 ELSE CYCLE_HALF_WAIT')
    BY <1>2, <1>3
<1>5. bit_counter' \in 0..WID
    BY <1>2, WidAssumption
<1>6. CoreTypeOK'
    BY <1>2, <1>3, <1>4, <1>5 DEF CoreTypeOK, MasterStates, Bit
<1>. QED
    BY <1>2, <1>6 DEF CoreIdle

(* Leaving a half cycle: either the clock makes its next edge, or all bits *)
(* have been counted.                                                      *)
LEMMA CycleChange ==
    ASSUME CoreTypeOK, mode \in Modes, edges \in Nat, cycle_change, ~finished',
           mode' = mode,
           edges' = IF sck' # sck THEN edges + 1 ELSE edges,
           sck = POLARITY => edges = 2 * bit_counter /\ bit_counter' = bit_counter,
           sck # POLARITY => /\ edges = 2 * bit_counter' - 1
                             /\ bit_counter' \in 0..WID
    PROVE  Counting' /\ state' \in MasterStates /\ sck' \in Bit /\ edges' \in Nat
<1>1. /\ POLARITY \in {0, 1} /\ POLARITY' = POLARITY
      /\ CYCLE_HALF_WAIT' = CYCLE_HALF_WAIT
      /\ sck \in {0, 1} /\ WID \in Nat /\ bit_counter \in 0..WID
    BY ModeFacts, ParamsKept, WidAssumption DEF CoreTypeOK, Bit
<1>2. CASE LastHalfCycle
    <2>1. state' = "WAIT_FINISHED" /\ sck' = sck /\ sck = POLARITY
          /\ bit_counter = WID
        BY <1>2 DEF cycle_change, LastHalfCycle
    <2>. QED
        BY <2>1, <1>1 DEF Counting, MasterStates, Bit
<1>3. CASE ~LastHalfCycle
    <2>1. state' = "ON_CYCLE" /\ sck' = 1 - sck
        BY <1>3 DEF cycle_change
    <2>2. CASE sck = POLARITY
        <3>1. bit_counter # WID
            BY <2>2, <1>3 DEF LastHalfCycle
        <3>. QED
            BY <2>1, <2>2, <3>1, <1>1 DEF Counting, MasterStates, Bit
    <2>3. CASE sck # POLARITY
        <3>1. sck' = POLARITY
            BY <2>1, <2>3, <1>1
        <3>. QED
            BY <2>1, <2>3, <3>1, <1>1 DEF Counting, MasterStates, Bit
    <2>. QED
        BY <2>2, <2>3
<1>. QED
    BY <1>2, <1>3

(* One step of the core while it is armed and selected. *)
LEMMA TransferCycle ==
    ASSUME CoreTypeOK, mode \in Modes, mode' = mode, edges \in Nat, Counting,
           MasterStep, arm_master, ss, Record
    PROVE  Counting' /\ CoreTypeOK' /\ edges' \in Nat
<1>1. /\ POLARITY \in {0, 1} /\ POLARITY' = POLARITY
      /\ CYCLE_HALF_WAIT \in Nat /\ CYCLE_HALF_WAIT' = CYCLE_HALF_WAIT
      /\ sck \in {0, 1} /\ WID \in Nat /\ bit_counter \in 0..WID
      /\ timer \in 0..(IF CYCLE_HALF_WAIT = 0 THEN 1 ELSE CYCLE_HALF_WAIT)
    BY ModeFacts, ParamsKept, WidAssumption DEF CoreTypeOK, Bit
<1>2. edges' = IF sck' # sck THEN edges + 1 ELSE edges
    BY DEF Record
<1>3. CASE AcceptArm
    <2>1. /\ state' \in {"ON_CYCLE", "CYCLE_WAIT"} /\ sck' = sck /\ sck = POLARITY
          /\ bit_counter' = 0 /\ timer' = 0 /\ bit_counter = 0 /\ edges = 0
          /\ finished' = finished /\ ~finished /\ ready_to_arm' = FALSE
        BY <1>3 DEF AcceptArm, setup_bits, Counting, CoreReady
    <2>2. edges' = 0
        BY <2>1, <1>2
    <2>3. Counting'
        BY <2>1, <2>2, <1>1 DEF Counting
    <2>4. timer' \in 0..(IF CYCLE_HALF_WAIT' = 0 THEN 1 ELSE CYCLE_HALF_WAIT')
        BY <2>1, <1>1
    <2>5. CoreTypeOK'
        BY <2>1, <2>4, <1>1 DEF CoreTypeOK, MasterStates, Bit
    <2>. QED
        BY <2>2, <2>3, <2>5
<1>4. CASE OnCycle
    <2>1. /\ ~finished /\ ~finished' /\ timer' = timer
          /\ ready_to_arm' = ready_to_arm /\ state = "ON_CYCLE"
          /\ finished' = finished
        BY <1>4 DEF OnCycle, Counting
    <2>2. bit_counter' = IF sck = POLARITY THEN bit_counter ELSE bit_counter + 1
        BY <1>4 DEF OnCycle
    <2>3. /\ bit_counter' \in 0..WID
          /\ sck = POLARITY => edges = 2 * bit_counter /\ bit_counter' = bit_counter
          /\ sck # POLARITY => edges = 2 * bit_counter' - 1
        BY <2>1, <2>2, <1>1 DEF Counting
    <2>4. CASE CYCLE_HALF_WAIT = 0
        <3>1. cycle_change
            BY <1>4, <2>4 DEF OnCycle
        <3>. QED
            BY <3>1, <2>1, <2>3, <1>1, <1>2, CycleChange DEF CoreTypeOK
    <2>5. CASE CYCLE_HALF_WAIT # 0
        <3>1. state' = "CYCLE_WAIT" /\ sck' = sck
            BY <1>4, <2>5 DEF OnCycle
        <3>2. timer <= CYCLE_HALF_WAIT
            BY <2>5, <1>1
        <3>. QED
            BY <3>1, <3>2, <2>1, <2>3, <1>1, <1>2
            DEF Counting, CoreTypeOK, MasterStates
    <2>. QED
        BY <2>4, <2>5
<1>5. CASE CycleWait
    <2>1. /\ ~finished /\ finished' = finished /\ bit_counter' = bit_counter
          /\ ready_to_arm' = ready_to_arm /\ state = "CYCLE_WAIT"
          /\ timer <= CYCLE_HALF_WAIT
          /\ sck = POLARITY => edges = 2 * bit_counter
          /\ sck # POLARITY => edges = 2 * bit_counter - 1
        BY <1>5 DEF CycleWait, Counting
    <2>2. CASE timer = CYCLE_HALF_WAIT
        <3>1. cycle_change /\ timer' = 1
            BY <1>5, <2>2 DEF CycleWait
        <3>. QED
            BY <3>1, <2>1, <1>1, <1>2, CycleChange DEF CoreTypeOK
    <2>3. CASE timer # CYCLE_HALF_WAIT
        <3>1. state' = state /\ sck' = sck /\ timer' = timer + 1
            BY <1>5, <2>3 DEF CycleWait
        <3>. QED
            BY <3>1, <2>1, <2>3, <1>1, <1>2 DEF Counting, CoreTypeOK
    <2>. QED
        BY <2>2, <2>3
<1>6. CASE WaitFinished
    <2>1. /\ state' = "WAIT_FINISHED" /\ state = "WAIT_FINISHED"
          /\ sck' = POLARITY /\ sck = POLARITY /\ edges = 2 * WID
          /\ bit_counter' = 0 /\ timer' = 0 /\ finished' = TRUE
          /\ ready_to_arm' = ready_to_arm
        BY <1>6 DEF WaitFinished, idle_state, Counting
    <2>. QED
        BY <2>1, <1>1, <1>2 DEF Counting, CoreTypeOK, Bit
<1>. QED
    BY <1>3, <1>4, <1>5, <1>6 DEF MasterStep, Idle
-----------------------------------------------------------------------------
(* The invariant without the data path. *)
ControlInv ==
    ControlTypeOK /\ InvDeselected /\ InvSelecting /\ InvTransfer /\ InvReleasing

(* A clock cycle with rst_L high keeps the invariant. *)
LEMMA StepControl ==
    ASSUME ControlInv, SSStep, FreeInputs
    PROVE  ControlInv'
<1>. USE DEF ControlInv
<1>1. /\ MasterStep /\ Record /\ mode' = mode /\ mode' \in Modes
      /\ arm' \in BOOLEAN
    BY DEF SSStep, MasterStep, FreeInputs, ControlTypeOK
<1>2. /\ POLARITY' = POLARITY /\ CYCLE_HALF_WAIT' = CYCLE_HALF_WAIT
      /\ CYCLE_HALF_WAIT \in Nat /\ SS_WAIT \in Nat \ {0} /\ ss_timer \in 0..SS_WAIT
    BY <1>1, ParamsKept, ModeFacts, SSWaitAssumption DEF ControlTypeOK
<1>3. edges' = IF ~ss THEN 0 ELSE IF sck' # sck THEN edges + 1 ELSE edges
    BY <1>1 DEF Record
<1>4. CASE NotArmed
    <2>1. /\ ss_state = "WAIT_ON_ARM" /\ ss_state' = "WAIT_ON_ARM" /\ ~ss /\ ~ss'
          /\ ~arm_master /\ ~arm_master' /\ CoreIdle /\ ss_timer' = ss_timer
          /\ ss' = ss /\ arm_master' = arm_master
        BY <1>4 DEF NotArmed, wrapperRegs, InvDeselected
    <2>2. CoreTypeOK' /\ CoreIdle'
        BY <2>1, <1>1, <1>2, IdleCycle DEF ControlTypeOK
    <2>3. ControlTypeOK'
        BY <2>1, <2>2, <1>1, <1>2, <1>3 DEF ControlTypeOK
    <2>. QED
        BY <2>1, <2>2, <2>3
        DEF InvDeselected, InvSelecting, InvTransfer, InvReleasing
<1>5. CASE Select
    <2>1. /\ ss_state = "WAIT_ON_ARM" /\ ss_state' = "WAIT_ON_SS" /\ ~ss /\ ss' = TRUE
          /\ ~arm_master /\ arm_master' = arm_master /\ CoreIdle /\ ss_timer' = 1
        BY <1>5 DEF Select, InvDeselected
    <2>2. CoreTypeOK' /\ CoreReady'
        BY <2>1, <1>1, <1>2, IdleCycle DEF ControlTypeOK, CoreReady
    <2>3. edges' = 0 /\ ss_timer' \in 1..SS_WAIT /\ ss_timer' \in 0..SS_WAIT
        BY <2>1, <1>2, <1>3
    <2>4. ControlTypeOK'
        BY <2>1, <2>2, <2>3, <1>1 DEF ControlTypeOK, SSStates
    <2>. QED
        BY <2>1, <2>2, <2>3, <2>4
        DEF InvDeselected, InvSelecting, InvTransfer, InvReleasing
<1>6. CASE CountSelect
    <2>1. /\ ss_state = "WAIT_ON_SS" /\ ss /\ ss' = ss /\ ~arm_master /\ CoreReady
          /\ edges = 0 /\ ss_timer \in 1..SS_WAIT
        BY <1>6 DEF CountSelect, InvSelecting
    <2>2. CoreTypeOK' /\ CoreReady' /\ ~finished' /\ sck' = sck
        BY <2>1, <1>1, <1>2, IdleCycle DEF ControlTypeOK, CoreReady, CoreIdle
    <2>3. edges' = 0
        BY <2>1, <2>2, <1>3
    <2>4. CASE ss_timer = SS_WAIT
        <3>1. arm_master' = TRUE /\ ss_state' = "WAIT_ON_MASTER" /\ ss_timer' = ss_timer
            BY <1>6, <2>4 DEF CountSelect
        <3>2. Counting'
            BY <2>2, <2>3 DEF Counting, CoreReady
        <3>3. ControlTypeOK'
            BY <2>1, <2>2, <2>3, <3>1, <1>1, <1>2 DEF ControlTypeOK, SSStates
        <3>. QED
            BY <2>1, <2>2, <3>1, <3>2, <3>3
            DEF InvDeselected, InvSelecting, InvTransfer, InvReleasing
    <2>5. CASE ss_timer # SS_WAIT
        <3>1. arm_master' = arm_master /\ ss_state' = ss_state /\ ss_timer' = ss_timer + 1
            BY <1>6, <2>5 DEF CountSelect
        <3>2. ss_timer' \in 1..SS_WAIT /\ ss_timer' \in 0..SS_WAIT
            BY <2>1, <2>5, <3>1, <1>2
        <3>3. ControlTypeOK'
            BY <2>1, <2>2, <2>3, <3>1, <3>2, <1>1 DEF ControlTypeOK, SSStates
        <3>. QED
            BY <2>1, <2>2, <2>3, <3>1, <3>2, <3>3
            DEF InvDeselected, InvSelecting, InvTransfer, InvReleasing
    <2>. QED
        BY <2>4, <2>5
<1>7. CASE WaitOnMaster
    <2>1. /\ ss_state = "WAIT_ON_MASTER" /\ ss /\ arm_master /\ Counting
          /\ arm_master' = arm_master /\ ss_timer' = ss_timer
        BY <1>7 DEF WaitOnMaster, InvTransfer
    <2>2. Counting' /\ CoreTypeOK' /\ edges' \in Nat
        BY <2>1, <1>1, TransferCycle DEF ControlTypeOK
    <2>3. CASE finished
        <3>1. ss_state' = "WAIT_ON_ARM_DEASSERT" /\ ss' = FALSE
            BY <1>7, <2>3 DEF WaitOnMaster
        <3>2. state = "WAIT_FINISHED"
            BY <2>1, <2>3 DEF Counting
        <3>3. state' = "WAIT_FINISHED" /\ sck' = POLARITY
            BY <2>1, <3>2, <1>1
            DEF MasterStep, Idle, AcceptArm, OnCycle, CycleWait, WaitFinished,
                idle_state
        <3>4. ControlTypeOK'
            BY <2>1, <2>2, <3>1, <1>1, <1>2 DEF ControlTypeOK, SSStates
        <3>. QED
            BY <2>1, <3>1, <3>3, <3>4, <1>2
            DEF InvDeselected, InvSelecting, InvTransfer, InvReleasing
    <2>4. CASE ~finished
        <3>1. ss_state' = ss_state /\ ss' = ss
            BY <1>7, <2>4 DEF WaitOnMaster
        <3>2. ControlTypeOK'
            BY <2>1, <2>2, <3>1, <1>1, <1>2 DEF ControlTypeOK, SSStates
        <3>. QED
            BY <2>1, <2>2, <3>1, <3>2
            DEF InvDeselected, InvSelecting, InvTransfer, InvReleasing
    <2>. QED
        BY <2>3, <2>4
<1>8. CASE Release
    <2>1. /\ ss_state = "WAIT_ON_ARM_DEASSERT" /\ ~ss /\ ss' = ss /\ arm_master
          /\ state = "WAIT_FINISHED" /\ sck = POLARITY /\ ss_timer' = ss_timer
        BY <1>8 DEF Release, InvReleasing
    <2>2. /\ state' = "WAIT_FINISHED" /\ sck' = POLARITY /\ bit_counter' = 0
          /\ timer' = 0 /\ finished' = TRUE /\ ready_to_arm' = ready_to_arm
        BY <2>1, <1>1
        DEF MasterStep, Idle, AcceptArm, OnCycle, CycleWait, WaitFinished,
            idle_state
    <2>3. CoreTypeOK'
        BY <2>1, <2>2, <1>1, <1>2, WidAssumption, ModeFacts
        DEF ControlTypeOK, CoreTypeOK, MasterStates, Bit
    <2>4. edges' = 0
        BY <2>1, <1>3
    <2>5. CASE arm
        <3>1. ss_state' = ss_state /\ arm_master' = arm_master
            BY <1>8, <2>5 DEF Release
        <3>2. ControlTypeOK'
            BY <2>1, <2>3, <2>4, <3>1, <1>1, <1>2 DEF ControlTypeOK, SSStates
        <3>. QED
            BY <2>1, <2>2, <3>1, <3>2, <1>2
            DEF InvDeselected, InvSelecting, InvTransfer, InvReleasing
    <2>6. CASE ~arm
        <3>1. ss_state' = "WAIT_ON_ARM" /\ arm_master' = FALSE
            BY <1>8, <2>6 DEF Release
        <3>2. ControlTypeOK'
            BY <2>1, <2>3, <2>4, <3>1, <1>1, <1>2 DEF ControlTypeOK, SSStates
        <3>. QED
            BY <2>1, <2>2, <3>1, <3>2
            DEF InvDeselected, InvSelecting, InvTransfer, InvReleasing, CoreIdle
    <2>. QED
        BY <2>5, <2>6
<1>. QED
    BY <1>4, <1>5, <1>6, <1>7, <1>8 DEF SSStep, WrapperStep

(* So does one with rst_L low. *)
LEMMA HaltControl ==
    ASSUME ControlInv, SSHalt, FreeInputs
    PROVE  ControlInv'
<1>1. /\ ss_state' = "WAIT_ON_ARM" /\ ~ss' /\ ss' = FALSE /\ arm_master' = FALSE
      /\ ss_timer' = 0 /\ edges' = 0 /\ mode' = mode /\ arm' \in BOOLEAN
      /\ state' = "WAIT_ON_ARM" /\ sck' = POLARITY /\ bit_counter' = 0 /\ timer' = 0
      /\ finished' = FALSE /\ ready_to_arm' = TRUE
    BY DEF SSHalt, FreeInputs, MasterHalt, MasterReset, WrapperReset, idle_state
<1>2. /\ POLARITY \in {0, 1} /\ CYCLE_HALF_WAIT' = CYCLE_HALF_WAIT
      /\ CYCLE_HALF_WAIT \in Nat /\ mode \in Modes
    BY <1>1, ModeFacts, ParamsKept DEF ControlInv, ControlTypeOK
<1>3. /\ timer' \in 0..(IF CYCLE_HALF_WAIT' = 0 THEN 1 ELSE CYCLE_HALF_WAIT')
      /\ bit_counter' \in 0..WID /\ ss_timer' \in 0..SS_WAIT
    BY <1>1, <1>2, WidAssumption, SSWaitAssumption
<1>4. CoreTypeOK'
    BY <1>1, <1>2, <1>3 DEF CoreTypeOK, MasterStates, Bit
<1>5. ControlTypeOK'
    BY <1>1, <1>2, <1>3, <1>4 DEF ControlTypeOK, SSStates
<1>. QED
    BY <1>1, <1>5
    DEF ControlInv, InvDeselected, InvSelecting, InvTransfer, InvReleasing, CoreIdle

LEMMA NextInv == SSInv /\ [SSNext]_ssVars => SSInv'
<1>. SUFFICES ASSUME SSInv, [SSNext]_ssVars PROVE SSInv'
    OBVIOUS
<1>1. ControlInv /\ DataTypeOK
    BY TypeSplit DEF SSInv, ControlInv
<1>2. CASE SSNext
    <2>1. DataTypeOK'
        BY <1>1, <1>2, DataTyped
    <2>2. ControlInv'
        BY <1>1, <1>2, StepControl, HaltControl DEF SSNext
    <2>. QED
        BY <2>1, <2>2, TypeSplitPrime DEF SSInv, ControlInv
<1>3. CASE UNCHANGED ssVars
    <2>1. DataTypeOK'
        BY <1>1, <1>3
        DEF DataTypeOK, ssVars, masterInputs, masterRegs, history
    <2>2. ControlInv'
        BY <1>1, <1>3
        DEF ControlInv, ControlTypeOK, CoreTypeOK, InvDeselected, InvSelecting,
            InvTransfer, Counting, InvReleasing, CoreIdle, CoreReady, POLARITY,
            CYCLE_HALF_WAIT, ssVars, masterInputs, masterRegs, history
    <2>. QED
        BY <2>1, <2>2, TypeSplitPrime DEF SSInv, ControlInv
<1>. QED
    BY <1>2, <1>3
-----------------------------------------------------------------------------
(* Whatever the user does in any cycle, wrapper and core know of each other *)
(* what SSInv says: where the frame is, counted in edges of sck.            *)
THEOREM Invariance == SSSpec => []SSInv
BY InitInv, NextInv, PTL DEF SSSpec

(* Every register of the master stays within its range: in particular      *)
(* bit_counter never runs past WID and the half-cycle timer never past     *)
(* CYCLE_HALF_WAIT, in every SPI mode.                                     *)
THEOREM TypeCorrect == SSSpec => []SSTypeOK
<1>1. SSInv => SSTypeOK
    BY DEF SSInv
<1>. QED
    BY <1>1, Invariance, PTL

(* The clock makes no edge while slave select settles or after the frame.  *)
THEOREM ClockIsQuiet == SSSpec => []ClockQuiet
<1>1. SSInv => ClockQuiet
    BY DEF SSInv, ClockQuiet, InvSelecting, InvReleasing, CoreReady
<1>. QED
    BY <1>1, Invariance, PTL

(* The `finished` of one transfer is never taken for that of the next.     *)
THEOREM FinishedStaysFresh == SSSpec => []FinishedIsFresh
<1>1. SSInv => FinishedIsFresh
    BY DEF SSInv, SSTypeOK, WrapperTypeOK, SSStates, FinishedIsFresh,
           InvDeselected, InvSelecting, InvTransfer, Counting, InvReleasing
<1>. QED
    BY <1>1, Invariance, PTL

(* Slave select falls at the end of a transfer only after exactly WID      *)
(* pulses of sck, whatever the user of the master did with arm meanwhile.  *)
THEOREM WholeFrames == SSSpec => FramesAreWhole
<1>1. SSInv /\ [SSNext]_ssVars =>
          [ss /\ ~ss' /\ SSStep => edges = 2 * WID /\ sck = POLARITY]_ssVars
    <2>. SUFFICES ASSUME SSInv, SSStep, ss, ~ss'
                  PROVE  edges = 2 * WID /\ sck = POLARITY
        OBVIOUS
    <2>1. WaitOnMaster /\ finished
        BY DEF SSStep, WrapperStep, NotArmed, Select, CountSelect, WaitOnMaster,
               Release, wrapperRegs
    <2>. QED
        BY <2>1 DEF SSInv, InvTransfer, Counting, WaitOnMaster
<1>. QED
    BY <1>1, Invariance, PTL DEF SSSpec, FramesAreWhole
=============================================================================
