--------------------------- MODULE SpiLink_proofs ---------------------------
(***************************************************************************)
(* The two ends of an SPI link agree, for every word size, slave-select    *)
(* delay, set of modes and set of words.  The control state of the master  *)
(* is that of SpiMasterSS_proofs, whose invariant carries over because a   *)
(* link is a master with particular surroundings.  The invariant of the    *)
(* data, LinkInv, counts the bits each end has driven and sampled.         *)
(***************************************************************************)
EXTENDS SpiLink, SpiMasterSS_proofs

(* A half cycle long enough for a bit to get through the two flip-flops at *)
(* the other end before it is sampled.  base.v.m4 waits 10 cycles for the  *)
(* DACs and 5 for the ADCs.                                                *)
SlowClock == \A m \in Modes : m.CYCLE_HALF_WAIT >= 2

(* The modes whose first bit is on the line before the first edge.         *)
Leading == POLARITY = PHASE

(* Both ends look at an edge in the same cycle; slv_sck_delay is the level *)
(* before it.  How many bits they have driven by now, and sampled.         *)
Driven  == IF Leading /\ slv_sck_delay = POLARITY THEN bit_counter + 1 ELSE bit_counter
Sampled == IF ~Leading /\ slv_sck_delay # POLARITY THEN bit_counter - 1 ELSE bit_counter

(* After n bits of w: the last of them is on the line, the others follow.  *)
Sending(buf, line, w, n) ==
    /\ n \in 1..WID => line = w[n]
    /\ \A i \in 1..WID : i + n <= WID => buf[i] = w[i + n]

Receiving(buf, w, n) == \A i \in 1..n : buf[WID - n + i] = w[i]

(* The slave sees select one cycle late.                                   *)
SelectInv ==
    /\ ss_state = "WAIT_ON_ARM" =>
          ~slv_ss_delay /\ (state = "WAIT_FINISHED" => finished)
    /\ ss_state = "WAIT_ON_SS" => (slv_ss_delay <=> ss_timer # 1)
    /\ ss_state = "WAIT_ON_MASTER" => slv_ss_delay

(* While the slave is selected, both ends count alike; the slave's word is *)
(* on its way, and only ON_CYCLE has an edge to look at.                   *)
InStep ==
    /\ ~slv_finished /\ ~err
    /\ state # "ON_CYCLE" => slv_sck_delay = sck
    /\ state # "WAIT_FINISHED" =>
          slv_bit_counter = bit_counter /\ Sending(slv_send_buf, miso, loaded, Driven)

SelectedInv == ss /\ slv_ss_delay => InStep

(* Where the edges are: the half cycle before a falling one was counted,   *)
(* and only the first ON_CYCLE of the other modes has none.                *)
Edges ==
    /\ slv_sck_delay # POLARITY => bit_counter > 0
    /\ state = "ON_CYCLE" /\ slv_sck_delay = sck =>
          ~Leading /\ bit_counter = 0 /\ sck = POLARITY

(* What was driven has got through to the other end when it is sampled.    *)
Settled ==
    /\ state = "ON_CYCLE" => timer <= 1
    /\ state = "CYCLE_WAIT" /\ timer >= 2 => slv_mosi_hot = mosi /\ miso_hot = miso
    /\ state = "ON_CYCLE" /\ slv_sck_delay # sck =>
          slv_read_mosi = mosi /\ read_miso = miso

Moved ==
    /\ Sending(send_buf, mosi, sent, Driven)
    /\ Receiving(from_slave, loaded, Sampled)
    /\ Receiving(from_master, sent, Sampled)

ShiftInv ==
    ss_state = "WAIT_ON_MASTER" /\ state \in {"ON_CYCLE", "CYCLE_WAIT"} =>
        Edges /\ Settled /\ Moved

DoneInv ==
    ss_state \in {"WAIT_ON_MASTER", "WAIT_ON_ARM_DEASSERT"} /\ state = "WAIT_FINISHED" =>
        /\ from_slave = loaded
        /\ slv_ss_delay => from_master = sent /\ ~err

(* The invariant without the control and the types. *)
DataInv == SelectInv /\ SelectedInv /\ ShiftInv /\ DoneInv /\ SlaveReceives

(* The link as far as the control and the types go.                        *)
BaseInv == SSInv /\ Slave!SlaveTypeOK /\ loaded \in Word

LinkInv == BaseInv /\ DataInv

-----------------------------------------------------------------------------
(* The slave's types, its words being those of the master. *)
LEMMA SlaveTypes ==
    Slave!SlaveTypeOK <=>
        /\ to_master \in Word /\ from_master \in Word /\ slv_send_buf \in Word
        /\ slv_mosi_hot \in Bit /\ slv_read_mosi \in Bit /\ slv_sck_delay \in Bit
        /\ miso \in Bit
        /\ slv_ss_delay \in BOOLEAN /\ rdy \in BOOLEAN /\ slv_ready_at_start \in BOOLEAN
        /\ slv_finished \in BOOLEAN /\ err \in BOOLEAN
        /\ slv_bit_counter \in 0..WID
BY DEF Slave!SlaveTypeOK, Slave!Word, Slave!Bit, Word, Bit

LEMMA SlaveTyped ==
    ASSUME Slave!SlaveTypeOK, mosi \in Bit, sck \in Bit, ss \in BOOLEAN,
           LinkNext
    PROVE  Slave!SlaveTypeOK'
<1>1. /\ to_master \in Word /\ from_master \in Word /\ slv_send_buf \in Word
      /\ slv_mosi_hot \in Bit /\ slv_read_mosi \in Bit /\ slv_sck_delay \in Bit
      /\ miso \in Bit
      /\ slv_ss_delay \in BOOLEAN /\ rdy \in BOOLEAN /\ slv_ready_at_start \in BOOLEAN
      /\ slv_finished \in BOOLEAN /\ err \in BOOLEAN
      /\ slv_bit_counter \in 0..WID
    BY SlaveTypes
<1>2. to_master' \in Word /\ rdy' \in BOOLEAN
    BY <1>1, WordsAssumption DEF LinkNext, LinkInputs
<1>3. slv_mosi_hot' \in Bit /\ slv_read_mosi' \in Bit
    BY <1>1
    DEF LinkNext, LinkStep, LinkHalt, Slave!SlaveStep, Slave!SlaveHalt, Slave!MosiBuffer
<1>4. 0 \in Bit /\ 0 \in 0..WID /\ to_master[1] \in Bit /\ slv_send_buf[1] \in Bit /\ Zero \in Word
    BY <1>1, WidAssumption, ZeroType DEF Word, Bit
<1>5. /\ ShiftIn(from_master, slv_read_mosi) \in Word
      /\ ShiftIn(slv_send_buf, 0) \in Word /\ ShiftIn(to_master, 0) \in Word
    BY <1>1, <1>4, ShiftInType
<1>6. ASSUME Slave!SlaveHalt
      PROVE  /\ from_master' \in Word /\ slv_send_buf' \in Word /\ miso' \in Bit
             /\ slv_sck_delay' \in Bit /\ slv_ss_delay' \in BOOLEAN
             /\ slv_ready_at_start' \in BOOLEAN
             /\ slv_finished' \in BOOLEAN /\ err' \in BOOLEAN
             /\ slv_bit_counter' \in 0..WID
    <2>1. from_master' = Zero /\ slv_send_buf' = Zero
        BY <1>6 DEF Slave!SlaveHalt, Slave!SlaveReset, Slave!Zero, Zero
    <2>2. /\ slv_ss_delay' = FALSE /\ slv_ready_at_start' = FALSE
          /\ slv_finished' = FALSE /\ err' = FALSE
        BY <1>6 DEF Slave!SlaveHalt, Slave!SlaveReset
    <2>3. slv_bit_counter' = 0 /\ miso' = 0 /\ slv_sck_delay' = 0
        BY <1>6 DEF Slave!SlaveHalt, Slave!SlaveReset
    <2>. QED
        BY <2>1, <2>2, <2>3, <1>4
<1>7. ASSUME Slave!SlaveStep
      PROVE  /\ from_master' \in Word /\ slv_send_buf' \in Word /\ miso' \in Bit
             /\ slv_sck_delay' \in Bit /\ slv_ss_delay' \in BOOLEAN
             /\ slv_ready_at_start' \in BOOLEAN
             /\ slv_finished' \in BOOLEAN /\ err' \in BOOLEAN
             /\ slv_bit_counter' \in 0..WID
    <2>1. slv_sck_delay' \in Bit /\ slv_ss_delay' \in BOOLEAN
        BY <1>7 DEF Slave!SlaveStep
    <2>2. CASE Slave!SSRise
        <3>1. /\ slv_finished' = FALSE /\ err' = FALSE
              /\ slv_ready_at_start' = rdy /\ slv_bit_counter' = 0
              /\ from_master' = from_master
            BY <2>2 DEF Slave!SSRise
        <3>2. slv_send_buf' \in Word /\ miso' \in Bit
            BY <2>2, <1>1, <1>4, <1>5
            DEF Slave!SSRise, Slave!setup_bits, Slave!ShiftIn, ShiftIn
        <3>. QED
            BY <2>1, <3>1, <3>2, <1>1, <1>4
    <2>3. CASE Slave!SSFall
        BY <2>1, <2>3, <1>1 DEF Slave!SSFall
    <2>4. CASE Slave!SckEdge
        <3>1. /\ slv_ready_at_start' \in BOOLEAN /\ slv_finished' \in BOOLEAN
              /\ err' \in BOOLEAN /\ slv_bit_counter' \in 0..WID
            BY <2>4, <1>1, WidAssumption DEF Slave!SckEdge, Slave!check_counter
        <3>2. from_master' \in Word /\ slv_send_buf' \in Word /\ miso' \in Bit
            BY <2>4, <1>1, <1>4, <1>5
            DEF Slave!SckEdge, Slave!read_data, Slave!write_data, Slave!ShiftIn, ShiftIn
        <3>. QED
            BY <2>1, <3>1, <3>2
    <2>5. CASE Slave!NoEdge
        BY <2>1, <2>5, <1>1 DEF Slave!NoEdge
    <2>6. CASE Slave!Deselected
        BY <2>1, <2>6, <1>1 DEF Slave!Deselected
    <2>. QED
        BY <1>7, <2>2, <2>3, <2>4, <2>5, <2>6 DEF Slave!SlaveStep
<1>8. /\ from_master' \in Word /\ slv_send_buf' \in Word /\ miso' \in Bit
      /\ slv_sck_delay' \in Bit /\ slv_ss_delay' \in BOOLEAN
      /\ slv_ready_at_start' \in BOOLEAN
      /\ slv_finished' \in BOOLEAN /\ err' \in BOOLEAN
      /\ slv_bit_counter' \in 0..WID
    BY <1>6, <1>7 DEF LinkNext, LinkStep, LinkHalt
<1>. QED
    BY <1>2, <1>3, <1>8 DEF Slave!SlaveTypeOK, Slave!Word, Slave!Bit, Word, Bit

(* A link is a master whose MISO line a slave drives. *)
LEMMA LinkIsSSNext ==
    ASSUME LinkNext, miso' \in Bit
    PROVE  SSNext
BY WordsAssumption
DEF LinkNext, LinkStep, LinkHalt, LinkInputs, SSNext, FreeInputs

LEMMA LinkIsSSInit ==
    ASSUME LinkInit
    PROVE  SSInit
BY WordsAssumption DEF LinkInit, SSInit, Slave!SlaveInit, Slave!Bit, Bit

LEMMA InitBase == LinkInit => BaseInv
<1>. SUFFICES ASSUME LinkInit PROVE BaseInv
    OBVIOUS
<1>1. SSInv /\ loaded \in Word /\ Zero \in Word
    BY LinkIsSSInit, InitInv, ZeroType DEF LinkInit
<1>2. /\ from_master = Zero /\ slv_send_buf = Zero
      /\ to_master \in Word /\ rdy \in BOOLEAN
    BY WordsAssumption DEF LinkInit, Slave!SlaveInit, Slave!Zero, Zero
<1>3. /\ slv_mosi_hot = 0 /\ slv_read_mosi = 0 /\ slv_sck_delay = 0
      /\ slv_bit_counter = 0 /\ miso \in Bit
      /\ 0 \in Bit /\ 0 \in 0..WID
    BY WidAssumption DEF LinkInit, Slave!SlaveInit, Slave!Bit, Bit
<1>4. /\ slv_ss_delay = FALSE /\ slv_ready_at_start = FALSE
      /\ slv_finished \in BOOLEAN /\ err \in BOOLEAN
    BY DEF LinkInit, Slave!SlaveInit
<1>5. Slave!SlaveTypeOK
    BY <1>1, <1>2, <1>3, <1>4, SlaveTypes
<1>. QED
    BY <1>1, <1>5 DEF BaseInv

LEMMA BaseFacts ==
    ASSUME BaseInv
    PROVE  /\ mosi \in Bit /\ sck \in Bit /\ ss \in BOOLEAN /\ mode \in Modes
           /\ to_slave \in Word /\ sent \in Word /\ send_buf \in Word
           /\ from_slave \in Word
           /\ state \in MasterStates /\ ss_state \in SSStates
BY DEF BaseInv, SSInv, SSTypeOK, MasterTypeOK, WrapperTypeOK

LEMMA NextBase == BaseInv /\ [LinkNext]_linkVars => BaseInv'
<1>. SUFFICES ASSUME BaseInv, [LinkNext]_linkVars PROVE BaseInv'
    OBVIOUS
<1>1. CASE LinkNext
    <2>1. Slave!SlaveTypeOK'
        BY <1>1, BaseFacts, SlaveTyped DEF BaseInv
    <2>2. miso' \in Bit
        BY <2>1 DEF Slave!SlaveTypeOK, Slave!Bit, Bit
    <2>3. SSInv'
        BY <1>1, <2>2, LinkIsSSNext, NextInv DEF BaseInv
    <2>4. to_master \in Word
        BY SlaveTypes DEF BaseInv
    <2>5. loaded' \in Word
        BY <1>1, <2>4 DEF BaseInv, LinkNext, LinkStep, LinkHalt
    <2>. QED
        BY <2>1, <2>3, <2>5 DEF BaseInv
<1>2. CASE UNCHANGED linkVars
    <2>1. UNCHANGED ssVars /\ UNCHANGED slaveVars
        BY <1>2 DEF linkVars
    <2>2. SSInv'
        BY <2>1, NextInv DEF BaseInv
    <2>3. Slave!SlaveTypeOK' /\ loaded' \in Word
        BY <2>1 DEF BaseInv, ssVars, masterInputs, slaveVars, Slave!SlaveTypeOK
    <2>. QED
        BY <2>2, <2>3 DEF BaseInv
<1>. QED
    BY <1>1, <1>2

LEMMA BaseInvariance == LinkInit /\ [][LinkNext]_linkVars => []BaseInv
BY InitBase, NextBase, PTL

(* Every register of both ends stays within its range; in particular the   *)
(* slave's bit_counter does not run past WID, whatever the half cycle.     *)
THEOREM LinkIsTyped == LinkSpec => []LinkTypeOK
<1>1. BaseInv => LinkTypeOK
    BY DEF BaseInv, SSInv, LinkTypeOK
<1>. QED
    BY <1>1, BaseInvariance, PTL DEF LinkSpec

(* The master in a link behaves as SpiMasterSS promises: what is proved of *)
(* that module's specification (ClockQuiet, FinishedIsFresh and            *)
(* FramesAreWhole) holds of the link.                                      *)
THEOREM LinkIsMaster == LinkSpec => SSSpec
<1>1. LinkInit => SSInit
    BY LinkIsSSInit
<1>2. BaseInv' /\ [LinkNext]_linkVars => [SSNext]_ssVars
    <2>. SUFFICES ASSUME BaseInv', [LinkNext]_linkVars PROVE [SSNext]_ssVars
        OBVIOUS
    <2>1. miso' \in Bit
        BY DEF BaseInv, Slave!SlaveTypeOK, Slave!Bit, Bit
    <2>. QED
        BY <2>1, LinkIsSSNext DEF linkVars
<1>. QED
    BY <1>1, <1>2, BaseInvariance, PTL DEF LinkSpec, SSSpec
-----------------------------------------------------------------------------
(* Driving one more bit. *)
LEMMA ShiftOut ==
    ASSUME NEW buf \in Word, NEW line, NEW w \in Word, NEW n \in Nat,
           Sending(buf, line, w, n)
    PROVE  Sending(ShiftIn(buf, 0), buf[1], w, n + 1)
<1>. WID \in Nat \ {0}
    BY WidAssumption
<1>1. n + 1 \in 1..WID => buf[1] = w[n + 1]
    BY DEF Sending
<1>2. ASSUME NEW i \in 1..WID, i + (n + 1) <= WID
      PROVE  ShiftIn(buf, 0)[i] = w[i + (n + 1)]
    <2>1. i < WID /\ i + 1 \in 1..WID /\ (i + 1) + n <= WID
        BY <1>2
    <2>2. ShiftIn(buf, 0)[i] = buf[i + 1]
        BY <2>1 DEF ShiftIn
    <2>3. buf[i + 1] = w[(i + 1) + n]
        BY <2>1 DEF Sending
    <2>4. (i + 1) + n = i + (n + 1)
        OBVIOUS
    <2>. QED
        BY <2>2, <2>3, <2>4
<1>. QED
    BY <1>1, <1>2 DEF Sending

(* The first bit of a word is on the line before the first edge, or all    *)
(* are still in the buffer.                                                *)
LEMMA FirstBit ==
    ASSUME NEW w \in Word, NEW line
    PROVE  /\ Sending(ShiftIn(w, 0), w[1], w, 1)
           /\ Sending(w, line, w, 0)
<1>1. Sending(w, line, w, 0)
    BY WidAssumption DEF Sending
<1>2. Sending(ShiftIn(w, 0), w[1], w, 0 + 1)
    BY <1>1, ShiftOut
<1>. QED
    BY <1>1, <1>2

(* Sampling one more bit. *)
LEMMA ShiftSample ==
    ASSUME NEW buf \in Word, NEW w \in Word, NEW n \in 0..(WID - 1),
           Receiving(buf, w, n)
    PROVE  Receiving(ShiftIn(buf, w[n + 1]), w, n + 1)
<1>. WID \in Nat \ {0}
    BY WidAssumption
<1>. SUFFICES ASSUME NEW i \in 1..(n + 1)
              PROVE  ShiftIn(buf, w[n + 1])[(WID - (n + 1)) + i] = w[i]
    BY DEF Receiving
<1>. DEFINE k == (WID - (n + 1)) + i
<1>1. k \in 1..WID
    OBVIOUS
<1>2. ShiftIn(buf, w[n + 1])[k] = IF k < WID THEN buf[k + 1] ELSE w[n + 1]
    BY <1>1 DEF ShiftIn
<1>3. CASE i = n + 1
    <2>1. k = WID
        BY <1>3
    <2>. QED
        BY <2>1, <1>2, <1>3
<1>4. CASE i # n + 1
    <2>1. k < WID /\ k + 1 = (WID - n) + i /\ i \in 1..n
        BY <1>4
    <2>2. buf[(WID - n) + i] = w[i]
        BY <2>1 DEF Receiving
    <2>. QED
        BY <2>1, <2>2, <1>2
<1>. QED
    BY <1>3, <1>4

(* A word of which every bit was received. *)
LEMMA WholeWord ==
    ASSUME NEW buf \in Word, NEW w \in Word, Receiving(buf, w, WID)
    PROVE  buf = w
<1>1. \A i \in 1..WID : buf[i] = w[i]
    BY WidAssumption DEF Receiving
<1>2. buf = [i \in 1..WID |-> buf[i]] /\ w = [i \in 1..WID |-> w[i]]
    BY DEF Word
<1>. QED
    BY <1>1, <1>2
-----------------------------------------------------------------------------
(* The modes do not change, and every word is passed on one cycle later.   *)
LEMMA StepFacts ==
    ASSUME BaseInv, LinkStep
    PROVE  /\ POLARITY' = POLARITY /\ PHASE' = PHASE
           /\ CYCLE_HALF_WAIT' = CYCLE_HALF_WAIT
           /\ (Leading' <=> Leading)
           /\ POLARITY \in {0, 1} /\ PHASE \in {0, 1} /\ CYCLE_HALF_WAIT \in Nat
           /\ sck \in {0, 1} /\ slv_sck_delay \in {0, 1}
           /\ bit_counter \in 0..WID
           /\ slv_sck_delay' = sck /\ slv_ss_delay' = ss
           /\ slv_read_mosi' = slv_mosi_hot /\ slv_mosi_hot' = mosi
           /\ read_miso' = miso_hot /\ miso_hot' = miso
           /\ sent' = (IF state = "WAIT_ON_ARM" /\ arm_master THEN to_slave ELSE sent)
           /\ loaded' = (IF ss /\ ~slv_ss_delay THEN to_master ELSE loaded)
<1>1. mode' = mode /\ mode \in Modes
    BY BaseFacts DEF LinkStep, SSStep, MasterStep
<1>2. POLARITY' = POLARITY /\ PHASE' = PHASE /\ CYCLE_HALF_WAIT' = CYCLE_HALF_WAIT
    BY <1>1 DEF POLARITY, PHASE, CYCLE_HALF_WAIT
<1>3. POLARITY \in {0, 1} /\ PHASE \in {0, 1} /\ CYCLE_HALF_WAIT \in Nat
    BY <1>1, ModeFacts
<1>4. sck \in {0, 1} /\ slv_sck_delay \in {0, 1} /\ bit_counter \in 0..WID
    BY SlaveTypes DEF BaseInv, SSInv, SSTypeOK, MasterTypeOK, Bit
<1>5. /\ slv_sck_delay' = sck /\ slv_ss_delay' = ss
      /\ slv_read_mosi' = slv_mosi_hot /\ slv_mosi_hot' = mosi
    BY DEF LinkStep, Slave!SlaveStep, Slave!MosiBuffer
<1>6. /\ read_miso' = miso_hot /\ miso_hot' = miso
      /\ sent' = (IF state = "WAIT_ON_ARM" /\ arm_master THEN to_slave ELSE sent)
    BY DEF LinkStep, SSStep, MasterStep, MisoBuffer, Record
<1>7. loaded' = (IF ss /\ ~slv_ss_delay THEN to_master ELSE loaded)
    BY DEF LinkStep
<1>. QED
    BY <1>2, <1>3, <1>4, <1>5, <1>6, <1>7 DEF Leading

(* What the slave does in each of its situations. *)
LEMMA SlaveWaits ==
    ASSUME LinkStep, ~ss, ~slv_ss_delay
    PROVE  /\ from_master' = from_master /\ slv_ready_at_start' = slv_ready_at_start
           /\ slv_finished' => slv_finished /\ err' = err
BY DEF LinkStep, Slave!SlaveStep, Slave!SSRise, Slave!SSFall, Slave!SckEdge,
       Slave!NoEdge, Slave!Deselected

LEMMA SlaveSelected ==
    ASSUME LinkStep, ss, ~slv_ss_delay
    PROVE  /\ slv_bit_counter' = 0 /\ ~slv_finished' /\ ~err'
           /\ mode.POLARITY = mode.PHASE =>
                 miso' = to_master[1] /\ slv_send_buf' = ShiftIn(to_master, 0)
           /\ mode.POLARITY # mode.PHASE => slv_send_buf' = to_master
<1>1. Slave!SSRise
    BY DEF LinkStep, Slave!SlaveStep, Slave!SSRise, Slave!SSFall, Slave!SckEdge,
           Slave!NoEdge, Slave!Deselected
<1>. QED
    BY <1>1 DEF Slave!SSRise, Slave!setup_bits, Slave!ShiftIn, ShiftIn

LEMMA SlaveReleased ==
    ASSUME LinkStep, ~ss, slv_ss_delay
    PROVE  from_master' = from_master /\ err' = err
BY DEF LinkStep, Slave!SlaveStep, Slave!SSRise, Slave!SSFall, Slave!SckEdge,
       Slave!NoEdge, Slave!Deselected

LEMMA SlaveRests ==
    ASSUME LinkStep, ss, slv_ss_delay, slv_sck_delay = sck
    PROVE  UNCHANGED <<slv_bit_counter, err, slv_ready_at_start, slv_send_buf,
                       miso, from_master, slv_finished>>
BY DEF LinkStep, Slave!SlaveStep, Slave!SSRise, Slave!SSFall, Slave!SckEdge,
       Slave!NoEdge, Slave!Deselected

LEMMA SlaveShifts ==
    ASSUME LinkStep, ss, slv_ss_delay, slv_sck_delay # sck,
           sck # POLARITY => slv_bit_counter # WID
    PROVE  /\ slv_finished' = slv_finished /\ err' = err
           /\ slv_bit_counter' = (IF sck # POLARITY THEN slv_bit_counter + 1
                                                    ELSE slv_bit_counter)
           /\ sck # PHASE =>
                 /\ from_master' = ShiftIn(from_master, slv_read_mosi)
                 /\ slv_send_buf' = slv_send_buf /\ miso' = miso
           /\ sck = PHASE =>
                 /\ from_master' = from_master
                 /\ slv_send_buf' = ShiftIn(slv_send_buf, 0)
                 /\ miso' = slv_send_buf[1]
<1>1. Slave!SckEdge
    BY DEF LinkStep, Slave!SlaveStep, Slave!SSRise, Slave!SSFall, Slave!SckEdge,
           Slave!NoEdge, Slave!Deselected
<1>. QED
    BY <1>1 DEF Slave!SckEdge, Slave!read_data, Slave!write_data, Slave!check_counter,
                Slave!ShiftIn, ShiftIn, POLARITY, PHASE
-----------------------------------------------------------------------------

(* The slave waits for select. *)
LEMMA IdleStep ==
    ASSUME BaseInv, DataInv, LinkStep, ss_state = "WAIT_ON_ARM"
    PROVE  DataInv'
<1>1. ~ss /\ ~arm_master /\ CoreIdle /\ ~slv_ss_delay
    BY DEF BaseInv, SSInv, InvDeselected, DataInv, SelectInv
<1>2. state' = "WAIT_ON_ARM"
    BY <1>1
    DEF LinkStep, SSStep, MasterStep, Idle, AcceptArm, OnCycle, CycleWait, WaitFinished,
        CoreIdle
<1>3. /\ ss_state' \in {"WAIT_ON_ARM", "WAIT_ON_SS"}
      /\ ss_state' = "WAIT_ON_SS" => ss_timer' = 1
    BY DEF LinkStep, SSStep, WrapperStep, NotArmed, Select, CountSelect, WaitOnMaster,
           Release, wrapperRegs
<1>4. ~slv_ss_delay' /\ sent' = sent
    BY <1>1, StepFacts
<1>5. SelectInv' /\ SelectedInv' /\ ShiftInv' /\ DoneInv'
    BY <1>2, <1>3, <1>4 DEF SelectInv, SelectedInv, ShiftInv, DoneInv
<1>6. SlaveReceives'
    BY <1>1, <1>4, SlaveWaits DEF DataInv, SlaveReceives
<1>. QED
    BY <1>5, <1>6 DEF DataInv

(* The slave sees select and loads its word; then both ends wait for the   *)
(* core to be armed.                                                       *)
LEMMA SelectStep ==
    ASSUME BaseInv, DataInv, LinkStep, ss_state = "WAIT_ON_SS"
    PROVE  DataInv'
<1>1. ss /\ ~arm_master /\ CoreReady /\ ss_timer \in 1..SS_WAIT
    BY DEF BaseInv, SSInv, InvSelecting
<1>2. state' = "WAIT_ON_ARM" /\ bit_counter' = 0 /\ sck' = POLARITY /\ sck = POLARITY
    BY <1>1
    DEF LinkStep, SSStep, MasterStep, Idle, AcceptArm, OnCycle, CycleWait, WaitFinished,
        CoreReady, idle_state
<1>3. /\ ss' /\ ss_state' \in {"WAIT_ON_SS", "WAIT_ON_MASTER"}
      /\ ss_state' = "WAIT_ON_SS" => ss_timer' # 1
    BY <1>1, SSWaitAssumption
    DEF LinkStep, SSStep, WrapperStep, NotArmed, Select, CountSelect, WaitOnMaster,
        Release
<1>4. /\ slv_ss_delay' /\ sent' = sent /\ slv_sck_delay' = sck
      /\ POLARITY' = POLARITY /\ (Leading' <=> Leading)
    BY <1>1, StepFacts
<1>5. SelectInv' /\ ShiftInv' /\ DoneInv'
    BY <1>2, <1>3, <1>4 DEF SelectInv, ShiftInv, DoneInv
<1>6. Driven' = IF Leading THEN 1 ELSE 0
    BY <1>2, <1>4 DEF Driven
<1>7. /\ ~slv_finished' /\ ~err' /\ slv_bit_counter' = 0
      /\ Sending(slv_send_buf', miso', loaded', Driven')
    <2>1. CASE ~slv_ss_delay
        <3>1. loaded' = to_master /\ to_master \in Word
            BY <2>1, <1>1, StepFacts, SlaveTypes DEF BaseInv
        <3>2. /\ Leading => miso' = to_master[1] /\ slv_send_buf' = ShiftIn(to_master, 0)
              /\ ~Leading => slv_send_buf' = to_master
              /\ ~slv_finished' /\ ~err' /\ slv_bit_counter' = 0
            BY <2>1, <1>1, SlaveSelected DEF Leading, POLARITY, PHASE
        <3>3. CASE Leading
            BY <3>1, <3>2, <3>3, <1>6, FirstBit
        <3>4. CASE ~Leading
            BY <3>1, <3>2, <3>4, <1>6, FirstBit
        <3>. QED
            BY <3>2, <3>3, <3>4
    <2>2. CASE slv_ss_delay
        <3>1. InStep
            BY <2>2, <1>1 DEF DataInv, SelectedInv
        <3>2. /\ ~slv_finished /\ ~err /\ slv_bit_counter = 0 /\ slv_sck_delay = sck
              /\ Sending(slv_send_buf, miso, loaded, Driven)
            BY <3>1, <1>1 DEF InStep, CoreReady
        <3>3. Driven = IF Leading THEN 1 ELSE 0
            BY <3>2, <1>1, <1>2 DEF Driven, CoreReady
        <3>4. UNCHANGED <<slv_bit_counter, err, slv_send_buf, miso, slv_finished>>
            BY <3>2, <2>2, <1>1, SlaveRests
        <3>5. loaded' = loaded
            BY <2>2, StepFacts
        <3>. QED
            BY <3>2, <3>3, <3>4, <3>5, <1>6
    <2>. QED
        BY <2>1, <2>2
<1>8. SelectedInv' /\ SlaveReceives'
    BY <1>2, <1>4, <1>7 DEF SelectedInv, InStep, SlaveReceives
<1>. QED
    BY <1>5, <1>8 DEF DataInv
-----------------------------------------------------------------------------
(* A cycle of the transfer, one lemma for each action of the core.         *)
Transferring ==
    BaseInv /\ DataInv /\ LinkStep /\ ss_state = "WAIT_ON_MASTER"

LEMMA TransferFacts ==
    ASSUME Transferring
    PROVE  /\ ss /\ arm_master /\ Counting /\ slv_ss_delay /\ slv_ss_delay'
           /\ InStep /\ loaded' = loaded
           /\ state # "WAIT_FINISHED" => ~finished /\ ss_state' = "WAIT_ON_MASTER" /\ ss'
           /\ ss_state' \in {"WAIT_ON_MASTER", "WAIT_ON_ARM_DEASSERT"}
<1>. USE DEF Transferring
<1>1. ss /\ arm_master /\ Counting /\ slv_ss_delay
    BY DEF BaseInv, SSInv, InvTransfer, DataInv, SelectInv
<1>2. slv_ss_delay' /\ loaded' = loaded
    BY <1>1, StepFacts
<1>3. InStep
    BY <1>1 DEF DataInv, SelectedInv
<1>4. WaitOnMaster
    BY DEF LinkStep, SSStep, WrapperStep, NotArmed, Select, CountSelect, Release
<1>. QED
    BY <1>1, <1>2, <1>3, <1>4 DEF WaitOnMaster, Counting

LEMMA ArmStep ==
    ASSUME Transferring, AcceptArm
    PROVE  DataInv'
<1>. USE DEF Transferring
<1>1. /\ ss /\ arm_master /\ slv_ss_delay /\ slv_ss_delay' /\ loaded' = loaded
      /\ ss' /\ ss_state' = "WAIT_ON_MASTER"
      /\ state = "WAIT_ON_ARM" /\ sck = POLARITY /\ bit_counter = 0 /\ timer = 0
      /\ slv_sck_delay = sck /\ ~slv_finished /\ ~err /\ slv_bit_counter = 0
      /\ Sending(slv_send_buf, miso, loaded, Driven)
    BY TransferFacts DEF AcceptArm, Counting, CoreReady, InStep
<1>2. UNCHANGED <<slv_bit_counter, err, slv_ready_at_start, slv_send_buf,
                  miso, from_master, slv_finished>>
    BY <1>1, SlaveRests
<1>3. /\ bit_counter' = 0 /\ timer' = 0 /\ sck' = sck /\ slv_sck_delay' = sck
      /\ sent' = to_slave /\ POLARITY' = POLARITY /\ (Leading' <=> Leading)
      /\ from_slave' = from_slave
    BY <1>1, StepFacts DEF AcceptArm
<1>4. /\ Driven = (IF Leading THEN 1 ELSE 0)
      /\ Driven' = Driven /\ Sampled' = 0
    BY <1>1, <1>3 DEF Driven, Sampled
<1>5. Sending(send_buf', mosi', sent', Driven')
    <2>1. to_slave \in Word
        BY BaseFacts
    <2>2. CASE Leading
        <3>1. mosi' = to_slave[1] /\ send_buf' = ShiftIn(to_slave, 0)
            BY <2>2 DEF AcceptArm, setup_bits, Leading
        <3>. QED
            BY <3>1, <2>1, <2>2, <1>3, <1>4, FirstBit
    <2>3. CASE ~Leading
        <3>1. send_buf' = to_slave
            BY <2>3 DEF AcceptArm, setup_bits, Leading
        <3>. QED
            BY <3>1, <2>1, <2>3, <1>3, <1>4, FirstBit
    <2>. QED
        BY <2>2, <2>3
<1>6. Receiving(from_slave', loaded', Sampled') /\ Receiving(from_master', sent', Sampled')
    BY <1>4 DEF Receiving
<1>7. /\ state' \in {"ON_CYCLE", "CYCLE_WAIT"}
      /\ state' = "ON_CYCLE" => ~Leading
    BY DEF AcceptArm, setup_bits, Leading
<1>8. Edges' /\ Settled'
    BY <1>1, <1>3, <1>7 DEF Edges, Settled
<1>9. ShiftInv'
    BY <1>5, <1>6, <1>8 DEF ShiftInv, Moved
<1>10. SelectedInv'
    BY <1>1, <1>2, <1>3, <1>4 DEF SelectedInv, InStep
<1>. QED
    BY <1>1, <1>2, <1>7, <1>9, <1>10 DEF DataInv, SelectInv, DoneInv, SlaveReceives

(* How an edge moves the bits: a reading edge samples the bit driven last, *)
(* a writing edge drives the next one; the first ON_CYCLE of the other     *)
(* modes has no edge, and the master reads a bit that will be shifted out. *)
LEMMA EdgeKinds ==
    ASSUME Transferring, OnCycle
    PROVE  /\ Driven' \in Nat /\ Driven \in Nat /\ Sampled \in Nat /\ Sampled' \in Nat
           /\ bit_counter' = (IF sck = POLARITY THEN bit_counter ELSE bit_counter + 1)
           /\ sck # POLARITY => bit_counter < WID
           /\ slv_sck_delay # sck /\ sck # PHASE =>
                 /\ Driven' = Driven /\ Sampled \in 0..(WID - 1)
                 /\ Driven = Sampled + 1 /\ Sampled' = Sampled + 1
           /\ slv_sck_delay # sck /\ sck = PHASE =>
                 Driven' = Driven + 1 /\ Sampled' = Sampled
           /\ slv_sck_delay = sck =>
                 /\ sck # PHASE /\ Driven' = Driven
                 /\ Sampled = 0 /\ Sampled' = 0
           /\ slv_sck_delay' # POLARITY => bit_counter' > 0
<1>. USE DEF Transferring
<1>1. /\ Counting /\ state = "ON_CYCLE" /\ Edges
    BY TransferFacts DEF OnCycle, DataInv, ShiftInv
<1>2. /\ POLARITY \in {0, 1} /\ PHASE \in {0, 1}
      /\ sck \in {0, 1} /\ slv_sck_delay \in {0, 1} /\ bit_counter \in 0..WID
      /\ slv_sck_delay' = sck /\ POLARITY' = POLARITY /\ (Leading' <=> Leading)
      /\ WID \in Nat \ {0}
    BY StepFacts, WidAssumption
<1>3. /\ sck # POLARITY => bit_counter < WID
      /\ slv_sck_delay # POLARITY => bit_counter > 0
      /\ slv_sck_delay = sck => ~Leading /\ bit_counter = 0 /\ sck = POLARITY
    BY <1>1 DEF Counting, Edges
<1>4. bit_counter' = (IF sck = POLARITY THEN bit_counter ELSE bit_counter + 1)
    BY DEF OnCycle
<1>5. /\ Driven' = IF Leading /\ sck = POLARITY THEN bit_counter' + 1 ELSE bit_counter'
      /\ Sampled' = IF ~Leading /\ sck # POLARITY THEN bit_counter' - 1 ELSE bit_counter'
    BY <1>2 DEF Driven, Sampled
<1>6. CASE Leading
    <2>1. POLARITY = PHASE
        BY <1>6 DEF Leading
    <2>2. /\ Driven' = IF sck = POLARITY THEN bit_counter' + 1 ELSE bit_counter'
          /\ Sampled' = bit_counter' /\ Sampled = bit_counter
          /\ Driven = IF slv_sck_delay = POLARITY THEN bit_counter + 1 ELSE bit_counter
        BY <1>5, <1>6 DEF Driven, Sampled
    <2>3. slv_sck_delay # sck
        BY <1>3, <1>6
    <2>. QED
        BY <2>1, <2>2, <2>3, <1>2, <1>3, <1>4
<1>7. CASE ~Leading
    <2>1. POLARITY # PHASE
        BY <1>7 DEF Leading
    <2>2. /\ Sampled' = IF sck # POLARITY THEN bit_counter' - 1 ELSE bit_counter'
          /\ Driven' = bit_counter' /\ Driven = bit_counter
          /\ Sampled = IF slv_sck_delay # POLARITY THEN bit_counter - 1 ELSE bit_counter
        BY <1>5, <1>7 DEF Driven, Sampled
    <2>3. slv_sck_delay = sck => bit_counter = 0 /\ sck = POLARITY
        BY <1>3
    <2>. QED
        BY <2>1, <2>2, <2>3, <1>2, <1>3, <1>4
<1>. QED
    BY <1>6, <1>7

LEMMA EdgeStep ==
    ASSUME Transferring, OnCycle, SlowClock
    PROVE  DataInv'
<1>. USE DEF Transferring
<1>1. /\ ss /\ arm_master /\ slv_ss_delay /\ slv_ss_delay' /\ loaded' = loaded
      /\ ss' /\ ss_state' = "WAIT_ON_MASTER" /\ state = "ON_CYCLE"
      /\ ~slv_finished /\ ~err /\ slv_bit_counter = bit_counter
      /\ Sending(slv_send_buf, miso, loaded, Driven)
      /\ Edges /\ Settled /\ Moved
    BY TransferFacts DEF OnCycle, InStep, DataInv, ShiftInv
<1>2. /\ POLARITY' = POLARITY /\ PHASE \in {0, 1} /\ sck \in {0, 1}
      /\ slv_sck_delay' = sck /\ sent' = sent
      /\ bit_counter \in 0..WID
    BY <1>1, StepFacts
<1>3. CYCLE_HALF_WAIT >= 2
    BY BaseFacts DEF SlowClock, CYCLE_HALF_WAIT
<1>4. state' = "CYCLE_WAIT" /\ sck' = sck /\ timer' = timer /\ timer <= 1
    BY <1>1, <1>3, StepFacts DEF OnCycle, Settled
<1>5. /\ sck # PHASE => /\ from_slave' = ShiftIn(from_slave, read_miso)
                        /\ send_buf' = send_buf /\ mosi' = mosi
      /\ sck = PHASE => /\ send_buf' = ShiftIn(send_buf, 0) /\ mosi' = send_buf[1]
                        /\ from_slave' = from_slave
    BY <1>2 DEF OnCycle, ReadLevel, read_data, write_data
<1>6. /\ send_buf \in Word /\ from_slave \in Word /\ sent \in Word /\ loaded \in Word
      /\ slv_send_buf \in Word /\ from_master \in Word
    BY BaseFacts, SlaveTypes DEF BaseInv
<1>7. /\ slv_bit_counter' = bit_counter' /\ ~slv_finished' /\ ~err'
      /\ slv_sck_delay # sck =>
            /\ sck # PHASE =>
                  /\ from_master' = ShiftIn(from_master, slv_read_mosi)
                  /\ slv_send_buf' = slv_send_buf /\ miso' = miso
            /\ sck = PHASE =>
                  /\ from_master' = from_master
                  /\ slv_send_buf' = ShiftIn(slv_send_buf, 0)
                  /\ miso' = slv_send_buf[1]
      /\ slv_sck_delay = sck =>
            slv_send_buf' = slv_send_buf /\ miso' = miso /\ from_master' = from_master
    <2>1. CASE slv_sck_delay # sck
        <3>1. sck # POLARITY => slv_bit_counter # WID
            BY <1>1, <1>2, EdgeKinds, WidAssumption
        <3>. QED
            BY <2>1, <3>1, <1>1, EdgeKinds, SlaveShifts
    <2>2. CASE slv_sck_delay = sck
        <3>1. sck = POLARITY
            BY <2>2, <1>1 DEF Edges
        <3>2. bit_counter' = bit_counter
            BY <3>1 DEF OnCycle
        <3>. QED
            BY <2>2, <3>2, <1>1, SlaveRests
    <2>. QED
        BY <2>1, <2>2
<1>8. /\ Sending(send_buf', mosi', sent', Driven')
      /\ Sending(slv_send_buf', miso', loaded', Driven')
      /\ Receiving(from_slave', loaded', Sampled')
      /\ Receiving(from_master', sent', Sampled')
    <2>1. /\ Sending(send_buf, mosi, sent, Driven)
          /\ Receiving(from_slave, loaded, Sampled)
          /\ Receiving(from_master, sent, Sampled)
        BY <1>1 DEF Moved
    <2>2. CASE slv_sck_delay # sck /\ sck # PHASE
        <3>1. /\ Driven' = Driven /\ Sampled \in 0..(WID - 1)
              /\ Driven = Sampled + 1 /\ Sampled' = Sampled + 1
            BY <2>2, EdgeKinds
        <3>2. slv_read_mosi = mosi /\ read_miso = miso
            BY <2>2, <1>1 DEF Settled
        <3>3. mosi = sent[Sampled + 1] /\ miso = loaded[Sampled + 1]
            BY <3>1, <2>1, <1>1, WidAssumption DEF Sending
        <3>4. /\ from_slave' = ShiftIn(from_slave, loaded[Sampled + 1])
              /\ from_master' = ShiftIn(from_master, sent[Sampled + 1])
            BY <3>2, <3>3, <2>2, <1>5, <1>7
        <3>5. /\ Receiving(from_slave', loaded, Sampled + 1)
              /\ Receiving(from_master', sent, Sampled + 1)
            BY <3>1, <3>4, <2>1, <1>6, ShiftSample
        <3>. QED
            BY <3>1, <3>5, <2>1, <2>2, <1>1, <1>2, <1>5, <1>7
    <2>3. CASE slv_sck_delay # sck /\ sck = PHASE
        <3>1. Driven' = Driven + 1 /\ Sampled' = Sampled /\ Driven \in Nat
            BY <2>3, EdgeKinds
        <3>2. /\ Sending(send_buf', mosi', sent, Driven + 1)
              /\ Sending(slv_send_buf', miso', loaded, Driven + 1)
            BY <3>1, <2>1, <2>3, <1>1, <1>5, <1>6, <1>7, ShiftOut
        <3>. QED
            BY <3>1, <3>2, <2>1, <2>3, <1>1, <1>2, <1>5, <1>7
    <2>4. CASE slv_sck_delay = sck
        <3>1. /\ sck # PHASE /\ Driven' = Driven
              /\ Sampled = 0 /\ Sampled' = 0
            BY <2>4, EdgeKinds
        <3>2. /\ Receiving(from_slave', loaded', Sampled')
              /\ Receiving(from_master', sent', Sampled')
            BY <3>1 DEF Receiving
        <3>. QED
            BY <3>1, <3>2, <2>1, <2>4, <1>1, <1>2, <1>5, <1>7
    <2>. QED
        BY <2>2, <2>3, <2>4
<1>9. slv_sck_delay' # POLARITY => bit_counter' > 0
    BY EdgeKinds
<1>10. Edges' /\ Settled'
    <2>1. Edges'
        BY <1>2, <1>4, <1>9 DEF Edges
    <2>2. timer \in Nat
        BY StepFacts DEF BaseInv, SSInv, SSTypeOK, MasterTypeOK
    <2>3. Settled'
        BY <2>2, <1>4 DEF Settled
    <2>. QED
        BY <2>1, <2>3
<1>11. ShiftInv' /\ SelectedInv'
    BY <1>2, <1>4, <1>7, <1>8, <1>10 DEF ShiftInv, Moved, SelectedInv, InStep
<1>. QED
    BY <1>1, <1>4, <1>7, <1>11 DEF DataInv, SelectInv, DoneInv, SlaveReceives

LEMMA HalfCycleStep ==
    ASSUME Transferring, CycleWait, SlowClock
    PROVE  DataInv'
<1>. USE DEF Transferring
<1>1. /\ ss /\ slv_ss_delay /\ slv_ss_delay' /\ loaded' = loaded
      /\ ss' /\ ss_state' = "WAIT_ON_MASTER" /\ state = "CYCLE_WAIT"
      /\ slv_sck_delay = sck
      /\ ~slv_finished /\ ~err /\ slv_bit_counter = bit_counter
      /\ Sending(slv_send_buf, miso, loaded, Driven)
      /\ Edges /\ Settled /\ Moved
    BY TransferFacts DEF CycleWait, InStep, DataInv, ShiftInv
<1>2. /\ POLARITY' = POLARITY /\ POLARITY \in {0, 1} /\ sck \in {0, 1}
      /\ (Leading' <=> Leading)
      /\ slv_sck_delay' = sck /\ sent' = sent /\ bit_counter \in 0..WID
      /\ slv_mosi_hot' = mosi /\ miso_hot' = miso
      /\ slv_read_mosi' = slv_mosi_hot /\ read_miso' = miso_hot
      /\ CYCLE_HALF_WAIT \in Nat
    BY <1>1, StepFacts
<1>3. CYCLE_HALF_WAIT >= 2
    BY BaseFacts DEF SlowClock, CYCLE_HALF_WAIT
<1>4. UNCHANGED <<slv_bit_counter, err, slv_ready_at_start, slv_send_buf,
                  miso, from_master, slv_finished>>
    BY <1>1, SlaveRests
<1>5. UNCHANGED <<bit_counter, send_buf, mosi, finished, from_slave>>
    BY DEF CycleWait
<1>6. Driven' = Driven /\ Sampled' = Sampled
    BY <1>1, <1>2, <1>5 DEF Driven, Sampled
<1>7. Moved' /\ Sending(slv_send_buf', miso', loaded', Driven')
    BY <1>1, <1>2, <1>4, <1>5, <1>6 DEF Moved
<1>8. slv_sck_delay' # POLARITY' => bit_counter' > 0
    BY <1>1, <1>2, <1>5 DEF Edges
<1>9. CASE timer # CYCLE_HALF_WAIT
    <2>1. state' = "CYCLE_WAIT" /\ sck' = sck
        BY <1>1, <1>9 DEF CycleWait
    <2>2. Edges' /\ Settled'
        BY <2>1, <1>1, <1>2, <1>4, <1>5, <1>8 DEF Edges, Settled
    <2>. QED
        BY <2>1, <2>2, <1>1, <1>2, <1>4, <1>5, <1>7
        DEF DataInv, SelectInv, SelectedInv, InStep, ShiftInv, DoneInv, SlaveReceives
<1>10. CASE timer = CYCLE_HALF_WAIT
    <2>1. cycle_change /\ timer' = 1
        BY <1>10 DEF CycleWait
    <2>2. CASE LastHalfCycle
        <3>1. state' = "WAIT_FINISHED" /\ sck' = sck /\ bit_counter = WID /\ sck = POLARITY
            BY <2>1, <2>2 DEF cycle_change, LastHalfCycle
        <3>2. Sampled = WID
            BY <3>1, <1>1 DEF Sampled
        <3>3. /\ from_slave \in Word /\ sent \in Word /\ loaded \in Word
              /\ from_master \in Word
            BY BaseFacts, SlaveTypes DEF BaseInv
        <3>4. from_slave = loaded /\ from_master = sent
            BY <3>2, <3>3, <1>1, WholeWord DEF Moved
        <3>. QED
            BY <3>1, <3>4, <1>1, <1>2, <1>4, <1>5
            DEF DataInv, SelectInv, SelectedInv, InStep, ShiftInv, DoneInv, SlaveReceives
    <2>3. CASE ~LastHalfCycle
        <3>1. state' = "ON_CYCLE" /\ sck' = 1 - sck
            BY <2>1, <2>3 DEF cycle_change
        <3>2. slv_sck_delay' # sck'
            BY <3>1, <1>2
        <3>3. Edges'
            BY <3>2, <1>8 DEF Edges
        <3>4. slv_mosi_hot = mosi /\ miso_hot = miso
            BY <1>1, <1>3, <1>10 DEF Settled
        <3>5. Settled'
            BY <3>1, <3>4, <2>1, <1>2, <1>4, <1>5 DEF Settled
        <3>. QED
            BY <3>1, <3>3, <3>5, <1>1, <1>2, <1>4, <1>5, <1>7
            DEF DataInv, SelectInv, SelectedInv, InStep, ShiftInv, DoneInv, SlaveReceives
    <2>. QED
        BY <2>2, <2>3
<1>. QED
    BY <1>9, <1>10

(* The core reports the end of the frame while the slave keeps its word.   *)
LEMMA FinishStep ==
    ASSUME Transferring, WaitFinished
    PROVE  DataInv'
<1>. USE DEF Transferring
<1>1. /\ arm_master /\ ss /\ slv_ss_delay /\ slv_ss_delay' /\ loaded' = loaded
      /\ ss_state' \in {"WAIT_ON_MASTER", "WAIT_ON_ARM_DEASSERT"}
      /\ state = "WAIT_FINISHED" /\ sck = POLARITY
      /\ slv_sck_delay = sck /\ ~slv_finished /\ ~err
    BY TransferFacts DEF WaitFinished, InStep, Counting
<1>2. from_slave = loaded /\ from_master = sent
    BY <1>1 DEF DataInv, DoneInv
<1>3. UNCHANGED <<err, from_master, slv_finished>>
    BY <1>1, SlaveRests
<1>4. /\ state' = "WAIT_FINISHED" /\ sck' = POLARITY /\ from_slave' = from_slave
    BY <1>1 DEF WaitFinished, idle_state
<1>5. sent' = sent /\ slv_sck_delay' = sck
    BY <1>1, StepFacts
<1>. QED
    BY <1>1, <1>2, <1>3, <1>4, <1>5
    DEF DataInv, SelectInv, SelectedInv, InStep, ShiftInv, DoneInv, SlaveReceives

(* The slave sees the end of select and reports its word.                  *)
LEMMA ReleaseStep ==
    ASSUME BaseInv, DataInv, LinkStep, ss_state = "WAIT_ON_ARM_DEASSERT"
    PROVE  DataInv'
<1>1. ~ss /\ arm_master /\ state = "WAIT_FINISHED"
    BY DEF BaseInv, SSInv, InvReleasing
<1>2. /\ state' = "WAIT_FINISHED" /\ finished' = TRUE /\ from_slave' = from_slave
    BY <1>1
    DEF LinkStep, SSStep, MasterStep, Idle, AcceptArm, OnCycle, CycleWait, WaitFinished
<1>3. ss' = ss /\ ss_state' \in {"WAIT_ON_ARM", "WAIT_ON_ARM_DEASSERT"}
    BY DEF LinkStep, SSStep, WrapperStep, NotArmed, Select, CountSelect, WaitOnMaster,
           Release
<1>4. ~slv_ss_delay' /\ loaded' = loaded /\ sent' = sent
    BY <1>1, StepFacts
<1>5. from_slave = loaded /\ (slv_ss_delay => from_master = sent /\ ~err)
    BY <1>1 DEF DataInv, DoneInv
<1>6. SlaveReceives'
    <2>1. CASE slv_ss_delay
        BY <2>1, <1>1, <1>4, <1>5, SlaveReleased DEF SlaveReceives
    <2>2. CASE ~slv_ss_delay
        BY <2>2, <1>1, <1>4, SlaveWaits DEF DataInv, SlaveReceives
    <2>. QED
        BY <2>1, <2>2
<1>. QED
    BY <1>1, <1>2, <1>3, <1>4, <1>5, <1>6
    DEF DataInv, SelectInv, SelectedInv, ShiftInv, DoneInv

LEMMA HaltStep ==
    ASSUME LinkHalt
    PROVE  DataInv'
<1>1. /\ state' = "WAIT_ON_ARM" /\ ss_state' = "WAIT_ON_ARM"
      /\ slv_ss_delay' = FALSE /\ slv_finished' = FALSE
    BY DEF LinkHalt, SSHalt, MasterHalt, MasterReset, WrapperReset, Slave!SlaveHalt,
           Slave!SlaveReset
<1>. QED
    BY <1>1 DEF DataInv, SelectInv, SelectedInv, ShiftInv, DoneInv, SlaveReceives
-----------------------------------------------------------------------------
LEMMA InitLink == LinkInit => LinkInv
<1>. SUFFICES ASSUME LinkInit PROVE LinkInv
    OBVIOUS
<1>1. /\ state = "WAIT_ON_ARM" /\ ss_state = "WAIT_ON_ARM"
      /\ slv_ss_delay = FALSE /\ slv_ready_at_start = FALSE
    BY DEF LinkInit, MasterInit, WrapperInit, Slave!SlaveInit
<1>2. DataInv
    BY <1>1 DEF DataInv, SelectInv, SelectedInv, ShiftInv, DoneInv, SlaveReceives
<1>. QED
    BY <1>2, InitBase DEF LinkInv

LEMMA NextLink ==
    ASSUME SlowClock
    PROVE  LinkInv /\ [LinkNext]_linkVars => LinkInv'
<1>. SUFFICES ASSUME LinkInv, [LinkNext]_linkVars PROVE LinkInv'
    OBVIOUS
<1>1. BaseInv /\ DataInv /\ BaseInv'
    BY NextBase DEF LinkInv
<1>2. CASE LinkStep
    <2>1. ss_state \in SSStates
        BY <1>1, BaseFacts
    <2>2. CASE ss_state = "WAIT_ON_MASTER"
        <3>1. Transferring /\ MasterStep /\ arm_master
            BY <1>1, <1>2, <2>2, TransferFacts DEF Transferring, LinkStep, SSStep
        <3>2. AcceptArm \/ OnCycle \/ CycleWait \/ WaitFinished
            BY <3>1 DEF MasterStep, Idle
        <3>. QED
            BY <3>1, <3>2, ArmStep, EdgeStep, HalfCycleStep, FinishStep, <1>1 DEF LinkInv
    <2>3. DataInv'
        BY <2>1, <2>2, <1>1, <1>2, IdleStep, SelectStep, ReleaseStep DEF SSStates, LinkInv
    <2>. QED
        BY <2>3, <1>1 DEF LinkInv
<1>3. CASE LinkHalt
    BY <1>1, <1>3, HaltStep DEF LinkInv
<1>4. CASE UNCHANGED linkVars
    <2>1. UNCHANGED <<mode, state, bit_counter, timer, send_buf, sck, mosi, finished,
                      from_slave, miso_hot, read_miso, miso>>
        BY <1>4 DEF linkVars, ssVars, masterInputs, masterRegs
    <2>2. UNCHANGED <<ss, ss_state, ss_timer, sent>>
        BY <1>4 DEF linkVars, ssVars, history
    <2>3. UNCHANGED <<slv_mosi_hot, slv_read_mosi, slv_sck_delay, slv_ss_delay,
                      slv_bit_counter, slv_ready_at_start, slv_send_buf, from_master,
                      slv_finished, err, loaded>>
        BY <1>4 DEF linkVars, slaveVars
    <2>4. (Leading' <=> Leading) /\ POLARITY' = POLARITY
        BY <2>1 DEF Leading, POLARITY, PHASE
    <2>5. Driven' = Driven /\ Sampled' = Sampled
        BY <2>1, <2>3, <2>4 DEF Driven, Sampled
    <2>6. DataInv'
        BY <2>1, <2>2, <2>3, <2>4, <2>5, <1>1
        DEF DataInv, SelectInv, SelectedInv, InStep, ShiftInv, Edges, Settled, Moved,
            DoneInv, SlaveReceives
    <2>. QED
        BY <2>6, <1>1 DEF LinkInv
<1>. QED
    BY <1>2, <1>3, <1>4 DEF LinkNext

(* The two ends of the link never lose each other: at every clock edge the  *)
(* counters, delays and shift registers of master and slave are where the   *)
(* state of the other end puts them.                                        *)
THEOREM LinkInvariance ==
    ASSUME SlowClock
    PROVE  LinkInit /\ [][LinkNext]_linkVars => []LinkInv
<1>1. LinkInv /\ [LinkNext]_linkVars => LinkInv'
    BY NextLink
<1>. QED
    BY <1>1, InitLink, PTL

(* At the end of a frame the master holds the word the device offered when *)
(* it was selected, in every mode and for every word.                      *)
THEOREM MasterGetsWord ==
    ASSUME SlowClock
    PROVE  LinkSpec => []MasterReceives
<1>1. LinkInv => MasterReceives
    BY DEF LinkInv, BaseInv, DataInv, SSInv, InvReleasing, DoneInv, MasterReceives
<1>. QED
    BY <1>1, LinkInvariance, PTL DEF LinkSpec

(* A ready device that is told that a frame is finished holds the word the *)
(* master copied at its start, and no error.                               *)
THEOREM SlaveGetsWord ==
    ASSUME SlowClock
    PROVE  LinkSpec => []SlaveReceives
<1>1. LinkInv => SlaveReceives
    BY DEF LinkInv, DataInv
<1>. QED
    BY <1>1, LinkInvariance, PTL DEF LinkSpec
-----------------------------------------------------------------------------
(* The contract of SpiTransfer, cycle by cycle.                            *)

LEMMA PhaseOf ==
    /\ ss_state = "WAIT_ON_ARM" => phase = "idle"
    /\ ss_state = "WAIT_ON_SS" => phase = "select"
    /\ ss_state = "WAIT_ON_MASTER" =>
          /\ state = "WAIT_ON_ARM" => phase = "load"
          /\ state # "WAIT_ON_ARM" /\ ~finished => phase = "shift"
          /\ state # "WAIT_ON_ARM" /\ finished => phase = "settle"
    /\ ss_state = "WAIT_ON_ARM_DEASSERT" => phase = "done"
BY DEF phase

LEMMA LagOf ==
    /\ ss_state \in {"WAIT_ON_ARM", "WAIT_ON_SS"} /\ finished =>
          lag = (IF state = "WAIT_FINISHED" THEN 2 ELSE 1)
    /\ ss_state \notin {"WAIT_ON_ARM", "WAIT_ON_SS"} \/ ~finished => lag = 0
BY DEF lag

LEMMA PhaseNext ==
    /\ ss_state' = "WAIT_ON_ARM" => phase' = "idle"
    /\ ss_state' = "WAIT_ON_SS" => phase' = "select"
    /\ ss_state' = "WAIT_ON_MASTER" =>
          /\ state' = "WAIT_ON_ARM" => phase' = "load"
          /\ state' # "WAIT_ON_ARM" /\ ~finished' => phase' = "shift"
          /\ state' # "WAIT_ON_ARM" /\ finished' => phase' = "settle"
    /\ ss_state' = "WAIT_ON_ARM_DEASSERT" => phase' = "done"
BY DEF phase

LEMMA LagNext ==
    /\ ss_state' \in {"WAIT_ON_ARM", "WAIT_ON_SS"} /\ finished' =>
          lag' = (IF state' = "WAIT_FINISHED" THEN 2 ELSE 1)
    /\ ss_state' \notin {"WAIT_ON_ARM", "WAIT_ON_SS"} \/ ~finished' => lag' = 0
BY DEF lag

LEMMA FinishedTyped ==
    ASSUME BaseInv, LinkStep
    PROVE  finished' \in BOOLEAN
<1>1. finished \in BOOLEAN
    BY DEF BaseInv, SSInv, SSTypeOK, MasterTypeOK
<1>. QED
    BY <1>1
    DEF LinkStep, SSStep, MasterStep, Idle, AcceptArm, OnCycle, CycleWait, WaitFinished

(* The `finished` of the last transfer fades: it is up for one more cycle  *)
(* after the core has left WAIT_FINISHED.                                  *)
LEMMA IdleContract ==
    ASSUME BaseInv, DataInv, LinkStep, ss_state = "WAIT_ON_ARM"
    PROVE  Transfer!Step
<1>1. /\ ~ss /\ ~arm_master /\ state \in {"WAIT_ON_ARM", "WAIT_FINISHED"}
      /\ state = "WAIT_FINISHED" => finished
    BY DEF BaseInv, SSInv, InvDeselected, CoreIdle, DataInv, SelectInv
<1>2. /\ state' = "WAIT_ON_ARM" /\ from_slave' = from_slave
      /\ state = "WAIT_ON_ARM" => ~finished'
      /\ state = "WAIT_FINISHED" => finished'
    BY <1>1
    DEF LinkStep, SSStep, MasterStep, Idle, AcceptArm, OnCycle, CycleWait, WaitFinished
<1>3. /\ arm => ss_state' = "WAIT_ON_SS" /\ ss_timer' = 1
      /\ ~arm => ss_state' = ss_state /\ ss_timer' = ss_timer
    BY DEF LinkStep, SSStep, WrapperStep, NotArmed, Select, CountSelect, WaitOnMaster,
           Release, wrapperRegs
<1>4. sent' = sent /\ loaded' = loaded
    BY <1>1, StepFacts
<1>5. /\ phase = "idle" /\ (arm => phase' = "select") /\ (~arm => phase' = "idle")
    BY <1>3, PhaseOf, PhaseNext
<1>6. lag' = Transfer!Fade /\ (finished' <=> lag' > 0)
    <2>1. CASE state = "WAIT_FINISHED"
        <3>1. lag = 2 /\ lag' = 1
            BY <2>1, <1>1, <1>2, <1>3, LagOf, LagNext
        <3>. QED
            BY <3>1, <2>1, <1>2 DEF Transfer!Fade
    <2>2. CASE state = "WAIT_ON_ARM"
        <3>1. lag \in {0, 1} /\ lag' = 0
            BY <2>2, <1>2, LagNext DEF lag
        <3>. QED
            BY <3>1, <2>2, <1>2 DEF Transfer!Fade
    <2>. QED
        BY <2>1, <2>2, <1>1
<1>7. Transfer!Waiting
    BY <1>2, <1>3, <1>4, <1>5, <1>6 DEF Transfer!Waiting
<1>8. finished' = (phase' \in {"settle", "done"} \/ lag' > 0)
    <2>1. phase' \notin {"settle", "done"}
        BY <1>5
    <2>. QED
        BY <2>1, <1>6, FinishedTyped
<1>. QED
    BY <1>7, <1>8 DEF Transfer!Step

(* The device's word is copied in the first cycle of the selection.        *)
LEMMA SelectContract ==
    ASSUME BaseInv, DataInv, LinkStep, ss_state = "WAIT_ON_SS"
    PROVE  Transfer!Step
<1>1. /\ ss /\ ~arm_master /\ state = "WAIT_ON_ARM" /\ (slv_ss_delay <=> ss_timer # 1)
    BY DEF BaseInv, SSInv, InvSelecting, CoreReady, DataInv, SelectInv
<1>2. state' = "WAIT_ON_ARM" /\ from_slave' = from_slave /\ finished' = FALSE
    BY <1>1
    DEF LinkStep, SSStep, MasterStep, Idle, AcceptArm, OnCycle, CycleWait, WaitFinished
<1>3. /\ ss_timer = SS_WAIT => ss_state' = "WAIT_ON_MASTER" /\ ss_timer' = ss_timer
      /\ ss_timer # SS_WAIT => ss_state' = ss_state /\ ss_timer' = ss_timer + 1
    BY DEF LinkStep, SSStep, WrapperStep, NotArmed, Select, CountSelect, WaitOnMaster,
           Release
<1>4. sent' = sent /\ loaded' = (IF ss_timer = 1 THEN to_master ELSE loaded)
    BY <1>1, StepFacts
<1>5. /\ phase = "select"
      /\ ss_timer = SS_WAIT => phase' = "load"
      /\ ss_timer # SS_WAIT => phase' = "select"
    BY <1>2, <1>3, PhaseOf, PhaseNext
<1>6. lag \in {0, 1} /\ lag' = 0
    BY <1>1, <1>2, LagNext DEF lag
<1>7. lag' = Transfer!Fade
    BY <1>6 DEF Transfer!Fade
<1>8. Transfer!Selecting
    BY <1>2, <1>3, <1>4, <1>5, <1>7 DEF Transfer!Selecting
<1>9. finished' = (phase' \in {"settle", "done"} \/ lag' > 0)
    <2>1. phase' \notin {"settle", "done"} /\ ~(lag' > 0)
        BY <1>5, <1>6
    <2>. QED
        BY <2>1, <1>2
<1>. QED
    BY <1>8, <1>9 DEF Transfer!Step

LEMMA TransferContract ==
    ASSUME Transferring, from_slave' \in Word
    PROVE  Transfer!Step
<1>. USE DEF Transferring
<1>1. /\ arm_master /\ ss /\ slv_ss_delay /\ loaded' = loaded /\ Counting
      /\ state # "WAIT_FINISHED" => ~finished /\ ss_state' = "WAIT_ON_MASTER"
    BY TransferFacts
<1>2. lag = 0 /\ lag' = 0 /\ ss_timer' = ss_timer
    <2>1. ss_state' \in {"WAIT_ON_MASTER", "WAIT_ON_ARM_DEASSERT"}
        BY TransferFacts
    <2>. QED
        BY <2>1, LagOf, LagNext
        DEF LinkStep, SSStep, WrapperStep, NotArmed, Select, CountSelect, WaitOnMaster,
            Release
<1>3. sent' = IF state = "WAIT_ON_ARM" THEN to_slave ELSE sent
    BY <1>1, StepFacts
<1>4. CASE AcceptArm
    <2>1. /\ state = "WAIT_ON_ARM" /\ state' # "WAIT_ON_ARM" /\ finished' = finished
          /\ from_slave' = from_slave
        BY <1>4 DEF AcceptArm, setup_bits
    <2>2. phase = "load" /\ phase' = "shift"
        BY <2>1, <1>1, PhaseOf, PhaseNext
    <2>3. Transfer!Loading
        BY <2>1, <2>2, <1>1, <1>2, <1>3 DEF Transfer!Loading
    <2>4. finished' = (phase' \in {"settle", "done"} \/ lag' > 0)
        <3>1. ~(phase' \in {"settle", "done"} \/ lag' > 0)
            BY <2>2, <1>2
        <3>. QED
            BY <3>1, <2>1, <1>1, FinishedTyped
    <2>. QED
        BY <2>3, <2>4 DEF Transfer!Step
<1>5. CASE OnCycle \/ CycleWait
    <2>1. /\ state \notin {"WAIT_ON_ARM", "WAIT_FINISHED"} /\ state' # "WAIT_ON_ARM"
          /\ finished' = finished
        BY <1>5 DEF OnCycle, CycleWait, cycle_change
    <2>2. phase = "shift" /\ phase' = "shift"
        BY <2>1, <1>1, PhaseOf, PhaseNext
    <2>3. Transfer!Shifting
        BY <2>1, <2>2, <1>1, <1>2, <1>3 DEF Transfer!Shifting
    <2>4. finished' = (phase' \in {"settle", "done"} \/ lag' > 0)
        <3>1. ~(phase' \in {"settle", "done"} \/ lag' > 0)
            BY <2>2, <1>2
        <3>. QED
            BY <3>1, <2>1, <1>1, FinishedTyped
    <2>. QED
        BY <2>3, <2>4 DEF Transfer!Step
<1>6. CASE WaitFinished
    <2>1. /\ state = "WAIT_FINISHED" /\ state' = "WAIT_FINISHED" /\ finished' = TRUE
          /\ from_slave' = from_slave
        BY <1>1, <1>6 DEF WaitFinished
    <2>2. from_slave = loaded
        BY <2>1 DEF DataInv, DoneInv
    <2>3. CASE finished
        <3>1. ss_state' = "WAIT_ON_ARM_DEASSERT"
            BY <2>3
            DEF LinkStep, SSStep, WrapperStep, NotArmed, Select, CountSelect,
                WaitOnMaster, Release
        <3>2. phase = "settle" /\ phase' = "done"
            BY <2>1, <2>3, <3>1, PhaseOf, PhaseNext
        <3>3. Transfer!Deselect
            BY <2>1, <3>2, <1>1, <1>2, <1>3 DEF Transfer!Deselect
        <3>. QED
            BY <3>2, <3>3, <2>1 DEF Transfer!Step
    <2>4. CASE ~finished
        <3>1. ss_state' = "WAIT_ON_MASTER"
            BY <2>4
            DEF LinkStep, SSStep, WrapperStep, NotArmed, Select, CountSelect,
                WaitOnMaster, Release
        <3>2. phase = "shift" /\ phase' = "settle"
            BY <2>1, <2>4, <3>1, PhaseOf, PhaseNext
        <3>3. Transfer!Complete
            BY <2>1, <2>2, <3>2, <1>1, <1>2, <1>3 DEF Transfer!Complete
        <3>. QED
            BY <3>2, <3>3, <2>1 DEF Transfer!Step
    <2>. QED
        BY <2>3, <2>4
<1>. QED
    BY <1>1, <1>4, <1>5, <1>6 DEF LinkStep, SSStep, MasterStep, Idle

LEMMA ReleaseContract ==
    ASSUME BaseInv, DataInv, LinkStep, ss_state = "WAIT_ON_ARM_DEASSERT"
    PROVE  Transfer!Step
<1>1. ~ss /\ arm_master /\ state = "WAIT_FINISHED"
    BY DEF BaseInv, SSInv, InvReleasing
<1>2. state' = "WAIT_FINISHED" /\ finished' = TRUE /\ from_slave' = from_slave
    BY <1>1
    DEF LinkStep, SSStep, MasterStep, Idle, AcceptArm, OnCycle, CycleWait, WaitFinished
<1>3. /\ arm => ss_state' = ss_state
      /\ ~arm => ss_state' = "WAIT_ON_ARM"
      /\ ss_timer' = ss_timer
    BY DEF LinkStep, SSStep, WrapperStep, NotArmed, Select, CountSelect, WaitOnMaster,
           Release
<1>4. sent' = sent /\ loaded' = loaded
    BY <1>1, StepFacts
<1>5. /\ phase = "done" /\ lag = 0
      /\ arm => phase' = "done" /\ lag' = 0
      /\ ~arm => phase' = "idle" /\ lag' = 2
    BY <1>2, <1>3, PhaseOf, PhaseNext, LagOf, LagNext
<1>6. Transfer!Done
    BY <1>2, <1>3, <1>4, <1>5 DEF Transfer!Done
<1>7. phase' \in {"settle", "done"} \/ lag' > 0
    BY <1>5
<1>. QED
    BY <1>2, <1>6, <1>7 DEF Transfer!Step

LEMMA HaltContract ==
    ASSUME LinkHalt
    PROVE  Transfer!Halt
<1>1. /\ ss_state' = "WAIT_ON_ARM" /\ ss_timer' = 0 /\ finished' = FALSE
      /\ from_slave' = Zero /\ sent' = sent /\ loaded' = loaded
    BY DEF LinkHalt, SSHalt, MasterHalt, MasterReset, WrapperReset
<1>. QED
    BY <1>1, PhaseNext, LagNext DEF Transfer!Halt

(* The bit-level link goes through the phases of the abstract transfer     *)
(* engine, cycle by cycle: everything Contract says but that a transfer    *)
(* ends.                                                                   *)
THEOREM LinkKeepsContract ==
    ASSUME SlowClock
    PROVE  LinkSpec => Transfer!Safety
<1>1. LinkInit => Transfer!PowerUp
    <2>. SUFFICES ASSUME LinkInit PROVE Transfer!PowerUp
        OBVIOUS
    <2>1. /\ state = "WAIT_ON_ARM" /\ ss_state = "WAIT_ON_ARM" /\ ss_timer = 0
          /\ finished \in BOOLEAN /\ from_slave \in Word /\ sent = Zero /\ loaded = Zero
        BY DEF LinkInit, MasterInit, WrapperInit
    <2>2. phase = "idle" /\ lag = (IF finished THEN 1 ELSE 0)
        BY <2>1 DEF phase, lag
    <2>3. lag \in {0, 1} /\ finished = (lag > 0)
        <3>1. finished <=> lag > 0
            BY <2>2
        <3>. QED
            BY <3>1, <2>1, <2>2
    <2>. QED
        BY <2>1, <2>2, <2>3 DEF Transfer!PowerUp
<1>2. LinkInv /\ LinkInv' /\ [LinkNext]_linkVars =>
          [Transfer!Step \/ Transfer!Halt]_(Transfer!outputs)
    <2>. SUFFICES ASSUME LinkInv, LinkInv', [LinkNext]_linkVars
                  PROVE  [Transfer!Step \/ Transfer!Halt]_(Transfer!outputs)
        OBVIOUS
    <2>1. BaseInv /\ DataInv /\ ss_state \in SSStates
        BY BaseFacts DEF LinkInv
    <2>2. from_slave' \in Word
        BY DEF LinkInv, BaseInv, SSInv, SSTypeOK, MasterTypeOK
    <2>3. CASE LinkStep
        BY <2>1, <2>2, <2>3, IdleContract, SelectContract, TransferContract,
           ReleaseContract DEF SSStates, Transferring
    <2>4. CASE LinkHalt
        BY <2>4, HaltContract
    <2>5. CASE UNCHANGED linkVars
        <3>1. UNCHANGED <<state, finished, from_slave, ss_state, ss_timer, sent, loaded>>
            BY <2>5 DEF linkVars, ssVars, masterRegs, history, slaveVars
        <3>2. phase' = phase /\ lag' = lag
            BY <3>1 DEF phase, lag
        <3>. QED
            BY <3>1, <3>2 DEF Transfer!outputs
    <2>. QED
        BY <2>3, <2>4, <2>5 DEF LinkNext
<1>. QED
    BY <1>1, <1>2, LinkInvariance, PTL DEF LinkSpec, Transfer!Safety
=============================================================================
