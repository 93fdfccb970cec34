------------------------------ MODULE SpiLink ------------------------------
(***************************************************************************)
(* A master (SpiMasterSS) and a slave (SpiSlave) wired together as in      *)
(* control_loop_sim_top.v and the SPI testbenches: sck, ss, mosi and miso  *)
(* are shared, the user drives arm and to_slave, the device behind the     *)
(* slave drives to_master and rdy.  Each end sees the other's data line    *)
(* two cycles late.                                                        *)
(***************************************************************************)
EXTENDS SpiMasterSS

CONSTANT Words      \* the data words put on the inputs

ASSUME WordsAssumption == Words \subseteq Word

VARIABLES
    to_master, rdy,
    slv_mosi_hot, slv_read_mosi, slv_sck_delay, slv_ss_delay, slv_bit_counter,
    slv_ready_at_start, slv_send_buf, from_master, slv_finished, err,
    loaded          \* history: the word the slave copied from to_master

Slave == INSTANCE SpiSlave WITH
    mosi_hot <- slv_mosi_hot, read_mosi <- slv_read_mosi,
    sck_delay <- slv_sck_delay, ss_delay <- slv_ss_delay,
    bit_counter <- slv_bit_counter, ready_at_start <- slv_ready_at_start,
    send_buf <- slv_send_buf, finished <- slv_finished

slaveVars == <<to_master, rdy, slv_mosi_hot, slv_read_mosi, slv_sck_delay,
               slv_ss_delay, slv_bit_counter, slv_ready_at_start,
               slv_send_buf, from_master, slv_finished, err, loaded>>

linkVars == <<ssVars, slaveVars>>

LinkTypeOK == SSTypeOK /\ Slave!SlaveTypeOK /\ loaded \in Word

-----------------------------------------------------------------------------
LinkStep ==
    /\ SSStep
    /\ Slave!SlaveStep
    /\ loaded' = IF ss /\ ~slv_ss_delay THEN to_master ELSE loaded

LinkHalt == SSHalt /\ Slave!SlaveHalt /\ UNCHANGED loaded

(* The user may change its inputs in any cycle.  The device prepares its   *)
(* answer between frames, as dac_sim.v and adc_sim.v do.                   *)
LinkInputs ==
    /\ arm' \in BOOLEAN
    /\ to_slave' \in Words
    /\ IF ss'
       THEN UNCHANGED <<to_master, rdy>>
       ELSE to_master' \in Words /\ rdy' \in BOOLEAN

LinkInit ==
    /\ MasterInit /\ WrapperInit
    /\ Slave!SlaveInit
    /\ arm \in BOOLEAN /\ rdy \in BOOLEAN
    /\ to_slave \in Words /\ to_master \in Words
    /\ sent = Zero /\ loaded = Zero /\ edges = 0

LinkNext == (LinkStep \/ LinkHalt) /\ LinkInputs

(* The clock never stops. *)
LinkSpec == LinkInit /\ [][LinkNext]_linkVars /\ WF_linkVars(LinkNext)
-----------------------------------------------------------------------------
(* At the end of a frame the user of the master holds the word the device  *)
(* offered when it was selected.                                           *)
MasterReceives ==
    ss_state = "WAIT_ON_ARM_DEASSERT" => from_slave = loaded

(* The device that was ready when it was selected and is told that the     *)
(* frame is finished holds the word the master copied from to_slave at the *)
(* start of the shift, and has seen neither a bit too few nor too many.    *)
SlaveReceives ==
    slv_finished /\ slv_ready_at_start => from_master = sent /\ ~err
-----------------------------------------------------------------------------
(* The contract the rest of the gateware is modelled against *)

phase ==
    CASE ss_state = "WAIT_ON_ARM" -> "idle"
      [] ss_state = "WAIT_ON_SS" -> "select"
      [] ss_state = "WAIT_ON_MASTER" /\ state = "WAIT_ON_ARM" -> "load"
      [] ss_state = "WAIT_ON_MASTER" /\ state # "WAIT_ON_ARM" /\ ~finished -> "shift"
      [] ss_state = "WAIT_ON_MASTER" /\ state # "WAIT_ON_ARM" /\ finished -> "settle"
      [] ss_state = "WAIT_ON_ARM_DEASSERT" -> "done"

(* How much longer the `finished` of the previous transfer will be seen. *)
lag ==
    IF ss_state \in {"WAIT_ON_ARM", "WAIT_ON_SS"} /\ finished
    THEN IF state = "WAIT_FINISHED" THEN 2 ELSE 1
    ELSE 0

Transfer == INSTANCE SpiTransfer WITH
    WordSet <- Word, Garbage <- Word, ZeroWord <- Zero, count <- ss_timer

(* The bit-level link implements the abstract transfer engine: same        *)
(* `finished`, cycle by cycle, to_slave copied SS_WAIT + 1 cycles after    *)
(* arm is seen and never again, from_slave changing only between then and  *)
(* `finished`, and every transfer ending.                                  *)
Contract == Transfer!Spec
=============================================================================
