------------------------------ MODULE SpiSlave ------------------------------
(***************************************************************************)
(* The SPI slave of spi/spi_slave.v: the other end of the link in every    *)
(* simulation of the repository (adc_sim.v, dac_sim.v, the SPI            *)
(* testbenches), clocked by the same clk.  It looks for edges of ss and    *)
(* sck by comparing them with their value one cycle earlier.               *)
(***************************************************************************)
EXTENDS SpiWord

VARIABLES
    mode,
    \* inputs
    sck, ss, mosi, to_master, rdy,
    \* registers
    mosi_hot, read_mosi, sck_delay, ss_delay, bit_counter, ready_at_start,
    send_buf, from_master, miso, finished, err

slaveRegs == <<mosi_hot, read_mosi, sck_delay, ss_delay, bit_counter,
               ready_at_start, send_buf, from_master, miso, finished, err>>

SlaveTypeOK ==
    /\ to_master \in Word /\ from_master \in Word /\ send_buf \in Word
    /\ {mosi_hot, read_mosi, sck_delay, miso} \subseteq Bit
    /\ {ss_delay, rdy, ready_at_start, finished, err} \subseteq BOOLEAN
    /\ bit_counter \in 0..WID

(* from_master, miso, finished and err have no initialiser.  from_master  *)
(* starts as Zero here: a frame overwrites it before it is looked at.     *)
SlaveInit ==
    /\ mosi_hot = 0 /\ read_mosi = 0 /\ sck_delay = 0
    /\ ss_delay = FALSE /\ ready_at_start = FALSE
    /\ bit_counter = 0
    /\ send_buf = Zero
    /\ from_master = Zero /\ miso \in Bit
    /\ finished \in BOOLEAN /\ err \in BOOLEAN
-----------------------------------------------------------------------------
read_data ==
    /\ from_master' = ShiftIn(from_master, read_mosi)
    /\ UNCHANGED <<send_buf, miso>>

write_data ==
    /\ send_buf' = ShiftIn(send_buf, 0)
    /\ miso' = send_buf[1]
    /\ UNCHANGED from_master

setup_bits ==
    \/ /\ mode.POLARITY = mode.PHASE
       /\ miso' = to_master[1]
       /\ send_buf' = ShiftIn(to_master, 0)
    \/ /\ mode.POLARITY # mode.PHASE
       /\ send_buf' = to_master
       /\ UNCHANGED miso

(* One pulse too many is an error, but only if the device was ready. *)
check_counter ==
    IF bit_counter = WID
    THEN err' = ready_at_start /\ UNCHANGED bit_counter
    ELSE bit_counter' = bit_counter + 1 /\ UNCHANGED err
-----------------------------------------------------------------------------
SlaveReset ==
    /\ sck_delay' = 0 /\ bit_counter' = 0
    /\ ss_delay' = FALSE /\ ready_at_start' = FALSE
    /\ from_master' = Zero /\ send_buf' = Zero /\ miso' = 0
    /\ finished' = FALSE /\ err' = FALSE

SSRise ==
    /\ ~ss_delay /\ ss
    /\ bit_counter' = 0
    /\ finished' = FALSE /\ err' = FALSE
    /\ ready_at_start' = rdy
    /\ setup_bits
    /\ UNCHANGED from_master

SSFall ==
    /\ ss_delay /\ ~ss
    /\ finished' = ready_at_start
    /\ UNCHANGED <<bit_counter, err, ready_at_start, send_buf, miso,
                   from_master>>

SckEdge ==
    /\ ss_delay /\ ss
    /\ sck_delay # sck
    /\ IF sck # mode.PHASE THEN read_data ELSE write_data
    /\ IF sck # mode.POLARITY
       THEN check_counter
       ELSE UNCHANGED <<bit_counter, err>>
    /\ UNCHANGED <<finished, ready_at_start>>

NoEdge ==
    /\ ss_delay /\ ss
    /\ sck_delay = sck
    /\ UNCHANGED <<bit_counter, err, ready_at_start, send_buf, miso,
                   from_master, finished>>

Deselected ==
    /\ ~ss_delay /\ ~ss
    /\ IF rdy
       THEN UNCHANGED <<finished, err>>
       ELSE finished' = FALSE /\ err' = FALSE
    /\ UNCHANGED <<bit_counter, ready_at_start, send_buf, miso, from_master>>

MosiBuffer == read_mosi' = mosi_hot /\ mosi_hot' = mosi

SlaveStep ==
    /\ SSRise \/ SSFall \/ SckEdge \/ NoEdge \/ Deselected
    /\ sck_delay' = sck
    /\ ss_delay' = ss
    /\ MosiBuffer

SlaveHalt == SlaveReset /\ MosiBuffer
=============================================================================
