------------------------------ MODULE Waveform ------------------------------
(***************************************************************************)
(* The waveform unit, waveform/waveform.v, which writes the words of its   *)
(* buffer to a DAC one after the other, and the environment of its test    *)
(* bench waveform_sim.cpp.  The SPI master of the DAC is its contract,     *)
(* SpiTransfer.                                                            *)
(*                                                                         *)
(* One step is one rising edge followed by what the bench does after it.   *)
(* The bench arms, disarms, refreshes and asks for a halt at fixed points; *)
(* here the user does so in any cycle, and the unit is reset in any cycle. *)
(***************************************************************************)
EXTENDS BramInterface

CONSTANTS
    Times,              \* values of time_to_wait
    DAC_SS_WAIT

ASSUME TimesAssumption == Times \subseteq Nat /\ Times # {}
ASSUME SelectAssumption == DAC_SS_WAIT \in Nat \ {0}

VARIABLES
    arm, halt_on_finish, time_to_wait,              \* the user
    state, wait_timer, finished, word_next, word_rst,
    dac_out, dac_arm,
    dac_phase, dac_count, dac_lag, dac_finished, dac_sent,
    clk, cur_ind                                    \* history

user     == <<arm, halt_on_finish, time_to_wait>>
unitVars == <<state, wait_timer, finished, word_next, word_rst, dac_out, dac_arm>>
dacVars  == <<dac_phase, dac_count, dac_lag, dac_finished, dac_sent>>
vars     == <<bramVars, user, unitVars, dacVars, clk, cur_ind>>

(* A frame to the DAC is {4'b0001, word}. *)
Frame(w)  == [register |-> 1, word |-> w]
ZeroFrame == [register |-> 0, word |-> NoWord]
Frames    == [register : {0, 1}, word : [low : Half, high : Half]]

(* The master has no MISO. *)
Dac == INSTANCE SpiTransfer WITH
    SS_WAIT <- DAC_SS_WAIT, WordSet <- Frames, ZeroWord <- ZeroFrame,
    Garbage <- {ZeroFrame},
    arm <- dac_arm, to_slave <- dac_out, to_master <- [register |-> 0, word |-> NoWord],
    phase <- dac_phase, count <- dac_count, lag <- dac_lag,
    finished <- dac_finished, from_slave <- [register |-> 0, word |-> NoWord], sent <- dac_sent,
    loaded <- [register |-> 0, word |-> NoWord]

running == state # "WAIT_ON_ARM"

Init ==
    /\ BramInit /\ RefresherInit
    /\ arm \in BOOLEAN /\ halt_on_finish \in BOOLEAN /\ time_to_wait \in Times
    /\ state = "WAIT_ON_ARM" /\ wait_timer = 0 /\ finished = FALSE
    /\ word_next = FALSE /\ word_rst = TRUE
    /\ dac_out = ZeroFrame /\ dac_arm = FALSE
    /\ Dac!PowerUp
    /\ clk = FALSE /\ cur_ind = 0
-----------------------------------------------------------------------------
WaitOnArm ==
    /\ state = "WAIT_ON_ARM"
    /\ finished' = FALSE
    /\ IF arm
       THEN state' = "DO_WAIT" /\ word_rst' = FALSE /\ wait_timer' = time_to_wait
       ELSE word_rst' = TRUE /\ UNCHANGED <<state, wait_timer>>
    /\ UNCHANGED <<word_next, dac_out, dac_arm>>

(* The only state in which arm is looked at while words are played.        *)
DoWait ==
    /\ state = "DO_WAIT"
    /\ \/ /\ ~arm
          /\ state' = "WAIT_ON_ARM"
          /\ UNCHANGED <<wait_timer, word_next>>
       \/ /\ arm /\ wait_timer = 0
          /\ word_next' = TRUE
          /\ state' = "RECV_WORD"
          /\ wait_timer' = time_to_wait
       \/ /\ arm /\ wait_timer > 0
          /\ wait_timer' = wait_timer - 1
          /\ UNCHANGED <<state, word_next>>
    /\ UNCHANGED <<finished, word_rst, dac_out, dac_arm>>

RecvWordPulsing ==              \* mutant: word_next is up for one cycle
    /\ state = "RECV_WORD"
    /\ word_next' = FALSE
    /\ IF word_ok
       THEN dac_out' = Frame(word) /\ dac_arm' = TRUE /\ state' = "WAIT_ON_DAC"
       ELSE UNCHANGED <<dac_out, dac_arm, state>>
    /\ UNCHANGED <<wait_timer, finished, word_rst>>

RecvWord ==
    /\ state = "RECV_WORD"
    /\ IF word_ok
       THEN /\ dac_out' = Frame(word)
            /\ dac_arm' = TRUE
            /\ word_next' = FALSE
            /\ state' = "WAIT_ON_DAC"
       ELSE UNCHANGED <<dac_out, dac_arm, word_next, state>>
    /\ UNCHANGED <<wait_timer, finished, word_rst>>

WaitOnDacArmed ==               \* mutant: arm is looked at too early
    /\ state = "WAIT_ON_DAC"
    /\ dac_arm' = (dac_arm /\ ~dac_finished /\ arm)
    /\ state' = IF ~arm THEN "WAIT_ON_ARM"
                ELSE IF dac_finished
                     THEN IF word_last /\ halt_on_finish THEN "WAIT_ON_DISARM" ELSE "DO_WAIT"
                     ELSE state
    /\ finished' = (finished \/ state' = "WAIT_ON_DISARM")
    /\ wait_timer' = IF dac_finished THEN time_to_wait ELSE wait_timer
    /\ UNCHANGED <<word_next, word_rst, dac_out>>

WaitOnDac ==
    /\ state = "WAIT_ON_DAC"
    /\ \/ /\ dac_finished
          /\ dac_arm' = FALSE
          /\ IF word_last /\ halt_on_finish
             THEN /\ state' = "WAIT_ON_DISARM" /\ finished' = TRUE
                  /\ UNCHANGED wait_timer
             ELSE /\ state' = "DO_WAIT" /\ wait_timer' = time_to_wait
                  /\ UNCHANGED finished
       \/ ~dac_finished /\ UNCHANGED <<dac_arm, state, wait_timer, finished>>
    /\ UNCHANGED <<word_next, word_rst, dac_out>>

WaitOnDisarm ==
    /\ state = "WAIT_ON_DISARM"
    /\ state' = IF arm THEN state ELSE "WAIT_ON_ARM"
    /\ UNCHANGED <<wait_timer, finished, word_next, word_rst, dac_out, dac_arm>>

UnitStep ==
    \/ WaitOnArm \/ DoWait \/ RecvWord \/ WaitOnDac \/ WaitOnDisarm

UnitReset ==
    /\ state' = "WAIT_ON_ARM" /\ wait_timer' = 0 /\ finished' = FALSE
    /\ word_rst' = TRUE /\ word_next' = FALSE
    /\ dac_out' = ZeroFrame /\ dac_arm' = FALSE
-----------------------------------------------------------------------------
(* The bench *)

(* time_to_wait is set before the first clock, as main() does.             *)
Operate ==
    /\ arm' \in BOOLEAN /\ halt_on_finish' \in BOOLEAN
    /\ UNCHANGED time_to_wait

(* cur_ind, the index of the word that the next frame must carry.  The     *)
(* bench only ever counts on; after a stop the unit begins again with the  *)
(* first word if arm was low for a cycle in which it was not running.      *)
Following(i) == IF i = WORD_AMNT THEN 0 ELSE i + 1

spi_posedge ==
    cur_ind' =
        IF ~running /\ ~arm THEN 0
        ELSE IF dac_phase = "settle" THEN Following(cur_ind)
        ELSE cur_ind

Edge ==
    /\ UnitStep
    /\ Refresh /\ Serve(word_next, word_rst)
    /\ Dac!Step
    /\ spi_posedge

Reset ==
    /\ UnitReset
    /\ RefreshReset /\ WordReset
    /\ Dac!Halt
    /\ cur_ind' = 0

Next ==
    /\ Edge \/ Reset
    /\ Dma /\ RefreshUser /\ Operate
    /\ clk' = ~clk

(* The clock does not stop, and a transfer comes to its end, as the SPI    *)
(* master promises.                                                        *)
Fairness ==
    /\ []<>clk /\ []<>~clk
    /\ []<>(dac_phase # "shift")

Spec == Init /\ [][Next]_vars /\ Fairness
-----------------------------------------------------------------------------
(* Properties *)

(* The DAC is written the words of memory in turn, each with both of its   *)
(* halves from the same refresh, and the word on its way to the DAC is     *)
(* from the last refresh asked for, or from the one before while that is   *)
(* under way: whenever a refresh is asked for in the middle of a waveform, *)
(* and whenever the unit is stopped, armed again or reset, a reset in the  *)
(* middle of a refresh included.                                           *)
Last(g) == IF g = 1 THEN 3 ELSE g - 1

PlayedInOrder ==
    /\ dac_phase = "settle" =>
           \E g \in Generations : dac_sent = Frame(Written(g, cur_ind))
    /\ state = "RECV_WORD" /\ word_ok =>
           \/ word = Written(generation, cur_ind)
           \/ refresh_start /\ word = Written(Last(generation), cur_ind)

(* "When in doubt, deassert arm and wait for running to be deasserted"     *)
(* (waveform.v): the DAC is then not in the middle of a word; and when the *)
(* unit reports that it has finished a waveform, that waveform has been    *)
(* written to its last word.                                               *)
StopsBetweenWords ==
    /\ ~running => dac_phase \notin {"select", "load", "shift", "settle"}
    /\ state = "WAIT_ON_DISARM" =>
           dac_phase \in {"done", "idle"} /\ cur_ind = 0

(* A unit that is disarmed stops, a refresh that is asked for is made, and *)
(* a waveform that is to halt does so, whatever goes on besides: as long   *)
(* as no reset comes between.                                              *)
Responds ==
    /\ ~arm ~> ~running \/ arm
    /\ refresh_start ~> refresh_finished \/ refresh_state = "WAIT_ON_REFRESH"
    /\ state = "DO_WAIT" /\ arm /\ halt_on_finish
           ~> finished \/ ~arm \/ ~halt_on_finish \/ ~running
=============================================================================
