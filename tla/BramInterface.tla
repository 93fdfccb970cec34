--------------------------- MODULE BramInterface ---------------------------
(***************************************************************************)
(* The waveform's copy of its words, waveform/bram_interface.v: one state  *)
(* machine copies the words from memory, a half at a time, when the user   *)
(* asks for a refresh; another hands them out in turn.  With it the memory *)
(* (waveform/dma_sim.v) and the user who refreshes (refresh_data and       *)
(* refresh_posedge of waveform_sim.cpp).                                   *)
(*                                                                         *)
(* What memory holds is told apart by when it was put there and where: a   *)
(* half word is <<generation, place>>.                                     *)
(***************************************************************************)
EXTENDS Integers

CONSTANTS
    WORD_AMNT,          \* "the last INDEX, not the LENGTH of the word array"
    CounterMod,         \* 2^WORD_AMNT_WID
    start_addr, RAM_WORD_INCR,
    AddrMod,            \* 2^RAM_WID
    DELAY_TOTAL,        \* the longest delay of the memory, in cycles
    Generations         \* the contents memory can have, used in turn

ASSUME WordsAssumption ==
    WORD_AMNT \in Nat /\ CounterMod \in Nat /\ WORD_AMNT < CounterMod
ASSUME MemoryAssumption ==
    /\ {start_addr, DELAY_TOTAL} \subseteq Nat
    /\ {RAM_WORD_INCR, AddrMod} \subseteq Nat \ {0}
    /\ start_addr + 2 * (WORD_AMNT + 1) * RAM_WORD_INCR < AddrMod
    /\ Generations = 1..3

VARIABLES
    word, word_last, word_ok, auto_cntr,            \* the words handed out
    backing_buffer, refresh_state, word_cntr_refresh,
    refresh_finished, ram_dma_addr, ram_read,       \* the copying
    ram_word, ram_valid, delay_cntr,                \* memory
    refresh_start, generation                       \* the user

serverVars  == <<word, word_last, word_ok, auto_cntr>>
refreshVars == <<backing_buffer, refresh_state, word_cntr_refresh,
                 refresh_finished, ram_dma_addr, ram_read>>
memoryVars  == <<ram_word, ram_valid, delay_cntr>>
refresher   == <<refresh_start, generation>>
bramVars    == <<serverVars, refreshVars, memoryVars, refresher>>

Indices == 0..WORD_AMNT
Half    == (Generations \X (0..2 * WORD_AMNT + 1)) \cup {<<0, 0>>}
NoHalf  == <<0, 0>>
NoWord  == [low |-> NoHalf, high |-> NoHalf]

(* The word of index i as memory held it in generation g.                  *)
Written(g, i) == [low |-> <<g, 2 * i>>, high |-> <<g, 2 * i + 1>>]

BramInit ==
    /\ word = NoWord /\ word_last = FALSE /\ word_ok = FALSE /\ auto_cntr = 0
    /\ backing_buffer = [i \in Indices |-> NoWord]
    /\ refresh_state = "WAIT_ON_REFRESH" /\ word_cntr_refresh = 0
    /\ refresh_finished = FALSE
    /\ ram_dma_addr = 0 /\ ram_read = FALSE
    /\ ram_word = NoHalf /\ ram_valid = FALSE /\ delay_cntr = 0
-----------------------------------------------------------------------------
(* Copying the words *)

WaitOnRefresh ==
    /\ refresh_state = "WAIT_ON_REFRESH"
    /\ IF refresh_start
       THEN /\ ram_dma_addr' = start_addr
            /\ refresh_state' = "READ_LOW_WORD"
            /\ word_cntr_refresh' = 0
       ELSE UNCHANGED <<ram_dma_addr, refresh_state, word_cntr_refresh>>
    /\ UNCHANGED <<backing_buffer, refresh_finished, ram_read>>

(* The read of either half is raised in one cycle and waits for its answer *)
(* from the next.                                                          *)
RaiseRead ==
    /\ refresh_state \in {"READ_LOW_WORD", "READ_HIGH_WORD"}
    /\ ~ram_read
    /\ ram_read' = TRUE
    /\ UNCHANGED <<backing_buffer, refresh_state, word_cntr_refresh,
                   refresh_finished, ram_dma_addr>>

AwaitHalf ==
    /\ refresh_state \in {"READ_LOW_WORD", "READ_HIGH_WORD"}
    /\ ram_read /\ ~ram_valid
    /\ UNCHANGED refreshVars

HalfTaken ==
    /\ ram_read /\ ram_valid
    /\ ram_dma_addr' = (ram_dma_addr + RAM_WORD_INCR) % AddrMod
    /\ ram_read' = FALSE
    /\ UNCHANGED refresh_finished

ReadLowWord ==
    /\ refresh_state = "READ_LOW_WORD"
    /\ HalfTaken
    /\ backing_buffer' = [backing_buffer EXCEPT ![word_cntr_refresh].low = ram_word]
    /\ refresh_state' = "READ_HIGH_WORD"
    /\ UNCHANGED word_cntr_refresh

ReadHighWord ==
    /\ refresh_state = "READ_HIGH_WORD"
    /\ HalfTaken
    /\ backing_buffer' = [backing_buffer EXCEPT ![word_cntr_refresh].high = ram_word]
    /\ word_cntr_refresh' = (word_cntr_refresh + 1) % CounterMod
    /\ refresh_state' = IF word_cntr_refresh = WORD_AMNT
                        THEN "WAIT_ON_REFRESH_DEASSERT" ELSE "READ_LOW_WORD"

WaitOnRefreshDeassert ==
    /\ refresh_state = "WAIT_ON_REFRESH_DEASSERT"
    /\ refresh_finished' = refresh_start
    /\ refresh_state' = IF refresh_start THEN refresh_state ELSE "WAIT_ON_REFRESH"
    /\ UNCHANGED <<backing_buffer, word_cntr_refresh, ram_dma_addr, ram_read>>

Refresh ==
    \/ WaitOnRefresh \/ RaiseRead \/ AwaitHalf
    \/ ReadLowWord \/ ReadHighWord \/ WaitOnRefreshDeassert

(* The buffer is not reset "because that would take too long". *)
RefreshReset ==
    /\ refresh_finished' = FALSE
    /\ ram_dma_addr' = 0 /\ ram_read' = FALSE
    /\ refresh_state' = "WAIT_ON_REFRESH" /\ word_cntr_refresh' = 0
    /\ UNCHANGED backing_buffer
-----------------------------------------------------------------------------
(* Handing the words out *)

WordReset ==
    /\ auto_cntr' = 0
    /\ word_ok' = FALSE /\ word_last' = FALSE /\ word' = NoWord

HandOutAnyTime(word_next) ==    \* mutant: a refresh under way is not waited for
    /\ word_next /\ ~word_ok
    /\ word' = backing_buffer[auto_cntr]
    /\ word_ok' = TRUE
    /\ word_last' = (auto_cntr = WORD_AMNT)
    /\ auto_cntr' = IF auto_cntr = WORD_AMNT THEN 0 ELSE auto_cntr + 1

HandOut(word_next) ==
    /\ word_next /\ ~word_ok
    /\ refresh_state = "WAIT_ON_REFRESH"
    /\ word' = backing_buffer[auto_cntr]
    /\ word_ok' = TRUE
    /\ word_last' = (auto_cntr = WORD_AMNT)
    /\ auto_cntr' = IF auto_cntr = WORD_AMNT THEN 0 ELSE auto_cntr + 1

Serve(word_next, word_rst) ==
    \/ word_rst /\ WordReset
    \/ ~word_rst /\ HandOut(word_next)
    \/ /\ ~word_rst /\ ~word_next /\ word_ok
       /\ word_ok' = FALSE
       /\ UNCHANGED <<word, word_last, auto_cntr>>
    \/ /\ ~word_rst /\ word_next = word_ok
       /\ UNCHANGED serverVars
    \/ /\ ~word_rst /\ word_next /\ ~word_ok
       /\ refresh_state # "WAIT_ON_REFRESH"
       /\ UNCHANGED serverVars
-----------------------------------------------------------------------------
(* Memory, which has no reset: a read that is taken back and raised again  *)
(* must have been low at an edge.  dma_sim.v waits for DELAY_TOTAL cycles, *)
(* here for up to so many.                                                 *)
Dma ==
    \/ /\ ~ram_read
       /\ delay_cntr' = 0 /\ ram_valid' = FALSE
       /\ UNCHANGED ram_word
    \/ /\ ram_read /\ delay_cntr < DELAY_TOTAL
       /\ delay_cntr' \in {delay_cntr + 1, DELAY_TOTAL}
       /\ UNCHANGED <<ram_word, ram_valid>>
    \/ /\ ram_read /\ delay_cntr = DELAY_TOTAL
       /\ ram_valid' = TRUE
       /\ ram_word' = IF ram_valid THEN ram_word
                      ELSE <<generation, (ram_dma_addr - start_addr) \div RAM_WORD_INCR>>
       /\ UNCHANGED delay_cntr
-----------------------------------------------------------------------------
(* The user puts new words into memory and asks for a refresh, with the    *)
(* last one over; the request is held until refresh_finished.              *)

refresh_data ==
    /\ ~refresh_start /\ ~refresh_finished'
    /\ refresh_start' = TRUE
    /\ generation' = 1 + (generation % 3)

refresh_posedge ==
    /\ refresh_start' = (refresh_start /\ ~refresh_finished')
    /\ UNCHANGED generation

(* The test benches ask for the first one before the first clock.          *)
RefresherInit == refresh_start = TRUE /\ generation = 1

RefreshUser == refresh_data \/ refresh_posedge
=============================================================================
