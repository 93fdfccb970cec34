------------------------------ MODULE RamShim ------------------------------
(***************************************************************************)
(* The RAM shim, raster/ram_shim.v, with the FIFO inside it, and the       *)
(* environment of its test bench ram_shim_sim.cpp: a processor that sets   *)
(* the region up and polls the write pointer, a producer of samples and a  *)
(* memory that takes its time.                                             *)
(*                                                                         *)
(* One step is one rising edge, followed by what the bench does after      *)
(* run_clock(): the bench sees the registers as the edge left them.        *)
(*                                                                         *)
(* A sample has DAT_WID bits and goes to memory as two words of RAM_WORD   *)
(* bits.                                                                   *)
(***************************************************************************)
EXTENDS RamFifo

CONSTANTS
    DAT_WID, RAM_WORD,
    BYTES,              \* RAM_WORD/8, the bytes of a word
    AddrMod,            \* 2^RAM_WID
    MEMORY_START,
    MEMORY_LENS,        \* the lengths the processor may give the region
    MEMORY_WAIT_TIME,   \* the longest delay of the memory, in cycles
    CYCLE_WAIT,         \* the longest pause between two samples
    SAMPLES             \* how many samples are sent

(* "THIS MODULE ASSUMES that RAM_WORD < DAT_WID < RAM_WORD*2" *)
ASSUME WidthAssumption ==
    /\ DAT_WID \in Nat /\ RAM_WORD \in Nat
    /\ RAM_WORD < DAT_WID /\ DAT_WID < 2 * RAM_WORD
ASSUME WordsAssumption  == Data \subseteq 0..2^DAT_WID - 1
(* Words of 16 bits; the region may be of any length that fits.            *)
ASSUME RegionAssumption ==
    /\ {AddrMod, MEMORY_START} \cup MEMORY_LENS \subseteq Nat \ {0}
    /\ BYTES = 2 /\ AddrMod % BYTES = 0
    /\ \A len \in MEMORY_LENS : MEMORY_START + len < AddrMod
(* Arithmetic, named for the proofs. *)
ASSUME PowerAssumption ==
    /\ {2^RAM_WORD, 2^DAT_WID, 2^(DAT_WID - RAM_WORD)} \subseteq Nat \ {0}
    /\ 2^(DAT_WID - RAM_WORD) <= 2^RAM_WORD
    /\ 2^DAT_WID = 2^(DAT_WID - RAM_WORD) * 2^RAM_WORD
    /\ 2^(2 * RAM_WORD) = 2^RAM_WORD * 2^RAM_WORD
ASSUME PaceAssumption ==
    {MEMORY_WAIT_TIME, CYCLE_WAIT, SAMPLES} \subseteq Nat \ {0}

VARIABLES
    \* commands of the processor
    cmd_data, cmd, cmd_active, cmd_finished, cmd_data_out,
    loc_start, loc_len, loc_off,
    \* samples
    data, data_commit, finished, write_enable, write_dat,
    \* memory bus
    writestate, read_enable, word, write, valid,
    \* the bench
    setup,              \* how far init_memory() is
    cntr, memory_counter,
    generated,          \* generated_memory: the samples sent
    stored              \* what the memory was given, in the order it was

cmdVars  == <<cmd_finished, cmd_data_out, loc_start, loc_len>>
kernel   == <<cmd_data, cmd, cmd_active, setup>>
writeOut == <<writestate, read_enable, word, write>>
producer == <<data, data_commit, cntr, generated>>
ram      == <<valid, memory_counter, stored>>
vars == <<fifoVars, cmdVars, loc_off, kernel, finished, write_enable, write_dat,
          writeOut, producer, ram>>

addr == (loc_start + loc_off) % AddrMod

Input == INSTANCE ShimInput WITH Zero <- 0

(* A sample in two words, the high one sign-extended.                      *)
LowWord(x) == x % 2^RAM_WORD

HighWordUnsigned(x) == x \div 2^RAM_WORD    \* mutant: no sign extension

HighWord(x) ==
    IF x >= 2^(DAT_WID - 1)
    THEN (x \div 2^RAM_WORD) + 2^RAM_WORD - 2^(DAT_WID - RAM_WORD)
    ELSE x \div 2^RAM_WORD

-----------------------------------------------------------------------------
(* Commands.  One that is held after `cmd_finished` is executed again.     *)

Executes(c) == cmd_active /\ ~cmd_finished /\ cmd = c

PointerAhead == (addr + BYTES) % AddrMod    \* mutant: the next offset's

Pointer == addr

Command ==
    /\ loc_start' = IF Executes("WRITE_LOC") THEN cmd_data ELSE loc_start
    /\ loc_len' = IF Executes("WRITE_LEN") THEN cmd_data ELSE loc_len
    /\ cmd_data_out' = IF Executes("READ_PTR") THEN Pointer ELSE cmd_data_out
    /\ cmd_finished' = (cmd_active /\ ~cmd_finished)

-----------------------------------------------------------------------------
(* From the FIFO to memory *)

WaitOnEmpty ==
    /\ writestate = "WAIT_ON_EMPTY"
    /\ IF empty
       THEN UNCHANGED <<writestate, read_enable>>
       ELSE writestate' = "READ_OFF_FIFO" /\ read_enable' = TRUE
    /\ UNCHANGED <<word, write>>

(* The first cycle reads the FIFO, the second takes the output. *)
ReadOffFifo ==
    /\ writestate = "READ_OFF_FIFO"
    /\ \/ /\ read_enable
          /\ read_enable' = FALSE
          /\ UNCHANGED <<writestate, word, write>>
       \/ /\ ~read_enable
          /\ word' = LowWord(read_dat)
          /\ write' = TRUE
          /\ writestate' = "HIGH_WORD_LOAD"
          /\ UNCHANGED read_enable

HighWordLoad ==
    /\ writestate = "HIGH_WORD_LOAD"
    /\ IF valid
       THEN /\ write' = FALSE
            /\ word' = HighWord(read_dat)
            /\ writestate' = "WAIT_ON_HIGH_WORD"
       ELSE UNCHANGED <<write, word, writestate>>
    /\ UNCHANGED read_enable

WaitOnHighWordAtOnce ==         \* mutant: does not wait for the memory
    /\ writestate = "WAIT_ON_HIGH_WORD"
    /\ write' = ~write
    /\ writestate' = IF write THEN "WAIT_ON_EMPTY" ELSE writestate
    /\ UNCHANGED <<word, read_enable>>

WaitOnHighWordKeepingWrite ==   \* mutant: write is not released at the end
    /\ writestate = "WAIT_ON_HIGH_WORD"
    /\ write' = TRUE
    /\ writestate' = IF write /\ valid THEN "WAIT_ON_EMPTY" ELSE writestate
    /\ UNCHANGED <<word, read_enable>>

WaitOnHighWord ==
    /\ writestate = "WAIT_ON_HIGH_WORD"
    /\ \/ /\ ~write
          /\ write' = TRUE
          /\ UNCHANGED writestate
       \/ /\ write /\ valid
          /\ write' = FALSE
          /\ writestate' = "WAIT_ON_EMPTY"
       \/ /\ write /\ ~valid
          /\ UNCHANGED <<write, writestate>>
    /\ UNCHANGED <<word, read_enable>>

WriteOut == WaitOnEmpty \/ ReadOffFifo \/ HighWordLoad \/ WaitOnHighWord

WordTaken ==
    /\ valid
    /\ \/ writestate = "HIGH_WORD_LOAD"
       \/ writestate = "WAIT_ON_HIGH_WORD" /\ write

(* The test is for equality, and offsets are even: for an even length it   *)
(* never succeeds.                                                         *)
NextOffset == IF loc_off = loc_len - 1 THEN 0 ELSE (loc_off + BYTES) % AddrMod

(* Two always blocks assign loc_off; when both do so in one cycle, either  *)
(* may win.                                                                *)
Offset ==
    LET assigned == (IF WordTaken THEN {NextOffset} ELSE {})
               \cup (IF Executes("WRITE_LOC") \/ Executes("WRITE_LEN")
                     THEN {0} ELSE {})
    IN loc_off' \in IF assigned = {} THEN {loc_off} ELSE assigned

ShimEdge ==
    /\ Command /\ Offset
    /\ WriteOut
    /\ Input!Accept(full)
    /\ FifoEdge(FALSE, read_enable, write_enable, write_dat)
-----------------------------------------------------------------------------
(* The bench *)

(* A command is held until it is finished, or longer: the processor may be *)
(* slow to withdraw it, and the shim then executes it again.               *)
HoldCommand == cmd_active /\ UNCHANGED kernel

AwaitFinished ==
    /\ cmd_active /\ cmd_finished'
    /\ cmd_active' = FALSE
    /\ setup' = IF cmd = "WRITE_LEN" THEN "loc" ELSE "done"
    /\ UNCHANGED <<cmd, cmd_data>>

Issue(c, d) ==
    /\ ~cmd_active
    /\ cmd' = c /\ cmd_data' = d /\ cmd_active' = TRUE
    /\ UNCHANGED setup

(* First the length, which is there from the start, then the location.     *)
init_memory == setup = "loc" /\ Issue("WRITE_LOC", MEMORY_START)

(* From then on the processor asks for the pointer when it likes.          *)
read_shim_ptr == setup = "done" /\ Issue("READ_PTR", cmd_data)

Kernel ==
    \/ HoldCommand \/ AwaitFinished \/ init_memory \/ read_shim_ptr
    \/ setup = "done" /\ ~cmd_active /\ UNCHANGED kernel

(* A sample is held until `finished` and taken back in the same cycle; the *)
(* next may follow at once or up to CYCLE_WAIT cycles later.               *)
Commit(v) ==
    /\ setup = "done"
    /\ ~data_commit /\ ~finished'
    /\ Len(generated) < SAMPLES
    /\ data' = v /\ data_commit' = TRUE
    /\ generated' = Append(generated, v)
    /\ UNCHANGED cntr

Withdraw ==
    /\ data_commit /\ finished'
    /\ data_commit' = FALSE
    /\ cntr' = 0
    /\ UNCHANGED <<data, generated>>

Hold ==
    /\ data_commit /\ ~finished'
    /\ UNCHANGED producer

Pause ==
    /\ ~data_commit
    /\ IF setup # "done" \/ Len(generated) = SAMPLES \/ finished'
       THEN UNCHANGED cntr
       ELSE cntr < CYCLE_WAIT /\ cntr' = cntr + 1
    /\ UNCHANGED <<data, data_commit, generated>>

Produce == Withdraw \/ Hold \/ Pause \/ \E v \in Data : Commit(v)

(* The memory takes address and word in the first cycle of an access and   *)
(* answers in that cycle (raster_sim.cpp) or up to MEMORY_WAIT_TIME later, *)
(* until `write` falls.                                                    *)
handle_memory ==
    \/ /\ write'
       /\ IF memory_counter = 0
          THEN stored' = Append(stored, [addr |-> addr', word |-> word'])
          ELSE UNCHANGED stored
       /\ IF memory_counter < MEMORY_WAIT_TIME /\ ~valid
          THEN memory_counter' = memory_counter + 1 /\ valid' \in BOOLEAN
          ELSE UNCHANGED memory_counter /\ valid' = TRUE
    \/ /\ ~write'
       /\ valid' = FALSE
       /\ memory_counter' = 0
       /\ UNCHANGED stored

init_values ==
    /\ cmd_data \in MEMORY_LENS /\ cmd = "WRITE_LEN" /\ cmd_active = TRUE
    /\ setup = "len"
    /\ data = 0 /\ data_commit = FALSE
    /\ valid = FALSE
    /\ cntr = 0 /\ memory_counter = 0
    /\ generated = <<>> /\ stored = <<>>

Init ==
    /\ init_values
    /\ FifoInit /\ Input!InputInit
    /\ cmd_finished = FALSE /\ cmd_data_out = 0
    /\ loc_start = 0 /\ loc_len = 0 /\ loc_off = 0
    /\ writestate = "WAIT_ON_EMPTY" /\ read_enable = FALSE
    /\ word = 0 /\ write = FALSE

Next ==
    /\ ShimEdge
    /\ Kernel
    /\ Produce
    /\ handle_memory

(* The clock does not stop. *)
Spec == Init /\ [][Next]_vars /\ WF_vars(Next)
-----------------------------------------------------------------------------
(* What main() compares the memory with.                                   *)

(* To 2*RAM_WORD bits. *)
sign_extend(x) ==
    IF x >= 2^(DAT_WID - 1) THEN x + 2^(2 * RAM_WORD) - 2^DAT_WID ELSE x

(* The k-th word that memory should be given, k from 1. *)
ExpectedWord(k) ==
    LET nv == sign_extend(generated[(k + 1) \div 2])
    IN IF k % 2 = 1 THEN nv % 2^RAM_WORD ELSE nv \div 2^RAM_WORD

(* Where a word may go after k words: behind the last one, or, when no     *)
(* whole word fits behind that, at the start again.                        *)
Follows(k, a) ==
    \/ k > 0 /\ a = (stored[k].addr + BYTES) % AddrMod
    \/ /\ a = MEMORY_START
       /\ k > 0 => stored[k].addr + 2 * BYTES > MEMORY_START + loc_len
-----------------------------------------------------------------------------
(* Properties *)

(* Every register keeps to its range, and the FIFO to its invariant.       *)
ShimTypeOK ==
    /\ FifoInv
    /\ {cmd_active, cmd_finished, data_commit, finished, write_enable,
        read_enable, write, valid} \subseteq BOOLEAN
    /\ cmd \in {"WRITE_LEN", "WRITE_LOC", "READ_PTR"}
    /\ setup \in {"len", "loc", "done"}
    /\ {cmd_data, cmd_data_out, loc_start, loc_len, loc_off}
            \subseteq 0..AddrMod - 1
    /\ writestate \in {"WAIT_ON_EMPTY", "READ_OFF_FIFO", "HIGH_WORD_LOAD",
                       "WAIT_ON_HIGH_WORD"}
    /\ {data, write_dat} \subseteq Data \cup {0}
    /\ word \in 0..2^RAM_WORD - 1
    /\ cntr \in 0..CYCLE_WAIT /\ memory_counter \in 0..MEMORY_WAIT_TIME

(* Memory is given the low and the high word of every sample, sign         *)
(* extended, in the order the samples were sent, none twice and none left  *)
(* out, at consecutive places that leave no room of the region unused      *)
(* before they start again: however the pauses of the producer and the     *)
(* delays of the memory fall, and with a FIFO that is full for a while.  A *)
(* region of odd length is started again in time: every word begins in it. *)
StoredInOrder ==
    \A k \in 1..Len(stored) :
        /\ (k + 1) \div 2 <= Len(generated)
        /\ stored[k].word = ExpectedWord(k)
        /\ Follows(k - 1, stored[k].addr)
        /\ loc_len % BYTES = 1 =>
              stored[k].addr \in MEMORY_START..MEMORY_START + loc_len - 1

(* "The kernel allocates memory and informs the shim what the memory       *)
(* location is, and how long it is (max certain length)", in bytes         *)
(* (ram_shim.v:26-27, 53): no word reaches beyond the region.              *)
RegionKept ==
    \A k \in 1..Len(stored) :
        /\ stored[k].addr >= MEMORY_START
        /\ stored[k].addr + BYTES <= MEMORY_START + loc_len

(* "This is also where the current write pointer is found so that the      *)
(* kernel can read data from the scanner into memory" (ram_shim.v): the    *)
(* pointer the processor is given is never beyond a word that memory has   *)
(* not acknowledged, and at most one acknowledged word behind.             *)
Acknowledged == Len(stored) - IF memory_counter > 0 /\ ~valid THEN 1 ELSE 0

PointerNeverAhead ==
    [][Executes("READ_PTR") =>
          \E k \in Acknowledged - 1..Acknowledged :
              k >= 0 /\ Follows(k, cmd_data_out')]_vars

(* The memory bus: a write stays up, with its word and its address, until  *)
(* the memory has answered (the assertion at the end of handle_memory).    *)
BusHeld == [][write /\ ~valid => write' /\ UNCHANGED <<word, addr>>]_vars

(* Every sample that is offered gets to memory. *)
AllStored ==
    \A n \in 1..SAMPLES : Len(generated) = n ~> Len(stored) >= 2 * n
=============================================================================
