------------------------------ MODULE RamFifo ------------------------------
(***************************************************************************)
(* The FIFO between the raster unit and system memory: raster/ram_fifo.v   *)
(* (the size counter and its flags) around raster/ram_fifo_dual_port.v     *)
(* (the memory with its two pointers), and its test bench ram_fifo_sim.cpp.*)
(* One step is one rising edge; the inputs are parameters of FifoEdge, for *)
(* the units that contain a FIFO.                                          *)
(***************************************************************************)
EXTENDS Integers, Sequences

CONSTANTS
    FIFO_DEPTH,
    SizeMod,        \* 2^FIFO_DEPTH_WID
    Data            \* what a word can be

ASSUME DepthAssumption == FIFO_DEPTH \in Nat \ {0}
ASSUME SizeAssumption  == SizeMod \in Nat /\ FIFO_DEPTH < SizeMod
ASSUME DataAssumption  == Data # {}

VARIABLES fifo_size, read_ptr, write_ptr, memory, read_dat

fifoVars == <<fifo_size, read_ptr, write_ptr, memory, read_dat>>

Slots == 0..FIFO_DEPTH - 1

(* Block RAM and the output register come up with anything in them.        *)
FifoInit ==
    /\ fifo_size = 0 /\ read_ptr = 0 /\ write_ptr = 0
    /\ memory \in [Slots -> Data]
    /\ read_dat \in Data

empty == fifo_size = 0
full  == fifo_size = FIFO_DEPTH

Following(ptr) == IF ptr = FIFO_DEPTH - 1 THEN 0 ELSE ptr + 1

ReadPort(rst, re) ==
    /\ read_ptr' = IF rst THEN 0 ELSE IF re THEN Following(read_ptr) ELSE read_ptr
    /\ read_dat' = IF re /\ ~rst THEN memory[read_ptr] ELSE read_dat

WritePortStuck(rst, we, wd) ==      \* mutant: the pointer does not wrap
    /\ write_ptr' = IF rst THEN 0
                    ELSE IF we /\ write_ptr < FIFO_DEPTH - 1 THEN write_ptr + 1
                    ELSE write_ptr
    /\ memory' = IF we /\ ~rst THEN [memory EXCEPT ![write_ptr] = wd] ELSE memory

WritePort(rst, we, wd) ==
    /\ write_ptr' = IF rst THEN 0 ELSE IF we THEN Following(write_ptr) ELSE write_ptr
    /\ memory' = IF we /\ ~rst THEN [memory EXCEPT ![write_ptr] = wd] ELSE memory

(* Nothing stops the counter at its ends: it wraps. *)
SizeCounter(rst, re, we) ==
    fifo_size' = IF rst THEN 0
                 ELSE IF re /\ ~we THEN (fifo_size - 1) % SizeMod
                 ELSE IF we /\ ~re THEN (fifo_size + 1) % SizeMod
                 ELSE fifo_size

FifoEdge(rst, re, we, wd) ==
    /\ ReadPort(rst, re)
    /\ WritePort(rst, we, wd)
    /\ SizeCounter(rst, re, we)

(* The two $error checks of the simulation build, and one they leave out:  *)
(* a read of an empty FIFO that is written in the same cycle.              *)
Legal(re, we) ==
    /\ re => ~empty
    /\ we /\ ~re => ~full

(* Any user who is careful. *)
LegalEdge ==
    \E rst, re, we \in BOOLEAN, wd \in Data :
        Legal(re, we) /\ FifoEdge(rst, re, we, wd)

FifoSpec == FifoInit /\ [][LegalEdge]_fifoVars
-----------------------------------------------------------------------------
(* The test bench: one operation per cycle, an idle cycle after each, in   *)
(* any order the flags allow where main() has one fixed order.             *)

push(v) == ~full /\ FifoEdge(FALSE, FALSE, TRUE, v)

pop == ~empty /\ FifoEdge(FALSE, TRUE, FALSE, read_dat)

BenchNext == pop \/ \E v \in Data : push(v)

BenchSpec == FifoInit /\ [][BenchNext]_fifoVars
-----------------------------------------------------------------------------
(* Properties *)

(* Pointers and counter, three registers in two modules that never see     *)
(* each other, agree about what the FIFO holds.                            *)
FifoInv ==
    /\ fifo_size \in 0..FIFO_DEPTH
    /\ read_ptr \in Slots /\ write_ptr \in Slots
    /\ memory \in [Slots -> Data]
    /\ read_dat \in Data
    /\ write_ptr = IF read_ptr + fifo_size < FIFO_DEPTH
                   THEN read_ptr + fifo_size
                   ELSE read_ptr + fifo_size - FIFO_DEPTH

Slot(i) == IF read_ptr + i < FIFO_DEPTH THEN read_ptr + i
                                        ELSE read_ptr + i - FIFO_DEPTH

Contents == [i \in 1..fifo_size |-> memory[Slot(i - 1)]]

AsQueue == INSTANCE Queue WITH
    Capacity <- FIFO_DEPTH, queue <- Contents, out <- read_dat

(* A user that looks at the flags has a queue: the FIFO neither overflows  *)
(* nor underflows (the $error checks of ram_fifo.v), and what is read is   *)
(* what was written, in order (pop_random of ram_fifo_sim.cpp).            *)
FifoIsQueue == AsQueue!QueueSpec
=============================================================================
