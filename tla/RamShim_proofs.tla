--------------------------- MODULE RamShim_proofs ---------------------------
(***************************************************************************)
(* The FIFO of the RAM shim is a queue, whatever its depth and the width   *)
(* of its counter, for every user that looks at `empty` and `full`         *)
(* (FifoInv says where the write pointer is, given the read pointer and    *)
(* the size; with it the slots between the two hold the queue).  The shim  *)
(* is such a user, holds the memory bus, and puts every sample in memory   *)
(* in order, for every depth, width, region and pace of the two sides.     *)
(***************************************************************************)
EXTENDS RamShim, SequenceTheorems, TLAPS

(* The slot after the i-th one from the read pointer. *)
LEMMA SlotFacts ==
    ASSUME FifoInv, NEW i \in 0..FIFO_DEPTH - 1
    PROVE  /\ Slot(i) \in Slots
           /\ Following(read_ptr) \in Slots
           /\ fifo_size < FIFO_DEPTH => write_ptr = Slot(fifo_size)
           /\ \A j \in 0..FIFO_DEPTH - 1 : Slot(i) = Slot(j) => i = j
BY DepthAssumption DEF FifoInv, Slot, Slots, Following

LEMMA ContentsType ==
    ASSUME FifoInv
    PROVE  /\ Contents \in Seq(Data)
           /\ Len(Contents) = fifo_size
           /\ \A i \in 1..fifo_size : Contents[i] = memory[Slot(i - 1)]
<1>1. fifo_size \in Nat
  BY DepthAssumption DEF FifoInv
<1>2. \A i \in 1..fifo_size : memory[Slot(i - 1)] \in Data
  <2> SUFFICES ASSUME NEW i \in 1..fifo_size PROVE memory[Slot(i - 1)] \in Data
    OBVIOUS
  <2>1. i - 1 \in 0..FIFO_DEPTH - 1
    BY <1>1, DepthAssumption DEF FifoInv
  <2> QED
    BY <2>1, SlotFacts DEF FifoInv
<1>3. Contents \in [1..fifo_size -> Data]
  BY <1>2 DEF Contents
<1>4. Contents \in Seq(Data)
  BY <1>1, <1>3, SeqDef
<1>5. Len(Contents) = fifo_size
  BY <1>1, <1>3, <1>4, LenProperties
<1> QED
  BY <1>4, <1>5 DEF Contents

(* What the size counter does while nobody breaks the rules. *)
LEMMA SizeMoves ==
    ASSUME FifoInv, NEW rst \in BOOLEAN, NEW re \in BOOLEAN, NEW we \in BOOLEAN,
           Legal(re, we), SizeCounter(rst, re, we)
    PROVE  fifo_size' = IF rst THEN 0
                        ELSE IF re /\ ~we THEN fifo_size - 1
                        ELSE IF we /\ ~re THEN fifo_size + 1
                        ELSE fifo_size
<1>1. /\ fifo_size \in Int /\ fifo_size >= 0 /\ fifo_size <= FIFO_DEPTH
      /\ FIFO_DEPTH \in Nat /\ SizeMod \in Nat /\ FIFO_DEPTH < SizeMod
  BY DepthAssumption, SizeAssumption DEF FifoInv
<1>2. re => fifo_size > 0
  BY <1>1 DEF Legal, empty
<1>3. we /\ ~re => fifo_size < FIFO_DEPTH
  BY <1>1 DEF Legal, full
<1>4. \A n \in 0..SizeMod - 1 : n % SizeMod = n
  BY <1>1
<1> QED
  BY <1>1, <1>2, <1>3, <1>4 DEF SizeCounter

LEMMA InvInductive == ASSUME FifoInv, LegalEdge PROVE FifoInv'
<1> PICK rst \in BOOLEAN, re \in BOOLEAN, we \in BOOLEAN, wd \in Data :
        Legal(re, we) /\ FifoEdge(rst, re, we, wd)
  BY DEF LegalEdge
<1>1. fifo_size' = IF rst THEN 0
                   ELSE IF re /\ ~we THEN fifo_size - 1
                   ELSE IF we /\ ~re THEN fifo_size + 1
                   ELSE fifo_size
  BY SizeMoves DEF FifoEdge
<1>2. /\ re => fifo_size > 0
      /\ we /\ ~re => fifo_size < FIFO_DEPTH
  BY DepthAssumption DEF Legal, empty, full, FifoInv
<1>3. fifo_size' \in 0..FIFO_DEPTH
  BY <1>1, <1>2, DepthAssumption DEF FifoInv
<1>4. read_ptr' \in Slots /\ write_ptr' \in Slots
  BY DepthAssumption DEF FifoInv, FifoEdge, ReadPort, WritePort, Following, Slots
<1>5. memory' \in [Slots -> Data] /\ read_dat' \in Data
  BY DEF FifoInv, FifoEdge, ReadPort, WritePort
<1>6. write_ptr' = IF read_ptr' + fifo_size' < FIFO_DEPTH
                   THEN read_ptr' + fifo_size'
                   ELSE read_ptr' + fifo_size' - FIFO_DEPTH
  <2>1. CASE rst
    BY <1>1, <2>1, DepthAssumption DEF FifoEdge, ReadPort, WritePort
  <2>2. CASE ~rst /\ re /\ we
    BY <1>1, <2>2, DepthAssumption
       DEF FifoInv, FifoEdge, ReadPort, WritePort, Following, Slots
  <2>3. CASE ~rst /\ re /\ ~we
    BY <1>1, <1>2, <2>3, DepthAssumption
       DEF FifoInv, FifoEdge, ReadPort, WritePort, Following, Slots
  <2>4. CASE ~rst /\ ~re /\ we
    BY <1>1, <1>2, <2>4, DepthAssumption
       DEF FifoInv, FifoEdge, ReadPort, WritePort, Following, Slots
  <2>5. CASE ~rst /\ ~re /\ ~we
    BY <1>1, <2>5, DepthAssumption
       DEF FifoInv, FifoEdge, ReadPort, WritePort, Following, Slots
  <2> QED
    BY <2>1, <2>2, <2>3, <2>4, <2>5
<1> QED
  BY <1>3, <1>4, <1>5, <1>6 DEF FifoInv

(* The same of the invariant in the next state, for the lemmas below.      *)
LEMMA ContentsTypeNext ==
    ASSUME FifoInv'
    PROVE  /\ Contents' \in Seq(Data)
           /\ Len(Contents') = fifo_size'
           /\ \A i \in 1..fifo_size' : Contents'[i] = memory'[Slot(i - 1)']
<1>1. (FifoInv => /\ Contents \in Seq(Data)
                  /\ Len(Contents) = fifo_size
                  /\ \A i \in 1..fifo_size : Contents[i] = memory[Slot(i - 1)])'
  BY ContentsType, PTL
<1> QED
  BY <1>1

LEMMA Pushing ==
    ASSUME FifoInv, FifoInv', NEW wd \in Data, Legal(FALSE, TRUE),
           FifoEdge(FALSE, FALSE, TRUE, wd)
    PROVE  AsQueue!Push(wd)
<1>1. fifo_size < FIFO_DEPTH /\ fifo_size \in Nat /\ FIFO_DEPTH \in Nat
  BY DepthAssumption DEF FifoInv, Legal, full
<1>2. /\ fifo_size' = fifo_size + 1 /\ read_ptr' = read_ptr
      /\ read_dat' = read_dat
      /\ memory' = [memory EXCEPT ![write_ptr] = wd]
  BY SizeMoves DEF FifoEdge, ReadPort, WritePort
<1>3. \A i \in Nat : Slot(i)' = Slot(i)
  BY <1>2 DEF Slot
<1>4. write_ptr = Slot(fifo_size) /\ write_ptr \in Slots
  BY <1>1, DepthAssumption, SlotFacts DEF FifoInv
<1>5. \A i \in 0..fifo_size - 1 : Slot(i) \in Slots /\ Slot(i) # write_ptr
  <2> TAKE i \in 0..fifo_size - 1
  <2>1. i \in 0..FIFO_DEPTH - 1 /\ fifo_size \in 0..FIFO_DEPTH - 1 /\ i # fifo_size
    BY <1>1
  <2> QED
    BY <1>4, <2>1, SlotFacts
<1> DEFINE after == Append(Contents, wd)
<1>6. /\ after \in Seq(Data)
      /\ Len(after) = fifo_size + 1
      /\ \A i \in 1..fifo_size : after[i] = memory[Slot(i - 1)]
      /\ after[fifo_size + 1] = wd
  BY ContentsType, AppendProperties
<1>7. \A i \in 1..fifo_size + 1 : Contents'[i] = after[i]
  <2> TAKE i \in 1..fifo_size + 1
  <2>1. Contents'[i] = memory'[Slot(i - 1)] /\ i - 1 \in Nat
    BY <1>1, <1>2, <1>3, ContentsTypeNext
  <2>2. CASE i = fifo_size + 1
    BY <1>1, <1>2, <1>4, <1>6, <2>1, <2>2 DEF FifoInv
  <2>3. CASE i # fifo_size + 1
    <3>1. i \in 1..fifo_size /\ i - 1 \in 0..fifo_size - 1
      BY <1>1, <2>3
    <3> QED
      BY <1>2, <1>5, <1>6, <2>1, <3>1 DEF FifoInv
  <2> QED
    BY <2>2, <2>3
<1>8. Contents' = after
  <2> HIDE DEF after
  <2> QED
    BY <1>2, <1>6, <1>7, ContentsTypeNext, SeqEqual
<1> QED
  BY <1>1, <1>2, <1>8, ContentsType DEF AsQueue!Push

(* A pop, with or without a push in the same cycle. *)
LEMMA Popping ==
    ASSUME FifoInv, FifoInv', NEW we \in BOOLEAN, NEW wd \in Data,
           Legal(TRUE, we), FifoEdge(FALSE, TRUE, we, wd)
    PROVE  IF we THEN AsQueue!PushPop(wd) ELSE AsQueue!Pop
<1>1. /\ fifo_size \in Nat /\ FIFO_DEPTH \in Nat
      /\ 0 < fifo_size /\ fifo_size <= FIFO_DEPTH
  BY DepthAssumption DEF FifoInv, Legal, empty
<1>2. /\ fifo_size' = (IF we THEN fifo_size ELSE fifo_size - 1)
      /\ read_ptr' = Following(read_ptr)
      /\ read_dat' = memory[read_ptr]
      /\ memory' = IF we THEN [memory EXCEPT ![write_ptr] = wd] ELSE memory
  BY SizeMoves DEF FifoEdge, ReadPort, WritePort
<1>3. \A i \in 0..FIFO_DEPTH - 2 : Slot(i)' = Slot(i + 1)
  BY <1>1, <1>2 DEF Slot, Following, FifoInv, Slots
<1>4. read_ptr = Slot(0)
  BY <1>1 DEF Slot, FifoInv, Slots
<1>5. \A i \in 1..fifo_size - 1 : Slot(i) \in Slots /\ Slot(i) # write_ptr
  BY <1>1, SlotFacts DEF FifoInv, Slot, Slots
<1>6. Contents # <<>> /\ Contents \in Seq(Data) /\ Len(Contents) = fifo_size
  BY <1>1, ContentsType, EmptySeq
<1>7. read_dat' = Head(Contents)
  BY <1>1, <1>2, <1>4, <1>6, ContentsType
<1>8. /\ Tail(Contents) \in Seq(Data)
      /\ Len(Tail(Contents)) = fifo_size - 1
      /\ \A i \in 1..fifo_size - 1 : Tail(Contents)[i] = memory[Slot(i)]
  <2>1. \A i \in 1..fifo_size - 1 : i + 1 \in 1..fifo_size /\ (i + 1) - 1 = i
    BY <1>1
  <2> QED
    BY <1>6, <2>1, HeadTailProperties, ContentsType
<1>9. \A i \in 1..fifo_size - 1 : Contents'[i] = memory[Slot(i)]
  <2> TAKE i \in 1..fifo_size - 1
  <2>1. i \in 1..fifo_size' /\ i - 1 \in 0..FIFO_DEPTH - 2 /\ (i - 1) + 1 = i
    BY <1>1, <1>2
  <2>2. Contents'[i] = memory'[Slot(i)]
    BY <1>3, <2>1, ContentsTypeNext
  <2> QED
    BY <1>2, <1>5, <2>2 DEF FifoInv
<1>10. CASE ~we
  <2>1. Contents' = Tail(Contents)
    BY <1>2, <1>8, <1>9, <1>10, ContentsTypeNext, SeqEqual
  <2> QED
    BY <1>6, <1>7, <1>10, <2>1 DEF AsQueue!Pop
<1>11. CASE we
  <2> DEFINE after == Append(Tail(Contents), wd)
  <2>1. /\ after \in Seq(Data)
        /\ Len(after) = fifo_size
        /\ \A i \in 1..fifo_size - 1 : after[i] = memory[Slot(i)]
        /\ after[fifo_size] = wd
    <3> HIDE DEF after
    <3>1. Len(Tail(Contents)) + 1 = fifo_size
      BY <1>1, <1>8
    <3> QED
      BY <1>8, <3>1, AppendProperties DEF after
  <2>2. Contents'[fifo_size] = wd
    <3>1. Slot(fifo_size - 1)' = write_ptr /\ write_ptr \in Slots
      BY <1>1, <1>2, <1>11 DEF Slot, Following, FifoInv, Slots
    <3>2. fifo_size \in 1..fifo_size'
      BY <1>1, <1>2, <1>11
    <3> QED
      BY <1>2, <1>11, <3>1, <3>2, ContentsTypeNext DEF FifoInv
  <2>3. \A i \in 1..fifo_size : Contents'[i] = after[i]
    <3> HIDE DEF after
    <3> TAKE i \in 1..fifo_size
    <3>1. i = fifo_size \/ i \in 1..fifo_size - 1
      BY <1>1
    <3> QED
      BY <1>9, <2>1, <2>2, <3>1
  <2>4. Contents' = after
    <3> HIDE DEF after
    <3> QED
      BY <1>2, <1>11, <2>1, <2>3, ContentsTypeNext, SeqEqual
  <2> QED
    BY <1>6, <1>7, <1>11, <2>4 DEF AsQueue!PushPop
<1> QED
  BY <1>10, <1>11

(* Every step of a careful user is a step of the queue. *)
LEMMA LegalEdgeIsQueueStep ==
    ASSUME FifoInv, LegalEdge
    PROVE  [AsQueue!QueueNext]_(AsQueue!queueVars)
<1> PICK rst \in BOOLEAN, re \in BOOLEAN, we \in BOOLEAN, wd \in Data :
        Legal(re, we) /\ FifoEdge(rst, re, we, wd)
  BY DEF LegalEdge
<1>1. FifoInv'
  BY InvInductive
<1>2. CASE rst
  <2>1. fifo_size' = 0 /\ read_dat' = read_dat
    BY <1>2 DEF FifoEdge, SizeCounter, ReadPort
  <2>2. Contents' = <<>>
    BY <1>1, <2>1, ContentsTypeNext, EmptySeq
  <2> QED
    BY <2>1, <2>2 DEF AsQueue!QueueNext, AsQueue!Clear
<1>3. CASE ~rst /\ re
  <2>1. IF we THEN AsQueue!PushPop(wd) ELSE AsQueue!Pop
    BY <1>1, <1>3, Popping
  <2> QED
    BY <2>1 DEF AsQueue!QueueNext
<1>4. CASE ~rst /\ ~re /\ we
  <2>1. AsQueue!Push(wd)
    BY <1>1, <1>4, Pushing
  <2> QED
    BY <2>1 DEF AsQueue!QueueNext
<1>5. CASE ~rst /\ ~re /\ ~we
  <2>1. UNCHANGED fifoVars
    BY <1>5 DEF FifoEdge, SizeCounter, ReadPort, WritePort, fifoVars
  <2> QED
    BY <2>1 DEF AsQueue!queueVars, Contents, Slot, fifoVars
<1> QED
  BY <1>2, <1>3, <1>4, <1>5

LEMMA Stuttering ==
    ASSUME UNCHANGED fifoVars
    PROVE  /\ FifoInv => FifoInv'
           /\ UNCHANGED AsQueue!queueVars
BY DEF fifoVars, FifoInv, AsQueue!queueVars, Contents, Slot

LEMMA FifoStarts == FifoInit => FifoInv /\ AsQueue!Empty
<1> SUFFICES ASSUME FifoInit PROVE FifoInv /\ AsQueue!Empty
  OBVIOUS
<1>1. FifoInv
  BY DepthAssumption DEF FifoInit, FifoInv, Slots
<1>2. Contents = <<>>
  BY <1>1, ContentsType, EmptySeq DEF FifoInit
<1> QED
  BY <1>1, <1>2 DEF AsQueue!Empty, FifoInit

(* The two pointers and the size counter agree for ever, and the FIFO is a *)
(* bounded queue with a registered output (ram_fifo.v).                    *)
THEOREM FifoImplementsQueue == FifoSpec => []FifoInv /\ FifoIsQueue
<1>1. FifoInv /\ [LegalEdge]_fifoVars => FifoInv'
  BY InvInductive, Stuttering
<1>2. FifoInv /\ [LegalEdge]_fifoVars => [AsQueue!QueueNext]_(AsQueue!queueVars)
  BY LegalEdgeIsQueueStep, Stuttering
<1> QED
  BY <1>1, <1>2, FifoStarts, PTL DEF FifoSpec, FifoIsQueue, AsQueue!QueueSpec

(* push() and pop() of the test bench are such a user, in whatever order   *)
(* main() calls them.                                                      *)
THEOREM BenchIsCareful == BenchSpec => FifoIsQueue
<1>1. FifoInv /\ [BenchNext]_fifoVars => [LegalEdge]_fifoVars
  BY DEF FifoInv, BenchNext, push, pop, LegalEdge, Legal, empty, full
<1>2. FifoInv /\ [BenchNext]_fifoVars => FifoInv'
  BY <1>1, InvInductive, Stuttering
<1>3. BenchSpec => FifoSpec
  BY <1>1, <1>2, FifoStarts, PTL DEF BenchSpec, FifoSpec
<1> QED
  BY <1>3, FifoImplementsQueue
-----------------------------------------------------------------------------
(* A push is under way only for a sample that is still offered, and there  *)
(* is room for it; a read only in READ_OFF_FIFO, and there is something.   *)
PushInv ==
    /\ {data_commit, write_enable, finished} \subseteq BOOLEAN
    /\ data_commit => data \in Data /\ ~finished
    /\ write_enable => data_commit /\ write_dat \in Data /\ ~full

PopInv ==
    /\ read_enable \in BOOLEAN
    /\ read_enable => writestate = "READ_OFF_FIFO" /\ ~empty

UseInv == FifoInv /\ PushInv /\ PopInv

LEMMA UseStarts == Init => UseInv
<1> SUFFICES ASSUME Init PROVE UseInv
  OBVIOUS
<1>1. FifoInv
  BY FifoStarts DEF Init
<1>2. PushInv /\ PopInv
  BY DEF Init, init_values, Input!InputInit, PushInv, PopInv
<1> QED
  BY <1>1, <1>2 DEF UseInv

(* What the shim asks of the FIFO is what a careful user would.            *)
LEMMA ShimIsLegal == ASSUME UseInv, ShimEdge PROVE LegalEdge
<1>1. Legal(read_enable, write_enable)
  BY DEF UseInv, PushInv, PopInv, Legal
<1>2. CASE write_enable
  BY <1>1, <1>2 DEF UseInv, PushInv, PopInv, ShimEdge, LegalEdge
<1>3. CASE ~write_enable
  <2> PICK wd \in Data : TRUE
    BY DataAssumption
  <2>1. FifoEdge(FALSE, read_enable, write_enable, wd)
    BY <1>3 DEF ShimEdge, FifoEdge, ReadPort, WritePort, SizeCounter
  <2> QED
    BY <1>1, <2>1 DEF UseInv, PushInv, PopInv, LegalEdge
<1> QED
  BY <1>2, <1>3

LEMMA SizeOfShim ==
    ASSUME UseInv, ShimEdge
    PROVE  /\ fifo_size' = IF read_enable /\ ~write_enable THEN fifo_size - 1
                           ELSE IF write_enable /\ ~read_enable THEN fifo_size + 1
                           ELSE fifo_size
           /\ fifo_size \in Nat /\ FIFO_DEPTH \in Nat /\ fifo_size <= FIFO_DEPTH
<1>1. Legal(read_enable, write_enable)
  BY DEF UseInv, PushInv, PopInv, Legal
<1>2. read_enable \in BOOLEAN /\ write_enable \in BOOLEAN
  BY DEF UseInv, PushInv, PopInv
<1>3. SizeCounter(FALSE, read_enable, write_enable)
  BY DEF ShimEdge, FifoEdge
<1>4. fifo_size' = IF FALSE THEN 0
                   ELSE IF read_enable /\ ~write_enable THEN fifo_size - 1
                   ELSE IF write_enable /\ ~read_enable THEN fifo_size + 1
                   ELSE fifo_size
  BY <1>1, <1>2, <1>3, SizeMoves DEF UseInv
<1> QED
  BY <1>4, DepthAssumption DEF UseInv, FifoInv

LEMMA PushKept == ASSUME UseInv, Next PROVE PushInv'
<1> USE DEF UseInv, PushInv
<1>1. Produce /\ Input!Accept(full)
  BY DEF Next, ShimEdge
<1>2. {data_commit, write_enable, finished}' \subseteq BOOLEAN
  BY <1>1 DEF Produce, Commit, Withdraw, Hold, Pause, producer,
              Input!Accept, Input!Take, Input!inputVars
<1>3. data_commit' => data' \in Data /\ ~finished'
  BY <1>1 DEF Produce, Commit, Withdraw, Hold, Pause, producer
<1>4. write_enable' => data_commit /\ ~finished' /\ write_dat' \in Data
  BY <1>1 DEF Input!Accept, Input!Take, Input!inputVars
<1>5. data_commit /\ ~finished' => data_commit'
  BY <1>1 DEF Produce, Commit, Withdraw, Hold, Pause, producer
<1>6. write_enable' => ~write_enable /\ ~full
  BY <1>1 DEF Input!Accept, Input!Take, Input!inputVars
<1>7. write_enable' => ~full'
  BY <1>6, SizeOfShim DEF Next, full
<1> QED
  BY <1>2, <1>3, <1>4, <1>5, <1>7

LEMMA PopKept == ASSUME UseInv, Next PROVE PopInv'
<1>1. WriteOut
  BY DEF Next, ShimEdge
<1>2. read_enable' \in BOOLEAN
  BY <1>1 DEF UseInv, PopInv, WriteOut, WaitOnEmpty, ReadOffFifo, HighWordLoad,
              WaitOnHighWord
<1>3. read_enable' => ~read_enable /\ ~empty /\ writestate' = "READ_OFF_FIFO"
  BY <1>1 DEF UseInv, PopInv, WriteOut, WaitOnEmpty, ReadOffFifo, HighWordLoad,
              WaitOnHighWord
<1>4. read_enable' => ~empty'
  BY <1>3, SizeOfShim DEF Next, empty
<1> QED
  BY <1>2, <1>3, <1>4 DEF PopInv

LEMMA UseKept == ASSUME UseInv, [Next]_vars PROVE UseInv'
<1>1. CASE Next
  BY <1>1, ShimIsLegal, InvInductive, PushKept, PopKept DEF UseInv, Next
<1>2. CASE UNCHANGED vars
  BY <1>2, Stuttering
     DEF vars, UseInv, PushInv, PopInv, full, empty, fifoVars, writeOut, producer
<1> QED
  BY <1>1, <1>2

(* The shim never overflows or underflows its FIFO, and gets out of it     *)
(* what it put in.                                                         *)
THEOREM ShimUsesQueue == Spec => FifoIsQueue
<1>1. UseInv /\ [Next]_vars => [LegalEdge]_fifoVars
  BY ShimIsLegal DEF Next, vars
<1>2. FifoInit /\ [][LegalEdge]_fifoVars => FifoIsQueue
  BY FifoImplementsQueue DEF FifoSpec
<1>3. Init => FifoInit
  BY DEF Init
<1> QED
  BY <1>1, <1>2, <1>3, UseStarts, UseKept, PTL DEF Spec
-----------------------------------------------------------------------------
(* The memory bus.  The commands that move the write pointer come before   *)
(* the first sample, so while `write` is up only the pointer is read.      *)
SetupInv ==
    /\ setup = "done" /\ cmd_active => cmd = "READ_PTR"
    /\ setup # "done" => ~data_commit /\ ~write_enable /\ fifo_size = 0
    /\ setup \in {"len", "loc", "done"}
    /\ setup = "len" => cmd_active /\ cmd = "WRITE_LEN"
    /\ setup = "loc" /\ cmd_active => cmd = "WRITE_LOC"

BusInv ==
    /\ write \in BOOLEAN
    /\ write => writestate \in {"HIGH_WORD_LOAD", "WAIT_ON_HIGH_WORD"}
    /\ setup # "done" => writestate = "WAIT_ON_EMPTY"

SetInv == UseInv /\ SetupInv /\ BusInv

LEMMA SetStarts == Init => SetInv
<1> SUFFICES ASSUME Init PROVE SetInv
  OBVIOUS
<1>1. SetupInv /\ BusInv
  BY DEF Init, init_values, FifoInit, Input!InputInit, SetupInv, BusInv
<1> QED
  BY <1>1, UseStarts DEF SetInv

LEMMA SetKept == ASSUME SetInv, [Next]_vars PROVE SetInv'
<1>1. CASE Next
  <2> USE <1>1 DEF SetInv
  <2>1. Kernel /\ Produce /\ WriteOut /\ Input!Accept(full)
    BY DEF Next, ShimEdge
  <2>2. setup = "done" => setup' = "done"
    BY <2>1 DEF SetupInv, Kernel, HoldCommand, AwaitFinished, init_memory, read_shim_ptr,
                Issue, kernel
  <2>3. setup # "done" => ~data_commit' /\ ~write_enable'
    BY <2>1 DEF SetupInv, Produce, Commit, Withdraw, Hold, Pause, producer,
                Input!Accept, Input!Take, Input!inputVars
  <2>4. setup # "done" => fifo_size' = fifo_size
    BY <2>1, SizeOfShim DEF Next, SetupInv, UseInv, PopInv, empty
  <2>5. SetupInv'
    BY <2>1, <2>2, <2>3, <2>4
       DEF SetupInv, Kernel, HoldCommand, AwaitFinished, init_memory, read_shim_ptr, Issue,
           kernel
  <2>6. BusInv'
    <3>1. setup # "done" => writestate' = "WAIT_ON_EMPTY"
      BY <2>1 DEF SetupInv, BusInv, empty, WriteOut, WaitOnEmpty, ReadOffFifo,
                  HighWordLoad, WaitOnHighWord
    <3>2. /\ write' \in BOOLEAN
          /\ write' => writestate' \in {"HIGH_WORD_LOAD", "WAIT_ON_HIGH_WORD"}
      <4>1. CASE WaitOnEmpty
        BY <4>1 DEF BusInv, WaitOnEmpty
      <4>2. CASE ReadOffFifo
        <5>1. CASE read_enable
          <6>1. write' = write /\ writestate' = writestate
            BY <4>2, <5>1 DEF ReadOffFifo
          <6> QED
            BY <6>1 DEF BusInv
        <5>2. CASE ~read_enable
          BY <4>2, <5>2 DEF ReadOffFifo
        <5> QED
          BY <5>1, <5>2
      <4>3. CASE HighWordLoad
        BY <4>3 DEF BusInv, HighWordLoad
      <4>4. CASE WaitOnHighWord
        <5>1. CASE ~write
          BY <4>4, <5>1 DEF WaitOnHighWord
        <5>2. CASE write /\ valid
          BY <4>4, <5>2 DEF WaitOnHighWord
        <5>3. CASE write /\ ~valid
          BY <4>4, <5>3 DEF BusInv, WaitOnHighWord
        <5> QED
          BY <5>1, <5>2, <5>3
      <4> QED
        BY <2>1, <4>1, <4>2, <4>3, <4>4 DEF WriteOut
    <3> QED
      BY <2>2, <3>1, <3>2 DEF BusInv
  <2> QED
    BY <2>5, <2>6, UseKept
<1>2. CASE UNCHANGED vars
  BY <1>2, UseKept
     DEF vars, SetInv, SetupInv, BusInv, kernel, producer, writeOut, fifoVars
<1> QED
  BY <1>1, <1>2

(* A write stays on the bus, with its word and its address, until the      *)
(* memory has answered.                                                    *)
THEOREM WritesAreHeld == Spec => BusHeld
<1> DEFINE Held == write /\ ~valid => write' /\ UNCHANGED <<word, addr>>
<1>1. ASSUME SetInv, Next, write, ~valid
      PROVE  write' /\ UNCHANGED <<word, addr>>
  <2>1. write' = write /\ word' = word
    BY <1>1 DEF Next, ShimEdge, SetInv, BusInv, WriteOut, WaitOnEmpty,
                ReadOffFifo, HighWordLoad, WaitOnHighWord
  <2>2. ~Executes("WRITE_LOC") /\ ~Executes("WRITE_LEN") /\ ~WordTaken
    BY <1>1 DEF SetInv, SetupInv, BusInv, Executes, WordTaken
  <2>3. loc_off' = loc_off /\ loc_start' = loc_start
    BY <1>1, <2>2 DEF Next, ShimEdge, Offset, Command
  <2> QED
    BY <1>1, <2>1, <2>3 DEF addr
<1>2. SetInv /\ [Next]_vars => [Held]_vars
  BY <1>1
<1> QED
  BY <1>2, SetStarts, SetKept, PTL DEF Spec, BusHeld
-----------------------------------------------------------------------------
(* Arithmetic. *)
LEMMA ModRange ==
    ASSUME NEW m \in Nat \ {0}, NEW x \in Int
    PROVE  /\ x % m \in 0..m - 1 /\ x \div m \in Int
           /\ x = (x \div m) * m + (x % m)
<1>1. x % m \in 0..m - 1 /\ x \div m \in Int
    OBVIOUS
<1>2. x % m = x - m * (x \div m)
    BY SMTT(30)
<1> DEFINE r == x % m
            q == x \div m
<1>3. r \in Int /\ q \in Int /\ r = x - m * q
    BY <1>1, <1>2
<1> HIDE DEF r, q
<1>4. m * q \in Int /\ m * q = q * m
    BY <1>3
<1>5. x = q * m + r
    BY <1>3, <1>4
<1> QED
    BY <1>1, <1>5 DEF r, q

LEMMA DivUnique ==
    ASSUME NEW m \in Nat \ {0}, NEW q \in Int, NEW r \in 0..m - 1
    PROVE  (q * m + r) % m = r /\ (q * m + r) \div m = q
<1> DEFINE x == q * m + r
            p == x \div m
            s == x % m
<1>1. x \in Int /\ p \in Int /\ s \in 0..m - 1 /\ x = p * m + s
    BY ModRange
<1>2. (q - p) * m = s - r
    BY <1>1
<1> HIDE DEF x, p, s
<1>3. ~(q - p >= 1)
    <2>1. SUFFICES ASSUME q - p >= 1 PROVE FALSE
        OBVIOUS
    <2>2. (q - p) * m >= m
        BY <1>1, <2>1
    <2> QED
        BY <1>1, <1>2, <2>2
<1>4. ~(q - p <= -1)
    <2>1. SUFFICES ASSUME q - p <= -1 PROVE FALSE
        OBVIOUS
    <2>2. (q - p) * m <= -m
        BY <1>1, <2>1
    <2> QED
        BY <1>1, <1>2, <2>2
<1>5. q = p
    BY <1>1, <1>3, <1>4
<1>6. r = s
    BY <1>1, <1>2, <1>5
<1> QED
    BY <1>5, <1>6 DEF x, p, s

LEMMA ModSmall ==
    ASSUME NEW m \in Nat \ {0}, NEW x \in 0..2 * m - 1
    PROVE  x % m = IF x < m THEN x ELSE x - m
<1>1. CASE x < m
  <2>1. 0 * m + x = x /\ x \in 0..m - 1
    BY <1>1
  <2>2. (0 * m + x) % m = x
    BY <2>1, DivUnique
  <2> QED
    BY <1>1, <2>1, <2>2
<1>2. CASE x >= m
  <2> PICK y \in 0..m - 1 : x = m + y
    BY <1>2
  <2>1. 1 * m + y = x
    OBVIOUS
  <2>2. (1 * m + y) % m = y
    BY DivUnique
  <2> QED
    BY <1>2, <2>1, <2>2
<1> QED
  BY <1>1, <1>2

LEMMA RegionFacts ==
    /\ BYTES = 2 /\ AddrMod \in Nat \ {0} /\ AddrMod % 2 = 0
    /\ MEMORY_START \in Nat \ {0}
    /\ \A len \in MEMORY_LENS : len \in Nat \ {0} /\ MEMORY_START + len < AddrMod
BY RegionAssumption

LEMMA SplitFacts ==
    ASSUME NEW x \in Data
    PROVE  /\ sign_extend(x) % 2^RAM_WORD = LowWord(x)
           /\ sign_extend(x) \div 2^RAM_WORD = HighWord(x)
           /\ LowWord(x) \in 0..2^RAM_WORD - 1 /\ HighWord(x) \in 0..2^RAM_WORD - 1
<1> DEFINE w == 2^RAM_WORD
           h == 2^(DAT_WID - RAM_WORD)
           d == 2^DAT_WID
           e == 2^(2 * RAM_WORD)
           q == x \div w
           r == x % w
<1>1. /\ w \in Nat \ {0} /\ h \in Nat \ {0} /\ d \in Nat \ {0} /\ h <= w
      /\ d = h * w /\ e = w * w
  BY PowerAssumption
<1>2. x \in 0..d - 1
  BY WordsAssumption
<1>3. q \in Int /\ r \in 0..w - 1 /\ x = q * w + r
  <2>1. x \in Int
    BY <1>2
  <2> HIDE DEF w
  <2>2. x % w \in 0..w - 1 /\ x \div w \in Int /\ x = (x \div w) * w + (x % w)
    BY <1>1, <2>1, ModRange
  <2> QED
    BY <2>2
<1> HIDE DEF w, h, d, e, q, r
<1>4. q \in 0..h - 1
  <2>1. ~(q < 0)
    <3>1. SUFFICES ASSUME q <= -1 PROVE FALSE
      BY <1>3
    <3>2. q * w <= -w
      BY <1>1, <1>3, <3>1
    <3> QED
      BY <1>1, <1>2, <1>3, <3>2
  <2>2. ~(q >= h)
    <3>1. SUFFICES ASSUME q >= h PROVE FALSE
      OBVIOUS
    <3>2. q * w >= h * w
      BY <1>1, <1>3, <3>1
    <3>3. q * w \in Int /\ h * w \in Int
      BY <1>1, <1>3
    <3> QED
      BY <1>1, <1>2, <1>3, <3>2, <3>3
  <2> QED
    BY <1>1, <1>3, <2>1, <2>2
<1>5. LowWord(x) = r
  BY DEF LowWord, r, w
<1>6. CASE x >= 2^(DAT_WID - 1)
  <2>1. HighWord(x) = q + w - h /\ sign_extend(x) = x + e - d
    BY <1>6 DEF HighWord, sign_extend, q, w, h, e, d
  <2>2. sign_extend(x) = (q + w - h) * w + r
    <3>1. (q + w - h) * w = q * w + w * w - h * w
      BY <1>1, <1>3
    <3>2. q * w \in Int /\ w * w \in Int /\ h * w \in Int
      BY <1>1, <1>3
    <3> QED
      BY <1>1, <1>3, <2>1, <3>1, <3>2
  <2>3. q + w - h \in Int /\ q + w - h \in 0..w - 1
    BY <1>1, <1>4
  <2>4. sign_extend(x) % w = r /\ sign_extend(x) \div w = q + w - h
    BY <1>1, <1>3, <2>2, <2>3, DivUnique
  <2> QED
    BY <1>3, <1>5, <2>1, <2>3, <2>4 DEF w
<1>7. CASE ~(x >= 2^(DAT_WID - 1))
  <2>1. HighWord(x) = q /\ sign_extend(x) = x
    BY <1>7 DEF HighWord, sign_extend, q, w
  <2>2. q \in 0..w - 1
    BY <1>1, <1>4
  <2> QED
    BY <1>3, <1>5, <2>1, <2>2 DEF w, q, r
<1> QED
  BY <1>6, <1>7

(* Which sample a word is a part of. *)
LEMMA HalfFacts ==
    ASSUME NEW p \in Nat \ {0}
    PROVE  /\ ((2 * p - 1) + 1) \div 2 = p /\ (2 * p - 1) % 2 = 1
           /\ (2 * p + 1) \div 2 = p /\ (2 * p) % 2 = 0
OBVIOUS
-----------------------------------------------------------------------------
(***************************************************************************)
(* From the producer to memory.  A sample counts as pushed when it is in   *)
(* the FIFO, which is when its offer is withdrawn, and as popped when it   *)
(* is in the FIFO's output register.                                       *)
(***************************************************************************)
Pushed == Len(generated) - IF data_commit THEN 1 ELSE 0
Popped == Pushed - fifo_size

ProducerInv ==
    /\ generated \in Seq(Data)
    /\ data_commit => Len(generated) > 0 /\ data = generated[Len(generated)]
    /\ write_enable => write_dat = data

QueueInv ==
    /\ Popped \in Nat
    /\ \A i \in 1..fifo_size : Contents[i] = generated[Popped + i]

MemoryInv ==
    /\ valid \in BOOLEAN /\ memory_counter \in 0..MEMORY_WAIT_TIME
    /\ write <=> memory_counter > 0
    /\ valid => write

Words == [addr : 0..AddrMod - 1, word : 0..2^RAM_WORD - 1]

(* How many words memory was given when the writer is where it is. *)
WriterInv ==
    /\ stored \in Seq(Words)
    /\ writestate \in {"WAIT_ON_EMPTY", "READ_OFF_FIFO", "HIGH_WORD_LOAD",
                       "WAIT_ON_HIGH_WORD"}
    /\ writestate = "WAIT_ON_EMPTY" => Len(stored) = 2 * Popped
    /\ writestate = "READ_OFF_FIFO" /\ read_enable => Len(stored) = 2 * Popped
    /\ writestate = "READ_OFF_FIFO" /\ ~read_enable => Len(stored) = 2 * Popped - 2
    /\ writestate = "HIGH_WORD_LOAD" => Len(stored) = 2 * Popped - 1 /\ write
    /\ writestate = "WAIT_ON_HIGH_WORD" =>
          /\ Len(stored) = IF write THEN 2 * Popped ELSE 2 * Popped - 1
          /\ ~write => word = HighWord(read_dat)
    /\ writestate # "WAIT_ON_EMPTY" /\ ~read_enable =>
          Popped > 0 /\ read_dat = generated[Popped]

(* The commands, and the region they set up. *)
RegionInv ==
    /\ cmd_active \in BOOLEAN /\ cmd_finished \in BOOLEAN
    /\ cmd \in {"WRITE_LEN", "WRITE_LOC", "READ_PTR"}
    /\ {cmd_data, cmd_data_out, loc_start, loc_len} \subseteq 0..AddrMod - 1
    /\ setup = "len" => cmd_data \in MEMORY_LENS
    /\ setup = "loc" /\ cmd_active => cmd_data = MEMORY_START
    /\ setup # "len" => loc_len \in MEMORY_LENS
    /\ setup = "done" => loc_start = MEMORY_START
    /\ setup # "done" => stored = <<>>

(* The offset: even, and within a region of odd length. *)
OffsetInv ==
    /\ loc_off \in 0..AddrMod - 1 /\ loc_off % 2 = 0
    /\ setup # "done" => loc_off = 0
    /\ setup = "done" /\ loc_len % 2 = 1 => loc_off <= loc_len - 1

(* The address on the bus: the last word's while it is being written, then *)
(* the one where the next word goes.                                       *)
PlaceInv ==
    setup = "done" => IF write THEN Len(stored) > 0 /\ stored[Len(stored)].addr = addr
                               ELSE Follows(Len(stored), addr)

DataInv ==
    /\ {data, write_dat} \subseteq Data \cup {0}
    /\ word \in 0..2^RAM_WORD - 1
    /\ cntr \in 0..CYCLE_WAIT

ShimInv ==
    /\ SetInv /\ ProducerInv /\ QueueInv /\ MemoryInv /\ WriterInv
    /\ RegionInv /\ OffsetInv /\ PlaceInv /\ DataInv /\ StoredInOrder
-----------------------------------------------------------------------------
(* What an edge does to the contents of the FIFO. *)
LEMMA QueueMoves ==
    ASSUME UseInv, ShimEdge
    PROVE  /\ fifo_size' = IF read_enable /\ ~write_enable THEN fifo_size - 1
                           ELSE IF write_enable /\ ~read_enable THEN fifo_size + 1
                           ELSE fifo_size
           /\ read_enable => fifo_size > 0 /\ read_dat' = Contents[1]
           /\ ~read_enable => read_dat' = read_dat
           /\ \A i \in 1..fifo_size' :
                 IF write_enable /\ i = fifo_size' THEN Contents'[i] = write_dat
                 ELSE Contents'[i] = Contents[i + IF read_enable THEN 1 ELSE 0]
<1> DEFINE n == fifo_size
           c == Contents
<1>1. /\ fifo_size' = IF read_enable /\ ~write_enable THEN fifo_size - 1
                      ELSE IF write_enable /\ ~read_enable THEN fifo_size + 1
                      ELSE fifo_size
      /\ n \in Nat
  BY SizeOfShim
<1>2. FifoInv /\ FifoInv'
  BY ShimIsLegal, InvInductive DEF UseInv
<1>3. Legal(read_enable, write_enable) /\ read_enable \in BOOLEAN /\ write_enable \in BOOLEAN
  BY DEF UseInv, PushInv, PopInv, Legal
<1>4. c \in Seq(Data) /\ Len(c) = n
  BY <1>2, ContentsType
<1>5. write_enable => write_dat \in Data
  BY DEF UseInv, PushInv
<1>6. FifoEdge(FALSE, read_enable, write_enable, write_dat)
  BY DEF ShimEdge
<1>7. CASE ~read_enable /\ ~write_enable
  <2>1. UNCHANGED fifoVars
    BY <1>1, <1>6, <1>7 DEF FifoEdge, ReadPort, WritePort, fifoVars
  <2>2. Contents' = Contents /\ fifo_size' = n /\ read_dat' = read_dat
    BY <2>1 DEF Contents, Slot, fifoVars
  <2> QED
    BY <1>1, <1>7, <2>2
<1>8. CASE ~read_enable /\ write_enable
  <2>1. Legal(FALSE, TRUE) /\ FifoEdge(FALSE, FALSE, TRUE, write_dat)
    <3>1. read_enable = FALSE /\ write_enable = TRUE
      BY <1>3, <1>8
    <3> QED
      BY <1>3, <1>6, <3>1
  <2>2. c' = Append(c, write_dat) /\ read_dat' = read_dat
    BY <1>2, <1>5, <1>8, <2>1, Pushing DEF AsQueue!Push
  <2>3. \A i \in 1..n + 1 : Append(c, write_dat)[i] = IF i = n + 1 THEN write_dat ELSE c[i]
    BY <1>1, <1>4, <1>5, <1>8
  <2>4. fifo_size' = n + 1 /\ n \in Nat
    BY <1>1, <1>8
  <2>5. ASSUME NEW i \in 1..fifo_size'
        PROVE  IF write_enable /\ i = fifo_size' THEN Contents'[i] = write_dat
               ELSE Contents'[i] = Contents[i + IF read_enable THEN 1 ELSE 0]
    <3>1. i \in 1..n + 1 /\ i + 0 = i
      BY <2>4, <2>5
    <3>2. Contents'[i] = IF i = n + 1 THEN write_dat ELSE Contents[i]
      BY <2>2, <2>3, <3>1
    <3> QED
      BY <1>8, <2>4, <3>1, <3>2
  <2> QED
    BY <1>1, <1>8, <2>2, <2>5
<1>9. CASE read_enable
  <2>1. read_enable = TRUE /\ n > 0
    BY <1>1, <1>3, <1>9 DEF UseInv, PopInv, empty
  <2>2. CASE write_enable
    <3>1. Legal(TRUE, write_enable) /\ FifoEdge(FALSE, TRUE, write_enable, write_dat)
      BY <1>3, <1>6, <2>1
    <3>2. c # <<>> /\ read_dat' = Head(c) /\ c' = Append(Tail(c), write_dat)
      BY <1>2, <1>3, <1>5, <2>2, <3>1, Popping DEF AsQueue!PushPop
    <3>3. \A i \in 1..n : Append(Tail(c), write_dat)[i] = IF i = n THEN write_dat ELSE c[i + 1]
      BY <1>1, <1>4, <1>5, <2>1, <2>2
    <3>4. Head(c) = c[1] /\ fifo_size' = n
      BY <1>1, <1>9, <2>2
    <3> QED
      BY <1>1, <1>9, <2>1, <2>2, <3>2, <3>3, <3>4
  <2>3. CASE ~write_enable
    <3> PICK wd \in Data : TRUE
      BY DataAssumption
    <3>1. Legal(TRUE, FALSE) /\ FifoEdge(FALSE, TRUE, FALSE, wd)
      <4>1. write_enable = FALSE
        BY <1>3, <2>3
      <4>2. Legal(TRUE, FALSE) /\ FifoEdge(FALSE, TRUE, FALSE, write_dat)
        BY <1>3, <1>6, <2>1, <4>1
      <4> QED
        BY <4>2 DEF FifoEdge, ReadPort, WritePort, SizeCounter
    <3>2. c # <<>> /\ read_dat' = Head(c) /\ c' = Tail(c)
      BY <1>2, <3>1, Popping DEF AsQueue!Pop
    <3>3. \A i \in 1..n - 1 : Tail(c)[i] = c[i + 1]
      BY <1>1, <1>4, <2>1
    <3>4. Head(c) = c[1] /\ fifo_size' = n - 1
      BY <1>1, <1>9, <2>3
    <3> QED
      BY <1>1, <1>9, <2>1, <2>3, <3>2, <3>3, <3>4
  <2> QED
    BY <2>2, <2>3
<1> QED
  BY <1>3, <1>7, <1>8, <1>9

(* What a cycle does to the samples that were sent: one is added at the    *)
(* most, and an offer is withdrawn in the cycle in which it is pushed.     *)
LEMMA ProducerMoves ==
    ASSUME UseInv, ProducerInv, Next
    PROVE  /\ ProducerInv'
           /\ Len(generated) \in Nat /\ Len(generated') \in Nat
           /\ Len(generated') >= Len(generated)
           /\ \A i \in 1..Len(generated) : generated'[i] = generated[i]
           /\ Pushed \in Int /\ Pushed <= Len(generated)
           /\ Pushed' = Pushed + IF write_enable THEN 1 ELSE 0
           /\ write_enable => write_dat = generated[Pushed + 1] /\ Pushed + 1 <= Len(generated)
           /\ {data', write_dat'} \subseteq {data, write_dat} \cup Data
<1> USE DEF ProducerInv
<1>1. /\ {data_commit, write_enable, finished} \subseteq BOOLEAN
      /\ data_commit => data \in Data /\ ~finished
      /\ write_enable => data_commit /\ write_dat \in Data
  BY DEF UseInv, PushInv
<1>2. /\ write_enable => ~write_enable' /\ finished' /\ write_dat' = write_dat
      /\ data_commit /\ ~write_enable => ~finished'
      /\ write_enable' => data_commit /\ ~write_enable /\ write_dat' = data
      /\ write_dat' \in {write_dat, data}
  BY <1>1 DEF Next, ShimEdge, Input!Accept, Input!Take, Input!inputVars
<1>3. Produce
  BY DEF Next
<1>4. Len(generated) \in Nat
  OBVIOUS
<1>5. CASE \E v \in Data : Commit(v)
  <2> PICK v \in Data : Commit(v)
    BY <1>5
  <2>1. /\ ~data_commit /\ data' = v /\ data_commit' = TRUE
        /\ generated' = Append(generated, v)
    BY DEF Commit
  <2>2. /\ generated' \in Seq(Data) /\ Len(generated') = Len(generated) + 1
        /\ \A i \in 1..Len(generated) : generated'[i] = generated[i]
        /\ generated'[Len(generated) + 1] = v
    BY <1>4, <2>1
  <2>3. ~write_enable /\ ~write_enable'
    BY <1>1, <1>2, <2>1
  <2>4. Pushed' = Pushed /\ Pushed = Len(generated)
    BY <1>4, <2>1, <2>2 DEF Pushed
  <2>5. ProducerInv'
    BY <1>4, <2>1, <2>2, <2>3
  <2> QED
    BY <1>2, <1>4, <2>1, <2>2, <2>3, <2>4, <2>5
<1>6. CASE Withdraw
  <2>1. data_commit /\ finished' /\ data_commit' = FALSE /\ data' = data /\ generated' = generated
    BY <1>6 DEF Withdraw
  <2>2. write_enable /\ ~write_enable' /\ write_dat = data
    BY <1>1, <1>2, <2>1
  <2>3. /\ Pushed = Len(generated) - 1 /\ Pushed' = Len(generated)
        /\ Pushed + 1 = Len(generated)
    BY <1>4, <2>1 DEF Pushed
  <2>4. write_dat = generated[Pushed + 1]
    BY <2>1, <2>2, <2>3
  <2>5. ProducerInv'
    BY <2>1, <2>2
  <2> QED
    BY <1>2, <1>4, <2>1, <2>2, <2>3, <2>4, <2>5
<1>7. CASE Hold \/ Pause
  <2>1. /\ data' = data /\ data_commit' = data_commit /\ generated' = generated
        /\ data_commit => ~finished'
    BY <1>7 DEF Hold, Pause, producer
  <2>2. ~write_enable
    BY <1>1, <1>2, <2>1
  <2>3. Pushed' = Pushed /\ Pushed \in Int /\ Pushed <= Len(generated)
    BY <1>1, <1>4, <2>1 DEF Pushed
  <2>4. ProducerInv'
    BY <1>2, <2>1
  <2> QED
    BY <1>2, <1>4, <2>1, <2>2, <2>3, <2>4
<1> QED
  BY <1>3, <1>5, <1>6, <1>7 DEF Produce

(* The FIFO holds the samples that were pushed and not popped, in order.   *)
LEMMA QueueKept ==
    ASSUME UseInv, ProducerInv, QueueInv, Next
    PROVE  /\ QueueInv'
           /\ Popped' = Popped + IF read_enable THEN 1 ELSE 0
           /\ Popped' <= Len(generated)
           /\ read_enable => read_dat' = generated[Popped']
           /\ ~read_enable => read_dat' = read_dat
<1> DEFINE n == fifo_size
           p == Popped
           r == IF read_enable THEN 1 ELSE 0
           w == IF write_enable THEN 1 ELSE 0
<1>1. /\ fifo_size' = n - r + w /\ n \in Nat
      /\ read_enable => n > 0 /\ read_dat' = Contents[1]
      /\ ~read_enable => read_dat' = read_dat
      /\ \A i \in 1..fifo_size' :
            IF write_enable /\ i = fifo_size' THEN Contents'[i] = write_dat
            ELSE Contents'[i] = Contents[i + r]
  BY QueueMoves, SizeOfShim DEF Next
<1>2. /\ Len(generated) \in Nat /\ Len(generated') >= Len(generated)
      /\ \A i \in 1..Len(generated) : generated'[i] = generated[i]
      /\ Pushed \in Int /\ Pushed <= Len(generated) /\ Pushed' = Pushed + w
      /\ write_enable => write_dat = generated[Pushed + 1] /\ Pushed + 1 <= Len(generated)
  BY ProducerMoves
<1>3. p \in Nat /\ p = Pushed - n /\ \A i \in 1..n : Contents[i] = generated[p + i]
  BY DEF QueueInv, Popped
<1>4. Popped' = p + r
  BY <1>1, <1>2, <1>3 DEF Popped
<1>5. Popped' <= Len(generated)
  BY <1>1, <1>2, <1>3, <1>4
<1>6. read_enable => read_dat' = generated[Popped']
  BY <1>1, <1>3, <1>4
<1>7. ASSUME NEW i \in 1..fifo_size'
      PROVE  Contents'[i] = generated'[Popped' + i]
  <2>1. CASE write_enable /\ i = fifo_size'
    <3>1. Popped' + i = Pushed + 1
      BY <1>1, <1>2, <1>3, <1>4, <2>1
    <3>2. Pushed + 1 \in 1..Len(generated)
      BY <1>1, <1>2, <1>3, <1>7, <2>1
    <3> QED
      BY <1>1, <1>2, <2>1, <3>1, <3>2
  <2>2. CASE ~(write_enable /\ i = fifo_size')
    <3>1. i + r \in 1..n
      BY <1>1, <1>7, <2>2
    <3>2. Contents'[i] = generated[p + (i + r)]
      BY <1>1, <1>3, <2>2, <3>1
    <3>3. p + (i + r) = Popped' + i /\ p + (i + r) \in 1..Len(generated)
      BY <1>1, <1>2, <1>3, <1>4, <3>1
    <3> QED
      BY <1>2, <3>2, <3>3
  <2> QED
    BY <2>1, <2>2
<1>8. QueueInv'
  BY <1>3, <1>4, <1>7 DEF QueueInv
<1> QED
  BY <1>1, <1>4, <1>5, <1>6, <1>8

(* What a cycle does to the memory: it takes address and word when `write` *)
(* rises.                                                                  *)
LEMMA MemoryMoves ==
    ASSUME MemoryInv, Next, write' \in BOOLEAN, write \in BOOLEAN
    PROVE  /\ MemoryInv'
           /\ stored' = IF write' /\ ~write
                        THEN Append(stored, [addr |-> addr', word |-> word'])
                        ELSE stored
<1> USE PaceAssumption DEF MemoryInv
<1>1. handle_memory
  BY DEF Next
<1>2. CASE write'
  <2>1. /\ stored' = IF memory_counter = 0
                     THEN Append(stored, [addr |-> addr', word |-> word']) ELSE stored
        /\ IF memory_counter < MEMORY_WAIT_TIME /\ ~valid
           THEN memory_counter' = memory_counter + 1 /\ valid' \in BOOLEAN
           ELSE memory_counter' = memory_counter /\ valid' = TRUE
    BY <1>1, <1>2 DEF handle_memory
  <2>2. memory_counter = 0 => ~valid /\ ~write
    OBVIOUS
  <2>3. memory_counter' \in 0..MEMORY_WAIT_TIME /\ memory_counter' > 0 /\ valid' \in BOOLEAN
    <3>1. MEMORY_WAIT_TIME \in Nat \ {0} /\ memory_counter \in Nat
      OBVIOUS
    <3>2. CASE memory_counter < MEMORY_WAIT_TIME /\ ~valid
      BY <2>1, <3>1, <3>2
    <3>3. CASE ~(memory_counter < MEMORY_WAIT_TIME /\ ~valid)
      <4>1. memory_counter' = memory_counter /\ valid' = TRUE
        BY <2>1, <3>3
      <4>2. memory_counter > 0
        BY <2>2, <3>1, <3>3
      <4> QED
        BY <4>1, <4>2
    <3> QED
      BY <3>2, <3>3
  <2> QED
    BY <1>2, <2>1, <2>2, <2>3
<1>3. CASE ~write'
  <2>1. valid' = FALSE /\ memory_counter' = 0 /\ stored' = stored
    BY <1>1, <1>3 DEF handle_memory
  <2>2. MemoryInv'
    <3>1. valid' \in BOOLEAN /\ ~valid'
      BY <2>1
    <3>2. memory_counter' \in 0..MEMORY_WAIT_TIME /\ ~(memory_counter' > 0)
      BY <2>1
    <3> QED
      BY <1>3, <3>1, <3>2
  <2> QED
    BY <1>3, <2>1, <2>2
<1> QED
  BY <1>2, <1>3

(* What a cycle does to the writer. *)
WriterMoves ==
    /\ writestate = "WAIT_ON_EMPTY" =>
          /\ ~write' /\ word' = word
          /\ \/ writestate' = writestate /\ ~read_enable'
             \/ writestate' = "READ_OFF_FIFO" /\ read_enable'
    /\ writestate = "READ_OFF_FIFO" /\ read_enable =>
          writestate' = writestate /\ ~read_enable' /\ ~write' /\ word' = word
    /\ writestate = "READ_OFF_FIFO" /\ ~read_enable =>
          /\ writestate' = "HIGH_WORD_LOAD" /\ write' /\ ~read_enable'
          /\ word' = LowWord(read_dat)
    /\ writestate = "HIGH_WORD_LOAD" =>
          /\ ~read_enable'
          /\ IF valid
             THEN writestate' = "WAIT_ON_HIGH_WORD" /\ ~write' /\ word' = HighWord(read_dat)
             ELSE writestate' = writestate /\ write' /\ word' = word
    /\ writestate = "WAIT_ON_HIGH_WORD" =>
          /\ ~read_enable' /\ word' = word
          /\ IF write /\ valid THEN writestate' = "WAIT_ON_EMPTY" /\ ~write'
             ELSE writestate' = writestate /\ write'

LEMMA WriterSteps ==
    ASSUME SetInv, WriterInv, Next
    PROVE  WriterMoves
<1>1. /\ write \in BOOLEAN /\ read_enable \in BOOLEAN
      /\ write => writestate \in {"HIGH_WORD_LOAD", "WAIT_ON_HIGH_WORD"}
      /\ read_enable => writestate = "READ_OFF_FIFO"
      /\ writestate = "HIGH_WORD_LOAD" => write
  BY DEF SetInv, UseInv, PopInv, BusInv, WriterInv
<1> USE <1>1 DEF WriterMoves
<1>2. CASE WaitOnEmpty
  BY <1>2 DEF WaitOnEmpty
<1>3. CASE ReadOffFifo
  <2>1. CASE read_enable
    BY <1>3, <2>1 DEF ReadOffFifo
  <2>2. CASE ~read_enable
    BY <1>3, <2>2 DEF ReadOffFifo
  <2> QED
    BY <2>1, <2>2
<1>4. CASE HighWordLoad
  BY <1>4 DEF HighWordLoad
<1>5. CASE WaitOnHighWord
  <2>1. writestate = "WAIT_ON_HIGH_WORD" /\ word' = word /\ read_enable' = read_enable
    BY <1>5 DEF WaitOnHighWord
  <2>2. CASE ~write
    <3>1. write' = TRUE /\ writestate' = writestate
      BY <1>5, <2>2 DEF WaitOnHighWord
    <3> QED
      BY <2>1, <2>2, <3>1
  <2>3. CASE write /\ valid
    <3>1. write' = FALSE /\ writestate' = "WAIT_ON_EMPTY"
      BY <1>5, <2>3 DEF WaitOnHighWord
    <3> QED
      BY <2>1, <2>3, <3>1
  <2>4. CASE write /\ ~valid
    <3>1. write' = write /\ writestate' = writestate
      BY <1>5, <2>4 DEF WaitOnHighWord
    <3> QED
      BY <2>1, <2>4, <3>1
  <2> QED
    BY <2>2, <2>3, <2>4
<1> QED
  BY <1>2, <1>3, <1>4, <1>5 DEF Next, ShimEdge, WriteOut

(* Every word that memory is given is the one that comes next. *)
LEMMA WordGiven ==
    ASSUME ShimInv, Next, WriterMoves, write', ~write
    PROVE  /\ Popped' = Popped /\ Popped > 0 /\ Popped <= Len(generated)
           /\ read_dat' = read_dat /\ read_dat = generated[Popped] /\ setup = "done"
           /\ \/ /\ Len(stored) + 1 = 2 * Popped - 1 /\ word' = LowWord(read_dat)
                 /\ writestate' = "HIGH_WORD_LOAD"
              \/ /\ Len(stored) + 1 = 2 * Popped /\ word' = HighWord(read_dat)
                 /\ writestate' = "WAIT_ON_HIGH_WORD"
<1>1. /\ UseInv /\ ProducerInv /\ QueueInv /\ WriterInv
  BY DEF ShimInv, SetInv
<1>2. \/ writestate = "READ_OFF_FIFO" /\ ~read_enable
      \/ writestate = "WAIT_ON_HIGH_WORD"
  BY <1>1 DEF WriterMoves, WriterInv
<1>3. ~read_enable /\ setup = "done"
  BY <1>2 DEF ShimInv, SetInv, UseInv, PopInv, BusInv
<1>4. Popped' = Popped + 0 /\ Popped' <= Len(generated) /\ read_dat' = read_dat /\ Popped \in Nat
  BY <1>1, <1>3, QueueKept DEF QueueInv
<1>5. Popped > 0 /\ read_dat = generated[Popped] /\ Len(stored) \in Nat
  BY <1>1, <1>2, <1>3 DEF WriterInv
<1>6. CASE writestate = "READ_OFF_FIFO"
  BY <1>1, <1>3, <1>4, <1>5, <1>6 DEF WriterInv, WriterMoves
<1>7. CASE writestate = "WAIT_ON_HIGH_WORD"
  BY <1>1, <1>3, <1>4, <1>5, <1>7 DEF WriterInv, WriterMoves
<1> QED
  BY <1>2, <1>6, <1>7
(* Where the offset goes when a word has been taken: two bytes further, or *)
(* to the start when the region has no room for another word; and in a     *)
(* region of odd length it stays.                                          *)
LEMMA NextPlace ==
    ASSUME RegionInv, OffsetInv, setup = "done"
    PROVE  LET b == (loc_start + NextOffset) % AddrMod
           IN  /\ NextOffset \in 0..AddrMod - 1 /\ NextOffset % 2 = 0
               /\ loc_len % 2 = 1 => NextOffset <= loc_len - 1
               /\ \/ b = (addr + 2) % AddrMod
                  \/ b = MEMORY_START /\ addr + 4 > MEMORY_START + loc_len
<1> DEFINE o == loc_off
           M == AddrMod
           S == MEMORY_START
           L == loc_len
<1>1. /\ M \in Nat \ {0} /\ M % 2 = 0 /\ S \in Nat /\ L \in Nat \ {0} /\ S + L < M
      /\ o \in 0..M - 1 /\ o % 2 = 0 /\ (L % 2 = 1 => o <= L - 1)
      /\ loc_start = S
  BY RegionFacts DEF RegionInv, OffsetInv
<1>2. NextOffset = IF o = L - 1 THEN 0 ELSE (o + 2) % M
  BY RegionFacts DEF NextOffset
<1>3. addr = IF S + o < M THEN S + o ELSE S + o - M
  <2>1. S + o \in 0..2 * M - 1
    BY <1>1
  <2>2. addr = (S + o) % M
    BY <1>1 DEF addr
  <2>3. PICK x \in 0..2 * M - 1 : x = S + o
    BY <2>1
  <2> HIDE DEF o, M, S
  <2>4. x % M = IF x < M THEN x ELSE x - M
    BY <1>1, ModSmall
  <2> QED
    BY <1>1, <2>2, <2>3, <2>4
<1>4. \A y \in 0..2 * M - 1 : y % M = IF y < M THEN y ELSE y - M
  BY <1>1, ModSmall
<1> DEFINE a == addr
           next == NextOffset
           b == (loc_start + next) % M
<1>5. b = (S + next) % M
  BY <1>1
<1> HIDE DEF o, M, S, L, a, next, b
<1>6. a = IF S + o < M THEN S + o ELSE S + o - M
  BY <1>3 DEF a
<1>7. CASE o = L - 1
  <2>1. next = 0 /\ S + 0 = S
    BY <1>1, <1>2, <1>7 DEF next
  <2>2. b = S
    BY <1>1, <1>4, <1>5, <2>1
  <2>3. a + 4 > S + L
    BY <1>1, <1>6, <1>7
  <2>4. 0 \in 0..M - 1 /\ 0 % 2 = 0 /\ (L % 2 = 1 => 0 <= L - 1)
    BY <1>1
  <2> QED
    BY <2>1, <2>2, <2>3, <2>4 DEF a, b, next, M, S, L
<1>8. CASE o # L - 1
  <2>1. o + 2 <= M /\ (L % 2 = 1 => o + 2 <= L - 1) /\ (o + 2) % 2 = 0
    BY <1>1, <1>8
  <2>2. next = IF o + 2 < M THEN o + 2 ELSE 0
    <3>1. next = (o + 2) % M
      BY <1>2, <1>8 DEF next
    <3>2. o + 2 \in 0..2 * M - 1
      BY <1>1, <2>1
    <3>3. PICK x \in 0..2 * M - 1 : x = o + 2
      BY <3>2
    <3>4. x % M = IF x < M THEN x ELSE x - M
      BY <1>4
    <3> QED
      BY <1>1, <2>1, <3>1, <3>3, <3>4
  <2>3. next \in 0..M - 1 /\ next % 2 = 0 /\ (L % 2 = 1 => next <= L - 1)
    BY <1>1, <2>1, <2>2
  <2>4. b = IF S + next < M THEN S + next ELSE S + next - M
    <3>1. S + next \in 0..2 * M - 1
      BY <1>1, <2>3
    <3>2. PICK x \in 0..2 * M - 1 : x = S + next
      BY <3>1
    <3>3. x % M = IF x < M THEN x ELSE x - M
      BY <1>4
    <3> QED
      BY <1>1, <2>3, <1>5, <3>2, <3>3
  <2>5. (a + 2) % M = IF a + 2 < M THEN a + 2 ELSE a + 2 - M
    <3>1. a + 2 \in 0..2 * M - 1
      BY <1>1, <1>6
    <3>2. PICK x \in 0..2 * M - 1 : x = a + 2
      BY <3>1
    <3>3. x % M = IF x < M THEN x ELSE x - M
      BY <1>4
    <3> QED
      BY <1>1, <1>6, <3>2, <3>3
  <2>6. b = (a + 2) % M
    <3>1. CASE o + 2 < M
      BY <1>1, <1>6, <2>2, <2>4, <2>5, <3>1
    <3>2. CASE o + 2 = M
      BY <1>1, <1>6, <2>2, <2>4, <2>5, <3>2
    <3> QED
      BY <1>1, <2>1, <3>1, <3>2
  <2> QED
    BY <2>3, <2>6 DEF a, b, next, M, S, L
<1> QED
  BY <1>1, <1>7, <1>8

(* The processor sets the region up before the first sample, and then      *)
(* leaves it alone, however long it holds a command.                       *)
LEMMA CommandsKept ==
    ASSUME ShimInv, Next, WriterMoves,
           stored' = IF write' /\ ~write
                     THEN Append(stored, [addr |-> addr', word |-> word']) ELSE stored
    PROVE  /\ RegionInv'
           /\ setup = "done" => setup' = "done" /\ UNCHANGED <<loc_start, loc_len>>
<1>1. RegionInv /\ SetupInv /\ BusInv /\ OffsetInv /\ AddrMod \in Nat \ {0}
  BY RegionFacts DEF ShimInv, SetInv
<1>2. Kernel /\ Command
  BY DEF Next, ShimEdge
<1>3. setup # "len" => MEMORY_START \in 0..AddrMod - 1
  BY <1>1, RegionFacts DEF RegionInv
<1>4. /\ cmd_active' \in BOOLEAN /\ cmd_finished' \in BOOLEAN
      /\ cmd' \in {"WRITE_LEN", "WRITE_LOC", "READ_PTR"}
      /\ cmd_data' \in 0..AddrMod - 1
  BY <1>1, <1>2, <1>3 DEF RegionInv, Kernel, HoldCommand, AwaitFinished,
     init_memory, read_shim_ptr, Issue, Command, kernel
<1>5. /\ setup' = "len" => setup = "len" /\ cmd_data' = cmd_data
      /\ setup' = "loc" /\ cmd_active' => cmd_data' = MEMORY_START
      /\ setup = "done" => setup' = "done"
      /\ setup' # "done" => setup # "done"
  BY <1>1, <1>2 DEF RegionInv, SetupInv, Kernel, HoldCommand, AwaitFinished,
     init_memory, read_shim_ptr, Issue, Command, kernel
<1>6. setup' # "len" => loc_len' \in MEMORY_LENS
  BY <1>1, <1>2 DEF RegionInv, SetupInv, Kernel, HoldCommand, AwaitFinished,
     init_memory, read_shim_ptr, Issue, Command, kernel, Executes
<1>7. setup' = "done" => loc_start' = MEMORY_START
  BY <1>1, <1>2 DEF RegionInv, SetupInv, Kernel, HoldCommand, AwaitFinished,
     init_memory, read_shim_ptr, Issue, Command, kernel, Executes
<1>8. setup = "done" => UNCHANGED <<loc_start, loc_len>>
  BY <1>1, <1>2 DEF SetupInv, Command, Executes
<1>9. addr \in 0..AddrMod - 1
  <2>1. loc_start + loc_off \in Int
    BY <1>1 DEF RegionInv, OffsetInv
  <2> QED
    BY <1>1, <2>1, ModRange DEF addr
<1>10. {cmd_data_out', loc_start', loc_len'} \subseteq 0..AddrMod - 1
  BY <1>1, <1>2, <1>9 DEF RegionInv, Command, Pointer
<1>11. setup' # "done" => stored' = <<>>
  <2>1. setup' # "done" => ~(write' /\ ~write)
    BY <1>5, WordGiven
  <2>2. setup' # "done" => stored = <<>>
    BY <1>1, <1>5 DEF RegionInv
  <2> QED
    BY <2>1, <2>2
<1>12. setup' = "len" => cmd_data' \in MEMORY_LENS
  BY <1>1, <1>5 DEF RegionInv
<1> QED
  BY <1>4, <1>5, <1>6, <1>7, <1>8, <1>10, <1>11, <1>12 DEF RegionInv

(* The offset moves when a word has been taken, and only then. *)
LEMMA OffsetMoves ==
    ASSUME ShimInv, Next
    PROVE  /\ valid <=> WordTaken
           /\ setup = "done" => loc_off' = IF valid THEN NextOffset ELSE loc_off
           /\ setup # "done" => loc_off' = 0 /\ ~write /\ ~valid
<1>1. SetupInv /\ BusInv /\ MemoryInv /\ WriterInv /\ OffsetInv /\ Offset
  BY DEF ShimInv, SetInv, Next, ShimEdge
<1>2. valid <=> WordTaken
  BY <1>1 DEF WordTaken, MemoryInv, WriterInv, BusInv
<1>3. CASE setup = "done"
  <2>1. ~Executes("WRITE_LOC") /\ ~Executes("WRITE_LEN")
    BY <1>1, <1>3 DEF SetupInv, Executes
  <2> QED
    BY <1>1, <1>2, <1>3, <2>1 DEF Offset
<1>4. CASE setup # "done"
  <2>1. ~write /\ ~valid /\ loc_off = 0
    BY <1>1, <1>4 DEF BusInv, MemoryInv, OffsetInv
  <2>2. loc_off' = 0
    BY <1>1, <1>2, <2>1 DEF Offset
  <2> QED
    BY <1>2, <1>4, <2>1, <2>2
<1> QED
  BY <1>3, <1>4

LEMMA OffsetKept ==
    ASSUME ShimInv, Next, WriterMoves,
           stored' = IF write' /\ ~write
                     THEN Append(stored, [addr |-> addr', word |-> word']) ELSE stored
    PROVE  OffsetInv' /\ addr' \in 0..AddrMod - 1
<1>1. /\ RegionInv' /\ RegionInv /\ OffsetInv /\ AddrMod \in Nat \ {0}
      /\ setup = "done" => setup' = "done" /\ loc_len' = loc_len
  BY CommandsKept, RegionFacts DEF ShimInv
<1>2. OffsetInv'
  <2>1. CASE setup # "done"
    <3>1. loc_off' = 0
      BY <2>1, OffsetMoves
    <3>2. setup' = "done" => loc_len' \in Nat \ {0}
      BY <1>1, RegionFacts DEF RegionInv
    <3>3. 0 \in 0..AddrMod - 1 /\ 0 % 2 = 0
      BY <1>1
    <3> QED
      BY <3>1, <3>2, <3>3 DEF OffsetInv
  <2>2. CASE setup = "done" /\ valid
    <3>1. loc_off' = NextOffset
      BY <2>2, OffsetMoves
    <3>2. /\ NextOffset \in 0..AddrMod - 1 /\ NextOffset % 2 = 0
          /\ loc_len % 2 = 1 => NextOffset <= loc_len - 1
      BY <1>1, <2>2, NextPlace
    <3> QED
      BY <1>1, <2>2, <3>1, <3>2 DEF OffsetInv
  <2>3. CASE setup = "done" /\ ~valid
    <3>1. loc_off' = loc_off
      BY <2>3, OffsetMoves
    <3> QED
      BY <1>1, <2>3, <3>1 DEF OffsetInv
  <2> QED
    BY <2>1, <2>2, <2>3
<1>3. addr' \in 0..AddrMod - 1
  <2>1. loc_start' + loc_off' \in Int
    BY <1>1, <1>2 DEF RegionInv, OffsetInv
  <2> QED
    BY <1>1, <2>1, ModRange DEF addr
<1> QED
  BY <1>2, <1>3

(* The address on the bus is always one where a word may go.               *)
LEMMA PlaceKept ==
    ASSUME ShimInv, Next, WriterMoves, addr' \in 0..AddrMod - 1,
           stored' = IF write' /\ ~write
                     THEN Append(stored, [addr |-> addr', word |-> word']) ELSE stored
    PROVE  PlaceInv'
<1>1. /\ RegionInv /\ RegionInv' /\ OffsetInv /\ PlaceInv /\ MemoryInv /\ BusInv
      /\ SetupInv /\ stored \in Seq(Words) /\ Len(stored) \in Nat /\ write \in BOOLEAN
      /\ setup = "done" => setup' = "done" /\ UNCHANGED <<loc_start, loc_len>>
  BY CommandsKept DEF ShimInv, SetInv, WriterInv, BusInv
<1>2. valid => write /\ ~write'
  BY <1>1 DEF MemoryInv, BusInv, WriterMoves
<1>3. ~valid /\ write => write'
  BY <1>1 DEF BusInv, WriterMoves
<1>4. SUFFICES ASSUME setup' = "done"
               PROVE  IF write' THEN /\ Len(stored') > 0
                                     /\ stored'[Len(stored')].addr = addr'
                                ELSE Follows(Len(stored), addr)'
  BY DEF PlaceInv
<1>5. CASE setup # "done"
  <2>1. ~write' /\ stored' = <<>> /\ loc_off' = 0 /\ loc_start' = MEMORY_START
    <3>1. ~write' \/ write
      BY <1>5, WordGiven
    <3>2. ~write /\ loc_off' = 0
      BY <1>5, OffsetMoves
    <3> QED
      BY <1>1, <1>4, <1>5, <3>1, <3>2 DEF RegionInv
  <2>2. addr' = MEMORY_START
    <3>1. loc_len' \in MEMORY_LENS
      BY <1>1, <1>4 DEF RegionInv
    <3>2. MEMORY_START \in 0..AddrMod - 1 /\ MEMORY_START + 0 = MEMORY_START
      BY <3>1, RegionFacts
    <3>3. MEMORY_START % AddrMod = MEMORY_START
      BY <3>2, RegionFacts
    <3> QED
      BY <2>1, <3>2, <3>3 DEF addr
  <2>3. Len(stored') = 0
    BY <2>1
  <2> QED
    BY <2>1, <2>2, <2>3 DEF Follows
<1>6. CASE setup = "done" /\ ~valid
  <2>1. addr' = addr
    <3>1. loc_off' = loc_off
      BY <1>6, OffsetMoves
    <3> QED
      BY <1>1, <1>6, <3>1 DEF addr
  <2>2. CASE write' /\ ~write
    BY <1>1, <1>6, <2>2
  <2>3. CASE write
    <3>1. write' /\ stored' = stored
      BY <1>1, <1>3, <1>6, <2>3
    <3> QED
      BY <1>1, <1>6, <2>1, <2>3, <3>1 DEF PlaceInv
  <2>4. CASE ~write /\ ~write'
    <3>1. stored' = stored
      BY <1>1, <2>4
    <3> QED
      BY <1>1, <1>6, <2>1, <2>4, <3>1 DEF PlaceInv, Follows
  <2> QED
    BY <2>2, <2>3, <2>4
<1>7. CASE setup = "done" /\ valid
  <2>1. write /\ ~write' /\ stored' = stored /\ Len(stored) > 0
    BY <1>1, <1>2, <1>7 DEF PlaceInv
  <2>2. stored[Len(stored)].addr = addr
    BY <1>1, <1>7, <2>1 DEF PlaceInv
  <2>3. addr' = (loc_start + NextOffset) % AddrMod
    <3>1. loc_off' = NextOffset
      BY <1>7, OffsetMoves
    <3> QED
      BY <1>1, <1>7, <3>1 DEF addr
  <2>4. \/ addr' = (addr + 2) % AddrMod
        \/ addr' = MEMORY_START /\ addr + 4 > MEMORY_START + loc_len
    BY <1>1, <1>7, <2>3, NextPlace
  <2>5. Follows(Len(stored), addr')
    BY <2>1, <2>2, <2>4, RegionFacts DEF Follows
  <2>6. Follows(Len(stored), addr)' = Follows(Len(stored), addr')
    BY <1>1, <1>7, <2>1 DEF Follows
  <2> QED
    BY <2>1, <2>5, <2>6
<1> QED
  BY <1>5, <1>6, <1>7

LEMMA WriterKept ==
    ASSUME ShimInv, Next, WriterMoves, QueueInv', DataInv', addr' \in 0..AddrMod - 1,
           stored' = IF write' /\ ~write
                     THEN Append(stored, [addr |-> addr', word |-> word']) ELSE stored
    PROVE  WriterInv'
<1>1. /\ UseInv /\ ProducerInv /\ QueueInv /\ WriterInv /\ MemoryInv
      /\ stored \in Seq(Words) /\ Len(stored) \in Nat
  BY DEF ShimInv, SetInv, WriterInv
<1>2. /\ Popped' = Popped + IF read_enable THEN 1 ELSE 0
      /\ Popped \in Nat /\ Popped' <= Len(generated)
      /\ read_enable => read_dat' = generated[Popped']
      /\ ~read_enable => read_dat' = read_dat
  BY <1>1, QueueKept DEF QueueInv
<1>3. generated'[Popped'] = generated[Popped'] \/ Popped' = 0
  <2>1. Popped' \in 0..Len(generated) /\ Len(generated) \in Nat
    BY <1>1, <1>2 DEF ProducerInv
  <2> QED
    BY <1>1, <2>1, ProducerMoves
<1>4. [addr |-> addr', word |-> word'] \in Words
  BY DEF DataInv, Words
<1>5. /\ stored' \in Seq(Words)
      /\ Len(stored') = Len(stored) + IF write' /\ ~write THEN 1 ELSE 0
  BY <1>1, <1>4
<1>6. CASE writestate = "WAIT_ON_EMPTY"
  <2>1. ~write /\ ~read_enable /\ Len(stored) = 2 * Popped
    BY <1>1, <1>6 DEF WriterInv, ShimInv, SetInv, BusInv, UseInv, PopInv
  <2>2. Len(stored') = 2 * Popped'
    BY <1>2, <1>5, <1>6, <2>1 DEF WriterMoves
  <2> QED
    BY <1>5, <1>6, <2>2 DEF WriterInv, WriterMoves
<1>7. CASE writestate = "READ_OFF_FIFO" /\ read_enable
  <2>1. ~write /\ Len(stored) = 2 * Popped
    BY <1>1, <1>7 DEF WriterInv, ShimInv, SetInv, BusInv
  <2>2. /\ Len(stored') = 2 * Popped' - 2 /\ Popped' > 0
        /\ read_dat' = generated'[Popped']
    BY <1>2, <1>3, <1>5, <1>7, <2>1 DEF WriterMoves
  <2>3. writestate' = "READ_OFF_FIFO" /\ ~read_enable' /\ ~write'
    BY <1>7 DEF WriterMoves
  <2> QED
    BY <1>5, <2>2, <2>3 DEF WriterInv
<1>8. CASE writestate # "WAIT_ON_EMPTY" /\ ~read_enable
  <2>1. /\ Popped > 0 /\ Popped' = Popped /\ read_dat' = read_dat
        /\ read_dat = generated[Popped]
    BY <1>1, <1>2, <1>8 DEF WriterInv
  <2>2. Popped' > 0 /\ read_dat' = generated'[Popped']
    BY <1>2, <1>3, <2>1
  <2>3. CASE writestate = "READ_OFF_FIFO"
    <3>1. writestate' = "HIGH_WORD_LOAD" /\ write' /\ ~read_enable' /\ ~write
      BY <1>1, <1>8, <2>3 DEF WriterMoves, ShimInv, SetInv, BusInv
    <3>2. Len(stored') = Len(stored) + 1 /\ Len(stored) = 2 * Popped - 2
      BY <1>1, <1>5, <1>8, <2>3, <3>1 DEF WriterInv
    <3>3. Len(stored') = 2 * Popped' - 1
      BY <1>2, <2>1, <3>2
    <3> QED
      BY <1>5, <2>2, <3>1, <3>3 DEF WriterInv
  <2>4. CASE writestate = "HIGH_WORD_LOAD"
    <3>1. write /\ Len(stored) = 2 * Popped - 1
      BY <1>1, <2>4 DEF WriterInv
    <3>2. Len(stored') = 2 * Popped' - 1
      BY <1>5, <2>1, <3>1
    <3>3. \/ writestate' = "WAIT_ON_HIGH_WORD" /\ ~write' /\ word' = HighWord(read_dat')
          \/ writestate' = "HIGH_WORD_LOAD" /\ write'
      BY <2>1, <2>4 DEF WriterMoves
    <3> QED
      BY <1>5, <2>2, <3>2, <3>3 DEF WriterInv
  <2>5. CASE writestate = "WAIT_ON_HIGH_WORD"
    <3>1. Len(stored) = IF write THEN 2 * Popped ELSE 2 * Popped - 1
      BY <1>1, <2>5 DEF WriterInv
    <3>2. ~read_enable'
      BY <2>5 DEF WriterMoves
    <3>3. CASE write
      <4>1. Len(stored') = 2 * Popped'
        BY <1>5, <2>1, <3>1, <3>3
      <4>2. \/ writestate' = "WAIT_ON_EMPTY"
            \/ writestate' = "WAIT_ON_HIGH_WORD" /\ write'
        BY <2>5 DEF WriterMoves
      <4> QED
        BY <1>5, <2>2, <3>2, <4>1, <4>2 DEF WriterInv
    <3>4. CASE ~write
      <4>1. writestate' = "WAIT_ON_HIGH_WORD" /\ write'
        BY <2>5, <3>4 DEF WriterMoves
      <4>2. Len(stored') = Len(stored) + 1 /\ Len(stored) = 2 * Popped - 1
        BY <1>5, <3>1, <3>4, <4>1
      <4>3. Len(stored') = 2 * Popped'
        BY <1>2, <2>1, <4>2
      <4> QED
        BY <1>5, <2>2, <3>2, <4>1, <4>3 DEF WriterInv
    <3> QED
      BY <3>3, <3>4
  <2> QED
    BY <1>1, <1>8, <2>3, <2>4, <2>5 DEF WriterInv
<1>9. read_enable => writestate = "READ_OFF_FIFO"
  BY <1>1 DEF UseInv, PopInv
<1> QED
  BY <1>6, <1>7, <1>8, <1>9


LEMMA DataKept ==
    ASSUME ShimInv, Next, WriterMoves
    PROVE  DataInv'
<1>1. /\ UseInv /\ ProducerInv /\ DataInv /\ WriterInv /\ QueueInv
  BY DEF ShimInv, SetInv
<1>2. {data', write_dat'} \subseteq Data \cup {0}
  BY <1>1, ProducerMoves DEF DataInv
<1>3. word' \in {word, LowWord(read_dat), HighWord(read_dat)}
  BY <1>1 DEF WriterMoves, WriterInv, UseInv, PopInv
<1>4. word' # word => read_dat \in Data
  <2>1. word' # word => writestate # "WAIT_ON_EMPTY" /\ ~read_enable
    BY <1>1 DEF WriterMoves, WriterInv, UseInv, PopInv
  <2>2. Popped \in Nat /\ Popped <= Len(generated) /\ Len(generated) \in Nat
    <3>1. fifo_size \in Nat /\ Pushed \in Int /\ Pushed <= Len(generated) /\ Len(generated) \in Nat
      BY <1>1, ProducerMoves, SizeOfShim DEF Next
    <3> QED
      BY <1>1, <3>1 DEF QueueInv, Popped
  <2>3. word' # word => read_dat = generated[Popped] /\ Popped \in 1..Len(generated)
    BY <1>1, <2>1, <2>2 DEF WriterInv
  <2> QED
    BY <1>1, <2>3 DEF ProducerInv
<1>5. word' \in 0..2^RAM_WORD - 1
  BY <1>1, <1>3, <1>4, SplitFacts DEF DataInv
<1>6. cntr' \in 0..CYCLE_WAIT
  <2>1. Produce /\ cntr \in 0..CYCLE_WAIT /\ CYCLE_WAIT \in Nat
    BY <1>1, PaceAssumption DEF Next, DataInv
  <2>2. CASE Pause
    BY <2>1, <2>2 DEF Pause
  <2>3. CASE Hold \/ Withdraw \/ \E v \in Data : Commit(v)
    BY <2>1, <2>3 DEF Hold, Withdraw, Commit, producer
  <2> QED
    BY <2>1, <2>2, <2>3 DEF Produce
<1> QED
  BY <1>2, <1>5, <1>6 DEF DataInv

(* The words memory has been given stay as they are, and the next one is   *)
(* the right word at the right place.                                      *)
LEMMA OrderKept ==
    ASSUME ShimInv, Next, WriterMoves,
           stored' = IF write' /\ ~write
                     THEN Append(stored, [addr |-> addr', word |-> word']) ELSE stored
    PROVE  StoredInOrder'
<1> DEFINE n == Len(stored)
<1>1. /\ UseInv /\ ProducerInv /\ StoredInOrder /\ SetupInv /\ RegionInv
      /\ OffsetInv /\ PlaceInv
      /\ stored \in Seq(Words) /\ n \in Nat
  BY DEF ShimInv, SetInv, WriterInv
<1>2. /\ Len(generated) \in Nat /\ Len(generated') \in Nat
      /\ Len(generated') >= Len(generated)
      /\ \A i \in 1..Len(generated) : generated'[i] = generated[i]
      /\ generated \in Seq(Data)
  BY <1>1, ProducerMoves DEF ProducerInv
<1>3. setup = "done" => UNCHANGED <<loc_start, loc_len>>
  BY CommandsKept
<1>4. n > 0 => setup = "done"
  BY <1>1 DEF RegionInv
<1>5. \A k \in 1..n : stored'[k] = stored[k]
  BY <1>1
<1>6. ASSUME NEW k \in 1..n
      PROVE  /\ (k + 1) \div 2 <= Len(generated')
             /\ stored'[k].word = ExpectedWord(k)'
             /\ Follows(k - 1, stored[k].addr)'
             /\ loc_len' % 2 = 1 =>
                   stored'[k].addr \in MEMORY_START..MEMORY_START + loc_len' - 1
  <2>1. (k + 1) \div 2 <= Len(generated) /\ (k + 1) \div 2 \in Nat /\ (k + 1) \div 2 >= 1
    <3>1. (k + 1) \div 2 <= Len(generated)
      BY <1>1, <1>6 DEF StoredInOrder
    <3>2. k \in Nat /\ k >= 1
      BY <1>1
    <3>3. (k + 1) \div 2 \in Nat /\ (k + 1) \div 2 >= 1
      BY <3>2
    <3> QED
      BY <3>1, <3>3
  <2>2. generated'[(k + 1) \div 2] = generated[(k + 1) \div 2]
    BY <1>2, <2>1
  <2>3. ExpectedWord(k)' = ExpectedWord(k)
    BY <2>2 DEF ExpectedWord, sign_extend
  <2>4. /\ stored[k].word = ExpectedWord(k)
        /\ Follows(k - 1, stored[k].addr)
        /\ loc_len % 2 = 1 => stored[k].addr \in MEMORY_START..MEMORY_START + loc_len - 1
    BY <1>1, <1>6, RegionFacts DEF StoredInOrder
  <2>5. loc_len' = loc_len /\ stored'[k] = stored[k]
    BY <1>1, <1>3, <1>4, <1>5
  <2>6. k - 1 > 0 => k - 1 \in 1..n
    BY <1>1
  <2>7. k - 1 > 0 => stored'[k - 1] = stored[k - 1]
    BY <1>5, <2>6
  <2>8. Follows(k - 1, stored[k].addr)'
    BY <2>4, <2>5, <2>7 DEF Follows
  <2> QED
    BY <1>2, <2>1, <2>3, <2>4, <2>5, <2>8
<1>7. CASE ~(write' /\ ~write)
  <2>1. stored' = stored
    BY <1>7
  <2> QED
    BY <1>6, <2>1, RegionFacts DEF StoredInOrder
<1>8. CASE write' /\ ~write
  <2> DEFINE p == Popped
  <2> PICK m \in Nat : m = n + 1
    BY <1>1
  <2>1. /\ p \in Nat \ {0} /\ p <= Len(generated) /\ read_dat = generated[p]
        /\ setup = "done"
        /\ \/ m = 2 * p - 1 /\ word' = LowWord(read_dat)
           \/ m = 2 * p /\ word' = HighWord(read_dat)
    BY <1>8, WordGiven DEF ShimInv, QueueInv
  <2> HIDE DEF p
  <2>2. read_dat \in Data /\ generated'[p] = read_dat
    BY <1>2, <2>1
  <2>3. (m + 1) \div 2 = p /\ m \in Nat \ {0}
    BY <1>1, <2>1, HalfFacts
  <2>4. ExpectedWord(m)' = word'
    <3>1. ExpectedWord(m)' = LET nv == sign_extend(read_dat)
                             IN  IF m % 2 = 1 THEN nv % 2^RAM_WORD ELSE nv \div 2^RAM_WORD
      BY <2>2, <2>3 DEF ExpectedWord, sign_extend
    <3>2. m = 2 * p - 1 => m % 2 = 1
      BY <2>1, HalfFacts
    <3>3. m = 2 * p => m % 2 # 1
      BY <2>1, HalfFacts
    <3> QED
      BY <2>1, <2>2, <3>1, <3>2, <3>3, SplitFacts
  <2>5. addr' = addr /\ loc_len' = loc_len
    <3>1. ~valid
      BY <1>8 DEF ShimInv, MemoryInv
    <3>2. loc_off' = loc_off
      BY <2>1, <3>1, OffsetMoves
    <3> QED
      BY <1>3, <2>1, <3>2 DEF addr
  <2>9. Follows(n, addr)
    BY <1>1, <1>8, <2>1 DEF PlaceInv
  <2>10. loc_len % 2 = 1 => addr \in MEMORY_START..MEMORY_START + loc_len - 1
    <3> DEFINE S == MEMORY_START
               M == AddrMod
    <3>1. /\ loc_start = S /\ S \in Nat /\ M \in Nat \ {0}
          /\ loc_len \in Nat \ {0} /\ S + loc_len < M
      BY <1>1, <2>1, RegionFacts DEF RegionInv
    <3>2. ASSUME loc_len % 2 = 1
          PROVE  addr \in S..S + loc_len - 1
      <4>1. loc_off \in Nat /\ loc_off <= loc_len - 1
        BY <1>1, <2>1, <3>2 DEF OffsetInv
      <4>2. S + loc_off \in 0..M - 1 /\ S + loc_off \in S..S + loc_len - 1
        BY <3>1, <4>1
      <4>3. addr = (S + loc_off) % M
        BY <3>1 DEF addr
      <4> HIDE DEF S, M
      <4>4. (S + loc_off) % M = S + loc_off
        BY <3>1, <4>2
      <4> QED
        BY <4>2, <4>3, <4>4
    <3> QED
      BY <3>2
  <2>6. /\ Len(stored') = m /\ stored'[m] = [addr |-> addr', word |-> word']
        /\ \A k \in 1..n : stored'[k] = stored[k]
    BY <1>1, <1>8
  <2>7. (m + 1) \div 2 <= Len(generated')
    BY <1>2, <2>1, <2>3
  <2>11. Follows(m - 1, stored[m].addr)'
    <3>1. m - 1 = n /\ stored'[m].addr = addr /\ (n > 0 => stored'[n] = stored[n])
      BY <1>1, <1>5, <2>5, <2>6
    <3> QED
      BY <2>5, <2>9, <3>1 DEF Follows
  <2>8. ASSUME NEW k \in 1..Len(stored')
        PROVE  /\ (k + 1) \div 2 <= Len(generated')
               /\ stored'[k].word = ExpectedWord(k)'
               /\ Follows(k - 1, stored[k].addr)'
               /\ loc_len' % 2 = 1 =>
                     stored'[k].addr \in MEMORY_START..MEMORY_START + loc_len' - 1
    <3>1. CASE k = m
      BY <2>4, <2>5, <2>6, <2>7, <2>10, <2>11, <3>1
    <3>2. CASE k # m
      <4>1. k \in 1..n
        BY <1>1, <2>6, <2>8, <3>2
      <4> QED
        BY <1>6, <4>1
    <3> QED
      BY <3>1, <3>2
  <2> QED
    BY <2>8, RegionFacts DEF StoredInOrder
<1> QED
  BY <1>7, <1>8

LEMMA ShimStarts == Init => ShimInv
<1> SUFFICES ASSUME Init PROVE ShimInv
  OBVIOUS
<1> USE DEF Init, init_values
<1>1. SetInv
  BY SetStarts
<1>2. fifo_size = 0 /\ write_enable = FALSE /\ finished = FALSE /\ write_dat = 0
  BY DEF FifoInit, Input!InputInit
<1>3. ProducerInv
  BY <1>2 DEF ProducerInv
<1>4. Popped = 0
  BY <1>2 DEF Popped, Pushed
<1>5. QueueInv
  BY <1>2, <1>4 DEF QueueInv
<1>6. MemoryInv
  <2>1. 0 \in 0..MEMORY_WAIT_TIME
    BY PaceAssumption
  <2>2. valid = FALSE /\ write = FALSE /\ memory_counter = 0
    OBVIOUS
  <2>3. memory_counter \in 0..MEMORY_WAIT_TIME /\ ~(memory_counter > 0)
    BY <2>1, <2>2
  <2> HIDE DEF Init, init_values
  <2>4. valid \in BOOLEAN /\ ~valid /\ ~write
    BY <2>2
  <2> QED
    BY <2>3, <2>4 DEF MemoryInv
<1>7. WriterInv
  BY <1>4 DEF WriterInv
<1>8. RegionInv
  <2>1. MEMORY_LENS \subseteq 0..AddrMod - 1 /\ 0 \in 0..AddrMod - 1
    BY RegionFacts
  <2> QED
    BY <2>1 DEF RegionInv
<1>11. OffsetInv /\ PlaceInv
  <2>1. 0 \in 0..AddrMod - 1 /\ 0 % 2 = 0
    BY RegionFacts
  <2> QED
    BY <2>1 DEF OffsetInv, PlaceInv
<1>9. DataInv
  BY <1>2, PowerAssumption, PaceAssumption DEF DataInv
<1>10. StoredInOrder
  BY DEF StoredInOrder
<1> QED
  BY <1>1, <1>3, <1>5, <1>6, <1>7, <1>8, <1>9, <1>10, <1>11 DEF ShimInv

LEMMA ShimKept == ASSUME ShimInv, [Next]_vars PROVE ShimInv'
<1>1. CASE Next
  <2> USE <1>1
  <2>1. SetInv' /\ WriterMoves /\ write \in BOOLEAN /\ write' \in BOOLEAN
    <3>1. SetInv /\ SetInv' /\ WriterInv
      BY SetKept DEF ShimInv
    <3> QED
      BY <3>1, WriterSteps DEF SetInv, BusInv
  <2>2. /\ MemoryInv'
        /\ stored' = IF write' /\ ~write
                     THEN Append(stored, [addr |-> addr', word |-> word']) ELSE stored
    BY <2>1, MemoryMoves DEF ShimInv
  <2>3. ProducerInv' /\ QueueInv'
    BY ProducerMoves, QueueKept DEF ShimInv, SetInv
  <2>4. DataInv'
    BY <2>1, DataKept
  <2>5. RegionInv' /\ OffsetInv' /\ PlaceInv' /\ addr' \in 0..AddrMod - 1
    BY <2>1, <2>2, CommandsKept, OffsetKept, PlaceKept
  <2>6. WriterInv'
    BY <2>1, <2>2, <2>3, <2>4, <2>5, WriterKept
  <2>7. StoredInOrder'
    BY <2>1, <2>2, OrderKept
  <2> QED
    BY <2>1, <2>2, <2>3, <2>4, <2>5, <2>6, <2>7 DEF ShimInv
<1>2. CASE UNCHANGED vars
  <2>1. SetInv'
    BY <1>2, SetKept DEF ShimInv
  <2>2. UNCHANGED <<fifoVars, cmdVars, loc_off, kernel, finished, write_enable,
                    write_dat, writeOut, producer, ram>>
    BY <1>2 DEF vars
  <2> USE <2>2 DEF fifoVars, cmdVars, kernel, writeOut, producer, ram, ShimInv
  <2>3. ProducerInv' /\ MemoryInv' /\ DataInv'
    BY DEF ProducerInv, MemoryInv, DataInv
  <2>4. Popped' = Popped /\ Contents' = Contents /\ fifo_size' = fifo_size
    BY DEF Popped, Pushed, Contents, Slot
  <2>5. QueueInv'
    BY <2>4 DEF QueueInv
  <2>6. WriterInv'
    BY <2>4 DEF WriterInv
  <2>7. RegionInv' /\ OffsetInv' /\ PlaceInv'
    BY DEF RegionInv, OffsetInv, PlaceInv, Follows, addr
  <2>8. StoredInOrder'
    BY DEF StoredInOrder, Follows, ExpectedWord, sign_extend
  <2> QED
    BY <2>1, <2>3, <2>5, <2>6, <2>7, <2>8
<1> QED
  BY <1>1, <1>2

(* The shim's registers, and those of its processor, producer and memory,  *)
(* keep to their ranges.                                                   *)
THEOREM ShimIsTyped == Spec => []ShimTypeOK
<1>1. ASSUME ShimInv PROVE ShimTypeOK
  <2>1. /\ SetInv /\ UseInv /\ PushInv /\ PopInv /\ SetupInv /\ BusInv /\ MemoryInv
        /\ WriterInv /\ RegionInv /\ OffsetInv /\ DataInv /\ FifoInv
    BY <1>1 DEF ShimInv, SetInv, UseInv
  <2> QED
    BY <2>1 DEF ShimTypeOK, PushInv, PopInv, SetupInv, BusInv, MemoryInv,
                WriterInv, RegionInv, OffsetInv, DataInv
<1> QED
  BY <1>1, ShimStarts, ShimKept, PTL DEF Spec

(* Memory is given both words of every sample, sign-extended, in the order *)
(* the samples were sent, at consecutive places that leave no room of the  *)
(* region unused, and in a region of odd length all begin within it: for   *)
(* every depth of the FIFO, every width, every region, however the pauses  *)
(* of the producer and the delays of the memory fall, and however long the *)
(* processor holds its commands.                                           *)
THEOREM SamplesAreStoredInOrder == Spec => []StoredInOrder
<1>1. ShimInv => StoredInOrder
  BY DEF ShimInv
<1> QED
  BY <1>1, ShimStarts, ShimKept, PTL DEF Spec

(* The pointer the processor is given is the place behind the last word    *)
(* that memory acknowledged, or the one before it: never beyond.           *)
THEOREM PointerKeepsBehind == Spec => PointerNeverAhead
<1> DEFINE Behind == Executes("READ_PTR") =>
                         \E k \in Acknowledged - 1..Acknowledged :
                             k >= 0 /\ Follows(k, cmd_data_out')
<1>1. ASSUME ShimInv, Next, Executes("READ_PTR")
      PROVE  \E k \in Acknowledged - 1..Acknowledged :
                 k >= 0 /\ Follows(k, cmd_data_out')
  <2>1. /\ SetInv /\ SetupInv /\ BusInv /\ MemoryInv /\ WriterInv /\ RegionInv
        /\ PlaceInv /\ StoredInOrder
    BY <1>1 DEF ShimInv, SetInv
  <2>2. setup = "done"
    BY <1>1, <2>1 DEF Executes, SetupInv
  <2>3. cmd_data_out' = addr
    BY <1>1 DEF Next, ShimEdge, Command, Pointer
  <2> DEFINE n == Len(stored)
  <2>4. /\ n \in Nat /\ write \in BOOLEAN /\ valid \in BOOLEAN
        /\ (write <=> memory_counter > 0) /\ (valid => write)
    BY <2>1 DEF WriterInv, BusInv, MemoryInv
  <2>5. Acknowledged = IF write /\ ~valid THEN n - 1 ELSE n
    <3>1. CASE write /\ valid
      BY <2>4, <3>1 DEF Acknowledged
    <3>2. CASE write /\ ~valid
      BY <2>4, <3>2 DEF Acknowledged
    <3>3. CASE ~write
      BY <2>4, <3>3 DEF Acknowledged
    <3> QED
      BY <2>4, <3>1, <3>2, <3>3
  <2>6. CASE ~write
    <3>1. Follows(n, cmd_data_out')
      BY <2>1, <2>2, <2>3, <2>6 DEF PlaceInv
    <3>2. n \in Acknowledged - 1..Acknowledged /\ n >= 0
      BY <2>4, <2>5, <2>6
    <3> QED
      BY <3>1, <3>2
  <2>7. CASE write
    <3>1. n > 0 /\ stored[n].addr = addr
      BY <2>1, <2>2, <2>7 DEF PlaceInv
    <3>2. Follows(n - 1, cmd_data_out')
      <4>1. n \in 1..Len(stored)
        BY <2>4, <3>1
      <4>2. Follows(n - 1, stored[n].addr)
        BY <2>1, <4>1 DEF StoredInOrder
      <4> QED
        BY <2>3, <3>1, <4>2
    <3>3. n - 1 \in Acknowledged - 1..Acknowledged /\ n - 1 >= 0
      BY <2>4, <2>5, <2>7, <3>1
    <3> QED
      BY <3>2, <3>3
  <2> QED
    BY <2>4, <2>6, <2>7
<1>2. ShimInv /\ [Next]_vars => [Behind]_vars
  BY <1>1
<1> QED
  BY <1>2, ShimStarts, ShimKept, PTL DEF Spec, PointerNeverAhead
=============================================================================
