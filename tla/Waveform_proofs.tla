-------------------------- MODULE Waveform_proofs --------------------------
(***************************************************************************)
(* The waveform unit stops between words and plays them in order, for      *)
(* every number of words, every time to wait and every pace of memory and  *)
(* DAC.                                                                    *)
(*                                                                         *)
(* The invariant follows the DAC's flag: `finished` outlives a transfer by *)
(* two cycles, and the unit needs three from the end of one word to the    *)
(* next arming.  With it go the counters of the two sides, which agree     *)
(* whenever no word is between them, and what the buffer holds.            *)
(***************************************************************************)
EXTENDS Waveform, TLAPS

UnitTypes ==
    /\ state \in {"WAIT_ON_ARM", "DO_WAIT", "RECV_WORD", "WAIT_ON_DAC",
                  "WAIT_ON_DISARM"}
    /\ dac_phase \in {"idle", "select", "load", "shift", "settle", "done"}
    /\ dac_lag \in 0..2
    /\ auto_cntr \in Indices /\ cur_ind \in Indices

(* The handshakes are functions of the unit's state. *)
Handshakes ==
    /\ dac_arm <=> state = "WAIT_ON_DAC"
    /\ word_next <=> state = "RECV_WORD"
    /\ word_rst => state = "WAIT_ON_ARM" /\ cur_ind = 0

(* The flag seen in WAIT_ON_DAC is that of the transfer armed there. *)
FlagIsFresh ==
    /\ dac_finished <=> dac_phase \in {"settle", "done"} \/ dac_lag > 0
    /\ state = "WAIT_ON_DAC" => dac_lag = 0 /\ dac_phase # "done"
    /\ state = "RECV_WORD" => dac_phase = "idle" /\ (word_ok => dac_lag < 2)
    /\ state \in {"WAIT_ON_ARM", "DO_WAIT", "WAIT_ON_DISARM"} =>
           dac_phase \in {"done", "idle"}
    /\ word_ok => \/ state = "RECV_WORD"
                  \/ state = "WAIT_ON_DAC" /\ dac_phase = "idle"

(* A word is between the two counters from when it is handed out until the *)
(* DAC has it.                                                             *)
Between == word_ok \/ state = "WAIT_ON_DAC"

CountersAgree ==
    /\ Between => /\ auto_cntr = Following(cur_ind)
                  /\ word_last <=> cur_ind = WORD_AMNT
    /\ ~Between /\ ~word_rst => auto_cntr = cur_ind
    /\ state = "WAIT_ON_DISARM" => cur_ind = 0

WaveInv == UnitTypes /\ Handshakes /\ FlagIsFresh /\ CountersAgree

LEMMA WaveStarts == Init => WaveInv
<1> USE WordsAssumption
<1> SUFFICES ASSUME Init PROVE WaveInv
  OBVIOUS
<1>1. /\ state = "WAIT_ON_ARM" /\ ~word_next /\ word_rst
      /\ ~dac_arm /\ cur_ind = 0
  BY DEF Init
<1>2. ~word_ok /\ ~word_last /\ auto_cntr = 0
  BY DEF Init, BramInit
<1>3. /\ dac_phase = "idle" /\ dac_lag \in {0, 1}
      /\ dac_finished <=> dac_lag > 0
  BY DEF Init, Dac!PowerUp
<1>4. UnitTypes
  BY <1>1, <1>2, <1>3 DEF UnitTypes, Indices
<1>5. Handshakes
  BY <1>1 DEF Handshakes
<1>6. FlagIsFresh
  BY <1>1, <1>2, <1>3 DEF FlagIsFresh
<1>7. CountersAgree
  BY <1>1, <1>2 DEF CountersAgree, Between
<1> QED
  BY <1>4, <1>5, <1>6, <1>7 DEF WaveInv

(* What the master of the DAC does in a cycle, as far as the unit sees it. *)
DacMoves ==
    /\ dac_phase' \in {"idle", "select", "load", "shift", "settle", "done"}
    /\ dac_lag' \in 0..2
    /\ dac_phase = "idle" =>
           /\ dac_phase' = IF dac_arm THEN "select" ELSE "idle"
           /\ dac_lag' = IF dac_lag > 0 THEN dac_lag - 1 ELSE 0
    /\ dac_phase \in {"select", "load", "shift"} =>
           /\ dac_phase' \in {"select", "load", "shift", "settle"}
           /\ dac_lag = 0 => dac_lag' = 0
    /\ dac_phase = "settle" => dac_phase' = "done" /\ dac_lag' = dac_lag
    /\ dac_phase = "done" /\ ~dac_arm => dac_phase' = "idle"
    /\ dac_phase = "done" /\ dac_arm => dac_phase' = "done"

FlagMoves == dac_finished' <=> dac_phase' \in {"settle", "done"} \/ dac_lag' > 0

LEMMA DacStep == ASSUME UnitTypes, Dac!Step PROVE DacMoves /\ FlagMoves
<1>0. FlagMoves
  BY DEF Dac!Step, FlagMoves
<1> USE DEF UnitTypes, DacMoves, Dac!Fade
<1>1. ASSUME Dac!Waiting PROVE DacMoves
  BY <1>1 DEF Dac!Waiting
<1>2. ASSUME Dac!Selecting PROVE DacMoves
  BY <1>2 DEF Dac!Selecting
<1>3. ASSUME Dac!Loading PROVE DacMoves
  BY <1>3 DEF Dac!Loading
<1>4. ASSUME Dac!Shifting PROVE DacMoves
  BY <1>4 DEF Dac!Shifting
<1>5. ASSUME Dac!Complete PROVE DacMoves
  BY <1>5 DEF Dac!Complete
<1>6. ASSUME Dac!Deselect PROVE DacMoves
  BY <1>6 DEF Dac!Deselect
<1>7. ASSUME Dac!Done PROVE DacMoves
  BY <1>7 DEF Dac!Done
<1> QED
  BY <1>0, <1>1, <1>2, <1>3, <1>4, <1>5, <1>6, <1>7 DEF Dac!Step

(* What the word server does in a cycle, as far as the unit sees it. *)
ServerMoves ==
    /\ word_rst => auto_cntr' = 0 /\ ~word_ok'
    /\ ~word_rst /\ ~word_next =>
           ~word_ok' /\ auto_cntr' = auto_cntr /\ (word_last' <=> word_last)
    /\ ~word_rst /\ word_next /\ word_ok =>
           word_ok' /\ auto_cntr' = auto_cntr /\ (word_last' <=> word_last)
    /\ ~word_rst /\ word_next /\ ~word_ok =>
           \/ ~word_ok' /\ auto_cntr' = auto_cntr
           \/ /\ word_ok'
              /\ auto_cntr' = Following(auto_cntr)
              /\ word_last' <=> auto_cntr = WORD_AMNT

LEMMA ServerStep ==
    ASSUME UnitTypes, Handshakes, Serve(word_next, word_rst) PROVE ServerMoves
<1>1. CASE word_rst /\ WordReset
  BY <1>1 DEF WordReset, ServerMoves
<1>2. CASE ~word_rst /\ HandOut(word_next)
  BY <1>2 DEF HandOut, ServerMoves, Following
<1>3. CASE /\ ~word_rst /\ ~word_next /\ word_ok
           /\ word_ok' = FALSE
           /\ UNCHANGED <<word, word_last, auto_cntr>>
  BY <1>3 DEF ServerMoves
<1>4. CASE ~word_rst /\ word_next = word_ok /\ UNCHANGED serverVars
  BY <1>4 DEF ServerMoves, serverVars
<1>5. CASE ~word_rst /\ word_next /\ ~word_ok /\ UNCHANGED serverVars
  BY <1>5 DEF ServerMoves, serverVars
<1> QED
  BY <1>1, <1>2, <1>3, <1>4, <1>5 DEF Serve

LEMMA FollowingIsIndex ==
    \A i \in Indices : /\ Following(i) \in Indices
                       /\ i = WORD_AMNT => Following(i) = 0
  BY WordsAssumption DEF Following, Indices

LEMMA EdgeKeepsInv == ASSUME WaveInv, Edge PROVE WaveInv'
<1>1. UnitTypes /\ Handshakes /\ FlagIsFresh /\ CountersAgree
  BY DEF WaveInv
<1>2. DacMoves /\ FlagMoves
  BY <1>1, DacStep DEF Edge
<1>3. ServerMoves
  BY <1>1, ServerStep DEF Edge
<1>4. spi_posedge /\ UnitStep
  BY DEF Edge
<1>5. 0 \in Indices
  BY WordsAssumption DEF Indices
<1> USE <1>1, <1>2, <1>3, <1>4, <1>5, FollowingIsIndex
    DEF UnitTypes, Handshakes, FlagIsFresh, CountersAgree, Between, DacMoves,
        FlagMoves, ServerMoves, spi_posedge, running, WaveInv
<1>6. CASE WaitOnArm
  BY <1>6 DEF WaitOnArm
<1>7. CASE DoWait
  BY <1>7 DEF DoWait
<1>8. CASE RecvWord
  <2>1. /\ state = "RECV_WORD" /\ ~dac_arm /\ word_next /\ ~word_rst
        /\ dac_phase = "idle" /\ dac_phase' = "idle"
        /\ UNCHANGED <<word_rst, cur_ind>>
    BY <1>8 DEF RecvWord
  <2>2. CASE word_ok
    <3>1. /\ state' = "WAIT_ON_DAC" /\ dac_arm' /\ ~word_next' /\ ~word_rst'
          /\ word_ok' /\ UNCHANGED auto_cntr /\ (word_last' <=> word_last)
      BY <1>8, <2>1, <2>2 DEF RecvWord
    <3>2. dac_lag' = 0 /\ ~dac_finished'
      BY <2>1, <2>2
    <3> QED
      BY <2>1, <2>2, <3>1, <3>2
  <2>3. CASE ~word_ok
    <3>1. /\ state' = "RECV_WORD" /\ ~dac_arm' /\ word_next' /\ ~word_rst'
      BY <1>8, <2>1, <2>3 DEF RecvWord
    <3>2. dac_lag' < 2
      BY <2>1
    <3> QED
      BY <2>1, <2>3, <3>1, <3>2
  <2> QED
    BY <2>2, <2>3
<1>9. CASE WaitOnDac
  <2>1. /\ state = "WAIT_ON_DAC" /\ dac_arm /\ ~word_next /\ ~word_rst
        /\ dac_lag = 0 /\ (dac_finished <=> dac_phase = "settle")
        /\ ~word_ok' /\ ~word_next' /\ ~word_rst'
        /\ UNCHANGED auto_cntr /\ (word_last' <=> word_last)
    BY <1>9 DEF WaitOnDac
  <2>2. CASE dac_finished
    <3>1. /\ state' \in {"DO_WAIT", "WAIT_ON_DISARM"} /\ ~dac_arm'
          /\ state' = "WAIT_ON_DISARM" => word_last
      BY <1>9, <2>2 DEF WaitOnDac
    <3>2. dac_phase' = "done" /\ dac_lag' = 0 /\ dac_finished'
      BY <2>1, <2>2
    <3>3. cur_ind' = Following(cur_ind)
      BY <2>1, <2>2
    <3> QED
      BY <2>1, <2>2, <3>1, <3>2, <3>3
  <2>3. CASE ~dac_finished
    <3>1. state' = "WAIT_ON_DAC" /\ dac_arm'
      BY <1>9, <2>1, <2>3 DEF WaitOnDac
    <3>2. \/ dac_phase' # "done" /\ dac_phase' # "idle"
          \/ dac_phase = "idle"
      BY <2>1, <2>3
    <3>3. dac_lag' = 0 /\ UNCHANGED cur_ind
      BY <2>1, <2>3
    <3> QED
      BY <2>1, <2>3, <3>1, <3>2, <3>3
  <2> QED
    BY <2>2, <2>3
<1>10. CASE WaitOnDisarm
  BY <1>10 DEF WaitOnDisarm
<1> QED
  BY <1>4, <1>6, <1>7, <1>8, <1>9, <1>10 DEF UnitStep

LEMMA ResetKeepsInv == ASSUME WaveInv, Reset PROVE WaveInv'
  BY WordsAssumption
  DEF WaveInv, Reset, UnitReset, WordReset, Dac!Halt, UnitTypes,
      Handshakes, FlagIsFresh, CountersAgree, Between, Indices

LEMMA WaveStays == ASSUME WaveInv, [Next]_vars PROVE WaveInv'
<1>1. CASE Next
  BY <1>1, EdgeKeepsInv, ResetKeepsInv DEF Next
<1>2. CASE UNCHANGED vars
  BY <1>2 DEF vars, bramVars, serverVars, user, unitVars, dacVars, WaveInv,
         UnitTypes, Handshakes, FlagIsFresh, CountersAgree, Between
<1> QED
  BY <1>1, <1>2

(* When `running` is low the DAC is not in the middle of a word, and a     *)
(* waveform that is reported finished was written to its last word         *)
(* (waveform.v, the note on finished and running).                         *)
THEOREM UnitStopsBetweenWords == Spec => []StopsBetweenWords
<1>1. WaveInv => StopsBetweenWords
  BY DEF WaveInv, UnitTypes, FlagIsFresh, CountersAgree, StopsBetweenWords,
         running
<1> QED
  BY WaveStarts, WaveStays, <1>1, PTL DEF Spec
-----------------------------------------------------------------------------
(***************************************************************************)
(* What is played.  The buffer is whole, from the last refresh asked for   *)
(* or from the one before, whenever the server may hand out a word.  A     *)
(* refresh fills it from the front; the address, the place memory answers  *)
(* for and the counter go together.  A reset leaves it half copied, but    *)
(* then the request is still up and the unit is at rest.                   *)
(***************************************************************************)
Whole(g)  == \A i \in Indices : backing_buffer[i] = Written(g, i)
HalfPlace      == 2 * word_cntr_refresh + IF refresh_state = "READ_HIGH_WORD" THEN 1 ELSE 0
Copying   == refresh_state \in {"READ_LOW_WORD", "READ_HIGH_WORD"}

CopyTypes ==
    /\ generation \in Generations
    /\ backing_buffer \in [Indices -> [low : Half, high : Half]]
    /\ refresh_state \in {"WAIT_ON_REFRESH", "READ_LOW_WORD", "READ_HIGH_WORD",
                          "WAIT_ON_REFRESH_DEASSERT"}

RequestInv ==
    /\ {refresh_start, refresh_finished, ram_read, ram_valid} \subseteq BOOLEAN
    /\ refresh_finished => refresh_state = "WAIT_ON_REFRESH_DEASSERT" /\ ~refresh_start
    /\ refresh_state = "WAIT_ON_REFRESH_DEASSERT" => refresh_start \/ refresh_finished
    /\ Copying => refresh_start
    /\ ram_read => Copying

CopyInv ==
    /\ Copying =>
          /\ word_cntr_refresh \in Indices
          /\ ram_dma_addr = start_addr + HalfPlace * RAM_WORD_INCR
          /\ \A i \in 0..word_cntr_refresh - 1 :
                backing_buffer[i] = Written(generation, i)
    /\ refresh_state = "READ_HIGH_WORD" =>
          backing_buffer[word_cntr_refresh].low = <<generation, 2 * word_cntr_refresh>>
    /\ ram_read /\ ram_valid => ram_word = <<generation, HalfPlace>>

BufferInv ==
    /\ refresh_state = "WAIT_ON_REFRESH_DEASSERT" => Whole(generation)
    /\ refresh_state = "WAIT_ON_REFRESH" =>
          \/ Whole(generation)
          \/ refresh_start /\ (Whole(Last(generation)) \/ state = "WAIT_ON_ARM")

FrameInv ==
    /\ state = "WAIT_ON_DAC" =>
          \E g \in Generations : dac_out = Frame(Written(g, cur_ind))
    /\ dac_phase \in {"shift", "settle"} => dac_sent = dac_out

PlayInv ==
    /\ WaveInv /\ CopyTypes /\ RequestInv /\ CopyInv /\ BufferInv /\ FrameInv
    /\ PlayedInOrder

(* Arithmetic of the addresses. *)
LEMMA AddressFacts ==
    ASSUME NEW n \in 0..2 * WORD_AMNT + 1
    PROVE  /\ ((start_addr + n * RAM_WORD_INCR) - start_addr) \div RAM_WORD_INCR = n
           /\ (start_addr + n * RAM_WORD_INCR + RAM_WORD_INCR) % AddrMod
                = start_addr + (n + 1) * RAM_WORD_INCR
<1> DEFINE d == RAM_WORD_INCR
           w == 2 * (WORD_AMNT + 1)
           x == n * d
           y == w * d
<1>1. /\ d \in Nat \ {0} /\ start_addr \in Nat /\ AddrMod \in Nat \ {0}
      /\ w \in Nat /\ start_addr + y < AddrMod /\ n \in Nat /\ n + 1 <= w
  BY MemoryAssumption, WordsAssumption
<1>2. x \in Nat /\ (n + 1) * d = x + d /\ x \div d = n
  <2> HIDE DEF d
  <2>1. x \in Nat /\ (n + 1) * d = x + d
    BY <1>1
  <2>2. (n * d) \div d = n
    BY <1>1, SMTT(30)
  <2> QED
    BY <2>1, <2>2
<1>3. x + d <= y
  <2> HIDE DEF d, w
  <2>1. (n + 1) * d <= w * d
    BY <1>1, SMTT(30)
  <2> QED
    BY <1>2, <2>1
<1> HIDE DEF x, y, d, w
<1>4. (start_addr + x) - start_addr = x
  BY <1>1, <1>2
<1>5. (start_addr + x + d) \in 0..AddrMod - 1
  <2>1. y \in Int
    BY <1>1 DEF y
  <2> QED
    BY <1>1, <1>2, <1>3, <2>1
<1>6. (start_addr + x + d) % AddrMod = start_addr + (x + d)
  BY <1>1, <1>2, <1>5
<1> QED
  BY <1>2, <1>4, <1>6 DEF x, d

(* The user holds a request until it is answered, and asks only then for   *)
(* the next.                                                               *)
LEMMA UserMoves ==
    ASSUME CopyTypes, RequestInv, RefreshUser, refresh_finished' \in BOOLEAN
    PROVE  /\ refresh_start' \in BOOLEAN /\ generation' \in Generations
           /\ refresh_finished' => ~refresh_start' /\ generation' = generation
           /\ refresh_start => generation' = generation
           /\ refresh_start /\ ~refresh_finished' => refresh_start'
           /\ \/ generation' = generation
              \/ refresh_start' /\ Last(generation') = generation
<1>1. generation \in 1..3 /\ Generations = 1..3 /\ refresh_start \in BOOLEAN
  BY MemoryAssumption DEF CopyTypes, RequestInv
<1>2. CASE refresh_data
  <2>1. /\ ~refresh_start /\ ~refresh_finished' /\ refresh_start' = TRUE
        /\ generation' = 1 + (generation % 3)
    BY <1>2 DEF refresh_data
  <2>2. generation' \in 1..3 /\ Last(generation') = generation
    BY <1>1, <2>1 DEF Last
  <2> QED
    BY <1>1, <2>1, <2>2
<1>3. CASE refresh_posedge
  <2>1. refresh_start' = (refresh_start /\ ~refresh_finished') /\ generation' = generation
    BY <1>3 DEF refresh_posedge
  <2>2. CASE refresh_finished'
    <3>1. refresh_start' = FALSE
      BY <2>1, <2>2
    <3>2. generation' \in Generations /\ generation' = generation
      BY <2>1 DEF CopyTypes
    <3>3. refresh_start' \in BOOLEAN /\ ~refresh_start'
      BY <3>1
    <3> QED
      BY <2>2, <3>2, <3>3
  <2>3. CASE ~refresh_finished'
    <3>1. refresh_start' = refresh_start
      BY <1>1, <2>1, <2>3
    <3>2. generation' \in Generations /\ generation' = generation
      BY <2>1 DEF CopyTypes
    <3>3. refresh_start' \in BOOLEAN /\ (refresh_start' <=> refresh_start)
      BY <1>1, <3>1
    <3> QED
      BY <2>3, <3>2, <3>3
  <2> QED
    BY <2>2, <2>3
<1> QED
  BY <1>2, <1>3 DEF RefreshUser

(* What memory answers. *)
LEMMA MemoryAnswers ==
    ASSUME RequestInv, CopyInv, CopyTypes, Dma
    PROVE  /\ ram_valid' \in BOOLEAN
           /\ ~ram_read => ~ram_valid'
           /\ ram_read /\ ram_valid' => ram_word' = <<generation, HalfPlace>>
<1> USE DEF RequestInv
<1>1. CASE ~ram_read
  BY <1>1 DEF Dma
<1>2. CASE ram_read /\ delay_cntr < DELAY_TOTAL
  <2>1. ram_valid' = ram_valid /\ ram_word' = ram_word
    BY <1>2, MemoryAssumption DEF Dma
  <2> QED
    BY <1>2, <2>1 DEF CopyInv
<1>3. CASE ram_read /\ delay_cntr = DELAY_TOTAL /\ ~(delay_cntr < DELAY_TOTAL)
  <2>1. /\ ram_valid' = TRUE
        /\ ram_word' = IF ram_valid THEN ram_word
                       ELSE <<generation, (ram_dma_addr - start_addr) \div RAM_WORD_INCR>>
    BY <1>3 DEF Dma
  <2>2. (ram_dma_addr - start_addr) \div RAM_WORD_INCR = HalfPlace
    <3>1. /\ word_cntr_refresh \in Indices
          /\ ram_dma_addr = start_addr + HalfPlace * RAM_WORD_INCR
      BY <1>3 DEF CopyInv
    <3>2. HalfPlace \in 0..2 * WORD_AMNT + 1
      BY <3>1, WordsAssumption DEF Indices, HalfPlace
    <3> PICK n \in 0..2 * WORD_AMNT + 1 : n = HalfPlace
      BY <3>2
    <3>3. ((start_addr + n * RAM_WORD_INCR) - start_addr) \div RAM_WORD_INCR = n
      BY AddressFacts
    <3> DEFINE a == ram_dma_addr - start_addr
    <3>4. ram_dma_addr = start_addr + n * RAM_WORD_INCR
      BY <3>1
    <3>5. a = (start_addr + n * RAM_WORD_INCR) - start_addr
      BY <3>4, Zenon
    <3> HIDE DEF a
    <3>6. a \div RAM_WORD_INCR = n
      BY <3>3, <3>5
    <3> QED
      BY <3>6 DEF a
  <2> QED
    BY <1>3, <2>1, <2>2 DEF CopyInv
<1> QED
  BY <1>1, <1>2, <1>3 DEF Dma

(* Copying a half word at a time. *)
LEMMA CopyKept ==
    ASSUME CopyTypes, RequestInv, CopyInv, Refresh \/ RefreshReset, Dma, RefreshUser
    PROVE  CopyTypes' /\ RequestInv' /\ CopyInv'
<1> USE MemoryAssumption, WordsAssumption
<1>1. /\ ram_valid' \in BOOLEAN /\ (~ram_read => ~ram_valid')
      /\ ram_read /\ ram_valid' => ram_word' = <<generation, HalfPlace>>
  BY MemoryAnswers
<1>2. refresh_finished' \in BOOLEAN
  BY DEF RequestInv, Refresh, WaitOnRefresh, RaiseRead, AwaitHalf, ReadLowWord,
     ReadHighWord, HalfTaken, WaitOnRefreshDeassert, RefreshReset, refreshVars
<1>3. /\ refresh_start' \in BOOLEAN /\ generation' \in Generations
      /\ refresh_finished' => ~refresh_start' /\ generation' = generation
      /\ refresh_start => generation' = generation
      /\ refresh_start /\ ~refresh_finished' => refresh_start'
  BY <1>2, UserMoves
<1>4. /\ {refresh_start, refresh_finished, ram_read, ram_valid} \subseteq BOOLEAN
      /\ refresh_finished => refresh_state = "WAIT_ON_REFRESH_DEASSERT"
  BY DEF RequestInv
<1>12. ASSUME ram_read' \in BOOLEAN
       PROVE  {refresh_start, refresh_finished, ram_read, ram_valid}' \subseteq BOOLEAN
  BY <1>1, <1>2, <1>3, <1>12
<1>5. CASE WaitOnRefresh
  <2>1. /\ refresh_state = "WAIT_ON_REFRESH" /\ ~ram_read /\ ~refresh_finished
        /\ backing_buffer' = backing_buffer /\ ~refresh_finished'
        /\ ~ram_read' /\ ram_read' \in BOOLEAN
    BY <1>4, <1>5 DEF WaitOnRefresh, RequestInv, Copying
  <2>2. CASE refresh_start
    <3>1. /\ ram_dma_addr' = start_addr /\ refresh_state' = "READ_LOW_WORD"
          /\ word_cntr_refresh' = 0
      BY <1>5, <2>2 DEF WaitOnRefresh
    <3>2. HalfPlace' = 0 /\ 0 * RAM_WORD_INCR = 0 /\ start_addr + 0 = start_addr /\ 0 \in Indices
      BY <3>1 DEF HalfPlace, Indices
    <3>3. CopyInv'
      BY <2>1, <3>1, <3>2 DEF CopyInv, Copying
    <3> QED
      <4>1. CopyTypes'
        BY <1>3, <2>1, <3>1 DEF CopyTypes
      <4>2. RequestInv'
        BY <1>3, <1>12, <2>1, <2>2, <3>1 DEF RequestInv, Copying
      <4> QED
        BY <3>3, <4>1, <4>2
  <2>3. CASE ~refresh_start
    <3>1. refresh_state' = refresh_state
      BY <1>5, <2>3 DEF WaitOnRefresh
    <3> QED
      <4>1. CopyTypes'
        BY <1>3, <2>1, <3>1 DEF CopyTypes
      <4>2. RequestInv'
        BY <1>12, <2>1, <3>1 DEF RequestInv, Copying
      <4>3. CopyInv'
        BY <2>1, <3>1 DEF CopyInv, Copying
      <4> QED
        BY <4>1, <4>2, <4>3
  <2> QED
    BY <2>2, <2>3
<1>6. CASE RaiseRead \/ AwaitHalf
  <2>1. /\ Copying /\ refresh_start /\ ~refresh_finished
        /\ UNCHANGED <<backing_buffer, refresh_state, word_cntr_refresh,
                       refresh_finished, ram_dma_addr>>
        /\ ram_read' \in BOOLEAN
    BY <1>4, <1>6 DEF RaiseRead, AwaitHalf, refreshVars, Copying, RequestInv
  <2>2. Copying' /\ refresh_start' /\ ~refresh_finished' /\ generation' = generation
    BY <1>3, <2>1 DEF Copying
  <2>3. HalfPlace' = HalfPlace
    BY <2>1 DEF HalfPlace
  <2>4. ram_read' /\ ram_valid' => ram_word' = <<generation', HalfPlace'>>
    BY <1>1, <2>2, <2>3
  <2>5. CopyInv'
    BY <2>1, <2>2, <2>3, <2>4 DEF CopyInv, Written
  <2> QED
    BY <1>1, <1>2, <1>3, <2>1, <2>2, <2>5 DEF CopyTypes, RequestInv, Copying
<1>7. ASSUME ram_read, ram_valid, Copying
      PROVE  /\ word_cntr_refresh \in Indices /\ refresh_start /\ ~refresh_finished
             /\ ram_word = <<generation, HalfPlace>> /\ ram_word \in Half
             /\ (ram_dma_addr + RAM_WORD_INCR) % AddrMod
                    = start_addr + (HalfPlace + 1) * RAM_WORD_INCR
  <2>1. /\ word_cntr_refresh \in Indices /\ refresh_start /\ ~refresh_finished
        /\ ram_dma_addr = start_addr + HalfPlace * RAM_WORD_INCR
        /\ ram_word = <<generation, HalfPlace>>
    BY <1>7 DEF CopyInv, RequestInv, Copying
  <2>2. HalfPlace \in 0..2 * WORD_AMNT + 1
    BY <2>1 DEF Indices, HalfPlace
  <2>3. ram_word \in Half
    BY <2>1, <2>2 DEF Half, CopyTypes
  <2> HIDE DEF HalfPlace
  <2> QED
    BY <2>1, <2>2, <2>3, AddressFacts
<1>8. CASE ReadLowWord
  <2>1. /\ refresh_state = "READ_LOW_WORD" /\ ram_read /\ ram_valid
        /\ ram_dma_addr' = (ram_dma_addr + RAM_WORD_INCR) % AddrMod
        /\ ~ram_read' /\ ram_read' \in BOOLEAN
        /\ refresh_finished' = refresh_finished
        /\ backing_buffer' = [backing_buffer EXCEPT ![word_cntr_refresh].low = ram_word]
        /\ refresh_state' = "READ_HIGH_WORD" /\ word_cntr_refresh' = word_cntr_refresh
    BY <1>8 DEF ReadLowWord, HalfTaken
  <2> DEFINE c == word_cntr_refresh
  <2>2. /\ c \in Indices /\ refresh_start /\ ~refresh_finished
        /\ ram_word = <<generation, HalfPlace>> /\ ram_word \in Half
        /\ ram_dma_addr' = start_addr + (HalfPlace + 1) * RAM_WORD_INCR
    BY <1>7, <2>1 DEF Copying
  <2>3. HalfPlace = 2 * c /\ HalfPlace' = HalfPlace + 1
    BY <2>1, <2>2 DEF HalfPlace, Indices
  <2>4. refresh_start' /\ ~refresh_finished' /\ generation' = generation
    BY <1>3, <2>1, <2>2
  <2>5. /\ backing_buffer' \in [Indices -> [low : Half, high : Half]]
        /\ backing_buffer'[c].low = ram_word
        /\ \A i \in Indices : i # c => backing_buffer'[i] = backing_buffer[i]
    BY <2>1, <2>2 DEF CopyTypes
  <2>6. \A i \in 0..c - 1 : i \in Indices /\ i # c
    BY <2>2 DEF Indices
  <2>7. \A i \in 0..c - 1 : backing_buffer[i] = Written(generation, i)
    BY <2>1 DEF CopyInv, Copying
  <2>8. \A i \in 0..c - 1 : backing_buffer'[i] = Written(generation, i)
    BY <2>5, <2>6, <2>7
  <2>9. CopyInv'
    BY <2>1, <2>2, <2>3, <2>4, <2>5, <2>8 DEF CopyInv, Copying, Written
  <2> QED
    <3>1. CopyTypes'
      BY <1>3, <2>1, <2>5 DEF CopyTypes
    <3>2. RequestInv'
      BY <1>12, <2>1, <2>4 DEF RequestInv, Copying
    <3> QED
      BY <2>9, <3>1, <3>2
<1>9. CASE ReadHighWord
  <2>1. /\ refresh_state = "READ_HIGH_WORD" /\ ram_read /\ ram_valid
        /\ ram_dma_addr' = (ram_dma_addr + RAM_WORD_INCR) % AddrMod
        /\ ~ram_read' /\ ram_read' \in BOOLEAN
        /\ refresh_finished' = refresh_finished
        /\ backing_buffer' = [backing_buffer EXCEPT ![word_cntr_refresh].high = ram_word]
        /\ refresh_state' = IF word_cntr_refresh = WORD_AMNT
                            THEN "WAIT_ON_REFRESH_DEASSERT" ELSE "READ_LOW_WORD"
        /\ word_cntr_refresh' = (word_cntr_refresh + 1) % CounterMod
    BY <1>9 DEF ReadHighWord, HalfTaken
  <2> DEFINE c == word_cntr_refresh
  <2>2. /\ c \in Indices /\ refresh_start /\ ~refresh_finished
        /\ ram_word = <<generation, HalfPlace>> /\ ram_word \in Half
        /\ ram_dma_addr' = start_addr + (HalfPlace + 1) * RAM_WORD_INCR
    BY <1>7, <2>1 DEF Copying
  <2>3. HalfPlace = 2 * c + 1
    BY <2>1 DEF HalfPlace
  <2>4. refresh_start' /\ ~refresh_finished' /\ generation' = generation
    BY <1>3, <2>1, <2>2
  <2>5. /\ backing_buffer' \in [Indices -> [low : Half, high : Half]]
        /\ backing_buffer'[c].high = ram_word
        /\ backing_buffer'[c].low = backing_buffer[c].low
        /\ backing_buffer'[c] \in [low : Half, high : Half]
        /\ \A i \in Indices : i # c => backing_buffer'[i] = backing_buffer[i]
    BY <2>1, <2>2 DEF CopyTypes
  <2>6. \A i \in 0..c - 1 : i \in Indices /\ i # c
    BY <2>2 DEF Indices
  <2>7. /\ \A i \in 0..c - 1 : backing_buffer[i] = Written(generation, i)
        /\ backing_buffer[c].low = <<generation, 2 * c>>
    BY <2>1 DEF CopyInv, Copying
  <2>8. \A i \in 0..c - 1 : backing_buffer'[i] = Written(generation, i)
    BY <2>5, <2>6, <2>7
  <2>9. backing_buffer'[c] = Written(generation, c)
    BY <2>2, <2>3, <2>5, <2>7 DEF Written
  <2>10. CASE c = WORD_AMNT
    <3>1. refresh_state' = "WAIT_ON_REFRESH_DEASSERT"
      BY <2>1, <2>10
    <3> QED
      <4>1. CopyTypes'
        BY <1>3, <2>1, <2>5, <3>1 DEF CopyTypes
      <4>2. RequestInv'
        BY <1>12, <2>1, <2>4, <3>1 DEF RequestInv, Copying
      <4>3. CopyInv'
        BY <2>1, <3>1 DEF CopyInv, Copying
      <4> QED
        BY <4>1, <4>2, <4>3
  <2>11. CASE c # WORD_AMNT
    <3>1. refresh_state' = "READ_LOW_WORD" /\ word_cntr_refresh' = c + 1 /\ c + 1 \in Indices
      BY <2>1, <2>2, <2>11 DEF Indices
    <3>2. HalfPlace' = HalfPlace + 1
      BY <2>2, <2>3, <3>1 DEF HalfPlace, Indices
    <3>3. \A i \in 0..(c + 1) - 1 : i \in 0..c - 1 \/ i = c
      BY <2>2 DEF Indices
    <3>4. \A i \in 0..word_cntr_refresh' - 1 : backing_buffer'[i] = Written(generation, i)
      BY <2>8, <2>9, <3>1, <3>3
    <3>5. CopyInv'
      BY <2>1, <2>2, <2>4, <3>1, <3>2, <3>4 DEF CopyInv, Copying, Written
    <3> QED
      <4>1. CopyTypes'
        BY <1>3, <2>1, <2>5, <3>1 DEF CopyTypes
      <4>2. RequestInv'
        BY <1>12, <2>1, <2>4, <3>1 DEF RequestInv, Copying
      <4> QED
        BY <3>5, <4>1, <4>2
  <2> QED
    BY <2>10, <2>11
<1>10. CASE WaitOnRefreshDeassert
  <2>1. /\ refresh_state = "WAIT_ON_REFRESH_DEASSERT" /\ ~ram_read
        /\ refresh_finished' = refresh_start
        /\ refresh_state' = IF refresh_start THEN refresh_state ELSE "WAIT_ON_REFRESH"
        /\ backing_buffer' = backing_buffer /\ ram_read' = ram_read
    BY <1>10 DEF WaitOnRefreshDeassert, RequestInv, Copying
  <2>2. CASE refresh_start
    BY <1>1, <1>2, <1>3, <1>4, <2>1, <2>2 DEF CopyTypes, RequestInv, CopyInv, Copying
  <2>3. CASE ~refresh_start
    BY <1>1, <1>2, <1>3, <1>4, <2>1, <2>3 DEF CopyTypes, RequestInv, CopyInv, Copying
  <2> QED
    BY <2>2, <2>3
<1>11. CASE RefreshReset
  BY <1>1, <1>2, <1>3, <1>4, <1>11 DEF RefreshReset, CopyTypes, RequestInv, CopyInv, Copying
<1> QED
  BY <1>5, <1>6, <1>8, <1>9, <1>10, <1>11 DEF Refresh

(* The last half word completes the buffer. *)
LEMMA LastHalf ==
    ASSUME CopyTypes, RequestInv, CopyInv, ReadHighWord, word_cntr_refresh = WORD_AMNT
    PROVE  \A i \in Indices : backing_buffer'[i] = Written(generation, i)
<1> DEFINE c == word_cntr_refresh
<1>1. /\ refresh_state = "READ_HIGH_WORD" /\ ram_read /\ ram_valid
      /\ backing_buffer' = [backing_buffer EXCEPT ![c].high = ram_word]
  BY DEF ReadHighWord, HalfTaken
<1>2. /\ c \in Indices /\ ram_word = <<generation, 2 * c + 1>>
      /\ backing_buffer[c].low = <<generation, 2 * c>>
      /\ \A i \in 0..c - 1 : backing_buffer[i] = Written(generation, i)
  BY <1>1 DEF CopyInv, Copying, HalfPlace
<1>3. backing_buffer[c] \in [low : Half, high : Half]
  BY <1>2 DEF CopyTypes
<1>4. /\ backing_buffer'[c] = [backing_buffer[c] EXCEPT !.high = ram_word]
      /\ \A i \in Indices : i # c => backing_buffer'[i] = backing_buffer[i]
  BY <1>1, <1>2 DEF CopyTypes
<1>5. backing_buffer'[c] = Written(generation, c)
  BY <1>2, <1>3, <1>4 DEF Written
<1>6. \A i \in Indices : i # c => i \in 0..c - 1
  BY WordsAssumption DEF Indices
<1> QED
  BY <1>2, <1>4, <1>5, <1>6

LEMMA BufferKept ==
    ASSUME PlayInv, Next
    PROVE  BufferInv'
<1>1. /\ CopyTypes /\ RequestInv /\ CopyInv /\ BufferInv /\ Dma /\ RefreshUser
      /\ Edge \/ Reset
  BY DEF PlayInv, Next
<1>2. refresh_finished' \in BOOLEAN
  BY <1>1 DEF Edge, Reset, RequestInv, Refresh, WaitOnRefresh, RaiseRead, AwaitHalf,
     ReadLowWord, ReadHighWord, HalfTaken, WaitOnRefreshDeassert, RefreshReset, refreshVars
<1>3. /\ refresh_start' \in BOOLEAN
      /\ refresh_start => generation' = generation
      /\ refresh_start /\ ~refresh_finished' => refresh_start'
      /\ \/ generation' = generation
         \/ refresh_start' /\ Last(generation') = generation
  BY <1>1, <1>2, UserMoves
<1>4. ASSUME Whole(generation), backing_buffer' = backing_buffer
      PROVE  \/ Whole(generation)'
             \/ refresh_start' /\ Whole(Last(generation))'
  BY <1>3, <1>4 DEF Whole, Written
<1>5. CASE Edge
  <2>1. Refresh
    BY <1>5 DEF Edge
  <2>2. CASE WaitOnRefresh
    <3>1. CASE refresh_start
      BY <2>2, <3>1 DEF WaitOnRefresh, BufferInv
    <3>2. CASE ~refresh_start
      <4>1. /\ refresh_state' = "WAIT_ON_REFRESH" /\ backing_buffer' = backing_buffer
            /\ Whole(generation)
        BY <1>1, <2>2, <3>2 DEF WaitOnRefresh, BufferInv
      <4> QED
        BY <1>4, <4>1 DEF BufferInv
    <3> QED
      BY <3>1, <3>2
  <2>3. CASE RaiseRead \/ AwaitHalf \/ ReadLowWord
    <3>1. refresh_state' \in {"READ_LOW_WORD", "READ_HIGH_WORD"}
      BY <2>3 DEF RaiseRead, AwaitHalf, ReadLowWord, refreshVars
    <3> QED
      BY <3>1 DEF BufferInv
  <2>4. CASE ReadHighWord
    <3>1. CASE word_cntr_refresh = WORD_AMNT
      <4>1. refresh_start /\ refresh_state' = "WAIT_ON_REFRESH_DEASSERT"
        BY <1>1, <2>4, <3>1 DEF ReadHighWord, RequestInv, Copying
      <4>2. \A i \in Indices : backing_buffer'[i] = Written(generation, i)
        BY <1>1, <2>4, <3>1, LastHalf
      <4>3. Whole(generation)'
        BY <1>3, <4>1, <4>2 DEF Whole, Written
      <4> QED
        BY <4>1, <4>3 DEF BufferInv
    <3>2. CASE word_cntr_refresh # WORD_AMNT
      BY <2>4, <3>2 DEF ReadHighWord, BufferInv
    <3> QED
      BY <3>1, <3>2
  <2>5. CASE WaitOnRefreshDeassert
    <3>1. /\ Whole(generation) /\ backing_buffer' = backing_buffer
          /\ refresh_state' = IF refresh_start THEN "WAIT_ON_REFRESH_DEASSERT"
                              ELSE "WAIT_ON_REFRESH"
      BY <1>1, <2>5 DEF WaitOnRefreshDeassert, BufferInv
    <3>2. CASE refresh_start
      <4>1. Whole(generation)'
        BY <1>3, <3>1, <3>2 DEF Whole, Written
      <4> QED
        BY <3>1, <3>2, <4>1 DEF BufferInv
    <3>3. CASE ~refresh_start
      BY <1>4, <3>1, <3>3 DEF BufferInv
    <3> QED
      BY <3>2, <3>3
  <2> QED
    BY <2>1, <2>2, <2>3, <2>4, <2>5 DEF Refresh
<1>6. CASE Reset
  <2>1. /\ state' = "WAIT_ON_ARM" /\ refresh_state' = "WAIT_ON_REFRESH"
        /\ backing_buffer' = backing_buffer /\ ~refresh_finished'
    BY <1>6 DEF Reset, UnitReset, RefreshReset
  <2>2. refresh_start => refresh_start'
    BY <1>3, <2>1
  <2>3. refresh_start \/ Whole(generation)
    BY <1>1 DEF BufferInv, RequestInv, Copying, CopyTypes
  <2>4. CASE refresh_start
    BY <2>1, <2>2, <2>4 DEF BufferInv
  <2>5. CASE Whole(generation)
    BY <1>4, <2>1, <2>5 DEF BufferInv
  <2> QED
    BY <2>3, <2>4, <2>5
<1> QED
  BY <1>1, <1>5, <1>6

(* What is on its way to the DAC. *)
LEMMA FrameKept ==
    ASSUME PlayInv, Next
    PROVE  FrameInv'
<1>1. UnitTypes /\ Handshakes /\ FlagIsFresh /\ FrameInv /\ PlayedInOrder /\ CopyTypes
  BY DEF PlayInv, WaveInv
<1>2. CASE Edge
  <2>1. UnitStep /\ Dac!Step /\ spi_posedge /\ DacMoves
    BY <1>1, <1>2, DacStep DEF Edge
  <2>2. dac_phase' \in {"shift", "settle"} =>
          /\ dac_phase \in {"load", "shift"}
          /\ dac_sent' = IF dac_phase = "load" THEN dac_out ELSE dac_sent
    BY <2>1 DEF Dac!Step, Dac!Waiting, Dac!Selecting, Dac!Loading, Dac!Shifting,
       Dac!Complete, Dac!Deselect, Dac!Done
  <2>3. CASE WaitOnArm \/ DoWait \/ WaitOnDisarm
    <3>1. state' # "WAIT_ON_DAC" /\ dac_phase \in {"done", "idle"}
      BY <1>1, <2>3 DEF WaitOnArm, DoWait, WaitOnDisarm, FlagIsFresh
    <3> QED
      BY <2>2, <3>1 DEF FrameInv
  <2>4. CASE RecvWord
    <3>1. dac_phase = "idle" /\ state = "RECV_WORD"
      BY <1>1, <2>4 DEF RecvWord, FlagIsFresh
    <3>2. dac_phase' \notin {"shift", "settle"}
      BY <2>2, <3>1
    <3>3. CASE word_ok
      <4>1. dac_out' = Frame(word) /\ cur_ind' = cur_ind
        BY <2>1, <2>4, <3>1, <3>3 DEF RecvWord, spi_posedge, running
      <4>2. \/ word = Written(generation, cur_ind)
            \/ word = Written(Last(generation), cur_ind)
        BY <1>1, <3>1, <3>3 DEF PlayedInOrder
      <4>3. generation \in Generations /\ Last(generation) \in Generations
        BY <1>1, MemoryAssumption DEF CopyTypes, Last
      <4>4. \E g \in Generations : dac_out' = Frame(Written(g, cur_ind'))
        BY <4>1, <4>2, <4>3
      <4> QED
        BY <3>2, <4>4 DEF FrameInv, Frame, Written
    <3>4. CASE ~word_ok
      <4>1. state' = "RECV_WORD"
        BY <2>4, <3>4, <3>1 DEF RecvWord
      <4> QED
        BY <3>2, <4>1 DEF FrameInv
    <3> QED
      BY <3>3, <3>4
  <2>5. CASE WaitOnDac
    <3>1. state = "WAIT_ON_DAC" /\ dac_out' = dac_out /\ (dac_finished <=> dac_phase = "settle")
      BY <1>1, <2>5 DEF WaitOnDac, FlagIsFresh
    <3>2. dac_phase' \in {"shift", "settle"} => dac_sent' = dac_out'
      BY <1>1, <2>2, <3>1 DEF FrameInv
    <3>3. CASE dac_finished
      <4>1. state' # "WAIT_ON_DAC"
        BY <2>5, <3>3 DEF WaitOnDac
      <4> QED
        BY <3>2, <4>1 DEF FrameInv
    <3>4. CASE ~dac_finished
      <4>1. cur_ind' = cur_ind
        BY <2>1, <3>1, <3>4 DEF spi_posedge, running
      <4>2. \E g \in Generations : dac_out' = Frame(Written(g, cur_ind'))
        BY <1>1, <3>1, <4>1 DEF FrameInv
      <4> QED
        BY <3>2, <4>2 DEF FrameInv, Frame, Written
    <3> QED
      BY <3>3, <3>4
  <2> QED
    BY <2>1, <2>3, <2>4, <2>5 DEF UnitStep
<1>3. CASE Reset
  <2>1. state' = "WAIT_ON_ARM" /\ dac_phase' = "idle"
    BY <1>3 DEF Reset, UnitReset, Dac!Halt
  <2> QED
    BY <2>1 DEF FrameInv
<1> QED
  BY <1>2, <1>3 DEF Next

LEMMA WordsKept ==
    ASSUME PlayInv, Next, WaveInv', FrameInv'
    PROVE  PlayedInOrder'
<1>1. UnitTypes /\ Handshakes /\ FlagIsFresh /\ CountersAgree /\ BufferInv
      /\ CopyTypes /\ RequestInv
  BY DEF PlayInv, WaveInv
<1>2. ASSUME dac_phase' = "settle"
      PROVE  \E g \in Generations : dac_sent' = Frame(Written(g, cur_ind'))
  <2>1. state' = "WAIT_ON_DAC"
    BY <1>2 DEF WaveInv, FlagIsFresh, UnitTypes
  <2>2. /\ dac_sent' = dac_out'
        /\ \E g \in Generations : dac_out' = Frame(Written(g, cur_ind'))
    BY <1>2, <2>1 DEF FrameInv, Frame, Written
  <2> QED
    BY <2>2
<1>3. ASSUME state' = "RECV_WORD", word_ok'
      PROVE  \/ word' = Written(generation', cur_ind')
             \/ refresh_start' /\ word' = Written(Last(generation'), cur_ind')
  <2>1. UnitStep /\ Refresh /\ Serve(word_next, word_rst) /\ spi_posedge /\ ServerMoves
    <3>1. Edge
      BY <1>3 DEF Next, Reset, UnitReset
    <3> QED
      BY <1>1, <3>1, ServerStep DEF Edge
  <2>2. state = "RECV_WORD" /\ ~word_ok
    <3>1. DoWait \/ RecvWord
      BY <1>3, <2>1 DEF UnitStep, WaitOnArm, WaitOnDac, WaitOnDisarm
    <3>2. ~DoWait
      BY <1>1, <1>3, <2>1 DEF DoWait, Handshakes, ServerMoves
    <3> QED
      BY <1>3, <3>1, <3>2 DEF RecvWord
  <2>3. word_next /\ ~word_rst /\ dac_phase = "idle" /\ running
    BY <1>1, <2>2 DEF Handshakes, FlagIsFresh, running
  <2>4. HandOut(word_next)
    BY <1>3, <2>1, <2>2, <2>3 DEF Serve, serverVars
  <2>5. refresh_state = "WAIT_ON_REFRESH" /\ word' = backing_buffer[auto_cntr]
    BY <2>4 DEF HandOut
  <2>6. auto_cntr = cur_ind /\ cur_ind \in Indices /\ cur_ind' = cur_ind
    BY <1>1, <2>1, <2>2, <2>3 DEF CountersAgree, Between, UnitTypes, spi_posedge
  <2>7. ~refresh_finished' /\ refresh_finished' \in BOOLEAN
    BY <1>1, <2>1, <2>5 DEF RequestInv, Refresh, WaitOnRefresh, RaiseRead, AwaitHalf,
       ReadLowWord, ReadHighWord, WaitOnRefreshDeassert
  <2>8. /\ refresh_start => refresh_start' /\ generation' = generation
        /\ \/ generation' = generation
           \/ refresh_start' /\ Last(generation') = generation
    BY <1>1, <2>7, UserMoves DEF Next
  <2>9. \/ word' = Written(generation, cur_ind)
        \/ refresh_start /\ word' = Written(Last(generation), cur_ind)
    BY <1>1, <2>2, <2>5, <2>6 DEF BufferInv, Whole
  <2> QED
    BY <2>6, <2>8, <2>9
<1> QED
  BY <1>2, <1>3 DEF PlayedInOrder, Frame, Written, Last

LEMMA PlayStarts == Init => PlayInv
<1> SUFFICES ASSUME Init PROVE PlayInv
  OBVIOUS
<1>1. WaveInv
  BY WaveStarts
<1>2. /\ state = "WAIT_ON_ARM" /\ dac_phase = "idle"
      /\ refresh_start = TRUE /\ generation = 1
      /\ backing_buffer = [i \in Indices |-> NoWord] /\ refresh_state = "WAIT_ON_REFRESH"
      /\ refresh_finished = FALSE /\ ram_read = FALSE /\ ram_valid = FALSE
  BY DEF Init, BramInit, RefresherInit, Dac!PowerUp
<1>3. CopyTypes
  BY <1>2, MemoryAssumption DEF CopyTypes, NoWord, NoHalf, Half
<1>4. RequestInv /\ CopyInv
  BY <1>2 DEF RequestInv, CopyInv, Copying
<1>5. BufferInv /\ FrameInv /\ PlayedInOrder
  BY <1>2 DEF BufferInv, FrameInv, PlayedInOrder
<1> QED
  BY <1>1, <1>3, <1>4, <1>5 DEF PlayInv

LEMMA PlayKept == ASSUME PlayInv, [Next]_vars PROVE PlayInv'
<1>1. CASE Next
  <2>1. WaveInv'
    BY <1>1, WaveStays DEF PlayInv
  <2>2. CopyTypes' /\ RequestInv' /\ CopyInv'
    BY <1>1, CopyKept DEF PlayInv, Next, Edge, Reset
  <2>3. BufferInv' /\ FrameInv'
    BY <1>1, BufferKept, FrameKept
  <2>4. PlayedInOrder'
    BY <1>1, <2>1, <2>3, WordsKept
  <2> QED
    BY <2>1, <2>2, <2>3, <2>4 DEF PlayInv
<1>2. CASE UNCHANGED vars
  <2>1. WaveInv'
    BY WaveStays DEF PlayInv
  <2>2. UNCHANGED <<bramVars, user, unitVars, dacVars, clk, cur_ind>>
    BY <1>2 DEF vars
  <2> USE <2>2 DEF bramVars, serverVars, refreshVars, memoryVars, refresher, unitVars,
                   dacVars, PlayInv
  <2>3. CopyTypes' /\ RequestInv'
    BY DEF CopyTypes, RequestInv, Copying
  <2>4. CopyInv' /\ BufferInv'
    BY DEF CopyInv, BufferInv, Copying, HalfPlace, Whole, Written
  <2>5. FrameInv' /\ PlayedInOrder'
    BY DEF FrameInv, PlayedInOrder, Written, Frame
  <2> QED
    BY <2>1, <2>3, <2>4, <2>5
<1> QED
  BY <1>1, <1>2

(* The DAC is written the words of memory in turn, each with both of its   *)
(* halves from one refresh, the last asked for or the one before while it  *)
(* is under way: for every number of words, place in memory, waiting time  *)
(* and pace of memory and DAC, with refreshes, stops and resets in any     *)
(* cycle.                                                                  *)
THEOREM WordsArePlayedInOrder == Spec => []PlayedInOrder
<1>1. PlayInv => PlayedInOrder
  BY DEF PlayInv
<1> QED
  BY <1>1, PlayStarts, PlayKept, PTL DEF Spec
=============================================================================
