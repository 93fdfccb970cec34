--------------------------- MODULE Raster_proofs ---------------------------
(***************************************************************************)
(* The promises of the raster unit, for every width of its registers,      *)
(* every wait of its units, every number of ADCs, every set of parameter   *)
(* sets and every place the probe starts from.                             *)
(*                                                                         *)
(* RasterInv is inductive.  Its parts build on each other:                 *)
(*   FlagsInv, FadeInv   `finished` of a master has faded whenever the     *)
(*                       scanner looks at it for the next transfer         *)
(*   UnitsInv, RunningInv  who is armed when, and that a scan says it runs *)
(*   KernelInv           a scan is armed only after the last register was  *)
(*                       written                                           *)
(*   RegsInv             a scan works with what was asked for, dx and dy   *)
(*                       pointing the way the sweep goes                   *)
(*   FrameInv            the frame under way is the one that was asked     *)
(*                       for, so that the DACs end up at x_val and y_val   *)
(*   OriginInv, GridInv  which point of the scan x_val and y_val are, and  *)
(*                       that it is one step from the point before         *)
(*   ZeroInv             a scan with a size of 0 does not end              *)
(***************************************************************************)
EXTENDS Raster, SequenceTheorems, TLAPS
-----------------------------------------------------------------------------
(* Remainders. *)
LEMMA ModRange ==
    ASSUME NEW m \in Nat \ {0}, NEW x \in Int
    PROVE  /\ x % m \in 0..m - 1 /\ x \div m \in Int
           /\ x = (x \div m) * m + (x % m)
<1>1. x % m \in 0..m - 1 /\ x \div m \in Int
    OBVIOUS
<1>2. x % m = x - m * (x \div m)
    BY SMTT(30)
<1>. DEFINE r == x % m
            q == x \div m
<1>3. r \in Int /\ q \in Int /\ r = x - m * q
    BY <1>1, <1>2
<1>. HIDE DEF r, q
<1>4. m * q \in Int /\ m * q = q * m
    BY <1>3
<1>5. x = q * m + r
    BY <1>3, <1>4
<1>. QED
    BY <1>1, <1>5 DEF r, q

LEMMA DivUnique ==
    ASSUME NEW m \in Nat \ {0}, NEW q \in Int, NEW r \in 0..m - 1
    PROVE  (q * m + r) % m = r /\ (q * m + r) \div m = q
<1>. DEFINE x == q * m + r
            p == x \div m
            s == x % m
<1>1. x \in Int /\ p \in Int /\ s \in 0..m - 1 /\ x = p * m + s
    BY ModRange
<1>2. (q - p) * m = s - r
    BY <1>1
<1>. HIDE DEF x, p, s
<1>3. ~(q - p >= 1)
    <2>1. SUFFICES ASSUME q - p >= 1 PROVE FALSE
        OBVIOUS
    <2>2. (q - p) * m >= m
        BY <1>1, <2>1
    <2>. QED
        BY <1>1, <1>2, <2>2
<1>4. ~(q - p <= -1)
    <2>1. SUFFICES ASSUME q - p <= -1 PROVE FALSE
        OBVIOUS
    <2>2. (q - p) * m <= -m
        BY <1>1, <2>1
    <2>. QED
        BY <1>1, <1>2, <2>2
<1>5. q = p
    BY <1>1, <1>3, <1>4
<1>6. r = s
    BY <1>1, <1>2, <1>5
<1>. QED
    BY <1>5, <1>6 DEF x, p, s

LEMMA PlusMod ==
    ASSUME NEW m \in Nat \ {0}, NEW u \in Int, NEW v \in Int
    PROVE  ((u % m) + (v % m)) % m = (u + v) % m
<1>. DEFINE a == u % m
            b == v % m
            s == (a + b) % m
            c == u \div m
            d == v \div m
            e == (a + b) \div m
<1>1. /\ a \in 0..m - 1 /\ b \in 0..m - 1 /\ c \in Int /\ d \in Int
      /\ u = c * m + a /\ v = d * m + b
    BY ModRange
<1>2. s \in 0..m - 1 /\ e \in Int /\ a + b = e * m + s
    BY <1>1, ModRange
<1>. HIDE DEF a, b, c, d, e, s
<1>3. c + d + e \in Int /\ u + v = (c + d + e) * m + s
    <2>1. u + v = c * m + d * m + (a + b)
        BY <1>1
    <2>2. (c + d + e) * m = c * m + d * m + e * m
        BY <1>1, <1>2
    <2>. QED
        BY <1>1, <1>2, <2>1, <2>2
<1>4. (u + v) % m = s
    <2>. DEFINE k == c + d + e
    <2>1. k \in Int /\ u + v = k * m + s
        BY <1>3
    <2>. HIDE DEF k
    <2>2. (k * m + s) % m = s
        BY <1>2, <2>1, DivUnique
    <2>. QED
        BY <2>1, <2>2
<1>. QED
    BY <1>4 DEF s, a, b

LEMMA ModSmall ==
    ASSUME NEW m \in Nat \ {0}, NEW r \in 0..m - 1
    PROVE  r % m = r
<1>1. 0 * m + r = r
    OBVIOUS
<1>. QED
    BY <1>1, DivUnique, 0 \in Int

LEMMA NegMod ==
    ASSUME NEW m \in Nat \ {0}, NEW d \in 0..m - 1
    PROVE  /\ (-d) % m \in 0..m - 1
           /\ (-((-d) % m)) % m = d
<1>1. CASE d = 0
    BY <1>1, ModSmall
<1>2. CASE d # 0
    <2>1. (-d) = (-1) * m + (m - d) /\ m - d \in 0..m - 1
        BY <1>2
    <2>2. (-d) % m = m - d
        BY <2>1, DivUnique, -1 \in Int
    <2>3. -(m - d) = (-1) * m + d
        OBVIOUS
    <2>4. (-(m - d)) % m = d
        BY <2>3, DivUnique, -1 \in Int
    <2>. QED
        BY <2>1, <2>2, <2>4
<1>. QED
    BY <1>1, <1>2
-----------------------------------------------------------------------------
(***************************************************************************)
(* The masters.  finished outlives the release of arm: a master that is    *)
(* released in a cycle is done in it, then idle with the flag still up for *)
(* two cycles.  XFlag and YFlag are the cycles until the flag is down.     *)
(***************************************************************************)
FlagOK(phase, count, lag, finished) ==
    /\ finished = (phase \in {"settle", "done"} \/ lag > 0)
    /\ phase = "select" => count >= 1

FlagsInv ==
    /\ FlagOK(x_phase, x_count, x_lag, x_finished)
    /\ FlagOK(y_phase, y_count, y_lag, y_finished)

XFlag == IF x_phase = "done" THEN 3 ELSE x_lag
YFlag == IF y_phase = "done" THEN 3 ELSE y_lag

Resting ==
    /\ ~coord_arm
    /\ x_phase \in {"idle", "done"} /\ y_phase \in {"idle", "done"}

FlagsWithin(n) == XFlag <= n /\ YFlag <= n

(* How long the flags may still be up, state by state: the wait between    *)
(* two commands and the states between two moves are long enough.          *)
Arming  == {"REQUEST_DAC_VALUES", "GET_DAC_VALUES", "ADVANCE_DAC_WRITE", "NEXT_LINE"}

FadeInv ==
    /\ counter \in Nat
    /\ coord_arm => state \in Arming /\ x_lag = 0 /\ y_lag = 0
    /\ state = "REQUEST_DAC_VALUES" => coord_arm
    /\ ~coord_arm => Resting
    /\ state = "GET_DAC_VALUES" /\ ~coord_arm =>
          FlagsWithin(0) \/ FlagsWithin(3 - counter)
    /\ state = "GET_DAC_VALUES" => counter <= DAC_WAIT_BETWEEN_CMD
    /\ state = "GET_DAC_VALUES" /\ coord_arm => counter = DAC_WAIT_BETWEEN_CMD
    /\ state = "WAIT_ADVANCE" => FlagsWithin(0) \/ FlagsWithin(3 - counter)
    /\ state = "MEASURE" => FlagsWithin(2)
    /\ state = "SCAN_ADC_VALUES" => FlagsWithin(1)
    /\ state \in {"ADVANCE_DAC_WRITE", "NEXT_LINE", "WAIT_ON_ARM_DEASSERT"}
          /\ ~coord_arm => FlagsWithin(0)
    /\ state = "WAIT_ON_ARM" => FlagsWithin(2) /\ (arm => FlagsWithin(1))

(* The other units are armed in their own states only. *)
UnitsInv ==
    /\ state # "MEASURE" => adc_arm = 0
    /\ state # "SCAN_ADC_VALUES" => ~mem_commit

(* A scan runs from the cycle after arm was seen. *)
Scanning == state \notin {"WAIT_ON_ARM", "WAIT_ON_ARM_DEASSERT"}

RunningInv == Scanning => running
-----------------------------------------------------------------------------
(***************************************************************************)
(* The processor.  While it configures a scan the scanner neither runs nor *)
(* is armed; the write of arm is its last.                                 *)
(***************************************************************************)
(* The registers, by name. *)
RegNames == {"max_samples", "max_lines", "settle_time", "dx", "dy", "adc_used"}
AllNames == RegNames \cup {"arm", "running"}
Entries  == [reg : AllNames, val : Nat]

RegsTypeOK == regs \in [RegNames -> Nat] /\ asked \in ParamSets

(* The list of writes that begins a scan, and what is left of it. *)
Wanted(p) == Append(Configuration(p), Entry("arm", 1))

Rest(p, s) == Len(s) \in 1..7 /\ s = SubSeq(Wanted(p), 8 - Len(s), 7)

Configuring == Rest(asked, script)

Written(k) == k < 8 - Len(script) \/ (k = 8 - Len(script) /\ access = "check")

ConfigInv ==
    Configuring =>
        /\ arm <=> Written(7)
        /\ ~arm => ~running
        /\ Written(1) => regs.max_samples = asked.max_samples \/ arm
        /\ Written(2) => regs.max_lines = asked.max_lines \/ arm
        /\ Written(3) => regs.settle_time = asked.settle_time \/ arm
        /\ Written(4) => regs.dx = asked.dx \/ arm
        /\ Written(5) => regs.dy = asked.dy \/ arm
        /\ Written(6) => regs.adc_used = asked.adc_used \/ arm

ScriptInv ==
    \/ script = <<>>
    \/ script = <<Entry("arm", 0)>>
    \/ script = <<Entry("dx", 0)>> /\ arm
    \/ Configuring

AccessInv ==
    /\ access \in {"old", "write", "check"}
    /\ script = <<>> => access = "old" /\ ~kernel_ready
    /\ kernel_ready =>
          /\ ~kernel_finished
          /\ kernel_cmd.reg = Head(script).reg
          /\ kernel_cmd.write <=> access = "write"
          /\ access = "write" => kernel_data_in = Head(script).val

AsAsked ==
    /\ regs.max_samples = asked.max_samples /\ regs.max_lines = asked.max_lines
    /\ regs.settle_time = asked.settle_time /\ regs.adc_used = asked.adc_used
    /\ regs.dx = asked.dx /\ regs.dy = asked.dy

(* arm is seen in the cycle after it was written, with the registers as    *)
(* they were asked for.                                                    *)
ArmedInv ==
    state = "WAIT_ON_ARM" /\ arm =>
        ~running /\ Configuring /\ AsAsked

KernelInv == RegsTypeOK /\ ConfigInv /\ ScriptInv /\ AccessInv /\ ArmedInv

(* The registers of a scan: dx and dy point the way the sweep goes.        *)
ScanRegs ==
    /\ regs.max_samples = asked.max_samples /\ regs.max_lines = asked.max_lines
    /\ regs.settle_time = asked.settle_time /\ regs.adc_used = asked.adc_used
    /\ regs.dx = IF is_reverse THEN Neg(asked.dx) ELSE asked.dx
    /\ regs.dy = IF is_reverse THEN Neg(asked.dy) ELSE asked.dy

RegsInv == Scanning => ScanRegs
-----------------------------------------------------------------------------
(***************************************************************************)
(* The probe.                                                              *)
(***************************************************************************)
Answer(v) == Word("read", v)

Copied(phase, count) ==
    \/ phase = "select" /\ count > 1
    \/ phase \in {"load", "shift", "settle", "done"}

(* The frame that is under way is the one the scanner asked for. *)
FrameOK(phase, count, sent, loaded, from, to_dac, dac, answer, val) ==
    /\ coord_arm /\ phase \in {"shift", "settle"} => sent = to_dac
    /\ coord_arm /\ phase \in {"settle", "done"} => from = loaded
    /\ state = "REQUEST_DAC_VALUES" =>
          to_dac = Word("read", 0) /\ (phase = "done" => answer = Answer(dac))
    /\ state = "GET_DAC_VALUES" =>
          /\ to_dac = Nop
          /\ ~coord_arm \/ phase # "done" => answer = Answer(dac)
          /\ coord_arm /\ Copied(phase, count) => loaded = Answer(dac)
    /\ state \in {"WAIT_ADVANCE", "MEASURE", "SCAN_ADC_VALUES"} => dac = val
    /\ state \in {"ADVANCE_DAC_WRITE", "NEXT_LINE"} =>
          IF coord_arm
          THEN to_dac = Word("write", val) /\ (phase = "done" => dac = val)
          ELSE dac = val

XFrameOK == FrameOK(x_phase, x_count, x_sent, x_loaded, x_from_dac, x_to_dac, x_dac,
                    x_answer, x_val)
YFrameOK == FrameOK(y_phase, y_count, y_sent, y_loaded, y_from_dac, y_to_dac, y_dac,
                    y_answer, y_val)

FrameInv == XFrameOK /\ YFrameOK

OriginInv ==
    /\ origin \in Code \X Code
    /\ state \in {"REQUEST_DAC_VALUES", "GET_DAC_VALUES"} => origin = <<x_dac, y_dac>>

(* A size of 0 is never reached by a count: the scan goes on for ever.     *)
ZeroInv ==
    /\ asked.max_samples = 0 => state \notin {"NEXT_LINE", "WAIT_ON_ARM_DEASSERT"}
    /\ asked.max_lines = 0 => state # "WAIT_ON_ARM_DEASSERT"

(* The number of the point that is measured next or was measured last, and *)
(* the step that leads to it from the point before.                        *)
Pitch == asked.max_samples
Lines == asked.max_lines
Index == line * (2 * Pitch) + (IF is_reverse THEN Pitch + sample ELSE sample)

FirstPoint == line = 0 /\ sample = 0 /\ ~is_reverse

StepX == IF is_reverse THEN -asked.dx ELSE IF sample = 0 THEN asked.dy ELSE asked.dx
StepY == IF is_reverse THEN -asked.dy ELSE IF sample = 0 THEN -asked.dx ELSE asked.dy

Placed ==
    IF FirstPoint THEN x_val = origin[1] /\ y_val = origin[2]
    ELSE /\ x_val = (previous[1] + StepX) % PosMod
         /\ y_val = (previous[2] + StepY) % PosMod

AtPrevious == previous[1] = x_val /\ previous[2] = y_val

GridInv ==
    Sized =>
    /\ Scanning => sample \in 0..Pitch - 1 /\ line \in 0..Lines - 1
    /\ state \in {"REQUEST_DAC_VALUES", "GET_DAC_VALUES"} => measured = 0 /\ FirstPoint
    /\ state = "WAIT_ADVANCE" => measured = Index /\ Placed
    /\ state = "MEASURE" => measured = Index + 1 /\ Placed
    /\ state = "SCAN_ADC_VALUES" => measured = Index + 1 /\ AtPrevious
    /\ state = "ADVANCE_DAC_WRITE" =>
          /\ measured = Index /\ (is_reverse \/ sample # 0)
          /\ IF coord_arm THEN Placed ELSE AtPrevious
    /\ state = "NEXT_LINE" =>
          /\ sample = 0 /\ ~is_reverse
          /\ IF coord_arm THEN measured = Index /\ line # 0 /\ Placed
             ELSE measured = (line + 1) * (2 * Pitch) /\ AtPrevious
    /\ state = "WAIT_ON_ARM_DEASSERT" => measured = Lines * (2 * Pitch)

RasterInv ==
    /\ RasterTypeOK /\ FlagsInv /\ FadeInv /\ UnitsInv /\ RunningInv
    /\ KernelInv /\ RegsInv /\ FrameInv /\ OriginInv /\ ZeroInv /\ GridInv
-----------------------------------------------------------------------------
LEMMA ParamFacts ==
    ASSUME NEW p \in ParamSets
    PROVE  /\ p.max_samples \in 0..SampleMod - 1 /\ p.max_lines \in 0..SampleMod - 1
           /\ p.settle_time \in Nat /\ p.dx \in Code /\ p.dy \in Code
           /\ p.adc_used \in 0..2^ADCNUM - 1
BY RasterParams DEF Code

LEMMA SizeFacts ==
    /\ PosMod \in Nat \ {0} /\ SampleMod \in Nat \ {0} /\ ADCNUM \in Nat \ {0}
    /\ 2^ADCNUM \in Nat \ {0} /\ FIFO_DEPTH \in Nat \ {0} /\ 0 \in Code
BY RasterSizes DEF Code

LEMMA NegFacts ==
    ASSUME NEW d \in Code
    PROVE  Neg(d) \in Code /\ Neg(Neg(d)) = d
BY NegMod, SizeFacts DEF Code, Neg

LEMMA WantedFacts ==
    ASSUME NEW p \in ParamSets
    PROVE  /\ Wanted(p) \in Seq(Entries) /\ Len(Wanted(p)) = 7
           /\ Wanted(p)[1] = Entry("max_samples", p.max_samples)
           /\ Wanted(p)[2] = Entry("max_lines", p.max_lines)
           /\ Wanted(p)[3] = Entry("settle_time", p.settle_time)
           /\ Wanted(p)[4] = Entry("dx", p.dx)
           /\ Wanted(p)[5] = Entry("dy", p.dy)
           /\ Wanted(p)[6] = Entry("adc_used", p.adc_used)
           /\ Wanted(p)[7] = Entry("arm", 1)
<1>. DEFINE c == Configuration(p)
<1>1. /\ Entry("max_samples", p.max_samples) \in Entries
      /\ Entry("max_lines", p.max_lines) \in Entries
      /\ Entry("settle_time", p.settle_time) \in Entries
      /\ Entry("dx", p.dx) \in Entries /\ Entry("dy", p.dy) \in Entries
      /\ Entry("adc_used", p.adc_used) \in Entries /\ Entry("arm", 1) \in Entries
    <2>1. /\ p.max_samples \in Nat /\ p.max_lines \in Nat /\ p.settle_time \in Nat
          /\ p.dx \in Nat /\ p.dy \in Nat /\ p.adc_used \in Nat
        BY ParamFacts, SizeFacts DEF Code
    <2>. QED
        BY <2>1 DEF Entry, Entries, AllNames, RegNames
<1>2. /\ c \in Seq(Entries) /\ Len(c) = 6
      /\ c[1] = Entry("max_samples", p.max_samples)
      /\ c[2] = Entry("max_lines", p.max_lines)
      /\ c[3] = Entry("settle_time", p.settle_time)
      /\ c[4] = Entry("dx", p.dx)
      /\ c[5] = Entry("dy", p.dy)
      /\ c[6] = Entry("adc_used", p.adc_used)
    BY <1>1 DEF Configuration
<1>. HIDE DEF c
<1>3. /\ Append(c, Entry("arm", 1)) \in Seq(Entries)
      /\ Len(Append(c, Entry("arm", 1))) = 7
      /\ \A i \in 1..6 : Append(c, Entry("arm", 1))[i] = c[i]
      /\ Append(c, Entry("arm", 1))[7] = Entry("arm", 1)
    <2>1. Entry("arm", 1) \in Entries /\ c \in Seq(Entries)
        BY <1>1, <1>2
    <2>. DEFINE e == Entry("arm", 1)
    <2>. HIDE DEF e
    <2>2. /\ Append(c, e) \in Seq(Entries) /\ Len(Append(c, e)) = Len(c) + 1
          /\ \A i \in 1..Len(c) : Append(c, e)[i] = c[i]
          /\ Append(c, e)[Len(c) + 1] = e
        BY <2>1, AppendProperties DEF e
    <2>3. Len(c) = 6 /\ Len(c) + 1 = 7
        BY <1>2
    <2>4. /\ Append(c, e) \in Seq(Entries) /\ Len(Append(c, e)) = 7
          /\ \A i \in 1..6 : Append(c, e)[i] = c[i]
          /\ Append(c, e)[7] = e
        BY <2>2, <2>3
    <2>. QED
        BY <2>4 DEF e
<1>. QED
    BY <1>2, <1>3 DEF Wanted, c

LEMMA RestFacts ==
    ASSUME NEW p \in ParamSets, NEW s, Rest(p, s)
    PROVE  /\ s # <<>> /\ Head(s) = Wanted(p)[8 - Len(s)]
           /\ Len(s) = 1 => Tail(s) = <<>>
           /\ Len(s) > 1 => Rest(p, Tail(s)) /\ Len(Tail(s)) = Len(s) - 1
<1>. DEFINE n == Len(s)
            w == Wanted(p)
            t == Tail(s)
<1>1. n \in 1..7
    BY DEF Rest
<1>2. s = SubSeq(w, 8 - n, 7)
    BY DEF Rest
<1>3. w \in Seq(Entries) /\ Len(w) = 7
    BY WantedFacts
<1>4. s # <<>>
    <2>1. Len(<<>>) = 0
        OBVIOUS
    <2>. QED
        BY <1>1, <2>1
<1>. HIDE DEF n, w
<1>5. 8 - n \in 1..7 /\ 7 \in (8 - n)..7 /\ (8 - n) + 1 = 9 - n
    BY <1>1
<1>6. /\ Head(SubSeq(w, 8 - n, 7)) = w[8 - n]
      /\ Tail(SubSeq(w, 8 - n, 7)) = SubSeq(w, (8 - n) + 1, 7)
    <2>. DEFINE m == 8 - n
    <2>1. m \in 1..Len(w) /\ 7 \in m..Len(w)
        BY <1>3, <1>5
    <2>. HIDE DEF m
    <2>2. /\ Head(SubSeq(w, m, 7)) = w[m]
          /\ Tail(SubSeq(w, m, 7)) = SubSeq(w, m + 1, 7)
        BY <1>3, <2>1, HeadTailOfSubSeq
    <2>. QED
        BY <2>2 DEF m
<1>7. Head(s) = w[8 - n] /\ t = SubSeq(w, 9 - n, 7)
    BY <1>2, <1>5, <1>6
<1>8. n = 1 => t = <<>>
    <2>1. SubSeq(w, 8, 7) = <<>>
        BY SubSeqEmpty, 8 \in Int, 7 \in Int, 7 < 8
    <2>2. n = 1 => 9 - n = 8
        OBVIOUS
    <2>. QED
        BY <1>7, <2>1, <2>2
<1>9. Len(SubSeq(w, 9 - n, 7)) = IF 9 - n <= 7 THEN 7 - (9 - n) + 1 ELSE 0
    <2>1. ASSUME NEW i \in (9 - n)..7 PROVE i \in 1..7
        BY <1>1
    <2>2. \A i \in (9 - n)..7 : w[i] \in Entries
        BY <1>3, <2>1, ElementOfSeq
    <2>3. 9 - n \in Int
        BY <1>1
    <2>. QED
        BY <2>2, <2>3, SubSeqProperties
<1>10. ASSUME n > 1 PROVE Len(t) = n - 1 /\ Len(t) \in 1..7 /\ t = SubSeq(w, 8 - Len(t), 7)
    <2>1. 9 - n <= 7 /\ 7 - (9 - n) + 1 = n - 1
        BY <1>1, <1>10
    <2>2. Len(t) = n - 1
        BY <1>7, <1>9, <2>1
    <2>. HIDE DEF t
    <2>3. Len(t) \in 1..7 /\ 8 - Len(t) = 9 - n
        BY <1>1, <1>10, <2>2
    <2>. QED
        BY <1>7, <2>2, <2>3
<1>. QED
    BY <1>4, <1>7, <1>8, <1>10 DEF Rest, n, w, t

(* What is written next. *)
LEMMA HeadFacts ==
    ASSUME NEW p \in ParamSets, NEW s, Rest(p, s)
    PROVE  /\ Len(s) \in 1..7
           /\ Len(s) = 7 => Head(s) = Entry("max_samples", p.max_samples)
           /\ Len(s) = 6 => Head(s) = Entry("max_lines", p.max_lines)
           /\ Len(s) = 5 => Head(s) = Entry("settle_time", p.settle_time)
           /\ Len(s) = 4 => Head(s) = Entry("dx", p.dx)
           /\ Len(s) = 3 => Head(s) = Entry("dy", p.dy)
           /\ Len(s) = 2 => Head(s) = Entry("adc_used", p.adc_used)
           /\ Len(s) = 1 => Head(s) = Entry("arm", 1)
<1>1. Len(s) \in 1..7 /\ Head(s) = Wanted(p)[8 - Len(s)]
    BY RestFacts DEF Rest
<1>. DEFINE w == Wanted(p)
<1>2. /\ w[1] = Entry("max_samples", p.max_samples)
      /\ w[2] = Entry("max_lines", p.max_lines)
      /\ w[3] = Entry("settle_time", p.settle_time)
      /\ w[4] = Entry("dx", p.dx) /\ w[5] = Entry("dy", p.dy)
      /\ w[6] = Entry("adc_used", p.adc_used) /\ w[7] = Entry("arm", 1)
    BY WantedFacts
<1>. HIDE DEF w
<1>. DEFINE n == Len(s)
<1>3. n \in 1..7 /\ Head(s) = w[8 - n]
    BY <1>1 DEF w
<1>. HIDE DEF n
<1>4. /\ n = 7 => Head(s) = w[1]
      /\ n = 6 => Head(s) = w[2]
      /\ n = 5 => Head(s) = w[3]
      /\ n = 4 => Head(s) = w[4]
      /\ n = 3 => Head(s) = w[5]
      /\ n = 2 => Head(s) = w[6]
      /\ n = 1 => Head(s) = w[7]
    BY <1>3
<1>. QED
    BY <1>2, <1>3, <1>4, Zenon DEF n

LEMMA OneEntry ==
    ASSUME NEW e
    PROVE  <<e>> # <<>> /\ Head(<<e>>) = e /\ Tail(<<e>>) = <<>> /\ Len(<<e>>) = 1
OBVIOUS

LEMMA OthersAreNotRest ==
    ASSUME NEW p \in ParamSets
    PROVE  ~Rest(p, <<>>) /\ ~Rest(p, <<Entry("arm", 0)>>) /\ ~Rest(p, <<Entry("dx", 0)>>)
<1>1. ~Rest(p, <<>>)
    BY DEF Rest
<1>2. Entry("arm", 0) # Entry("arm", 1) /\ Entry("dx", 0) # Entry("arm", 1)
    BY DEF Entry
<1>. QED
    BY <1>1, <1>2, HeadFacts, OneEntry

LEMMA WholeIsRest ==
    ASSUME NEW p \in ParamSets
    PROVE  Rest(p, Wanted(p)) /\ Len(Wanted(p)) = 7
<1>1. Wanted(p) \in Seq(Entries) /\ Len(Wanted(p)) = 7
    BY WantedFacts
<1>2. SubSeq(Wanted(p), 1, Len(Wanted(p))) = Wanted(p)
    BY <1>1, SubSeqFull
<1>3. 8 - 7 = 1
    OBVIOUS
<1>. QED
    BY <1>1, <1>2, <1>3 DEF Rest
-----------------------------------------------------------------------------
(* What a cycle of the scanner does to state, running and the direction.   *)
Idle == state \in {"WAIT_ON_ARM", "WAIT_ON_ARM_DEASSERT"}

ScanMoves ==
    /\ state' \in ScanStates /\ running' \in BOOLEAN /\ is_reverse' \in BOOLEAN
    /\ state' = "WAIT_ON_ARM" => ~arm
    /\ Idle /\ ~(state = "WAIT_ON_ARM" /\ arm) =>
          state' \in {"WAIT_ON_ARM", state} /\ (running' => running)
    /\ state = "WAIT_ON_ARM" /\ arm =>
          state' = "REQUEST_DAC_VALUES" /\ running' /\ ~is_reverse'
    /\ ~Idle => (running' <=> running) \/ state' = "WAIT_ON_ARM"
    /\ ~Idle /\ Turning => (is_reverse' <=> ~is_reverse)
    /\ ~Idle /\ ~Turning => (is_reverse' <=> is_reverse)
    /\ Turning => state = "SCAN_ADC_VALUES"

LEMMA ScanSteps ==
    ASSUME ScanStep, state \in ScanStates,
           {arm, running, is_reverse, coord_arm} \subseteq BOOLEAN
    PROVE  ScanMoves
<1>. USE DEF ScanMoves, Idle, ScanStates, Turning, PointDone
<1>1. CASE WaitOnArm
    BY <1>1 DEF WaitOnArm, point
<1>2. CASE RequestDacValues
    BY <1>2 DEF RequestDacValues, point
<1>3. CASE WaitBetweenCommands
    BY <1>3 DEF WaitBetweenCommands, check_arm, point
<1>4. CASE GetDacValues
    BY <1>4 DEF GetDacValues, point
<1>5. CASE Settle
    BY <1>5 DEF Settle, check_arm, point
<1>6. CASE ArmAdcs
    BY <1>6 DEF ArmAdcs, point
<1>7. CASE Measure
    BY <1>7 DEF Measure, point
<1>8. CASE NextPoint
    BY <1>8 DEF NextPoint
<1>9. CASE SampleTaken
    BY <1>9 DEF SampleTaken, point
<1>10. CASE ShiftSamples
    BY <1>10 DEF ShiftSamples, point
<1>11. CASE AdvanceDacWrite
    BY <1>11 DEF AdvanceDacWrite, Arrive, point
<1>12. CASE NextLine
    BY <1>12 DEF NextLine, Arrive
<1>13. CASE WaitOnArmDeassert
    BY <1>13 DEF WaitOnArmDeassert, point
<1>. QED
    BY <1>1, <1>2, <1>3, <1>4, <1>5, <1>6, <1>7, <1>8, <1>9, <1>10, <1>11, <1>12,
       <1>13 DEF ScanStep

(* What a cycle of the register interface does, in terms of the script.    *)
Writing(r) ==
    /\ kernel_ready /\ access = "write" /\ Head(script).reg = r
    /\ ~running \/ r = "arm"

Held(r) == ~Writing(r) => regs'[r] = regs[r]
Turned(r, turning) ==
    ~Writing(r) => regs'[r] = IF turning THEN Neg(regs[r]) ELSE regs[r]

InterfaceMoves(turning) ==
    /\ arm' \in BOOLEAN
    /\ arm' <=> IF Writing("arm") THEN Head(script).val = 1 ELSE arm
    /\ kernel_finished' <=>
          kernel_ready /\ (access # "write" \/ ~running \/ Head(script).reg = "arm")
    /\ regs' = [r \in RegNames |-> regs'[r]]
    /\ \A r \in RegNames : Writing(r) => regs'[r] = Head(script).val
    /\ Held("max_samples") /\ Held("max_lines") /\ Held("settle_time")
    /\ Held("adc_used") /\ Turned("dx", turning) /\ Turned("dy", turning)

BoolTypeOK ==
    /\ {kernel_ready, kernel_finished, arm, running, is_reverse, coord_arm} \subseteq BOOLEAN

LEMMA InterfaceSteps ==
    ASSUME NEW turning \in BOOLEAN, KernelInterface(turning),
           RegsTypeOK, AccessInv, BoolTypeOK
    PROVE  InterfaceMoves(turning)
<1>1. \A r : Writes(r) <=> Writing(r)
    BY DEF Writes, Writing, Writable, AccessInv, BoolTypeOK
<1>2. \A r : Writing(r) => kernel_data_in = Head(script).val
    BY DEF Writing, AccessInv
<1>3. arm' \in BOOLEAN /\ (arm' <=> IF Writing("arm") THEN Head(script).val = 1 ELSE arm)
    <2>1. arm' = IF Writes("arm") THEN kernel_data_in = 1 ELSE arm
        BY DEF KernelInterface
    <2>2. CASE Writing("arm")
        BY <1>1, <1>2, <2>1, <2>2
    <2>3. CASE ~Writing("arm")
        BY <1>1, <2>1, <2>3 DEF BoolTypeOK
    <2>. QED
        BY <2>2, <2>3
<1>4. kernel_finished' <=>
          kernel_ready /\ (access # "write" \/ ~running \/ Head(script).reg = "arm")
    <2>1. kernel_finished' = (kernel_ready /\ (kernel_finished \/ Answers))
        BY DEF KernelInterface
    <2>2. kernel_ready => ~kernel_finished
        BY DEF AccessInv
    <2>3. kernel_ready =>
             (Answers <=> (access # "write" \/ ~running \/ Head(script).reg = "arm"))
        <3>1. kernel_ready => /\ kernel_cmd.write <=> access = "write"
                              /\ kernel_cmd.reg = Head(script).reg
            BY DEF AccessInv
        <3>. QED
            BY <3>1, Zenon DEF Answers, Writable
    <2>. QED
        BY <2>1, <2>2, <2>3, Zenon DEF BoolTypeOK
<1>5. DOMAIN regs = RegNames
    BY DEF RegsTypeOK
<1>6. regs' = [r \in RegNames |->
                 CASE Writes(r) -> kernel_data_in
                   [] ~Writes(r) /\ turning /\ r \in {"dx", "dy"} -> Neg(regs[r])
                   [] ~Writes(r) /\ ~(turning /\ r \in {"dx", "dy"}) -> regs[r]]
    BY <1>5, Zenon DEF KernelInterface
<1>7. regs' = [r \in RegNames |-> regs'[r]]
    BY <1>6
<1>8. ASSUME NEW r \in RegNames
      PROVE  regs'[r] = CASE Writes(r) -> kernel_data_in
                   [] ~Writes(r) /\ turning /\ r \in {"dx", "dy"} -> Neg(regs[r])
                   [] ~Writes(r) /\ ~(turning /\ r \in {"dx", "dy"}) -> regs[r]
    BY <1>6, Zenon
<1>9. ASSUME NEW r \in RegNames
      PROVE  /\ Writing(r) => regs'[r] = Head(script).val
             /\ ~Writing(r) /\ turning /\ r \in {"dx", "dy"} => regs'[r] = Neg(regs[r])
             /\ ~Writing(r) /\ ~(turning /\ r \in {"dx", "dy"}) => regs'[r] = regs[r]
    BY <1>1, <1>2, <1>8
<1>10. /\ \A r \in {"max_samples", "max_lines", "settle_time", "adc_used"} : Held(r)
       /\ \A r \in {"dx", "dy"} : Turned(r, turning)
    BY <1>9 DEF Held, Turned, RegNames
<1>. QED
    BY <1>3, <1>4, <1>7, <1>9, <1>10 DEF InterfaceMoves

(* What the processor does. *)
KernelMoves ==
    \/ /\ kernel_ready /\ (kernel_ready' <=> ~kernel_finished')
       /\ kernel_cmd' = kernel_cmd /\ kernel_data_in' = kernel_data_in
       /\ asked' = asked
       /\ ~kernel_finished' => access' = access /\ script' = script
       /\ kernel_finished' /\ access = "old" => access' = "write" /\ script' = script
       /\ kernel_finished' /\ access = "write" => access' = "check" /\ script' = script
       /\ kernel_finished' /\ access = "check" => access' = "old" /\ script' = Tail(script)
    \/ /\ ~kernel_ready /\ script # <<>> /\ kernel_ready' = TRUE
       /\ kernel_cmd'.reg = Head(script).reg
       /\ kernel_cmd'.write <=> access = "write"
       /\ access = "write" => kernel_data_in' = Head(script).val
       /\ script' = script /\ access' = access /\ asked' = asked
    \/ /\ ~kernel_ready /\ script = <<>>
       /\ kernel_ready' = kernel_ready /\ kernel_cmd' = kernel_cmd
       /\ kernel_data_in' = kernel_data_in /\ access' = access
       /\ \/ /\ ~arm /\ ~running
             /\ asked' \in ParamSets /\ script' = Wanted(asked')
          \/ arm /\ script' = <<Entry("arm", 0)>> /\ asked' = asked
          \/ arm /\ running /\ script' = <<Entry("dx", 0)>> /\ asked' = asked
          \/ script' = <<>> /\ asked' = asked

LEMMA KernelSteps ==
    ASSUME Kernel, AccessInv, kernel_ready \in BOOLEAN, kernel_finished' \in BOOLEAN
    PROVE  KernelMoves
<1>1. CASE AwaitFinished
    BY <1>1 DEF AwaitFinished, AccessInv, KernelMoves
<1>2. CASE write_raster_reg
    <2>1. ~kernel_ready /\ script # <<>> /\ UNCHANGED <<script, access, asked>>
        BY <1>2 DEF write_raster_reg
    <2>2. CASE access = "write"
        <3>1. Issue(Head(script).reg, TRUE, Head(script).val)
            BY <1>2, <2>2 DEF write_raster_reg
        <3>2. (access = "write") = TRUE
            BY <2>2
        <3>. QED
            BY <2>1, <3>1, <3>2 DEF Issue, KernelMoves
    <2>3. CASE access # "write"
        <3>1. Issue(Head(script).reg, FALSE, kernel_data_in)
            BY <1>2, <2>3 DEF write_raster_reg
        <3>2. (access = "write") = FALSE
            BY <2>3
        <3>. QED
            BY <2>1, <2>3, <3>1, <3>2 DEF Issue, KernelMoves
    <2>. QED
        BY <2>2, <2>3
<1>3. CASE BeginScan
    BY <1>3 DEF BeginScan, Plan, Wanted, KernelMoves
<1>4. CASE LowerArm
    BY <1>4 DEF LowerArm, Plan, KernelMoves
<1>5. CASE WriteDuringScan
    BY <1>5 DEF WriteDuringScan, Plan, KernelMoves
<1>6. CASE ~kernel_ready /\ script = <<>> /\ UNCHANGED bench
    BY <1>6 DEF bench, KernelMoves
<1>. QED
    BY <1>1, <1>2, <1>3, <1>4, <1>5, <1>6 DEF Kernel

LEMMA AccessTick ==
    ASSUME KernelMoves, AccessInv, ScriptInv, RegsTypeOK,
           kernel_ready \in BOOLEAN, kernel_finished' \in BOOLEAN,
           kernel_finished' => kernel_ready
    PROVE  AccessInv'
<1>1. CASE kernel_ready
    <2>1. script # <<>>
        BY <1>1 DEF AccessInv
    <2>2. CASE ~kernel_finished'
        BY <1>1, <2>1, <2>2 DEF KernelMoves, AccessInv
    <2>3. CASE kernel_finished'
        BY <1>1, <2>1, <2>3 DEF KernelMoves, AccessInv
    <2>. QED
        BY <2>2, <2>3
<1>2. CASE ~kernel_ready /\ script # <<>>
    <2>1. ~kernel_finished' /\ access' = access /\ script' = script
        BY <1>2 DEF KernelMoves
    <2>. QED
        BY <1>2, <2>1 DEF KernelMoves, AccessInv
<1>3. CASE ~kernel_ready /\ script = <<>>
    <2>1. access = "old" /\ access' = "old" /\ ~kernel_ready'
        BY <1>3 DEF KernelMoves, AccessInv
    <2>. QED
        BY <2>1 DEF AccessInv
<1>. QED
    BY <1>1, <1>2, <1>3

(* What is written next has the range of its register. *)
LEMMA HeadTyped ==
    ASSUME RegsTypeOK, ScriptInv, script # <<>>
    PROVE  /\ Head(script).reg = "arm" => Head(script).val \in {0, 1}
           /\ Head(script).reg \in {"dx", "dy"} => Head(script).val \in Code
           /\ Head(script).val \in Nat /\ Head(script).reg \in AllNames
           /\ Head(script).reg = "arm" /\ Head(script).val = 1 =>
                 Configuring /\ Len(script) = 1
<1>1. asked \in ParamSets
    BY DEF RegsTypeOK
<1>2. CASE script = <<Entry("arm", 0)>>
    <2>1. Head(script) = Entry("arm", 0)
        BY <1>2, OneEntry
    <2>. QED
        BY <2>1 DEF Entry, AllNames
<1>3. CASE script = <<Entry("dx", 0)>>
    <2>1. Head(script) = Entry("dx", 0)
        BY <1>3, OneEntry
    <2>. QED
        BY <2>1, SizeFacts DEF Entry, AllNames, RegNames
<1>4. CASE Configuring
    <2>1. Rest(asked, script)
        BY <1>4 DEF Configuring
    <2>2. /\ Len(script) \in 1..7
          /\ Len(script) = 7 => Head(script) = Entry("max_samples", asked.max_samples)
          /\ Len(script) = 6 => Head(script) = Entry("max_lines", asked.max_lines)
          /\ Len(script) = 5 => Head(script) = Entry("settle_time", asked.settle_time)
          /\ Len(script) = 4 => Head(script) = Entry("dx", asked.dx)
          /\ Len(script) = 3 => Head(script) = Entry("dy", asked.dy)
          /\ Len(script) = 2 => Head(script) = Entry("adc_used", asked.adc_used)
          /\ Len(script) = 1 => Head(script) = Entry("arm", 1)
        BY <1>1, <2>1, HeadFacts
    <2>3. /\ asked.max_samples \in Nat /\ asked.max_lines \in Nat
          /\ asked.settle_time \in Nat /\ asked.dx \in Code /\ asked.dy \in Code
          /\ asked.dx \in Nat /\ asked.dy \in Nat /\ asked.adc_used \in Nat
        BY <1>1, ParamFacts, SizeFacts DEF Code
    <2>. QED
        BY <1>4, <2>2, <2>3 DEF Entry, AllNames, RegNames
<1>. QED
    BY <1>2, <1>3, <1>4 DEF ScriptInv

(* All that the register interface and the processor do in a cycle. *)
KernelTicks ==
    /\ RegsTypeOK /\ ConfigInv /\ ScriptInv /\ AccessInv /\ ArmedInv /\ RegsInv
    /\ RunningInv /\ BoolTypeOK /\ state \in ScanStates /\ asked \in ParamSets
    /\ {regs.dx, regs.dy} \subseteq Code
    /\ ScanMoves /\ InterfaceMoves(Turning) /\ KernelMoves
    /\ kernel_finished' \in BOOLEAN /\ kernel_ready' \in BOOLEAN

(* While the loop does not run it has no say over the registers.           *)
LEMMA QuietWithoutArm ==
    ASSUME KernelTicks
    PROVE  /\ Turning => running
           /\ ~arm /\ ~running => ~running' /\ ~Turning /\ Idle
           /\ Scanning <=> ~Idle
<1>1. (Scanning <=> ~Idle) /\ (Scanning => running) /\ (Turning => ~Idle)
    BY DEF KernelTicks, RunningInv, Scanning, Idle, ScanMoves
<1>. QED
    BY <1>1 DEF KernelTicks, ScanMoves, BoolTypeOK

LEMMA RegsTyped ==
    ASSUME KernelTicks
    PROVE  RegsTypeOK' /\ regs'.dx \in Code /\ regs'.dy \in Code
<1>. USE DEF KernelTicks
<1>1. asked' \in ParamSets
    BY DEF KernelMoves
<1>2. \A r : Writing(r) => script # <<>> /\ Head(script).reg = r
    BY DEF Writing, AccessInv
<1>3. \A r \in RegNames : Writing(r) => regs'[r] \in Nat
    BY <1>2, HeadTyped DEF InterfaceMoves
<1>4. \A r \in {"dx", "dy"} : Writing(r) => regs'[r] \in Code
    BY <1>2, HeadTyped DEF InterfaceMoves, RegNames
<1>5. regs'.dx \in Code /\ regs'.dy \in Code
    BY <1>4, NegFacts DEF InterfaceMoves, Turned
<1>6. \A r \in RegNames : regs[r] \in Nat
    BY DEF RegsTypeOK
<1>7. regs'.dx \in Nat /\ regs'.dy \in Nat
    BY <1>5, SizeFacts DEF Code
<1>8. \A r \in RegNames : regs'[r] \in Nat
    BY <1>3, <1>6, <1>7 DEF InterfaceMoves, Held, RegNames
<1>9. regs' = [r \in RegNames |-> regs'[r]]
    BY DEF InterfaceMoves
<1>. QED
    BY <1>1, <1>5, <1>8, <1>9 DEF RegsTypeOK

(* The scanner starts, by and by: arm goes up with the last write only. *)
LEMMA ArmGoesUp ==
    ASSUME KernelTicks, ~arm, arm'
    PROVE  /\ Configuring /\ Len(script) = 1 /\ access = "write" /\ kernel_ready
           /\ ~running /\ kernel_finished'
<1>. USE DEF KernelTicks
<1>1. Writing("arm") /\ Head(script).val = 1
    BY DEF InterfaceMoves, BoolTypeOK
<1>2. script # <<>> /\ Head(script).reg = "arm" /\ kernel_ready /\ access = "write"
    BY <1>1 DEF Writing, AccessInv
<1>3. Configuring /\ Len(script) = 1
    BY <1>1, <1>2, HeadTyped
<1>. QED
    BY <1>2, <1>3 DEF ConfigInv, InterfaceMoves

LEMMA ConfigTick ==
    ASSUME KernelTicks
    PROVE  ConfigInv' /\ ScriptInv'
<1>. USE DEF KernelTicks
<1>0. asked \in ParamSets /\ asked' \in ParamSets
    BY DEF KernelMoves
<1>1. CASE kernel_ready /\ ~Configuring
    <2>1. script # <<>> /\ script \in {<<Entry("arm", 0)>>, <<Entry("dx", 0)>>}
        BY <1>1 DEF ScriptInv, AccessInv
    <2>2. script' \in {script, <<>>} /\ asked' = asked
        <3>1. Tail(script) = <<>>
            BY <2>1, OneEntry
        <3>. QED
            BY <1>1, <2>1, <3>1 DEF KernelMoves, AccessInv
    <2>3. ~Configuring'
        BY <1>0, <2>1, <2>2, OthersAreNotRest DEF Configuring
    <2>4. script' = <<Entry("dx", 0)>> => arm'
        <3>1. script' = <<Entry("dx", 0)>> => Head(script).reg = "dx" /\ arm
            <4>1. Entry("dx", 0) # Entry("arm", 0)
                BY DEF Entry
            <4>2. script' = <<Entry("dx", 0)>> => script = <<Entry("dx", 0)>>
                BY <2>2, OneEntry
            <4>3. <<Entry("dx", 0)>> # <<Entry("arm", 0)>>
                BY <4>1, OneEntry
            <4>4. script = <<Entry("dx", 0)>> => arm
                BY <1>1, <2>1, <4>3 DEF ScriptInv
            <4>5. script = <<Entry("dx", 0)>> => Head(script).reg = "dx"
                BY OneEntry DEF Entry
            <4>. QED
                BY <4>2, <4>4, <4>5
        <3>. QED
            BY <3>1 DEF InterfaceMoves, Writing, BoolTypeOK
    <2>. QED
        BY <2>1, <2>2, <2>3, <2>4 DEF ConfigInv, ScriptInv
<1>2. CASE kernel_ready /\ Configuring
    <2>. DEFINE n == Len(script)
    <2>1. Rest(asked, script) /\ n \in 1..7 /\ script # <<>>
        BY <1>0, <1>2, HeadFacts DEF Configuring, AccessInv
    <2>2. kernel_finished' /\ asked' = asked
        <3>1. access = "write" => ~arm
            BY <1>2, <2>1 DEF ConfigInv, Written
        <3>. QED
            BY <1>2, <3>1 DEF ConfigInv, InterfaceMoves, KernelMoves
    <2>3. CASE access = "old"
        <3>1. script' = script /\ access' = "write" /\ n = Len(script)
            BY <1>2, <2>2, <2>3 DEF KernelMoves, AccessInv
        <3>2. Configuring'
            BY <1>2, <2>2, <3>1 DEF Configuring
        <3>3. \A k : Written(k)' <=> Written(k)
            BY <2>3, <3>1 DEF Written
        <3>4. arm' <=> arm
            BY <2>3 DEF InterfaceMoves, Writing, BoolTypeOK
        <3>5. ~arm => /\ ~running /\ ~running' /\ ~Turning
            BY <1>2, QuietWithoutArm DEF ConfigInv
        <3>6. \A r : ~Writing(r)
            BY <2>3 DEF Writing
        <3>7. ~arm => /\ regs'.max_samples = regs.max_samples
                      /\ regs'.max_lines = regs.max_lines
                      /\ regs'.settle_time = regs.settle_time
                      /\ regs'.dx = regs.dx /\ regs'.dy = regs.dy
                      /\ regs'.adc_used = regs.adc_used
            BY <3>5, <3>6 DEF InterfaceMoves, Held, Turned
        <3>8. ScriptInv'
            BY <3>2 DEF ScriptInv
        <3>9. ConfigInv'
            BY <1>2, <2>2, <3>3, <3>4, <3>5, <3>7 DEF ConfigInv
        <3>. QED
            BY <3>8, <3>9
    <2>4. CASE access = "check"
        <3>1. script' = Tail(script) /\ access' = "old"
            BY <1>2, <2>2, <2>4 DEF KernelMoves, AccessInv
        <3>2. CASE n = 1
            <4>1. script' = <<>>
                BY <1>0, <2>1, <3>1, <3>2, RestFacts
            <4>2. ~Configuring'
                BY <1>0, <4>1, OthersAreNotRest DEF Configuring
            <4>. QED
                BY <4>1, <4>2 DEF ConfigInv, ScriptInv
        <3>3. CASE n # 1
            <4>0. Len(script) > 1
                <5>1. n \in 1..7 /\ n # 1
                    BY <2>1, <3>3
                <5>. HIDE DEF n
                <5>2. n > 1
                    BY <5>1
                <5>. QED
                    BY <5>2 DEF n
            <4>1. Rest(asked, Tail(script)) /\ Len(Tail(script)) = n - 1
                BY <1>0, <2>1, <4>0, RestFacts
            <4>2. Configuring' /\ Len(script') = n - 1
                BY <2>2, <3>1, <4>1 DEF Configuring
            <4>3. \A k \in Int : Written(k)' <=> Written(k)
                <5>1. \A k \in Int : Written(k)' <=> k < 8 - (n - 1)
                    BY <3>1, <4>2 DEF Written
                <5>2. \A k \in Int : Written(k) <=> k < 8 - n \/ k = 8 - n
                    BY <2>4 DEF Written
                <5>. QED
                    BY <2>1, <5>1, <5>2
            <4>4. arm' <=> arm
                BY <2>4 DEF InterfaceMoves, Writing, BoolTypeOK
            <4>5. ~arm => /\ ~running /\ ~running' /\ ~Turning
                BY <1>2, QuietWithoutArm DEF ConfigInv
            <4>6. \A r : ~Writing(r)
                BY <2>4 DEF Writing
            <4>7. ~arm => /\ regs'.max_samples = regs.max_samples
                          /\ regs'.max_lines = regs.max_lines
                          /\ regs'.settle_time = regs.settle_time
                          /\ regs'.dx = regs.dx /\ regs'.dy = regs.dy
                          /\ regs'.adc_used = regs.adc_used
                BY <4>5, <4>6 DEF InterfaceMoves, Held, Turned
            <4>8. /\ Written(1)' <=> Written(1)
                  /\ Written(2)' <=> Written(2)
                  /\ Written(3)' <=> Written(3)
                  /\ Written(4)' <=> Written(4)
                  /\ Written(5)' <=> Written(5)
                  /\ Written(6)' <=> Written(6)
                  /\ Written(7)' <=> Written(7)
                BY <4>3
            <4>9. ConfigInv'
                BY <1>2, <2>2, <4>4, <4>5, <4>7, <4>8 DEF ConfigInv
            <4>10. ScriptInv'
                BY <4>2 DEF ScriptInv
            <4>. QED
                BY <4>9, <4>10
        <3>. QED
            BY <3>2, <3>3
    <2>5. CASE access = "write"
        <3>1. script' = script /\ access' = "check"
            BY <1>2, <2>2, <2>5 DEF KernelMoves, AccessInv
        <3>2. Configuring'
            BY <1>2, <2>2, <3>1 DEF Configuring
        <3>3. ~arm /\ ~running /\ ~running' /\ ~Turning
            <4>1. ~Written(7)
                BY <2>1, <2>5 DEF Written
            <4>. QED
                BY <1>2, <4>1, QuietWithoutArm DEF ConfigInv
        <3>4. \A r : Writing(r) <=> Head(script).reg = r
            BY <1>2, <2>5, <3>3 DEF Writing
        <3>5. \A k \in 1..7 : Written(k)' <=> k <= 8 - n
            BY <2>1, <3>1 DEF Written
        <3>6. \A k \in 1..7 : Written(k) <=> k < 8 - n
            BY <2>1, <2>5 DEF Written
        <3>7. /\ n = 7 => Head(script) = Entry("max_samples", asked.max_samples)
              /\ n = 6 => Head(script) = Entry("max_lines", asked.max_lines)
              /\ n = 5 => Head(script) = Entry("settle_time", asked.settle_time)
              /\ n = 4 => Head(script) = Entry("dx", asked.dx)
              /\ n = 3 => Head(script) = Entry("dy", asked.dy)
              /\ n = 2 => Head(script) = Entry("adc_used", asked.adc_used)
              /\ n = 1 => Head(script) = Entry("arm", 1)
            BY <1>0, <2>1, HeadFacts
        <3>. HIDE DEF n
        <3>8. arm' <=> n = 1
            <4>1. Head(script).reg = "arm" <=> n = 1
                BY <2>1, <3>7 DEF Entry
            <4>2. n = 1 => Head(script).val = 1
                BY <3>7 DEF Entry
            <4>. QED
                BY <3>3, <3>4, <4>1, <4>2 DEF InterfaceMoves, BoolTypeOK
        <3>9. Written(7)' <=> n = 1
            BY <2>1, <3>5
        <3>10. Written(1)' => regs'.max_samples = asked.max_samples
            <4>1. CASE n = 7
                BY <3>4, <3>7, <4>1 DEF Entry, InterfaceMoves, RegNames
            <4>2. CASE n < 7
                <5>1. Written(1) /\ ~Writing("max_samples")
                    BY <2>1, <3>4, <3>6, <3>7, <4>2 DEF Entry
                <5>. QED
                    BY <1>2, <3>3, <5>1 DEF ConfigInv, InterfaceMoves, Held
            <4>3. CASE n > 7
                BY <2>1, <3>5, <4>3
            <4>. QED
                BY <2>1, <4>1, <4>2, <4>3
        <3>11. Written(2)' => regs'.max_lines = asked.max_lines
            <4>1. CASE n = 6
                BY <3>4, <3>7, <4>1 DEF Entry, InterfaceMoves, RegNames
            <4>2. CASE n < 6
                <5>1. Written(2) /\ ~Writing("max_lines")
                    BY <2>1, <3>4, <3>6, <3>7, <4>2 DEF Entry
                <5>. QED
                    BY <1>2, <3>3, <5>1 DEF ConfigInv, InterfaceMoves, Held
            <4>3. CASE n > 6
                BY <2>1, <3>5, <4>3
            <4>. QED
                BY <2>1, <4>1, <4>2, <4>3
        <3>12. Written(3)' => regs'.settle_time = asked.settle_time
            <4>1. CASE n = 5
                BY <3>4, <3>7, <4>1 DEF Entry, InterfaceMoves, RegNames
            <4>2. CASE n < 5
                <5>1. Written(3) /\ ~Writing("settle_time")
                    BY <2>1, <3>4, <3>6, <3>7, <4>2 DEF Entry
                <5>. QED
                    BY <1>2, <3>3, <5>1 DEF ConfigInv, InterfaceMoves, Held
            <4>3. CASE n > 5
                BY <2>1, <3>5, <4>3
            <4>. QED
                BY <2>1, <4>1, <4>2, <4>3
        <3>13. Written(4)' => regs'.dx = asked.dx
            <4>1. CASE n = 4
                BY <3>4, <3>7, <4>1 DEF Entry, InterfaceMoves, RegNames
            <4>2. CASE n < 4
                <5>1. Written(4) /\ ~Writing("dx")
                    BY <2>1, <3>4, <3>6, <3>7, <4>2 DEF Entry
                <5>. QED
                    BY <1>2, <3>3, <5>1 DEF ConfigInv, InterfaceMoves, Turned
            <4>3. CASE n > 4
                BY <2>1, <3>5, <4>3
            <4>. QED
                BY <2>1, <4>1, <4>2, <4>3
        <3>14. Written(5)' => regs'.dy = asked.dy
            <4>1. CASE n = 3
                BY <3>4, <3>7, <4>1 DEF Entry, InterfaceMoves, RegNames
            <4>2. CASE n < 3
                <5>1. Written(5) /\ ~Writing("dy")
                    BY <2>1, <3>4, <3>6, <3>7, <4>2 DEF Entry
                <5>. QED
                    BY <1>2, <3>3, <5>1 DEF ConfigInv, InterfaceMoves, Turned
            <4>3. CASE n > 3
                BY <2>1, <3>5, <4>3
            <4>. QED
                BY <2>1, <4>1, <4>2, <4>3
        <3>15. Written(6)' => regs'.adc_used = asked.adc_used
            <4>1. CASE n = 2
                BY <3>4, <3>7, <4>1 DEF Entry, InterfaceMoves, RegNames
            <4>2. CASE n < 2
                <5>1. Written(6) /\ ~Writing("adc_used")
                    BY <2>1, <3>4, <3>6, <3>7, <4>2 DEF Entry
                <5>. QED
                    BY <1>2, <3>3, <5>1 DEF ConfigInv, InterfaceMoves, Held
            <4>3. CASE n > 2
                BY <2>1, <3>5, <4>3
            <4>. QED
                BY <2>1, <4>1, <4>2, <4>3
        <3>16. ConfigInv'
            BY <2>2, <3>3, <3>8, <3>9, <3>10, <3>11, <3>12, <3>13, <3>14, <3>15 DEF ConfigInv
        <3>. QED
            BY <3>2, <3>16 DEF ScriptInv
    <2>. QED
        BY <2>3, <2>4, <2>5 DEF AccessInv
<1>3. CASE ~kernel_ready
    <2>1. \A r : ~Writing(r)
        BY <1>3 DEF Writing
    <2>2. arm' <=> arm
        BY <2>1 DEF InterfaceMoves, BoolTypeOK
    <2>3. CASE script # <<>>
        <3>1. script' = script /\ access' = access /\ asked' = asked
            BY <1>3, <2>3 DEF KernelMoves
        <3>2. /\ Configuring' <=> Configuring
              /\ \A k : Written(k)' <=> Written(k)
            BY <3>1 DEF Configuring, Written
        <3>3. ScriptInv'
            BY <2>2, <3>1, <3>2 DEF ScriptInv
        <3>4. Configuring /\ ~arm =>
                 /\ ~running' /\ regs'.max_samples = regs.max_samples
                 /\ regs'.max_lines = regs.max_lines
                 /\ regs'.settle_time = regs.settle_time
                 /\ regs'.dx = regs.dx /\ regs'.dy = regs.dy
                 /\ regs'.adc_used = regs.adc_used
            BY <2>1, QuietWithoutArm DEF ConfigInv, InterfaceMoves, Held, Turned
        <3>5. ConfigInv'
            BY <2>2, <3>1, <3>2, <3>4 DEF ConfigInv
        <3>. QED
            BY <3>3, <3>5
    <2>4. CASE script = <<>> /\ ~arm /\ ~running /\ script' = Wanted(asked')
        <3>1. Configuring' /\ Len(script') = 7
            BY <1>0, <2>4, WholeIsRest DEF Configuring
        <3>2. access' = "old"
            BY <1>3, <2>4 DEF KernelMoves, AccessInv
        <3>3. \A k \in 1..7 : ~Written(k)'
            BY <3>1, <3>2 DEF Written
        <3>4. ~running'
            BY <2>4, QuietWithoutArm
        <3>5. ConfigInv'
            BY <2>2, <2>4, <3>3, <3>4 DEF ConfigInv
        <3>. QED
            BY <3>1, <3>5 DEF ScriptInv
    <2>5. CASE \/ script' = <<>>
               \/ script' = <<Entry("arm", 0)>>
               \/ script' = <<Entry("dx", 0)>> /\ arm
        <3>1. ~Configuring'
            BY <1>0, <2>5, OthersAreNotRest DEF Configuring
        <3>. QED
            BY <2>2, <2>5, <3>1 DEF ConfigInv, ScriptInv
    <2>. QED
        BY <1>3, <2>3, <2>4, <2>5 DEF KernelMoves
<1>. QED
    BY <1>1, <1>2, <1>3

(* arm is seen with the registers as they were asked for. *)
LEMMA ArmedTick ==
    ASSUME KernelTicks
    PROVE  ArmedInv'
<1>. USE DEF KernelTicks
<1>. SUFFICES ASSUME state' = "WAIT_ON_ARM", arm'
              PROVE  ~running' /\ Configuring' /\ AsAsked'
    BY DEF ArmedInv
<1>1. ~arm
    BY DEF ScanMoves
<1>2. /\ Configuring /\ Len(script) = 1 /\ access = "write" /\ kernel_ready
      /\ ~running /\ kernel_finished'
    BY <1>1, ArmGoesUp
<1>3. ~running' /\ ~Turning
    BY <1>1, <1>2, QuietWithoutArm
<1>4. script' = script /\ asked' = asked
    BY <1>2 DEF KernelMoves
<1>5. Configuring'
    BY <1>2, <1>4 DEF Configuring
<1>6. AsAsked
    <2>1. /\ Written(1) /\ Written(2) /\ Written(3) /\ Written(4) /\ Written(5)
          /\ Written(6)
        BY <1>2 DEF Written
    <2>. QED
        BY <1>1, <1>2, <2>1 DEF ConfigInv, AsAsked
<1>7. Head(script).reg = "arm"
    <2>1. asked \in ParamSets /\ Rest(asked, script)
        BY <1>2 DEF Configuring
    <2>2. Head(script) = Entry("arm", 1)
        BY <1>2, <2>1, HeadFacts
    <2>. QED
        BY <2>2 DEF Entry
<1>8. \A r \in RegNames : ~Writing(r)
    BY <1>7 DEF Writing, RegNames
<1>9. AsAsked'
    BY <1>3, <1>4, <1>6, <1>8 DEF AsAsked, InterfaceMoves, Held, Turned, RegNames
<1>. QED
    BY <1>3, <1>5, <1>9

LEMMA RegsTick ==
    ASSUME KernelTicks
    PROVE  RegsInv' /\ RunningInv' /\ (Scanning => asked' = asked)
<1>. USE DEF KernelTicks
<1>1. CASE Scanning
    <2>1. running /\ ~Idle
        BY <1>1, QuietWithoutArm DEF RunningInv
    <2>2. asked' = asked
        BY <2>1 DEF KernelMoves
    <2>3. \A r \in RegNames : ~Writing(r)
        BY <2>1 DEF Writing, RegNames
    <2>4. Scanning' => running'
        BY <2>1 DEF ScanMoves, Scanning
    <2>5. ScanRegs
        BY <1>1 DEF RegsInv
    <2>6. asked.dx \in Code /\ asked.dy \in Code
        BY ParamFacts
    <2>7. /\ Turning => (is_reverse' <=> ~is_reverse)
          /\ ~Turning => (is_reverse' <=> is_reverse)
        BY <2>1 DEF ScanMoves
    <2>8. /\ regs'.dx = IF Turning THEN Neg(regs.dx) ELSE regs.dx
          /\ regs'.dy = IF Turning THEN Neg(regs.dy) ELSE regs.dy
          /\ regs'.max_samples = asked.max_samples /\ regs'.max_lines = asked.max_lines
          /\ regs'.settle_time = asked.settle_time /\ regs'.adc_used = asked.adc_used
        BY <2>3, <2>5 DEF InterfaceMoves, Held, Turned, RegNames, ScanRegs
    <2>9. /\ regs'.dx = IF is_reverse' THEN Neg(asked.dx) ELSE asked.dx
          /\ regs'.dy = IF is_reverse' THEN Neg(asked.dy) ELSE asked.dy
        <3>1. Neg(Neg(asked.dx)) = asked.dx /\ Neg(Neg(asked.dy)) = asked.dy
            BY <2>6, NegFacts
        <3>2. CASE Turning
            <4>1. is_reverse' <=> ~is_reverse
                BY <2>7, <3>2
            <4>. QED
                BY <2>5, <2>8, <3>1, <3>2, <4>1 DEF ScanRegs, BoolTypeOK
        <3>3. CASE ~Turning
            <4>1. is_reverse' <=> is_reverse
                BY <2>7, <3>3
            <4>. QED
                BY <2>5, <2>8, <3>3, <4>1 DEF ScanRegs, BoolTypeOK
        <3>. QED
            BY <3>2, <3>3
    <2>10. ScanRegs'
        BY <2>2, <2>8, <2>9 DEF ScanRegs
    <2>. QED
        BY <2>2, <2>4, <2>10 DEF RegsInv, RunningInv
<1>2. CASE state = "WAIT_ON_ARM" /\ arm
    <2>1. ~running /\ Configuring /\ AsAsked
        BY <1>2 DEF ArmedInv
    <2>2. access = "check" /\ asked' = asked
        <3>1. asked \in ParamSets /\ Rest(asked, script) /\ script # <<>>
            BY <2>1, RestFacts DEF Configuring
        <3>2. Len(script) \in 1..7
            BY <3>1, HeadFacts
        <3>3. Written(7)
            BY <1>2, <2>1 DEF ConfigInv
        <3>4. ~(7 < 8 - Len(script))
            BY <3>2
        <3>5. access = "check"
            BY <3>3, <3>4 DEF Written
        <3>. QED
            BY <3>1, <3>5 DEF KernelMoves
    <2>3. \A r : ~Writing(r)
        BY <2>2 DEF Writing
    <2>4. running' /\ ~is_reverse' /\ ~Turning
        BY <1>2 DEF ScanMoves
    <2>5. AsAsked'
        BY <2>1, <2>2, <2>3, <2>4 DEF AsAsked, InterfaceMoves, Held, Turned
    <2>6. ScanRegs'
        BY <2>4, <2>5 DEF AsAsked, ScanRegs
    <2>. QED
        BY <1>2, <2>4, <2>6 DEF RegsInv, RunningInv, Scanning
<1>3. CASE ~Scanning /\ ~(state = "WAIT_ON_ARM" /\ arm)
    <2>1. ~Scanning'
        BY <1>3 DEF ScanMoves, Scanning, Idle
    <2>. QED
        BY <1>3, <2>1 DEF RegsInv, RunningInv
<1>. QED
    BY <1>1, <1>2, <1>3
-----------------------------------------------------------------------------
(* What a cycle does to the phase and the flag of a master. *)
Moves(phase, lag, nextPhase, nextLag) ==
    /\ phase = "idle"   => nextPhase = IF coord_arm THEN "select" ELSE "idle"
    /\ phase = "select" => nextPhase \in {"select", "load"}
    /\ phase = "load"   => nextPhase = "shift"
    /\ phase = "shift"  => nextPhase \in {"shift", "settle"}
    /\ phase = "settle" => nextPhase = "done"
    /\ phase = "done"   => nextPhase = IF coord_arm THEN "done" ELSE "idle"
    /\ phase = "done" /\ ~coord_arm => nextLag = 2
    /\ phase = "idle" => nextLag = IF lag > 0 THEN lag - 1 ELSE 0
    /\ lag = 0 /\ coord_arm => nextLag = 0

XMoves == Moves(x_phase, x_lag, x_phase', x_lag')
YMoves == Moves(y_phase, y_lag, y_phase', y_lag')

LEMMA XSteps ==
    ASSUME XDac!TypeOK, FlagOK(x_phase, x_count, x_lag, x_finished), XDac!Step
    PROVE  /\ XMoves /\ x_lag' \in 0..2 /\ x_phase' \in XDac!Phases
           /\ FlagOK(x_phase, x_count, x_lag, x_finished)'
<1>. USE DEF XDac!TypeOK, XDac!Phases, FlagOK, XMoves, Moves, XDac!Step, XDac!Fade
<1>1. CASE XDac!Waiting
    BY <1>1 DEF XDac!Waiting
<1>2. CASE XDac!Selecting
    BY <1>2 DEF XDac!Selecting
<1>3. CASE XDac!Loading \/ XDac!Shifting \/ XDac!Complete \/ XDac!Deselect
    BY <1>3 DEF XDac!Loading, XDac!Shifting, XDac!Complete, XDac!Deselect
<1>4. CASE XDac!Done
    BY <1>4 DEF XDac!Done
<1>. QED
    BY <1>1, <1>2, <1>3, <1>4

LEMMA YSteps ==
    ASSUME YDac!TypeOK, FlagOK(y_phase, y_count, y_lag, y_finished), YDac!Step
    PROVE  /\ YMoves /\ y_lag' \in 0..2 /\ y_phase' \in YDac!Phases
           /\ FlagOK(y_phase, y_count, y_lag, y_finished)'
<1>. USE DEF YDac!TypeOK, YDac!Phases, FlagOK, YMoves, Moves, YDac!Step, YDac!Fade
<1>1. CASE YDac!Waiting
    BY <1>1 DEF YDac!Waiting
<1>2. CASE YDac!Selecting
    BY <1>2 DEF YDac!Selecting
<1>3. CASE YDac!Loading \/ YDac!Shifting \/ YDac!Complete \/ YDac!Deselect
    BY <1>3 DEF YDac!Loading, YDac!Shifting, YDac!Complete, YDac!Deselect
<1>4. CASE YDac!Done
    BY <1>4 DEF YDac!Done
<1>. QED
    BY <1>1, <1>2, <1>3, <1>4

(* All that the masters do in a cycle. *)
Masters ==
    /\ FlagsInv /\ FadeInv /\ XMoves /\ YMoves /\ coord_arm \in BOOLEAN
    /\ x_lag \in 0..2 /\ y_lag \in 0..2 /\ x_lag' \in 0..2 /\ y_lag' \in 0..2
    /\ x_phase \in XDac!Phases /\ y_phase \in XDac!Phases
    /\ {x_finished, y_finished} \subseteq BOOLEAN

(* At rest the flags fade. *)
LEMMA FlagsFade ==
    ASSUME Masters, ~coord_arm
    PROVE  /\ x_phase' = "idle" /\ y_phase' = "idle"
           /\ XFlag \in 0..3 /\ XFlag' = IF XFlag > 0 THEN XFlag - 1 ELSE 0
           /\ YFlag \in 0..3 /\ YFlag' = IF YFlag > 0 THEN YFlag - 1 ELSE 0
<1>1. x_phase \in {"idle", "done"} /\ y_phase \in {"idle", "done"}
    BY DEF Masters, FadeInv, Resting
<1>. QED
    BY <1>1 DEF Masters, XMoves, YMoves, Moves, XFlag, YFlag

(* While they are armed the flags are those of the transfer under way.     *)
LEMMA FlagsTell ==
    ASSUME Masters, coord_arm
    PROVE  /\ x_lag' = 0 /\ y_lag' = 0
           /\ x_finished <=> x_phase \in {"settle", "done"}
           /\ y_finished <=> y_phase \in {"settle", "done"}
           /\ DacsFinished => x_phase' = "done" /\ y_phase' = "done"
<1>1. x_lag = 0 /\ y_lag = 0
    BY DEF Masters, FadeInv
<1>2. /\ x_finished = (x_phase \in {"settle", "done"} \/ x_lag > 0)
      /\ y_finished = (y_phase \in {"settle", "done"} \/ y_lag > 0)
    BY DEF Masters, FlagsInv, FlagOK
<1>3. /\ (x_phase \in {"settle", "done"} \/ x_lag > 0) <=> x_phase \in {"settle", "done"}
      /\ (y_phase \in {"settle", "done"} \/ y_lag > 0) <=> y_phase \in {"settle", "done"}
    BY <1>1
<1>4. /\ x_finished <=> x_phase \in {"settle", "done"}
      /\ y_finished <=> y_phase \in {"settle", "done"}
    BY <1>2, <1>3, Zenon
<1>. QED
    BY <1>1, <1>4 DEF Masters, XMoves, YMoves, Moves, DacsFinished

(* The states of the scanner and the lines it arms the units with. *)
ArmMoves ==
    /\ counter' \in Nat /\ coord_arm' \in BOOLEAN
    /\ coord_arm => state \in Arming
    /\ UnitsInv'
    /\ state = "WAIT_ON_ARM" =>
          IF arm THEN state' = "REQUEST_DAC_VALUES" /\ coord_arm'
          ELSE state' = state /\ ~coord_arm'
    /\ state = "REQUEST_DAC_VALUES" =>
          IF DacsFinished THEN state' = "GET_DAC_VALUES" /\ ~coord_arm' /\ counter' = 0
          ELSE state' = state /\ coord_arm'
    /\ state = "GET_DAC_VALUES" /\ ~coord_arm =>
          \/ counter < DAC_WAIT_BETWEEN_CMD /\ ~coord_arm' /\ counter' = counter + 1
             /\ state' \in {state, "WAIT_ON_ARM"}
          \/ counter = DAC_WAIT_BETWEEN_CMD /\ state' = state /\ coord_arm'
             /\ counter' = counter
    /\ state = "GET_DAC_VALUES" /\ coord_arm =>
          IF DacsFinished THEN state' = "WAIT_ADVANCE" /\ ~coord_arm' /\ counter' = 0
          ELSE state' = state /\ coord_arm' /\ counter' = counter
    /\ state = "WAIT_ADVANCE" =>
          /\ ~coord_arm'
          /\ \/ state' = "WAIT_ADVANCE" /\ counter' = counter + 1
             \/ state' \in {"WAIT_ON_ARM", "MEASURE"}
    /\ state = "MEASURE" => ~coord_arm' /\ state' \in {state, "SCAN_ADC_VALUES"}
    /\ state = "SCAN_ADC_VALUES" =>
          ~coord_arm' /\ state' \in {state, "ADVANCE_DAC_WRITE", "NEXT_LINE"}
    /\ state \in {"ADVANCE_DAC_WRITE", "NEXT_LINE"} /\ coord_arm =>
          IF DacsFinished THEN state' = "WAIT_ADVANCE" /\ ~coord_arm' /\ counter' = 0
          ELSE state' = state /\ coord_arm'
    /\ state \in {"ADVANCE_DAC_WRITE", "NEXT_LINE"} /\ ~coord_arm =>
          \/ state' = state /\ coord_arm'
          \/ state' = "WAIT_ON_ARM_DEASSERT" /\ ~coord_arm'
    /\ state = "WAIT_ON_ARM_DEASSERT" =>
          ~coord_arm' /\ state' \in {state, "WAIT_ON_ARM"}

LEMMA ArmSteps ==
    ASSUME ScanStep, FadeInv, UnitsInv, BoolTypeOK, state \in ScanStates,
           mem_commit \in BOOLEAN, {x_finished, y_finished} \subseteq BOOLEAN
    PROVE  ArmMoves
<1>. USE RasterWaits DEF ArmMoves, UnitsInv, ScanStates, BoolTypeOK, Arming
<1>0. /\ counter \in Nat /\ (coord_arm => state \in Arming)
      /\ state = "REQUEST_DAC_VALUES" => coord_arm
      /\ state = "GET_DAC_VALUES" /\ coord_arm => counter = DAC_WAIT_BETWEEN_CMD
      /\ state = "GET_DAC_VALUES" => counter <= DAC_WAIT_BETWEEN_CMD
    BY DEF FadeInv
<1>1. CASE WaitOnArm
    BY <1>0, <1>1 DEF WaitOnArm
<1>2. CASE RequestDacValues
    <2>1. CASE DacsFinished
        <3>1. /\ state = "REQUEST_DAC_VALUES" /\ coord_arm' = FALSE /\ state' = "GET_DAC_VALUES"
              /\ counter' = 0 /\ adc_arm' = adc_arm /\ mem_commit' = mem_commit
              /\ coord_arm
            BY <1>0, <1>2, <2>1 DEF RequestDacValues
        <3>. QED
            BY <1>0, <2>1, <3>1
    <2>2. CASE ~DacsFinished
        BY <1>0, <1>2, <2>2 DEF RequestDacValues
    <2>. QED
        BY <2>1, <2>2
<1>3. CASE WaitBetweenCommands
    BY <1>0, <1>3 DEF WaitBetweenCommands, check_arm, outputs
<1>4. CASE GetDacValues
    <2>1. CASE DacsFinished
        <3>1. CASE coord_arm
            <4>1. /\ state = "GET_DAC_VALUES" /\ coord_arm' = FALSE /\ state' = "WAIT_ADVANCE"
                  /\ counter' = 0 /\ adc_arm' = adc_arm /\ mem_commit' = mem_commit
                BY <1>4, <2>1, <3>1 DEF GetDacValues
            <4>. QED
                BY <1>0, <2>1, <3>1, <4>1
        <3>2. CASE ~coord_arm
            BY <1>0, <1>4, <3>2 DEF GetDacValues
        <3>. QED
            BY <3>1, <3>2
    <2>2. CASE ~DacsFinished
        BY <1>0, <1>4, <2>2 DEF GetDacValues
    <2>. QED
        BY <2>1, <2>2
<1>5. CASE Settle
    BY <1>0, <1>5 DEF Settle, check_arm, outputs
<1>6. CASE ArmAdcs
    BY <1>0, <1>6 DEF ArmAdcs
<1>7. CASE Measure
    BY <1>0, <1>7 DEF Measure
<1>8. CASE NextPoint
    BY <1>0, <1>8 DEF NextPoint, PointDone, outputs
<1>9. CASE SampleTaken
    BY <1>0, <1>9 DEF SampleTaken
<1>10. CASE ShiftSamples
    BY <1>0, <1>10 DEF ShiftSamples
<1>11. CASE AdvanceDacWrite
    <2>1. CASE Arrive /\ DacsFinished
        <3>1. /\ state = "ADVANCE_DAC_WRITE" /\ coord_arm' = FALSE /\ state' = "WAIT_ADVANCE"
              /\ counter' = 0 /\ adc_arm' = adc_arm /\ mem_commit' = mem_commit
              /\ coord_arm
            BY <1>0, <1>11, <2>1 DEF AdvanceDacWrite, Arrive
        <3>. QED
            BY <1>0, <2>1, <3>1
    <2>2. CASE Arrive /\ ~DacsFinished
        BY <1>0, <1>11, <2>2 DEF AdvanceDacWrite, Arrive
    <2>3. CASE ~Arrive
        BY <1>0, <1>11, <2>3 DEF AdvanceDacWrite, Move
    <2>. QED
        BY <2>1, <2>2, <2>3
<1>12. CASE NextLine
    <2>1. CASE Arrive /\ DacsFinished
        <3>1. /\ state = "NEXT_LINE" /\ coord_arm' = FALSE /\ state' = "WAIT_ADVANCE"
              /\ counter' = 0 /\ adc_arm' = adc_arm /\ mem_commit' = mem_commit
              /\ coord_arm
            BY <1>0, <1>12, <2>1 DEF NextLine, Arrive
        <3>. QED
            BY <1>0, <2>1, <3>1
    <2>2. CASE Arrive /\ ~DacsFinished
        BY <1>0, <1>12, <2>2 DEF NextLine, Arrive
    <2>3. CASE ~Arrive
        <3>1. /\ state = "NEXT_LINE" /\ ~coord_arm /\ counter' = counter
              /\ adc_arm' = adc_arm /\ mem_commit' = mem_commit
              /\ \/ coord_arm' = TRUE /\ state' = "NEXT_LINE"
                 \/ coord_arm' = FALSE /\ state' = "WAIT_ON_ARM_DEASSERT"
            BY <1>12, <2>3 DEF NextLine, Move
        <3>2. UnitsInv'
            BY <3>1
        <3>. QED
            BY <1>0, <3>1, <3>2
    <2>. QED
        BY <2>1, <2>2, <2>3
<1>13. CASE WaitOnArmDeassert
    BY <1>0, <1>13 DEF WaitOnArmDeassert, outputs
<1>. QED
    BY <1>1, <1>2, <1>3, <1>4, <1>5, <1>6, <1>7, <1>8, <1>9, <1>10, <1>11, <1>12,
       <1>13 DEF ScanStep

LEMMA FadeTick ==
    ASSUME Masters, ArmMoves, state \in ScanStates,
           state' = "WAIT_ON_ARM" /\ arm' => Idle
    PROVE  FadeInv'
<1>. USE DEF Masters, ArmMoves
<1>1. CASE coord_arm
    <2>1. /\ x_lag' = 0 /\ y_lag' = 0
          /\ DacsFinished => x_phase' = "done" /\ y_phase' = "done"
        BY <1>1, FlagsTell
    <2>2. state \in Arming
        BY <1>1 
    <2>3. CASE ~DacsFinished
        <3>1. state' = state /\ coord_arm' /\ (state = "GET_DAC_VALUES" => counter' = counter)
            BY <1>1, <2>2, <2>3 DEF Arming
        <3>. QED
            BY <1>1, <2>1, <2>2, <3>1 DEF FadeInv, Arming
    <2>4. CASE DacsFinished
        <3>1. /\ state' \in {"GET_DAC_VALUES", "WAIT_ADVANCE"} /\ ~coord_arm'
              /\ counter' = 0
            BY <1>1, <2>2, <2>4 DEF Arming
        <3>2. Resting' /\ FlagsWithin(3)'
            BY <2>1, <2>4, <3>1 DEF Resting, FlagsWithin, XFlag, YFlag
        <3>3. 3 - counter' = 3
            BY <3>1
        <3>. QED
            BY <3>1, <3>2, <3>3, RasterWaits DEF FadeInv
    <2>. QED
        BY <2>3, <2>4
<1>2. CASE ~coord_arm
    <2>1. /\ x_phase' = "idle" /\ y_phase' = "idle"
          /\ XFlag \in 0..3 /\ XFlag' = IF XFlag > 0 THEN XFlag - 1 ELSE 0
          /\ YFlag \in 0..3 /\ YFlag' = IF YFlag > 0 THEN YFlag - 1 ELSE 0
        BY <1>2, FlagsFade
    <2>2. counter \in Nat /\ Resting
        BY <1>2 DEF FadeInv
    <2>3. coord_arm' => FlagsWithin(1)
        <3>1. CASE state = "WAIT_ON_ARM"
            BY <1>2, <3>1 DEF FadeInv
        <3>2. CASE state = "GET_DAC_VALUES"
            <4>1. coord_arm' => counter = DAC_WAIT_BETWEEN_CMD
                BY <1>2, <3>2
            <4>2. FlagsWithin(0) \/ FlagsWithin(3 - counter)
                BY <1>2, <3>2 DEF FadeInv
            <4>. QED
                BY <2>1, <2>2, <4>1, <4>2, RasterWaits, RasterGap DEF FlagsWithin
        <3>3. CASE state \in {"ADVANCE_DAC_WRITE", "NEXT_LINE"}
            BY <1>2, <2>1, <3>3 DEF FadeInv, FlagsWithin
        <3>4. state # "REQUEST_DAC_VALUES"
            BY <1>2 DEF FadeInv
        <3>. QED
            BY <3>1, <3>2, <3>3, <3>4 DEF ScanStates
    <2>4. coord_arm' => state' \in Arming /\ x_lag' = 0 /\ y_lag' = 0
        <3>1. FlagsWithin(1) => x_lag' = 0 /\ y_lag' = 0
            BY <2>1 DEF FlagsWithin, XFlag, YFlag
        <3>2. coord_arm' => state' \in Arming
            BY <1>2 DEF ScanStates, Arming
        <3>. QED
            BY <2>3, <3>1, <3>2
    <2>5. /\ FlagsWithin(2)'
          /\ FlagsWithin(1) => FlagsWithin(0)'
          /\ FlagsWithin(0) => FlagsWithin(0)'
          /\ FlagsWithin(2) => FlagsWithin(1)'
          /\ FlagsWithin(0)' => FlagsWithin(1)'
        BY <2>1 DEF FlagsWithin
    <2>6. counter' = counter + 1 /\ (FlagsWithin(0) \/ FlagsWithin(3 - counter)) =>
             (FlagsWithin(0) \/ FlagsWithin(3 - counter))'
        BY <2>1, <2>2 DEF FlagsWithin
    <2>7. ~coord_arm' => Resting'
        BY <2>1 DEF Resting
    <2>. DEFINE Rest3 == FlagsWithin(0) \/ FlagsWithin(3 - counter)
    <2>8. /\ state = "GET_DAC_VALUES" => Rest3 /\ counter <= DAC_WAIT_BETWEEN_CMD
          /\ state = "WAIT_ADVANCE" => Rest3
          /\ state = "MEASURE" => FlagsWithin(2)
          /\ state = "SCAN_ADC_VALUES" => FlagsWithin(1)
          /\ state \in {"ADVANCE_DAC_WRITE", "NEXT_LINE", "WAIT_ON_ARM_DEASSERT"} =>
                FlagsWithin(0)
          /\ state # "REQUEST_DAC_VALUES"
        BY <1>2 DEF FadeInv
    <2>. HIDE DEF Rest3
    <2>9. CASE state = "WAIT_ON_ARM"
        BY <1>2, <2>3, <2>4, <2>5, <2>7, <2>9 DEF FadeInv
    <2>10. CASE state = "GET_DAC_VALUES"
        BY <1>2, <2>4, <2>5, <2>6, <2>7, <2>8, <2>10, RasterWaits DEF FadeInv, Rest3, Idle
    <2>11. CASE state = "WAIT_ADVANCE"
        BY <1>2, <2>4, <2>5, <2>6, <2>7, <2>8, <2>11 DEF FadeInv, Rest3, Idle
    <2>12. CASE state \in {"MEASURE", "SCAN_ADC_VALUES"}
        BY <1>2, <2>5, <2>7, <2>8, <2>12 DEF FadeInv
    <2>13. CASE state \in {"ADVANCE_DAC_WRITE", "NEXT_LINE", "WAIT_ON_ARM_DEASSERT"}
        BY <1>2, <2>4, <2>5, <2>7, <2>8, <2>13 DEF FadeInv
    <2>. QED
        BY <2>8, <2>9, <2>10, <2>11, <2>12, <2>13 DEF ScanStates
<1>. QED
    BY <1>1, <1>2
-----------------------------------------------------------------------------
(* What a cycle of the scanner does to the words it sends. *)
WordMoves(to_dac, val, from, nextTo, nextVal) ==
    /\ coord_arm /\ coord_arm' => nextTo = to_dac /\ nextVal = val
    /\ state = "WAIT_ON_ARM" /\ arm => nextTo = Word("read", 0)
    /\ state' = "GET_DAC_VALUES" =>
          nextTo = IF state = "REQUEST_DAC_VALUES" THEN Nop ELSE to_dac
    /\ state = "GET_DAC_VALUES" /\ state' = "WAIT_ADVANCE" => nextVal = from.val
    /\ state \in {"WAIT_ADVANCE", "MEASURE", "SCAN_ADC_VALUES"} => nextVal = val
    /\ state \in {"ADVANCE_DAC_WRITE", "NEXT_LINE"} /\ ~coord_arm /\ coord_arm' =>
          nextTo = Word("write", nextVal)
    /\ state \in {"ADVANCE_DAC_WRITE", "NEXT_LINE"} /\ coord_arm => nextVal = val

LEMMA WordSteps ==
    ASSUME ScanStep, FadeInv, coord_arm \in BOOLEAN, state \in ScanStates
    PROVE  /\ WordMoves(x_to_dac, x_val, x_from_dac, x_to_dac', x_val')
           /\ WordMoves(y_to_dac, y_val, y_from_dac, y_to_dac', y_val')
<1>. USE DEF WordMoves, ScanStates, Arming
<1>0. /\ (coord_arm => state \in Arming)
      /\ state = "REQUEST_DAC_VALUES" => coord_arm
      /\ state = "GET_DAC_VALUES" /\ coord_arm => counter = DAC_WAIT_BETWEEN_CMD
    BY DEF FadeInv
<1>1. CASE WaitOnArm
    BY <1>0, <1>1 DEF WaitOnArm
<1>2. CASE RequestDacValues
    BY <1>0, <1>2 DEF RequestDacValues
<1>3. CASE WaitBetweenCommands
    BY <1>0, <1>3 DEF WaitBetweenCommands, check_arm, outputs
<1>4. CASE GetDacValues
    BY <1>0, <1>4 DEF GetDacValues
<1>5. CASE Settle
    BY <1>0, <1>5 DEF Settle, check_arm, outputs
<1>6. CASE ArmAdcs
    BY <1>0, <1>6 DEF ArmAdcs
<1>7. CASE Measure
    BY <1>0, <1>7 DEF Measure
<1>8. CASE NextPoint
    BY <1>0, <1>8 DEF NextPoint, PointDone, outputs
<1>9. CASE SampleTaken
    BY <1>0, <1>9 DEF SampleTaken
<1>10. CASE ShiftSamples
    BY <1>0, <1>10 DEF ShiftSamples
<1>11. CASE AdvanceDacWrite
    BY <1>0, <1>11 DEF AdvanceDacWrite, Arrive, Move
<1>12. CASE NextLine
    BY <1>0, <1>12 DEF NextLine, Arrive, Move
<1>13. CASE WaitOnArmDeassert
    BY <1>0, <1>13 DEF WaitOnArmDeassert, outputs
<1>. QED
    BY <1>1, <1>2, <1>3, <1>4, <1>5, <1>6, <1>7, <1>8, <1>9, <1>10, <1>11, <1>12,
       <1>13 DEF ScanStep

(* What a cycle does to the words of a master and to its DAC. *)
XWords ==
    /\ x_phase' \in {"shift", "settle"} =>
          x_sent' = IF x_phase = "load" THEN x_to_dac ELSE x_sent
    /\ x_phase' = "settle" => x_from_dac' = x_loaded'
    /\ x_phase \in {"settle", "done"} =>
          x_from_dac' = x_from_dac /\ x_loaded' = x_loaded
    /\ Copied(x_phase, x_count)' =>
          \/ Copied(x_phase, x_count) /\ x_loaded' = x_loaded
          \/ x_phase = "select" /\ x_loaded' = x_answer

YWords ==
    /\ y_phase' \in {"shift", "settle"} =>
          y_sent' = IF y_phase = "load" THEN y_to_dac ELSE y_sent
    /\ y_phase' = "settle" => y_from_dac' = y_loaded'
    /\ y_phase \in {"settle", "done"} =>
          y_from_dac' = y_from_dac /\ y_loaded' = y_loaded
    /\ Copied(y_phase, y_count)' =>
          \/ Copied(y_phase, y_count) /\ y_loaded' = y_loaded
          \/ y_phase = "select" /\ y_loaded' = y_answer

LEMMA XWordSteps ==
    ASSUME XDac!TypeOK, FlagOK(x_phase, x_count, x_lag, x_finished), XDac!Step
    PROVE  XWords
<1>. USE DEF XDac!TypeOK, XDac!Phases, FlagOK, XWords, Copied, XDac!Step
<1>1. CASE XDac!Waiting
    BY <1>1 DEF XDac!Waiting
<1>2. CASE XDac!Selecting
    BY <1>2 DEF XDac!Selecting
<1>3. CASE XDac!Loading \/ XDac!Shifting \/ XDac!Complete \/ XDac!Deselect
    BY <1>3 DEF XDac!Loading, XDac!Shifting, XDac!Complete, XDac!Deselect
<1>4. CASE XDac!Done
    BY <1>4 DEF XDac!Done
<1>. QED
    BY <1>1, <1>2, <1>3, <1>4

LEMMA XFrameTick ==
    ASSUME Masters, ArmMoves, XFrameOK, XWords, state \in ScanStates,
           WordMoves(x_to_dac, x_val, x_from_dac, x_to_dac', x_val'),
           Dac(x_phase, x_sent, x_dac, x_answer), FadeInv'
    PROVE  /\ XFrameOK'
           /\ state \in {"REQUEST_DAC_VALUES", "GET_DAC_VALUES"} => x_dac' = x_dac
           /\ ~coord_arm => x_dac' = x_dac
           /\ state = "GET_DAC_VALUES" /\ state' = "WAIT_ADVANCE" => x_val' = x_dac
<1>. USE DEF Masters, ArmMoves, XWords, WordMoves
<1>1. CASE coord_arm
    <2>0. state \in Arming
        BY <1>1
    <2>1. /\ x_finished <=> x_phase \in {"settle", "done"}
          /\ DacsFinished => x_phase' = "done" /\ x_finished
        BY <1>1, FlagsTell DEF DacsFinished
    <2>2. /\ x_phase \in {"shift", "settle"} => x_sent = x_to_dac
          /\ x_phase \in {"settle", "done"} => x_from_dac = x_loaded
        BY <1>1 DEF XFrameOK, FrameOK
    <2>3. /\ x_phase # "settle" => x_dac' = x_dac /\ x_answer' = x_answer
          /\ x_phase = "settle" /\ x_sent.op = "read" =>
                x_dac' = x_dac /\ x_answer' = Answer(x_dac)
          /\ x_phase = "settle" /\ x_sent.op = "nop" => x_dac' = x_dac
          /\ x_phase = "settle" /\ x_sent.op = "write" => x_dac' = x_sent.val
        BY DEF Dac, Answer
    <2>4. /\ x_phase \in {"idle", "select", "load", "shift", "settle", "done"}
          /\ x_phase' = "done" => x_phase \in {"settle", "done"}
          /\ x_phase' \in {"shift", "settle"} => x_phase \in {"load", "shift"}
          /\ x_phase' = "settle" => x_phase = "shift"
        BY <1>1 DEF XMoves, Moves, XDac!Phases
    <2>5. CASE state = "REQUEST_DAC_VALUES"
        <3>1. x_to_dac = Word("read", 0) /\ (x_phase = "done" => x_answer = Answer(x_dac))
            BY <2>5 DEF XFrameOK, FrameOK
        <3>2. x_phase = "settle" => x_sent.op = "read"
            BY <2>2, <3>1 DEF Word
        <3>3. /\ x_dac' = x_dac
              /\ x_phase \in {"settle", "done"} => x_answer' = Answer(x_dac')
            BY <2>3, <3>1, <3>2
        <3>4. CASE DacsFinished
            <4>1. /\ state' = "GET_DAC_VALUES" /\ ~coord_arm' /\ x_to_dac' = Nop
                  /\ x_phase \in {"settle", "done"}
                BY <2>1, <2>5, <3>4
            <4>. QED
                BY <2>5, <3>3, <4>1 DEF XFrameOK, FrameOK
        <3>5. CASE ~DacsFinished
            <4>1. state' = state /\ coord_arm' /\ x_to_dac' = x_to_dac
                BY <1>1, <2>5, <3>5
            <4>2. coord_arm' /\ x_phase' \in {"shift", "settle"} => x_sent' = x_to_dac'
                BY <2>2, <2>4, <4>1
            <4>3. x_phase' \in {"settle", "done"} => x_from_dac' = x_loaded'
                BY <2>2, <2>4
            <4>. QED
                BY <2>4, <2>5, <3>1, <3>3, <4>1, <4>2, <4>3 DEF XFrameOK, FrameOK
        <3>. QED
            BY <2>5, <3>3, <3>4, <3>5 DEF Dac
    <2>6. CASE state = "GET_DAC_VALUES"
        <3>1. /\ x_to_dac = Nop
              /\ x_phase # "done" => x_answer = Answer(x_dac)
              /\ Copied(x_phase, x_count) => x_loaded = Answer(x_dac)
            BY <1>1, <2>6 DEF XFrameOK, FrameOK
        <3>2. x_phase = "settle" => x_sent.op = "nop"
            BY <2>2, <3>1 DEF Word, Nop
        <3>3. x_dac' = x_dac
            BY <2>3, <3>2
        <3>4. CASE DacsFinished
            <4>1. /\ state' = "WAIT_ADVANCE" /\ ~coord_arm' /\ x_val' = x_from_dac.val
                  /\ x_phase \in {"settle", "done"}
                BY <1>1, <2>1, <2>6, <3>4
            <4>2. x_from_dac = Answer(x_dac)
                BY <2>2, <3>1, <4>1 DEF Copied
            <4>3. x_val' = x_dac'
                BY <3>3, <4>1, <4>2 DEF Answer, Word
            <4>. QED
                BY <2>6, <3>3, <4>1, <4>3 DEF XFrameOK, FrameOK
        <3>5. CASE ~DacsFinished
            <4>1. state' = state /\ coord_arm' /\ x_to_dac' = x_to_dac
                BY <1>1, <2>6, <3>5
            <4>2. coord_arm' /\ x_phase' \in {"shift", "settle"} => x_sent' = x_to_dac'
                BY <2>2, <2>4, <4>1
            <4>3. x_phase' \in {"settle", "done"} => x_from_dac' = x_loaded'
                BY <2>2, <2>4
            <4>4. x_phase' # "done" => x_answer' = Answer(x_dac')
                BY <1>1, <2>3, <2>4, <3>1, <3>3 DEF XMoves, Moves
            <4>5. Copied(x_phase, x_count)' => x_loaded' = Answer(x_dac')
                BY <3>1, <3>3
            <4>. QED
                BY <2>6, <3>1, <3>3, <4>1, <4>2, <4>3, <4>4, <4>5 DEF XFrameOK, FrameOK
        <3>. QED
            BY <2>6, <3>3, <3>4, <3>5
    <2>7. CASE state \in {"ADVANCE_DAC_WRITE", "NEXT_LINE"}
        <3>1. x_to_dac = Word("write", x_val) /\ (x_phase = "done" => x_dac = x_val)
            BY <1>1, <2>7 DEF XFrameOK, FrameOK
        <3>2. x_phase = "settle" => x_sent.op = "write" /\ x_sent.val = x_val
            BY <2>2, <3>1 DEF Word
        <3>3. /\ x_val' = x_val
              /\ x_phase \in {"settle", "done"} => x_dac' = x_val'
            BY <1>1, <2>3, <2>7, <3>1, <3>2
        <3>4. CASE DacsFinished
            <4>1. state' = "WAIT_ADVANCE" /\ ~coord_arm' /\ x_phase \in {"settle", "done"}
                BY <1>1, <2>1, <2>7, <3>4
            <4>. QED
                BY <1>1, <2>7, <3>3, <4>1 DEF XFrameOK, FrameOK
        <3>5. CASE ~DacsFinished
            <4>1. state' = state /\ coord_arm' /\ x_to_dac' = x_to_dac
                BY <1>1, <2>7, <3>5
            <4>2. coord_arm' /\ x_phase' \in {"shift", "settle"} => x_sent' = x_to_dac'
                BY <2>2, <2>4, <4>1
            <4>3. x_phase' \in {"settle", "done"} => x_from_dac' = x_loaded'
                BY <2>2, <2>4
            <4>. QED
                BY <1>1, <2>4, <2>7, <3>1, <3>3, <4>1, <4>2, <4>3 DEF XFrameOK, FrameOK
        <3>. QED
            BY <1>1, <2>7, <3>4, <3>5
    <2>. QED
        BY <2>0, <2>5, <2>6, <2>7 DEF Arming
<1>2. CASE ~coord_arm
    <2>1. x_phase \in {"idle", "done"} /\ x_phase' = "idle"
        BY <1>2, FlagsFade DEF FadeInv, Resting
    <2>2. x_dac' = x_dac /\ x_answer' = x_answer
        BY <2>1 DEF Dac
    <2>3. ~Copied(x_phase, x_count)'
        BY <2>1 DEF Copied
    <2>4. CASE state \in {"WAIT_ON_ARM", "WAIT_ON_ARM_DEASSERT"}
        <3>1. /\ state' \in {"WAIT_ON_ARM", "WAIT_ON_ARM_DEASSERT", "REQUEST_DAC_VALUES"}
              /\ state' = "REQUEST_DAC_VALUES" => x_to_dac' = Word("read", 0)
            BY <2>4
        <3>. QED
            BY <2>1, <2>2, <2>4, <3>1 DEF XFrameOK, FrameOK
    <2>5. CASE state = "GET_DAC_VALUES"
        <3>1. x_to_dac = Nop /\ x_answer = Answer(x_dac)
            BY <1>2, <2>5 DEF XFrameOK, FrameOK
        <3>2. /\ state' \in {"WAIT_ON_ARM", "GET_DAC_VALUES"}
              /\ state' = "GET_DAC_VALUES" => x_to_dac' = Nop
            BY <1>2, <2>5, <3>1
        <3>. QED
            BY <2>1, <2>2, <2>3, <2>5, <3>1, <3>2 DEF XFrameOK, FrameOK
    <2>6. CASE state \in {"WAIT_ADVANCE", "MEASURE", "SCAN_ADC_VALUES"}
        <3>1. x_val' = x_dac' /\ ~coord_arm'
            BY <2>2, <2>6 DEF XFrameOK, FrameOK
        <3>2. state' \in {"WAIT_ON_ARM", "WAIT_ADVANCE", "MEASURE", "SCAN_ADC_VALUES",
                           "ADVANCE_DAC_WRITE", "NEXT_LINE"}
            BY <2>6
        <3>. QED
            BY <2>1, <2>2, <2>6, <3>1, <3>2 DEF XFrameOK, FrameOK
    <2>7. CASE state \in {"ADVANCE_DAC_WRITE", "NEXT_LINE"}
        <3>1. \/ state' = state /\ coord_arm' /\ x_to_dac' = Word("write", x_val')
              \/ state' = "WAIT_ON_ARM_DEASSERT"
            BY <1>2, <2>7
        <3>. QED
            BY <2>1, <2>2, <2>7, <3>1 DEF XFrameOK, FrameOK
    <2>8. state # "REQUEST_DAC_VALUES"
        BY <1>2 DEF FadeInv
    <2>. QED
        BY <1>2, <2>2, <2>4, <2>5, <2>6, <2>7, <2>8 DEF ScanStates
<1>. QED
    BY <1>1, <1>2

LEMMA YWordSteps ==
    ASSUME YDac!TypeOK, FlagOK(y_phase, y_count, y_lag, y_finished), YDac!Step
    PROVE  YWords
<1>. USE DEF YDac!TypeOK, YDac!Phases, FlagOK, YWords, Copied, YDac!Step
<1>1. CASE YDac!Waiting
    BY <1>1 DEF YDac!Waiting
<1>2. CASE YDac!Selecting
    BY <1>2 DEF YDac!Selecting
<1>3. CASE YDac!Loading \/ YDac!Shifting \/ YDac!Complete \/ YDac!Deselect
    BY <1>3 DEF YDac!Loading, YDac!Shifting, YDac!Complete, YDac!Deselect
<1>4. CASE YDac!Done
    BY <1>4 DEF YDac!Done
<1>. QED
    BY <1>1, <1>2, <1>3, <1>4

LEMMA YFrameTick ==
    ASSUME Masters, ArmMoves, YFrameOK, YWords, state \in ScanStates,
           WordMoves(y_to_dac, y_val, y_from_dac, y_to_dac', y_val'),
           Dac(y_phase, y_sent, y_dac, y_answer), FadeInv'
    PROVE  /\ YFrameOK'
           /\ state \in {"REQUEST_DAC_VALUES", "GET_DAC_VALUES"} => y_dac' = y_dac
           /\ ~coord_arm => y_dac' = y_dac
           /\ state = "GET_DAC_VALUES" /\ state' = "WAIT_ADVANCE" => y_val' = y_dac
<1>. USE DEF Masters, ArmMoves, YWords, WordMoves
<1>1. CASE coord_arm
    <2>0. state \in Arming
        BY <1>1
    <2>1. /\ y_finished <=> y_phase \in {"settle", "done"}
          /\ DacsFinished => y_phase' = "done" /\ y_finished
        BY <1>1, FlagsTell DEF DacsFinished
    <2>2. /\ y_phase \in {"shift", "settle"} => y_sent = y_to_dac
          /\ y_phase \in {"settle", "done"} => y_from_dac = y_loaded
        BY <1>1 DEF YFrameOK, FrameOK
    <2>3. /\ y_phase # "settle" => y_dac' = y_dac /\ y_answer' = y_answer
          /\ y_phase = "settle" /\ y_sent.op = "read" =>
                y_dac' = y_dac /\ y_answer' = Answer(y_dac)
          /\ y_phase = "settle" /\ y_sent.op = "nop" => y_dac' = y_dac
          /\ y_phase = "settle" /\ y_sent.op = "write" => y_dac' = y_sent.val
        BY DEF Dac, Answer
    <2>4. /\ y_phase \in {"idle", "select", "load", "shift", "settle", "done"}
          /\ y_phase' = "done" => y_phase \in {"settle", "done"}
          /\ y_phase' \in {"shift", "settle"} => y_phase \in {"load", "shift"}
          /\ y_phase' = "settle" => y_phase = "shift"
        BY <1>1 DEF YMoves, Moves, XDac!Phases
    <2>5. CASE state = "REQUEST_DAC_VALUES"
        <3>1. y_to_dac = Word("read", 0) /\ (y_phase = "done" => y_answer = Answer(y_dac))
            BY <2>5 DEF YFrameOK, FrameOK
        <3>2. y_phase = "settle" => y_sent.op = "read"
            BY <2>2, <3>1 DEF Word
        <3>3. /\ y_dac' = y_dac
              /\ y_phase \in {"settle", "done"} => y_answer' = Answer(y_dac')
            BY <2>3, <3>1, <3>2
        <3>4. CASE DacsFinished
            <4>1. /\ state' = "GET_DAC_VALUES" /\ ~coord_arm' /\ y_to_dac' = Nop
                  /\ y_phase \in {"settle", "done"}
                BY <2>1, <2>5, <3>4
            <4>. QED
                BY <2>5, <3>3, <4>1 DEF YFrameOK, FrameOK
        <3>5. CASE ~DacsFinished
            <4>1. state' = state /\ coord_arm' /\ y_to_dac' = y_to_dac
                BY <1>1, <2>5, <3>5
            <4>2. coord_arm' /\ y_phase' \in {"shift", "settle"} => y_sent' = y_to_dac'
                BY <2>2, <2>4, <4>1
            <4>3. y_phase' \in {"settle", "done"} => y_from_dac' = y_loaded'
                BY <2>2, <2>4
            <4>. QED
                BY <2>4, <2>5, <3>1, <3>3, <4>1, <4>2, <4>3 DEF YFrameOK, FrameOK
        <3>. QED
            BY <2>5, <3>3, <3>4, <3>5 DEF Dac
    <2>6. CASE state = "GET_DAC_VALUES"
        <3>1. /\ y_to_dac = Nop
              /\ y_phase # "done" => y_answer = Answer(y_dac)
              /\ Copied(y_phase, y_count) => y_loaded = Answer(y_dac)
            BY <1>1, <2>6 DEF YFrameOK, FrameOK
        <3>2. y_phase = "settle" => y_sent.op = "nop"
            BY <2>2, <3>1 DEF Word, Nop
        <3>3. y_dac' = y_dac
            BY <2>3, <3>2
        <3>4. CASE DacsFinished
            <4>1. /\ state' = "WAIT_ADVANCE" /\ ~coord_arm' /\ y_val' = y_from_dac.val
                  /\ y_phase \in {"settle", "done"}
                BY <1>1, <2>1, <2>6, <3>4
            <4>2. y_from_dac = Answer(y_dac)
                BY <2>2, <3>1, <4>1 DEF Copied
            <4>3. y_val' = y_dac'
                BY <3>3, <4>1, <4>2 DEF Answer, Word
            <4>. QED
                BY <2>6, <3>3, <4>1, <4>3 DEF YFrameOK, FrameOK
        <3>5. CASE ~DacsFinished
            <4>1. state' = state /\ coord_arm' /\ y_to_dac' = y_to_dac
                BY <1>1, <2>6, <3>5
            <4>2. coord_arm' /\ y_phase' \in {"shift", "settle"} => y_sent' = y_to_dac'
                BY <2>2, <2>4, <4>1
            <4>3. y_phase' \in {"settle", "done"} => y_from_dac' = y_loaded'
                BY <2>2, <2>4
            <4>4. y_phase' # "done" => y_answer' = Answer(y_dac')
                BY <1>1, <2>3, <2>4, <3>1, <3>3 DEF YMoves, Moves
            <4>5. Copied(y_phase, y_count)' => y_loaded' = Answer(y_dac')
                BY <3>1, <3>3
            <4>. QED
                BY <2>6, <3>1, <3>3, <4>1, <4>2, <4>3, <4>4, <4>5 DEF YFrameOK, FrameOK
        <3>. QED
            BY <2>6, <3>3, <3>4, <3>5
    <2>7. CASE state \in {"ADVANCE_DAC_WRITE", "NEXT_LINE"}
        <3>1. y_to_dac = Word("write", y_val) /\ (y_phase = "done" => y_dac = y_val)
            BY <1>1, <2>7 DEF YFrameOK, FrameOK
        <3>2. y_phase = "settle" => y_sent.op = "write" /\ y_sent.val = y_val
            BY <2>2, <3>1 DEF Word
        <3>3. /\ y_val' = y_val
              /\ y_phase \in {"settle", "done"} => y_dac' = y_val'
            BY <1>1, <2>3, <2>7, <3>1, <3>2
        <3>4. CASE DacsFinished
            <4>1. state' = "WAIT_ADVANCE" /\ ~coord_arm' /\ y_phase \in {"settle", "done"}
                BY <1>1, <2>1, <2>7, <3>4
            <4>. QED
                BY <1>1, <2>7, <3>3, <4>1 DEF YFrameOK, FrameOK
        <3>5. CASE ~DacsFinished
            <4>1. state' = state /\ coord_arm' /\ y_to_dac' = y_to_dac
                BY <1>1, <2>7, <3>5
            <4>2. coord_arm' /\ y_phase' \in {"shift", "settle"} => y_sent' = y_to_dac'
                BY <2>2, <2>4, <4>1
            <4>3. y_phase' \in {"settle", "done"} => y_from_dac' = y_loaded'
                BY <2>2, <2>4
            <4>. QED
                BY <1>1, <2>4, <2>7, <3>1, <3>3, <4>1, <4>2, <4>3 DEF YFrameOK, FrameOK
        <3>. QED
            BY <1>1, <2>7, <3>4, <3>5
    <2>. QED
        BY <2>0, <2>5, <2>6, <2>7 DEF Arming
<1>2. CASE ~coord_arm
    <2>1. y_phase \in {"idle", "done"} /\ y_phase' = "idle"
        BY <1>2, FlagsFade DEF FadeInv, Resting
    <2>2. y_dac' = y_dac /\ y_answer' = y_answer
        BY <2>1 DEF Dac
    <2>3. ~Copied(y_phase, y_count)'
        BY <2>1 DEF Copied
    <2>4. CASE state \in {"WAIT_ON_ARM", "WAIT_ON_ARM_DEASSERT"}
        <3>1. /\ state' \in {"WAIT_ON_ARM", "WAIT_ON_ARM_DEASSERT", "REQUEST_DAC_VALUES"}
              /\ state' = "REQUEST_DAC_VALUES" => y_to_dac' = Word("read", 0)
            BY <2>4
        <3>. QED
            BY <2>1, <2>2, <2>4, <3>1 DEF YFrameOK, FrameOK
    <2>5. CASE state = "GET_DAC_VALUES"
        <3>1. y_to_dac = Nop /\ y_answer = Answer(y_dac)
            BY <1>2, <2>5 DEF YFrameOK, FrameOK
        <3>2. /\ state' \in {"WAIT_ON_ARM", "GET_DAC_VALUES"}
              /\ state' = "GET_DAC_VALUES" => y_to_dac' = Nop
            BY <1>2, <2>5, <3>1
        <3>. QED
            BY <2>1, <2>2, <2>3, <2>5, <3>1, <3>2 DEF YFrameOK, FrameOK
    <2>6. CASE state \in {"WAIT_ADVANCE", "MEASURE", "SCAN_ADC_VALUES"}
        <3>1. y_val' = y_dac' /\ ~coord_arm'
            BY <2>2, <2>6 DEF YFrameOK, FrameOK
        <3>2. state' \in {"WAIT_ON_ARM", "WAIT_ADVANCE", "MEASURE", "SCAN_ADC_VALUES",
                           "ADVANCE_DAC_WRITE", "NEXT_LINE"}
            BY <2>6
        <3>. QED
            BY <2>1, <2>2, <2>6, <3>1, <3>2 DEF YFrameOK, FrameOK
    <2>7. CASE state \in {"ADVANCE_DAC_WRITE", "NEXT_LINE"}
        <3>1. \/ state' = state /\ coord_arm' /\ y_to_dac' = Word("write", y_val')
              \/ state' = "WAIT_ON_ARM_DEASSERT"
            BY <1>2, <2>7
        <3>. QED
            BY <2>1, <2>2, <2>7, <3>1 DEF YFrameOK, FrameOK
    <2>8. state # "REQUEST_DAC_VALUES"
        BY <1>2 DEF FadeInv
    <2>. QED
        BY <1>2, <2>2, <2>4, <2>5, <2>6, <2>7, <2>8 DEF ScanStates
<1>. QED
    BY <1>1, <1>2
-----------------------------------------------------------------------------
(* The grid of points. *)
LEMMA SumMod ==
    ASSUME NEW u \in Code, NEW v \in Code
    PROVE  /\ Plus(u, v) = (u + v) % PosMod
           /\ Plus(u, Neg(v)) = (u + (-v)) % PosMod
<1>1. PosMod \in Nat \ {0} /\ u \in Int /\ -v \in Int /\ u \in 0..PosMod - 1
    BY SizeFacts DEF Code
<1>2. u % PosMod = u
    BY <1>1, ModSmall
<1>3. ((u % PosMod) + ((-v) % PosMod)) % PosMod = (u + (-v)) % PosMod
    BY <1>1, PlusMod
<1>. QED
    BY <1>2, <1>3 DEF Plus, Neg

LEMMA NextRow ==
    ASSUME NEW a \in Int, NEW b \in Int
    PROVE  (a + 1) * b = a * b + b /\ a * b \in Int
OBVIOUS

(* All that the grid depends on in a cycle. *)
GridTicks ==
    /\ GridInv /\ ZeroInv /\ OriginInv /\ FadeInv /\ RegsInv
    /\ BoolTypeOK /\ state \in ScanStates
    /\ sample \in 0..SampleMod - 1 /\ line \in 0..SampleMod - 1
    /\ asked \in ParamSets /\ Record /\ ArmMoves
    /\ Scanning \/ arm => asked' = asked
    /\ x_dac \in Code /\ y_dac \in Code /\ x_val \in Code /\ y_val \in Code
    /\ state = "MEASURE" => x_dac = x_val /\ y_dac = y_val
    /\ state = "GET_DAC_VALUES" /\ state' = "WAIT_ADVANCE" =>
          x_val' = x_dac /\ y_val' = y_dac
    /\ state \in {"REQUEST_DAC_VALUES", "GET_DAC_VALUES"} \/ ~coord_arm =>
          x_dac' = x_dac /\ y_dac' = y_dac

LEMMA OriginTick ==
    ASSUME GridTicks
    PROVE  /\ OriginInv'
           /\ Started => origin' = <<x_dac, y_dac>> /\ measured' = 0
           /\ ~Started => origin' = origin
           /\ ~Started => measured' = IF state = "WAIT_ADVANCE" /\ state' = "MEASURE"
                                      THEN measured + 1 ELSE measured
           /\ previous' = IF state = "MEASURE" /\ state' # "MEASURE"
                          THEN <<x_val, y_val>> ELSE previous
<1>. USE DEF GridTicks
<1>1. /\ Started => origin' = <<x_dac, y_dac>> /\ measured' = 0
      /\ ~Started => origin' = origin
      /\ ~Started => measured' = IF state = "WAIT_ADVANCE" /\ state' = "MEASURE"
                                 THEN measured + 1 ELSE measured
      /\ previous' = IF state = "MEASURE" /\ state' # "MEASURE"
                     THEN <<x_val, y_val>> ELSE previous
    BY DEF Record
<1>2. CASE Started
    <2>1. ~coord_arm
        BY <1>2 DEF Started, FadeInv, Arming
    <2>. QED
        BY <1>1, <1>2, <2>1 DEF OriginInv
<1>3. CASE ~Started
    <2>1. state' \in {"REQUEST_DAC_VALUES", "GET_DAC_VALUES"} =>
             state \in {"REQUEST_DAC_VALUES", "GET_DAC_VALUES"}
        BY <1>3 DEF Started, ArmMoves, ScanStates, Arming
    <2>2. origin' \in Code \X Code
        BY <1>1, <1>3 DEF OriginInv
    <2>. QED
        BY <1>1, <1>3, <2>1, <2>2 DEF OriginInv
<1>. QED
    BY <1>1, <1>2, <1>3

LEMMA ZeroTick ==
    ASSUME GridTicks, ScanStep
    PROVE  ZeroInv'
<1>. USE DEF GridTicks
<1>1. CASE state \in {"WAIT_ON_ARM", "WAIT_ON_ARM_DEASSERT"} /\ ~arm
    <2>1. state' = "WAIT_ON_ARM"
        <3>1. CASE WaitOnArm
            BY <1>1, <3>1 DEF WaitOnArm
        <3>2. CASE WaitOnArmDeassert
            BY <1>1, <3>2 DEF WaitOnArmDeassert
        <3>3. ~WaitOnArm /\ ~WaitOnArmDeassert => FALSE
            BY <1>1 DEF ScanStep, RequestDacValues, WaitBetweenCommands, GetDacValues,
                        Settle, ArmAdcs, Measure, NextPoint, PointDone, SampleTaken,
                        ShiftSamples, AdvanceDacWrite, NextLine
        <3>. QED
            BY <3>1, <3>2, <3>3
    <2>. QED
        BY <2>1 DEF ZeroInv
<1>2. CASE ~(state \in {"WAIT_ON_ARM", "WAIT_ON_ARM_DEASSERT"} /\ ~arm)
    <2>1. asked' = asked
        BY <1>2 DEF Scanning
    <2>2. asked.max_samples = 0 => state' # "NEXT_LINE"
        <3>. SUFFICES ASSUME asked.max_samples = 0, state' = "NEXT_LINE"
                      PROVE  FALSE
            OBVIOUS
        <3>1. state # "NEXT_LINE"
            BY DEF ZeroInv
        <3>2. state = "SCAN_ADC_VALUES"
            BY <3>1 DEF ArmMoves, ScanStates, Arming
        <3>3. CASE NextPoint
            <4>1. EndOfSweep
                BY <3>3 DEF NextPoint
            <4>2. regs.max_samples = asked.max_samples
                BY <3>2 DEF RegsInv, Scanning, ScanRegs
            <4>. QED
                BY <4>1, <4>2, SizeFacts DEF EndOfSweep
        <3>4. ~NextPoint => state' = state
            BY <3>2 DEF ScanStep, WaitOnArm, RequestDacValues, WaitBetweenCommands,
                        GetDacValues, Settle, ArmAdcs, Measure, SampleTaken,
                        ShiftSamples, AdvanceDacWrite, NextLine, WaitOnArmDeassert
        <3>. QED
            BY <3>2, <3>3, <3>4
    <2>3. state' = "WAIT_ON_ARM_DEASSERT" =>
             \/ state = "WAIT_ON_ARM_DEASSERT"
             \/ state = "NEXT_LINE" /\ asked.max_lines # 0
        <3>. SUFFICES ASSUME state' = "WAIT_ON_ARM_DEASSERT",
                             state # "WAIT_ON_ARM_DEASSERT"
                      PROVE  state = "NEXT_LINE" /\ asked.max_lines # 0
            OBVIOUS
        <3>1. NextLine
            BY DEF ScanStep, WaitOnArm, RequestDacValues, WaitBetweenCommands,
                   GetDacValues, Settle, check_arm, ArmAdcs, Measure, NextPoint,
                   SampleTaken, ShiftSamples, AdvanceDacWrite, Arrive, WaitOnArmDeassert
        <3>2. state = "NEXT_LINE" /\ line = regs.max_lines - 1
            BY <3>1 DEF NextLine, Arrive
        <3>3. regs.max_lines = asked.max_lines
            BY <3>2 DEF RegsInv, Scanning, ScanRegs
        <3>4. line # -1
            BY SizeFacts
        <3>5. asked.max_lines \in Int
            BY ParamFacts, SizeFacts
        <3>. QED
            BY <3>2, <3>3, <3>4, <3>5
    <2>. QED
        BY <2>1, <2>2, <2>3 DEF ZeroInv
<1>. QED
    BY <1>1, <1>2

(* The numbers of a scan. *)
LEMMA GridFacts ==
    ASSUME GridTicks, Scanning, Sized'
    PROVE  /\ Sized /\ sample \in 0..Pitch - 1 /\ line \in 0..Lines - 1
           /\ Pitch \in Nat \ {0} /\ Lines \in Nat \ {0} /\ Index \in Int
           /\ Pitch < SampleMod /\ Lines < SampleMod
           /\ Pitch' = Pitch /\ Lines' = Lines /\ asked' = asked /\ origin' = origin
           /\ measured' = IF state = "WAIT_ADVANCE" /\ state' = "MEASURE"
                          THEN measured + 1 ELSE measured
           /\ previous' = IF state = "MEASURE" /\ state' # "MEASURE"
                          THEN <<x_val, y_val>> ELSE previous
           /\ regs.max_samples = Pitch /\ regs.max_lines = Lines
<1>. USE DEF GridTicks
<1>1. asked' = asked /\ ~Started
    BY DEF Scanning, Started
<1>2. Pitch' = Pitch /\ Lines' = Lines /\ Sized
    BY <1>1 DEF Pitch, Lines, Sized
<1>3. /\ Pitch \in 0..SampleMod - 1 /\ Lines \in 0..SampleMod - 1
      /\ Pitch > 0 /\ Lines > 0 /\ SampleMod \in Nat
    BY <1>2, ParamFacts, SizeFacts DEF Pitch, Lines, Sized
<1>4. /\ Pitch \in Nat \ {0} /\ Lines \in Nat \ {0}
      /\ Pitch < SampleMod /\ Lines < SampleMod
    BY <1>3
<1>5. regs.max_samples = Pitch /\ regs.max_lines = Lines
    BY DEF RegsInv, ScanRegs, Pitch, Lines
<1>6. sample \in 0..Pitch - 1 /\ line \in 0..Lines - 1
    BY <1>2 DEF GridInv
<1>7. line * (2 * Pitch) \in Int
    BY <1>4, <1>6
<1>8. Index \in Int
    BY <1>4, <1>6, <1>7 DEF Index
<1>. QED
    BY <1>1, <1>2, <1>4, <1>5, <1>6, <1>8, OriginTick

(* The probe stays where it is and the point it goes to does not change. *)
LEMMA PlacedStands ==
    ASSUME UNCHANGED <<asked, origin, previous, sample, line, is_reverse, x_val, y_val>>
    PROVE  Index' = Index /\ (Placed' <=> Placed) /\ (AtPrevious' <=> AtPrevious)
BY DEF Index, Pitch, Placed, FirstPoint, StepX, StepY, AtPrevious

LEMMA NextPointGrid ==
    ASSUME GridTicks, NextPoint
    PROVE  GridInv'
<1>. SUFFICES ASSUME Sized'
              PROVE  GridInv'
    BY DEF GridInv
<1>. USE DEF GridTicks
<1>1. state = "SCAN_ADC_VALUES" /\ Scanning /\ state' # "MEASURE" /\ coord_arm' = FALSE
    BY DEF NextPoint, PointDone, Scanning, ArmMoves
<1>2. /\ Sized /\ sample \in 0..Pitch - 1 /\ line \in 0..Lines - 1
      /\ Pitch \in Nat \ {0} /\ Lines \in Nat \ {0} /\ Index \in Int
      /\ Pitch < SampleMod /\ SampleMod \in Nat \ {0}
      /\ Pitch' = Pitch /\ Lines' = Lines
      /\ measured' = measured /\ previous' = previous /\ regs.max_samples = Pitch
    BY <1>1, GridFacts, SizeFacts
<1>3. measured = Index + 1 /\ AtPrevious
    BY <1>1, <1>2 DEF GridInv
<1>4. line' = line /\ x_val' = x_val /\ y_val' = y_val
    BY DEF NextPoint
<1>5. AtPrevious'
    BY <1>2, <1>3, <1>4 DEF AtPrevious
<1>. DEFINE b == line * (2 * Pitch)
<1>6. b \in Int /\ (line + 1) * (2 * Pitch) = b + 2 * Pitch
    BY <1>2, NextRow
<1>7. CASE ~EndOfSweep
    <2>1. sample # Pitch - 1 /\ sample + 1 \in 0..SampleMod - 1
        BY <1>2, <1>7 DEF EndOfSweep
    <2>2. (sample + 1) % SampleMod = sample + 1
        BY <1>2, <2>1, ModSmall
    <2>3. /\ sample' = sample + 1 /\ state' = "ADVANCE_DAC_WRITE"
          /\ is_reverse' = is_reverse
        BY <1>7, <2>2 DEF NextPoint
    <2>4. sample' \in 0..Pitch' - 1 /\ line' \in 0..Lines' - 1 /\ sample' # 0
        BY <1>2, <1>4, <2>1, <2>3
    <2>5. Index' = Index + 1
        <3>1. CASE is_reverse
            BY <1>2, <1>4, <1>6, <2>3, <3>1 DEF Index
        <3>2. CASE ~is_reverse
            BY <1>2, <1>4, <1>6, <2>3, <3>2 DEF Index
        <3>. QED
            BY <3>1, <3>2
    <2>. QED
        BY <1>1, <1>2, <1>3, <1>5, <2>3, <2>4, <2>5 DEF GridInv
<1>8. CASE EndOfSweep /\ ~is_reverse
    <2>1. /\ sample' = 0 /\ state' = "ADVANCE_DAC_WRITE"
          /\ is_reverse' /\ sample = Pitch - 1
        BY <1>2, <1>8 DEF NextPoint, EndOfSweep
    <2>2. sample' \in 0..Pitch' - 1 /\ line' \in 0..Lines' - 1
        BY <1>2, <1>4, <2>1
    <2>3. Index' = Index + 1
        BY <1>2, <1>4, <1>6, <1>8, <2>1 DEF Index
    <2>. QED
        BY <1>1, <1>2, <1>3, <1>5, <2>1, <2>2, <2>3 DEF GridInv
<1>9. CASE EndOfSweep /\ is_reverse
    <2>1. /\ sample' = 0 /\ state' = "NEXT_LINE"
          /\ ~is_reverse' /\ sample = Pitch - 1
        BY <1>2, <1>9 DEF NextPoint, EndOfSweep
    <2>2. sample' \in 0..Pitch' - 1 /\ line' \in 0..Lines' - 1
        BY <1>2, <1>4, <2>1
    <2>3. measured' = (line' + 1) * (2 * Pitch')
        BY <1>2, <1>3, <1>4, <1>6, <1>9, <2>1 DEF Index
    <2>. QED
        BY <1>1, <1>2, <1>5, <2>1, <2>2, <2>3 DEF GridInv
<1>. QED
    BY <1>7, <1>8, <1>9

LEMMA AdvanceGrid ==
    ASSUME GridTicks, AdvanceDacWrite
    PROVE  GridInv'
<1>. SUFFICES ASSUME Sized'
              PROVE  GridInv'
    BY DEF GridInv
<1>. USE DEF GridTicks
<1>1. /\ state = "ADVANCE_DAC_WRITE" /\ Scanning
      /\ UNCHANGED <<sample, line, is_reverse>>
    BY DEF AdvanceDacWrite, Scanning, point
<1>2. /\ Sized /\ sample \in 0..Pitch - 1 /\ line \in 0..Lines - 1
      /\ Pitch' = Pitch /\ Lines' = Lines /\ asked' = asked /\ origin' = origin
      /\ measured' = measured /\ previous' = previous
    BY <1>1, GridFacts
<1>3. /\ Index' = Index
      /\ sample' \in 0..Pitch' - 1 /\ line' \in 0..Lines' - 1
    BY <1>1, <1>2 DEF Index
<1>4. measured = Index /\ (is_reverse \/ sample # 0)
    BY <1>1, <1>2 DEF GridInv
<1>5. CASE coord_arm
    <2>1. Placed
        BY <1>1, <1>2, <1>5 DEF GridInv
    <2>2. /\ x_val' = x_val /\ y_val' = y_val
          /\ \/ state' = "WAIT_ADVANCE"
             \/ state' = state /\ coord_arm'
        <3>1. Arrive
            BY <1>5 DEF AdvanceDacWrite
        <3>. QED
            BY <1>5, <3>1 DEF Arrive
    <2>3. Placed'
        BY <1>1, <1>2, <2>1, <2>2, PlacedStands
    <2>. QED
        BY <1>1, <1>2, <1>3, <1>4, <2>2, <2>3 DEF GridInv
<1>6. CASE ~coord_arm
    <2>1. /\ state' = state /\ coord_arm'
          /\ x_val' = Plus(x_val, regs.dx) /\ y_val' = Plus(y_val, regs.dy)
        BY <1>6 DEF AdvanceDacWrite, Arrive, Move
    <2>2. /\ regs.dx = IF is_reverse THEN Neg(asked.dx) ELSE asked.dx
          /\ regs.dy = IF is_reverse THEN Neg(asked.dy) ELSE asked.dy
        BY <1>1 DEF RegsInv, ScanRegs
    <2>3. AtPrevious
        BY <1>1, <1>2, <1>6 DEF GridInv
    <2>4. asked.dx \in Code /\ asked.dy \in Code
        BY ParamFacts
    <2>5. x_val' = (x_val + StepX) % PosMod /\ y_val' = (y_val + StepY) % PosMod
        <3>1. CASE is_reverse
            BY <2>1, <2>2, <2>4, <3>1, SumMod DEF StepX, StepY
        <3>2. CASE ~is_reverse
            BY <1>4, <2>1, <2>2, <2>4, <3>2, SumMod DEF StepX, StepY
        <3>. QED
            BY <3>1, <3>2
    <2>6. Placed'
        <3>1. ~FirstPoint'
            BY <1>1, <1>4 DEF FirstPoint
        <3>2. StepX' = StepX /\ StepY' = StepY
            BY <1>1, <1>2 DEF StepX, StepY
        <3>. QED
            BY <1>2, <2>3, <2>5, <3>1, <3>2 DEF Placed, AtPrevious
    <2>. QED
        BY <1>1, <1>2, <1>3, <1>4, <2>1, <2>6 DEF GridInv
<1>. QED
    BY <1>5, <1>6

LEMMA NextLineGrid ==
    ASSUME GridTicks, NextLine
    PROVE  GridInv'
<1>. SUFFICES ASSUME Sized'
              PROVE  GridInv'
    BY DEF GridInv
<1>. USE DEF GridTicks
<1>1. state = "NEXT_LINE" /\ Scanning /\ is_reverse' = is_reverse
    BY DEF NextLine, Scanning
<1>2. /\ Sized /\ sample \in 0..Pitch - 1 /\ line \in 0..Lines - 1
      /\ Pitch \in Nat \ {0} /\ Lines \in Nat \ {0} /\ Lines < SampleMod
      /\ SampleMod \in Nat \ {0}
      /\ Pitch' = Pitch /\ Lines' = Lines /\ asked' = asked /\ origin' = origin
      /\ measured' = measured /\ previous' = previous /\ regs.max_lines = Lines
    BY <1>1, GridFacts, SizeFacts
<1>3. sample = 0 /\ ~is_reverse
    BY <1>1, <1>2 DEF GridInv
<1>4. CASE coord_arm
    <2>1. measured = Index /\ line # 0 /\ Placed
        BY <1>1, <1>2, <1>4 DEF GridInv
    <2>2. /\ x_val' = x_val /\ y_val' = y_val /\ sample' = sample /\ line' = line
          /\ \/ state' = "WAIT_ADVANCE"
             \/ state' = state /\ coord_arm'
        <3>1. Arrive /\ UNCHANGED <<sample, line>>
            BY <1>4 DEF NextLine
        <3>. QED
            BY <1>4, <3>1 DEF Arrive
    <2>3. Index' = Index /\ Placed'
        BY <1>1, <1>2, <2>1, <2>2, PlacedStands
    <2>. QED
        BY <1>1, <1>2, <1>3, <2>1, <2>2, <2>3 DEF GridInv
<1>5. CASE ~coord_arm /\ line = Lines - 1
    <2>1. state' = "WAIT_ON_ARM_DEASSERT"
        BY <1>2, <1>5 DEF NextLine, Arrive
    <2>2. measured = (line + 1) * (2 * Pitch)
        BY <1>1, <1>2, <1>5 DEF GridInv
    <2>3. line + 1 = Lines
        BY <1>2, <1>5
    <2>4. measured' = Lines' * (2 * Pitch')
        BY <1>2, <2>2, <2>3
    <2>. QED
        BY <2>1, <2>4 DEF GridInv, Scanning
<1>6. CASE ~coord_arm /\ line # Lines - 1
    <2>0. line + 1 \in 0..SampleMod - 1 /\ line + 1 \in 0..Lines - 1 /\ line + 1 # 0
        BY <1>2, <1>6
    <2>1. (line + 1) % SampleMod = line + 1
        BY <1>2, <2>0, ModSmall
    <2>2. /\ state' = state /\ coord_arm' /\ sample' = 0 /\ line' = line + 1
          /\ x_val' = Plus(x_val, regs.dy) /\ y_val' = Plus(y_val, Neg(regs.dx))
        BY <1>2, <1>6, <2>1 DEF NextLine, Arrive, Move
    <2>3. regs.dx = asked.dx /\ regs.dy = asked.dy
        BY <1>1, <1>3 DEF RegsInv, ScanRegs
    <2>4. measured = (line + 1) * (2 * Pitch) /\ AtPrevious
        BY <1>1, <1>2, <1>6 DEF GridInv
    <2>5. sample' \in 0..Pitch' - 1 /\ line' \in 0..Lines' - 1 /\ line' # 0
        BY <1>2, <2>0, <2>2
    <2>6. measured' = Index'
        <3>1. Index' = line' * (2 * Pitch') + 0
            BY <1>1, <1>3, <2>2 DEF Index
        <3>2. line' * (2 * Pitch') \in Int
            BY <1>2, <2>0, <2>2
        <3>. QED
            BY <1>2, <2>2, <2>4, <3>1, <3>2
    <2>7. /\ x_val' = (x_val + asked.dy) % PosMod
          /\ y_val' = (y_val + (-asked.dx)) % PosMod
        <3>1. asked.dx \in Code /\ asked.dy \in Code
            BY ParamFacts
        <3>. QED
            BY <2>2, <2>3, <3>1, SumMod
    <2>8. Placed'
        <3>1. ~FirstPoint'
            BY <2>5 DEF FirstPoint
        <3>2. StepX' = asked.dy /\ StepY' = -asked.dx
            BY <1>1, <1>2, <1>3, <2>2 DEF StepX, StepY
        <3>. QED
            BY <1>2, <2>4, <2>7, <3>1, <3>2 DEF Placed, AtPrevious
    <2>. QED
        BY <1>1, <1>2, <1>3, <2>2, <2>5, <2>6, <2>8 DEF GridInv
<1>. QED
    BY <1>4, <1>5, <1>6

LEMMA FirstPointGrid ==
    ASSUME GridTicks, state = "GET_DAC_VALUES", state' = "WAIT_ADVANCE",
           UNCHANGED <<sample, line, is_reverse>>
    PROVE  GridInv'
<1>. SUFFICES ASSUME Sized'
              PROVE  GridInv'
    BY DEF GridInv
<1>. USE DEF GridTicks
<1>1. Scanning
    BY DEF Scanning
<1>2. /\ Sized /\ sample \in 0..Pitch - 1 /\ line \in 0..Lines - 1
      /\ Pitch \in Nat \ {0} /\ Lines \in Nat \ {0}
      /\ Pitch' = Pitch /\ Lines' = Lines
      /\ origin' = origin /\ measured' = measured
    BY <1>1, GridFacts
<1>3. measured = 0 /\ FirstPoint
    BY <1>2 DEF GridInv
<1>4. FirstPoint' /\ x_val' = origin'[1] /\ y_val' = origin'[2]
    BY <1>2, <1>3 DEF OriginInv, FirstPoint
<1>5. Index' = 0
    <2>1. 0 * (2 * Pitch') = 0
        BY <1>2
    <2>. QED
        BY <1>4, <2>1 DEF Index, FirstPoint
<1>6. Placed'
    BY <1>4 DEF Placed
<1>. QED
    BY <1>2, <1>3, <1>5, <1>6 DEF GridInv

LEMMA GridTick ==
    ASSUME GridTicks, ScanStep
    PROVE  GridInv'
<1>. SUFFICES ASSUME Sized'
              PROVE  GridInv'
    BY DEF GridInv
<1>. USE DEF GridTicks
<1>1. CASE WaitOnArm
    <2>1. CASE arm
        <3>1. /\ state' = "REQUEST_DAC_VALUES" /\ sample' = 0 /\ line' = 0 /\ ~is_reverse'
            BY <1>1, <2>1 DEF WaitOnArm
        <3>2. measured' = 0
            BY <1>1, <2>1, OriginTick DEF WaitOnArm, Started
        <3>3. asked' = asked
            BY <2>1
        <3>4. asked'.max_samples \in Nat \ {0} /\ asked'.max_lines \in Nat \ {0}
            <4>1. asked.max_samples \in Nat /\ asked.max_lines \in Nat
                BY ParamFacts, SizeFacts
            <4>. QED
                BY <3>3, <4>1 DEF Sized
        <3>5. 0 \in 0..Pitch' - 1 /\ 0 \in 0..Lines' - 1
            BY <3>4 DEF Pitch, Lines
        <3>. QED
            BY <3>1, <3>2, <3>5 DEF GridInv, FirstPoint
    <2>2. CASE ~arm
        <3>1. state' = "WAIT_ON_ARM"
            BY <1>1, <2>2 DEF WaitOnArm
        <3>. QED
            BY <3>1 DEF GridInv, Scanning
    <2>. QED
        BY <2>1, <2>2
<1>2. CASE NextPoint
    BY <1>2, NextPointGrid
<1>3. CASE AdvanceDacWrite
    BY <1>3, AdvanceGrid
<1>4. CASE NextLine
    BY <1>4, NextLineGrid
<1>5. CASE WaitOnArmDeassert
    <2>1. CASE arm
        <3>1. state = "WAIT_ON_ARM_DEASSERT" /\ state' = state
            BY <1>5, <2>1 DEF WaitOnArmDeassert
        <3>2. measured' = measured /\ asked' = asked
            BY <2>1, <3>1, OriginTick DEF Started
        <3>3. measured = Lines * (2 * Pitch)
            BY <3>1, <3>2 DEF GridInv, Sized
        <3>. QED
            BY <3>1, <3>2, <3>3 DEF GridInv, Scanning, Lines, Pitch
    <2>2. CASE ~arm
        <3>1. state' = "WAIT_ON_ARM"
            BY <1>5, <2>2 DEF WaitOnArmDeassert
        <3>. QED
            BY <3>1 DEF GridInv, Scanning
    <2>. QED
        BY <2>1, <2>2
<1>6. CASE RequestDacValues \/ WaitBetweenCommands \/ GetDacValues
    <2>1. /\ state \in {"REQUEST_DAC_VALUES", "GET_DAC_VALUES"}
          /\ UNCHANGED <<sample, line, is_reverse>>
        BY <1>6 DEF RequestDacValues, WaitBetweenCommands, GetDacValues, point
    <2>2. /\ state' \in {"REQUEST_DAC_VALUES", "GET_DAC_VALUES", "WAIT_ON_ARM", "WAIT_ADVANCE"}
          /\ state' = "WAIT_ADVANCE" => state = "GET_DAC_VALUES"
        BY <2>1 DEF ArmMoves
    <2>3. Scanning
        BY <2>1 DEF Scanning
    <2>4. CASE state' = "WAIT_ADVANCE"
        BY <2>1, <2>2, <2>4, FirstPointGrid
    <2>5. CASE state' = "WAIT_ON_ARM"
        BY <2>5 DEF GridInv, Scanning
    <2>6. CASE state' \in {"REQUEST_DAC_VALUES", "GET_DAC_VALUES"}
        <3>1. /\ Sized /\ sample \in 0..Pitch - 1 /\ line \in 0..Lines - 1
              /\ Pitch' = Pitch /\ Lines' = Lines
            BY <2>3, GridFacts
        <3>2. measured' = measured
            BY <2>3, <2>6, GridFacts
        <3>3. measured = 0 /\ FirstPoint
            BY <2>1, <3>1 DEF GridInv
        <3>4. FirstPoint'
            BY <2>1, <3>3 DEF FirstPoint
        <3>. QED
            BY <2>1, <2>6, <3>1, <3>2, <3>3, <3>4 DEF GridInv
    <2>. QED
        BY <2>2, <2>4, <2>5, <2>6
<1>7. CASE Settle \/ ArmAdcs \/ Measure \/ SampleTaken \/ ShiftSamples
    <2>. DEFINE Still == UNCHANGED <<sample, line, is_reverse, x_val, y_val>>
    <2>1. /\ state \in {"WAIT_ADVANCE", "MEASURE", "SCAN_ADC_VALUES"} /\ Still
          /\ state = "WAIT_ADVANCE" => state' \in {"WAIT_ADVANCE", "WAIT_ON_ARM", "MEASURE"}
          /\ state = "MEASURE" => state' \in {"MEASURE", "SCAN_ADC_VALUES"}
          /\ state = "SCAN_ADC_VALUES" => state' = state
        <3>1. CASE Settle
            BY <3>1 DEF Settle, check_arm, point
        <3>2. CASE ArmAdcs
            BY <3>2 DEF ArmAdcs, point
        <3>3. CASE Measure
            BY <3>3 DEF Measure, point
        <3>4. CASE SampleTaken
            BY <3>4 DEF SampleTaken, point
        <3>5. CASE ShiftSamples
            BY <3>5 DEF ShiftSamples, point
        <3>. QED
            BY <1>7, <3>1, <3>2, <3>3, <3>4, <3>5
    <2>2. Scanning
        BY <2>1 DEF Scanning
    <2>3. /\ Sized /\ sample \in 0..Pitch - 1 /\ line \in 0..Lines - 1
          /\ Pitch' = Pitch /\ Lines' = Lines /\ Index \in Int
          /\ asked' = asked /\ origin' = origin
          /\ measured' = IF state = "WAIT_ADVANCE" /\ state' = "MEASURE"
                         THEN measured + 1 ELSE measured
          /\ previous' = IF state = "MEASURE" /\ state' # "MEASURE"
                         THEN <<x_val, y_val>> ELSE previous
        BY <2>2, GridFacts
    <2>4. Index' = Index
        BY <2>1, <2>3 DEF Index
    <2>5. sample' \in 0..Pitch' - 1 /\ line' \in 0..Lines' - 1
        BY <2>1, <2>3
    <2>6. CASE state = "WAIT_ADVANCE"
        <3>1. measured = Index /\ Placed
            BY <2>3, <2>6 DEF GridInv
        <3>2. measured' = IF state' = "MEASURE" THEN Index' + 1 ELSE Index'
            BY <2>3, <2>4, <2>6, <3>1
        <3>3. Placed'
            BY <2>1, <2>3, <2>6, <3>1, PlacedStands
        <3>. QED
            BY <2>1, <2>5, <2>6, <3>2, <3>3 DEF GridInv, Scanning
    <2>7. CASE state = "MEASURE"
        <3>1. measured = Index + 1 /\ Placed
            BY <2>3, <2>7 DEF GridInv
        <3>2. measured' = Index' + 1
            BY <2>3, <2>4, <2>7, <3>1
        <3>3. CASE state' = "MEASURE"
            <4>1. Placed'
                BY <2>1, <2>3, <3>1, <3>3, PlacedStands
            <4>. QED
                BY <2>5, <3>2, <3>3, <4>1 DEF GridInv
        <3>4. CASE state' = "SCAN_ADC_VALUES"
            <4>1. AtPrevious'
                BY <2>1, <2>3, <2>7, <3>4 DEF AtPrevious
            <4>. QED
                BY <2>5, <3>2, <3>4, <4>1 DEF GridInv
        <3>. QED
            BY <2>1, <2>7, <3>3, <3>4
    <2>8. CASE state = "SCAN_ADC_VALUES"
        <3>1. measured = Index + 1 /\ AtPrevious
            BY <2>3, <2>8 DEF GridInv
        <3>2. measured' = Index' + 1
            BY <2>3, <2>4, <2>8, <3>1
        <3>3. AtPrevious'
            BY <2>1, <2>3, <2>8, <3>1, PlacedStands
        <3>. QED
            BY <2>1, <2>5, <2>8, <3>2, <3>3 DEF GridInv
    <2>. QED
        BY <2>1, <2>6, <2>7, <2>8
<1>. QED
    BY <1>1, <1>2, <1>3, <1>4, <1>5, <1>6, <1>7 DEF ScanStep
-----------------------------------------------------------------------------
(***************************************************************************)
(* Types.                                                                  *)
(***************************************************************************)
LEMMA WordTypes ==
    /\ Nop \in DacWord /\ Word("read", 0) \in DacWord
    /\ \A v \in Code : Word("read", v) \in DacWord /\ Word("write", v) \in DacWord
    /\ \A w \in DacWord : w.val \in Code
BY SizeFacts DEF Nop, Word, DacWord

LEMMA PlusTyped ==
    ASSUME NEW v \in Code, NEW d \in Code
    PROVE  Plus(v, d) \in Code
<1>1. v + d \in Int /\ PosMod \in Nat \ {0}
    BY SizeFacts DEF Code
<1>. QED
    BY <1>1, ModRange DEF Plus, Code

Masks == 0..2^ADCNUM - 1
Samples == Adcs \cup {NoSample}

(* What the scanner leaves in its registers. *)
DataTypeOK ==
    /\ x_val' \in Code /\ y_val' \in Code
    /\ x_to_dac' \in DacWord /\ y_to_dac' \in DacWord
    /\ adc_used_tmp' \in Masks /\ adc_arm' \in Masks
    /\ data' \in Samples /\ adc_data_tmp' \in [Adcs -> Samples]
    /\ mem_commit' \in BOOLEAN

LEMMA DataSteps ==
    ASSUME ScanStep, RasterTypeOK, RegsInv, asked \in ParamSets,
           state = "GET_DAC_VALUES" /\ state' = "WAIT_ADVANCE" =>
              x_val' \in Code /\ y_val' \in Code
    PROVE  DataTypeOK
<1>0. /\ x_val \in Code /\ y_val \in Code /\ regs.dx \in Code /\ regs.dy \in Code
      /\ x_to_dac \in DacWord /\ y_to_dac \in DacWord
      /\ adc_used_tmp \in Masks /\ adc_arm \in Masks
      /\ data \in Samples /\ adc_data_tmp \in [Adcs -> Samples]
      /\ mem_commit \in BOOLEAN
    BY DEF RasterTypeOK, XDac!TypeOK, YDac!TypeOK, Masks, Samples
<1>. USE <1>0 DEF DataTypeOK
<1>1. CASE WaitOnArm
    BY <1>1, SizeFacts, WordTypes DEF WaitOnArm, Masks
<1>2. CASE RequestDacValues
    BY <1>2, WordTypes DEF RequestDacValues
<1>3. CASE WaitBetweenCommands
    BY <1>3 DEF WaitBetweenCommands, outputs
<1>4. CASE GetDacValues
    BY <1>4 DEF GetDacValues
<1>5. CASE Settle
    BY <1>5 DEF Settle, outputs
<1>6. CASE ArmAdcs
    <2>1. regs.adc_used \in Masks
        <3>1. Scanning
            BY <1>6 DEF ArmAdcs, Scanning
        <3>. QED
            BY <3>1, ParamFacts DEF RegsInv, ScanRegs, Masks
    <2>. QED
        BY <1>6, <2>1 DEF ArmAdcs
<1>7. CASE Measure
    BY <1>7, SizeFacts DEF Measure, Masks, Samples, Adcs
<1>8. CASE NextPoint
    BY <1>8 DEF NextPoint, outputs
<1>9. CASE SampleTaken
    BY <1>9 DEF SampleTaken
<1>10. CASE ShiftSamples
    <2>1. adc_used_tmp' \in Masks
        <3>1. 2 * adc_used_tmp \in Int /\ 2^ADCNUM \in Nat \ {0}
            BY SizeFacts DEF Masks
        <3>. HIDE <1>0
        <3>2. (2 * adc_used_tmp) % 2^ADCNUM \in 0..2^ADCNUM - 1
            BY <3>1, ModRange
        <3>. QED
            BY <1>10, <3>2 DEF ShiftSamples, Masks
    <2>2. ADCNUM \in Nat \ {0} /\ Adcs = 0..ADCNUM - 1
        BY SizeFacts DEF Adcs
    <2>3. ADCNUM - 1 \in Adcs /\ \A i \in Adcs : i # 0 => i - 1 \in Adcs
        BY <2>2
    <2>4. adc_data_tmp' \in [Adcs -> Samples]
        <3>1. adc_data_tmp' = [i \in Adcs |-> IF i = 0 THEN NoSample
                                                       ELSE adc_data_tmp[i - 1]]
            BY <1>10 DEF ShiftSamples
        <3>. QED
            BY <2>3, <3>1 DEF Samples
    <2>5. data' \in Samples /\ mem_commit' \in BOOLEAN
        BY <1>10, <2>3 DEF ShiftSamples
    <2>. QED
        BY <1>10, <2>1, <2>4, <2>5 DEF ShiftSamples
<1>11. CASE AdvanceDacWrite
    <2>1. Plus(x_val, regs.dx) \in Code /\ Plus(y_val, regs.dy) \in Code
        BY PlusTyped
    <2>. QED
        BY <1>11, <2>1, WordTypes DEF AdvanceDacWrite, Arrive, Move
<1>12. CASE NextLine
    <2>1. Neg(regs.dx) \in Code
        BY NegFacts
    <2>2. Plus(x_val, regs.dy) \in Code /\ Plus(y_val, Neg(regs.dx)) \in Code
        BY <2>1, PlusTyped
    <2>. QED
        BY <1>12, <2>2, WordTypes DEF NextLine, Arrive, Move
<1>13. CASE WaitOnArmDeassert
    BY <1>13 DEF WaitOnArmDeassert, outputs
<1>. QED
    BY <1>1, <1>2, <1>3, <1>4, <1>5, <1>6, <1>7, <1>8, <1>9, <1>10, <1>11, <1>12,
       <1>13 DEF ScanStep

(* The masters and the DACs behind them. *)
LEMMA XTyped ==
    ASSUME XDac!TypeOK, FlagOK(x_phase, x_count, x_lag, x_finished), XDac!Step,
           x_dac \in Code, Dac(x_phase, x_sent, x_dac, x_answer), x_to_dac' \in DacWord
    PROVE  XDac!TypeOK' /\ x_dac' \in Code
<1>1. x_dac' \in Code /\ x_answer' \in DacWord
    <2>1. x_sent.val \in Code /\ Word("read", x_dac) \in DacWord /\ Nop \in DacWord
        BY WordTypes DEF XDac!TypeOK
    <2>. QED
        BY <2>1 DEF Dac, XDac!TypeOK
<1>2. x_phase' \in XDac!Phases /\ x_lag' \in 0..2
    BY XSteps
<1>3. x_count' \in 0..DAC_SS_WAIT /\ {x_sent', x_loaded'} \subseteq DacWord
      /\ x_from_dac' \in DacWord \cup {Word("nop", X)}
    <2>. USE RasterWaits DEF XDac!TypeOK, FlagOK
    <2>1. CASE XDac!Waiting
        BY <2>1 DEF XDac!Waiting
    <2>2. CASE XDac!Selecting
        BY <2>2 DEF XDac!Selecting
    <2>3. CASE XDac!Loading \/ XDac!Shifting \/ XDac!Complete \/ XDac!Deselect
        BY <2>3 DEF XDac!Loading, XDac!Shifting, XDac!Complete, XDac!Deselect
    <2>4. CASE XDac!Done
        BY <2>4 DEF XDac!Done
    <2>. QED
        BY <2>1, <2>2, <2>3, <2>4 DEF XDac!Step
<1>4. x_finished' \in BOOLEAN
    BY DEF XDac!Step
<1>. QED
    BY <1>1, <1>2, <1>3, <1>4 DEF XDac!TypeOK

LEMMA YTyped ==
    ASSUME YDac!TypeOK, FlagOK(y_phase, y_count, y_lag, y_finished), YDac!Step,
           y_dac \in Code, Dac(y_phase, y_sent, y_dac, y_answer), y_to_dac' \in DacWord
    PROVE  YDac!TypeOK' /\ y_dac' \in Code
<1>1. y_dac' \in Code /\ y_answer' \in DacWord
    <2>1. y_sent.val \in Code /\ Word("read", y_dac) \in DacWord /\ Nop \in DacWord
        BY WordTypes DEF YDac!TypeOK
    <2>. QED
        BY <2>1 DEF Dac, YDac!TypeOK
<1>2. y_phase' \in YDac!Phases /\ y_lag' \in 0..2
    BY YSteps
<1>3. y_count' \in 0..DAC_SS_WAIT /\ {y_sent', y_loaded'} \subseteq DacWord
      /\ y_from_dac' \in DacWord \cup {Word("nop", X)}
    <2>. USE RasterWaits DEF YDac!TypeOK, FlagOK
    <2>1. CASE YDac!Waiting
        BY <2>1 DEF YDac!Waiting
    <2>2. CASE YDac!Selecting
        BY <2>2 DEF YDac!Selecting
    <2>3. CASE YDac!Loading \/ YDac!Shifting \/ YDac!Complete \/ YDac!Deselect
        BY <2>3 DEF YDac!Loading, YDac!Shifting, YDac!Complete, YDac!Deselect
    <2>4. CASE YDac!Done
        BY <2>4 DEF YDac!Done
    <2>. QED
        BY <2>1, <2>2, <2>3, <2>4 DEF YDac!Step
<1>4. y_finished' \in BOOLEAN
    BY DEF YDac!Step
<1>. QED
    BY <1>1, <1>2, <1>3, <1>4 DEF YDac!TypeOK

(* The line and the sample wrap like the registers they are. *)
LEMMA PointTyped ==
    ASSUME ScanStep, {sample, line} \subseteq 0..SampleMod - 1
    PROVE  {sample', line'} \subseteq 0..SampleMod - 1
<1>1. SampleMod \in Nat \ {0} /\ sample + 1 \in Int /\ line + 1 \in Int
    BY SizeFacts
<1>2. (sample + 1) % SampleMod \in 0..SampleMod - 1
    BY <1>1, ModRange
<1>3. (line + 1) % SampleMod \in 0..SampleMod - 1
    BY <1>1, ModRange
<1>4. 0 \in 0..SampleMod - 1
    BY <1>1
<1>5. sample' \in {0, sample, (sample + 1) % SampleMod}
    BY DEF ScanStep, WaitOnArm, RequestDacValues, WaitBetweenCommands, GetDacValues,
           Settle, ArmAdcs, Measure, NextPoint, SampleTaken, ShiftSamples,
           AdvanceDacWrite, NextLine, WaitOnArmDeassert, point
<1>6. line' \in {0, line, (line + 1) % SampleMod}
    BY DEF ScanStep, WaitOnArm, RequestDacValues, WaitBetweenCommands, GetDacValues,
           Settle, ArmAdcs, Measure, NextPoint, SampleTaken, ShiftSamples,
           AdvanceDacWrite, NextLine, WaitOnArmDeassert, point
<1>. QED
    BY <1>2, <1>3, <1>4, <1>5, <1>6
-----------------------------------------------------------------------------
(***************************************************************************)
(* The invariant.                                                          *)
(***************************************************************************)
LEMMA RasterInit == Init => RasterInv
<1>. SUFFICES ASSUME Init
              PROVE  RasterInv
    OBVIOUS
<1>. USE DEF Init
<1>1. /\ x_dac \in Code /\ y_dac \in Code
      /\ PosMod \in Nat \ {0} /\ SampleMod \in Nat \ {0} /\ 0 \in Code
      /\ ADCNUM \in Nat \ {0} /\ 2^ADCNUM \in Nat \ {0} /\ FIFO_DEPTH \in Nat \ {0}
    BY RasterOrigins, SizeFacts DEF Code
<1>2. XDac!TypeOK /\ FlagOK(x_phase, x_count, x_lag, x_finished)
    BY RasterWaits, WordTypes DEF XDac!PowerUp, XDac!TypeOK, XDac!Phases, FlagOK
<1>3. YDac!TypeOK /\ FlagOK(y_phase, y_count, y_lag, y_finished)
    BY RasterWaits, WordTypes DEF YDac!PowerUp, YDac!TypeOK, YDac!Phases, FlagOK
<1>4. RasterTypeOK
    <2>1. adc_data_tmp \in [Adcs -> Adcs \cup {NoSample}] /\ data \in Adcs \cup {NoSample}
        OBVIOUS
    <2>2. {adc_used_tmp, adc_arm, adc_finished} \subseteq 0..2^ADCNUM - 1
        BY <1>1
    <2>3. {sample, line} \subseteq 0..SampleMod - 1 /\ fifo_level \in 0..FIFO_DEPTH
        BY <1>1
    <2>4. {x_val, y_val, x_dac, y_dac, regs.dx, regs.dy} \subseteq Code
        BY <1>1
    <2>5. {kernel_ready, kernel_finished, arm, running, is_reverse, coord_arm,
           mem_commit} \subseteq BOOLEAN /\ state \in ScanStates
        BY DEF ScanStates
    <2>. QED
        BY <1>2, <1>3, <2>1, <2>2, <2>3, <2>4, <2>5 DEF RasterTypeOK
<1>5. FlagsInv /\ UnitsInv /\ RunningInv /\ RegsInv
    BY <1>2, <1>3 DEF FlagsInv, UnitsInv, RunningInv, RegsInv, Scanning
<1>6. FadeInv
    BY DEF FadeInv, Resting, FlagsWithin, XFlag, YFlag, XDac!PowerUp, YDac!PowerUp
<1>7. KernelInv
    <2>1. regs \in [RegNames -> Nat]
        BY DEF RegNames
    <2>2. ~Configuring
        BY OthersAreNotRest DEF Configuring
    <2>. QED
        BY <2>1, <2>2 DEF KernelInv, RegsTypeOK, ConfigInv, ScriptInv, AccessInv, ArmedInv
<1>8. FrameInv
    BY DEF FrameInv, XFrameOK, YFrameOK, FrameOK
<1>9. OriginInv /\ ZeroInv /\ GridInv
    BY <1>1 DEF OriginInv, ZeroInv, GridInv, Scanning
<1>. QED
    BY <1>4, <1>5, <1>6, <1>7, <1>8, <1>9 DEF RasterInv

LEMMA RasterStep == RasterInv /\ Next => RasterInv'
<1>. SUFFICES ASSUME RasterInv, Next
              PROVE  RasterInv'
    OBVIOUS
<1>1. /\ ScanStep /\ KernelInterface(Turning)
      /\ XDac!Step /\ Dac(x_phase, x_sent, x_dac, x_answer)
      /\ YDac!Step /\ Dac(y_phase, y_sent, y_dac, y_answer)
      /\ FifoDrains /\ handle_adc /\ Kernel /\ Record
    BY DEF Next
<1>2. /\ RasterTypeOK /\ FlagsInv /\ FadeInv /\ UnitsInv /\ RunningInv
      /\ RegsTypeOK /\ ConfigInv /\ ScriptInv /\ AccessInv /\ ArmedInv
      /\ RegsInv /\ XFrameOK /\ YFrameOK /\ OriginInv /\ ZeroInv /\ GridInv
      /\ asked \in ParamSets
    BY DEF RasterInv, KernelInv, FrameInv, RegsTypeOK
<1>3. /\ BoolTypeOK /\ state \in ScanStates /\ mem_commit \in BOOLEAN
      /\ {regs.dx, regs.dy} \subseteq Code
      /\ XDac!TypeOK /\ YDac!TypeOK /\ x_dac \in Code /\ y_dac \in Code
      /\ {x_finished, y_finished} \subseteq BOOLEAN
      /\ {arm, running, is_reverse, coord_arm} \subseteq BOOLEAN
      /\ {kernel_ready, kernel_finished} \subseteq BOOLEAN
    BY <1>2 DEF RasterTypeOK, BoolTypeOK, XDac!TypeOK, YDac!TypeOK
<1>4. ScanMoves /\ ArmMoves
    BY <1>1, <1>2, <1>3, ScanSteps, ArmSteps
<1>5. Turning \in BOOLEAN
    BY DEF Turning, PointDone, EndOfSweep
<1>6. InterfaceMoves(Turning)
    BY <1>1, <1>2, <1>3, <1>5, InterfaceSteps
<1>7. kernel_finished' \in BOOLEAN /\ (kernel_finished' => kernel_ready)
    BY <1>1, Zenon DEF KernelInterface
<1>8. KernelMoves
    BY <1>1, <1>2, <1>3, <1>7, KernelSteps
<1>9. kernel_ready' \in BOOLEAN
    <2>1. AwaitFinished => kernel_ready' \in BOOLEAN
        BY Zenon DEF AwaitFinished
    <2>2. ~AwaitFinished => kernel_ready' \in BOOLEAN
        BY <1>1, <1>3 DEF Kernel, write_raster_reg, Issue, BeginScan, LowerArm,
                          WriteDuringScan, Plan, bench
    <2>. QED
        BY <2>1, <2>2
<1>10. KernelTicks
    BY <1>2, <1>3, <1>4, <1>6, <1>7, <1>8, <1>9 DEF KernelTicks
<1>11. /\ RegsTypeOK' /\ regs'.dx \in Code /\ regs'.dy \in Code
       /\ ConfigInv' /\ ScriptInv' /\ ArmedInv' /\ RegsInv' /\ RunningInv'
       /\ Scanning => asked' = asked
    BY <1>10, RegsTyped, ConfigTick, ArmedTick, RegsTick
<1>12. AccessInv'
    BY <1>2, <1>3, <1>7, <1>8, AccessTick
<1>13. /\ XMoves /\ x_lag' \in 0..2 /\ FlagOK(x_phase, x_count, x_lag, x_finished)'
       /\ YMoves /\ y_lag' \in 0..2 /\ FlagOK(y_phase, y_count, y_lag, y_finished)'
       /\ XWords /\ YWords
    BY <1>1, <1>2, <1>3, XSteps, YSteps, XWordSteps, YWordSteps DEF FlagsInv
<1>14. Masters
    <2>1. /\ x_lag \in 0..2 /\ x_phase \in XDac!Phases
          /\ y_lag \in 0..2 /\ y_phase \in YDac!Phases
        BY <1>3 DEF XDac!TypeOK, YDac!TypeOK
    <2>2. XDac!Phases = YDac!Phases
        BY DEF XDac!Phases, YDac!Phases
    <2>. QED
        BY <1>2, <1>3, <1>13, <2>1, <2>2 DEF Masters
<1>15. state' = "WAIT_ON_ARM" /\ arm' => Idle
    <2>1. SUFFICES ASSUME state' = "WAIT_ON_ARM", arm', ~Idle
                   PROVE  FALSE
        OBVIOUS
    <2>2. ~arm
        BY <1>4, <2>1 DEF ScanMoves
    <2>3. ~running
        BY <1>10, <2>1, <2>2, ArmGoesUp
    <2>. QED
        BY <1>10, <2>1, <2>2, <2>3, QuietWithoutArm
<1>16. FadeInv' /\ FlagsInv' /\ UnitsInv'
    BY <1>3, <1>4, <1>13, <1>14, <1>15, FadeTick DEF FlagsInv, ArmMoves
<1>17. /\ WordMoves(x_to_dac, x_val, x_from_dac, x_to_dac', x_val')
       /\ WordMoves(y_to_dac, y_val, y_from_dac, y_to_dac', y_val')
    BY <1>1, <1>2, <1>3, WordSteps
<1>18. /\ XFrameOK' /\ YFrameOK'
       /\ state \in {"REQUEST_DAC_VALUES", "GET_DAC_VALUES"} \/ ~coord_arm =>
             x_dac' = x_dac /\ y_dac' = y_dac
       /\ state = "GET_DAC_VALUES" /\ state' = "WAIT_ADVANCE" =>
             x_val' = x_dac /\ y_val' = y_dac
    BY <1>1, <1>2, <1>3, <1>4, <1>13, <1>14, <1>16, <1>17, XFrameTick, YFrameTick
<1>19. arm => asked' = asked
    BY <1>8 DEF KernelMoves
<1>20. GridTicks
    <2>1. x_val \in Code /\ y_val \in Code
          /\ sample \in 0..SampleMod - 1 /\ line \in 0..SampleMod - 1
        BY <1>2 DEF RasterTypeOK
    <2>2. state = "MEASURE" => x_dac = x_val /\ y_dac = y_val
        BY <1>2 DEF XFrameOK, YFrameOK, FrameOK
    <2>. QED
        BY <1>1, <1>2, <1>3, <1>4, <1>11, <1>18, <1>19, <2>1, <2>2 DEF GridTicks
<1>21. OriginInv' /\ ZeroInv' /\ GridInv'
    BY <1>1, <1>20, OriginTick, ZeroTick, GridTick
<1>22. DataTypeOK
    BY <1>1, <1>2, <1>3, <1>18, DataSteps
<1>23. XDac!TypeOK' /\ YDac!TypeOK' /\ x_dac' \in Code /\ y_dac' \in Code
    BY <1>1, <1>2, <1>3, <1>22, XTyped, YTyped DEF FlagsInv, DataTypeOK
<1>24. {sample', line'} \subseteq 0..SampleMod - 1
    BY <1>1, <1>2, PointTyped DEF RasterTypeOK
<1>25. fifo_level' \in 0..FIFO_DEPTH
    <2>1. fifo_level \in 0..FIFO_DEPTH /\ FIFO_DEPTH \in Nat
        BY <1>2, SizeFacts DEF RasterTypeOK
    <2>2. PICK taken \in 0..1 :
             /\ taken <= fifo_level
             /\ fifo_level' = fifo_level - taken + IF write_enable THEN 1 ELSE 0
             /\ fifo_level' <= FIFO_DEPTH
        BY <1>1 DEF FifoDrains
    <2>3. CASE write_enable
        BY <2>1, <2>2, <2>3
    <2>4. CASE ~write_enable
        BY <2>1, <2>2, <2>4
    <2>. QED
        BY <2>3, <2>4
<1>26. adc_finished' \in Masks
    BY <1>1 DEF handle_adc, Masks
<1>27. RasterTypeOK'
    <2>1. arm' \in BOOLEAN
        BY <1>6 DEF InterfaceMoves
    <2>2. state' \in ScanStates /\ running' \in BOOLEAN /\ is_reverse' \in BOOLEAN
          /\ coord_arm' \in BOOLEAN
        BY <1>4 DEF ScanMoves, ArmMoves
    <2>. QED
        BY <1>7, <1>9, <1>11, <1>22, <1>23, <1>24, <1>25, <1>26, <2>1, <2>2
        DEF RasterTypeOK, DataTypeOK, Masks, Samples
<1>. QED
    BY <1>11, <1>12, <1>16, <1>18, <1>21, <1>27 DEF RasterInv, KernelInv, FrameInv

LEMMA RasterStands == RasterInv /\ UNCHANGED vars => RasterInv'
<1>. SUFFICES ASSUME RasterInv, UNCHANGED vars
              PROVE  RasterInv'
    OBVIOUS
<1>. USE DEF vars, kernelRegs, point, outputs, xMaster, yMaster, dacs, bench, history, shim
<1>1. RasterTypeOK' /\ FlagsInv' /\ FadeInv' /\ UnitsInv' /\ RunningInv'
    BY DEF RasterInv, RasterTypeOK, XDac!TypeOK, YDac!TypeOK, FlagsInv, FlagOK, FadeInv,
           Resting, FlagsWithin, XFlag, YFlag, UnitsInv, RunningInv, Scanning
<1>2. KernelInv' /\ RegsInv'
    BY DEF RasterInv, KernelInv, RegsTypeOK, ConfigInv, ScriptInv, AccessInv, ArmedInv,
           Configuring, Written, AsAsked, RegsInv, ScanRegs, Scanning
<1>3. FrameInv' /\ OriginInv'
    BY DEF RasterInv, FrameInv, XFrameOK, YFrameOK, FrameOK, Copied, OriginInv
<1>4. ZeroInv' /\ GridInv'
    BY DEF RasterInv, ZeroInv, GridInv, Sized, Scanning, Index, Placed, AtPrevious,
           FirstPoint, StepX, StepY, Lines, Pitch
<1>. QED
    BY <1>1, <1>2, <1>3, <1>4 DEF RasterInv

LEMMA RasterAlways == Spec => []RasterInv
<1>1. RasterInv /\ [Next]_vars => RasterInv'
    BY RasterStep, RasterStands
<1>. QED
    BY <1>1, RasterInit, PTL DEF Spec

(* Every register keeps to its range. *)
THEOREM RasterIsTyped == Spec => []RasterTypeOK
<1>1. RasterInv => RasterTypeOK
    BY DEF RasterInv
<1>. QED
    BY <1>1, RasterAlways, PTL

(* An aborted scan leaves nothing behind: while the scanner waits for arm  *)
(* no DAC and no ADC is armed and no sample is offered.                    *)
THEOREM AbortsAreClean == Spec => []AbortIsClean
<1>1. RasterInv => AbortIsClean
    BY DEF RasterInv, FadeInv, UnitsInv, Arming, AbortIsClean
<1>. QED
    BY <1>1, RasterAlways, PTL

(* From its start to its end a scan works with the parameters that were    *)
(* asked for, whatever the processor writes meanwhile.                     *)
THEOREM ParametersAreKept == Spec => []ParamsKept
<1>1. RasterInv => ParamsKept
    <2>. SUFFICES ASSUME RasterInv, Scanning
                  PROVE  /\ \A r \in DOMAIN asked \ {"dx", "dy"} : regs[r] = asked[r]
                         /\ \/ regs.dx = asked.dx /\ regs.dy = asked.dy
                            \/ regs.dx = Neg(asked.dx) /\ regs.dy = Neg(asked.dy)
        BY DEF ParamsKept, Scanning
    <2>1. ScanRegs /\ asked \in ParamSets
        BY DEF RasterInv, KernelInv, RegsTypeOK, RegsInv
    <2>2. DOMAIN asked = {"max_samples", "max_lines", "settle_time", "dx", "dy", "adc_used"}
        BY <2>1, RasterParams
    <2>. QED
        BY <2>1, <2>2 DEF ScanRegs
<1>. QED
    BY <1>1, RasterAlways, PTL

(* A scan that runs to its end measures every point once, whatever its     *)
(* sizes; one with a size of 0 does not end.                               *)
THEOREM EveryPointMeasured == Spec => []EveryPoint
<1>1. RasterInv => EveryPoint
    <2>. SUFFICES ASSUME RasterInv, state = "WAIT_ON_ARM_DEASSERT"
                  PROVE  measured = 2 * asked.max_samples * asked.max_lines
        BY DEF EveryPoint
    <2>1. asked \in ParamSets /\ asked.max_lines # 0 /\ asked.max_samples # 0
        BY DEF RasterInv, ZeroInv, KernelInv, RegsTypeOK
    <2>2. asked.max_lines \in Nat /\ asked.max_samples \in Nat
        BY <2>1, ParamFacts, SizeFacts
    <2>3. Sized
        BY <2>1, <2>2 DEF Sized
    <2>4. measured = asked.max_lines * (2 * asked.max_samples)
        BY <2>3 DEF RasterInv, GridInv, Lines, Pitch
    <2>. QED
        BY <2>2, <2>4
<1>. QED
    BY <1>1, RasterAlways, PTL

(* The point with index line * 2n + i is the i-th of its line. *)
LEMMA IndexFacts ==
    ASSUME NEW n \in Nat \ {0}, NEW row \in Nat, NEW i \in 0..2 * n - 1
    PROVE  (row * (2 * n) + i) % (2 * n) = i
<1>. DEFINE m == 2 * n
<1>1. m \in Nat \ {0} /\ i \in 0..m - 1
    OBVIOUS
<1>. HIDE DEF m
<1>2. (row * m + i) % m = i
    BY <1>1, DivUnique
<1>. QED
    BY <1>2 DEF m

(* Whenever ADCs are armed the probe is at rest, the first point is where  *)
(* the scan began, and every other is one step from the last that was      *)
(* measured: the step that was asked for, the same backwards, or one at    *)
(* right angles, in turn, whatever the wrap of the codes, however often a  *)
(* sweep has turned, and whatever scans and aborts there were before.      *)
THEOREM EveryMoveIsOneStep == Spec => []SingleStep
<1>1. RasterInv => SingleStep
    <2>. SUFFICES ASSUME RasterInv, state = "MEASURE", Sized
                  PROVE  /\ AtRest
                         /\ IF measured = 1 THEN <<x_dac, y_dac>> = origin
                            ELSE /\ x_dac = (previous[1] + StepTo(measured - 1)[1]) % PosMod
                                 /\ y_dac = (previous[2] + StepTo(measured - 1)[2]) % PosMod
        BY DEF SingleStep
    <2>1. AtRest
        <3>1. ~coord_arm
            BY DEF RasterInv, FadeInv, Arming
        <3>. QED
            BY <3>1 DEF RasterInv, FadeInv, Resting, AtRest
    <2>2. x_dac = x_val /\ y_dac = y_val
        BY DEF RasterInv, FrameInv, XFrameOK, YFrameOK, FrameOK
    <2>3. measured = Index + 1 /\ Placed
        BY DEF RasterInv, GridInv
    <2>4. sample \in 0..Pitch - 1 /\ line \in 0..Lines - 1 /\ asked \in ParamSets
        BY DEF RasterInv, GridInv, Scanning, KernelInv, RegsTypeOK
    <2>5. Pitch \in Nat \ {0} /\ Lines \in Nat \ {0}
        BY <2>4, ParamFacts, SizeFacts DEF Pitch, Lines, Sized
    <2>. DEFINE i == IF is_reverse THEN Pitch + sample ELSE sample
                b == line * (2 * Pitch)
    <2>6. /\ i \in 0..2 * Pitch - 1 /\ line \in Nat
          /\ is_reverse => i >= Pitch
          /\ ~is_reverse => i < Pitch /\ i = sample
        BY <2>4, <2>5
    <2>7. Index = b + i
        BY DEF Index
    <2>8. b \in Nat /\ (line > 0 => b > 0) /\ (line = 0 => b = 0)
        BY <2>5, <2>6
    <2>9. Index % (2 * Pitch) = i
        BY <2>5, <2>6, <2>7, IndexFacts
    <2>10. FirstPoint <=> i = 0 /\ line = 0
        BY <2>5, <2>6 DEF FirstPoint
    <2>. HIDE DEF i, b
    <2>11. measured - 1 = Index /\ (measured = 1 <=> i = 0 /\ line = 0)
        BY <2>3, <2>6, <2>7, <2>8
    <2>12. StepTo(Index) = <<StepX, StepY>>
        <3>1. StepTo(Index) = IF i = 0 THEN <<asked.dy, -asked.dx>>
                              ELSE IF i < Pitch THEN <<asked.dx, asked.dy>>
                              ELSE <<-asked.dx, -asked.dy>>
            BY <2>9 DEF StepTo, Pitch
        <3>2. CASE is_reverse
            <4>1. i # 0 /\ ~(i < Pitch)
                BY <2>5, <2>6, <3>2
            <4>. QED
                BY <3>1, <3>2, <4>1 DEF StepX, StepY
        <3>3. CASE ~is_reverse
            BY <2>6, <3>1, <3>3 DEF StepX, StepY
        <3>. QED
            BY <3>2, <3>3
    <2>13. CASE measured = 1
        <3>1. x_val = origin[1] /\ y_val = origin[2]
            BY <2>3, <2>10, <2>11, <2>13 DEF Placed
        <3>2. origin \in Code \X Code
            BY DEF RasterInv, OriginInv
        <3>. QED
            BY <2>1, <2>2, <2>13, <3>1, <3>2
    <2>14. CASE measured # 1
        <3>1. /\ x_val = (previous[1] + StepX) % PosMod
              /\ y_val = (previous[2] + StepY) % PosMod
            BY <2>3, <2>10, <2>11, <2>14 DEF Placed
        <3>. QED
            BY <2>1, <2>2, <2>11, <2>12, <2>14, <3>1
    <2>. QED
        BY <2>13, <2>14
<1>. QED
    BY <1>1, RasterAlways, PTL
=============================================================================
