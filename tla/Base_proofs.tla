----------------------------- MODULE Base_proofs -----------------------------
(***************************************************************************)
(* The driver and the loop share the DAC without looking at each other:    *)
(* for every length of the waits and transfers that is short enough for    *)
(* the pace of the driver (PaceAssumption), the driver's own frames are    *)
(* whole, its commands arrive and its answers are the call's own, whatever *)
(* it cuts of the loop's.  BaseInv says which access of a routine comes    *)
(* next and how far a transfer must be by then.                            *)
(***************************************************************************)
EXTENDS Base, SequenceTheorems, TLAPS

Raises(a, reg) == a.reg = reg /\ a.val = TRUE
Lowers(a, reg) == a.reg = reg /\ a.val = FALSE

(* What the driver is about to do, once it has paused for long enough.     *)
NextIs(reg)     == todo # <<>> /\ Head(todo).reg = reg
NextRaises(reg) == todo # <<>> /\ Raises(Head(todo), reg)
NextLowers(reg) == todo # <<>> /\ Lowers(Head(todo), reg)

Arms == {"dac_arm", "adc_arm"}

Accesses ==
    [reg : {"dac_sel"}, val : {{}, {CONTROL_LOOP}}]
        \cup [reg : {"dac_send_buf"}, val : DacWord]
        \cup [reg : Arms \cup {"cl_run_loop_in"}, val : BOOLEAN]
        \cup [reg : {"dac_recv_buf"}, val : {"dac", "ctrl"}]
        \cup [reg : {"adc_recv_buf"}, val : {0}]

(* The driver's routines, access by access: which can begin one, which can *)
(* follow another and which can be the last.                               *)
StartsCall(a) ==
    a.reg \in {"dac_sel", "dac_send_buf", "cl_run_loop_in"} \/ Raises(a, "adc_arm")

Follows(a, b) ==
    /\ b.reg \notin {"dac_sel", "cl_run_loop_in"} /\ ~Raises(b, "adc_arm")
    /\ a.reg = "dac_send_buf" <=> Raises(b, "dac_arm")
    /\ \A arm \in Arms : Raises(a, arm) <=> Lowers(b, arm)
    /\ Lowers(a, "adc_arm") <=> b.reg = "adc_recv_buf"

EndsCall(a) ==
    a.reg \notin {"dac_send_buf", "adc_arm"} /\ ~Raises(a, "dac_arm")

Chain(s) == s \in Seq(Accesses) /\ \A i \in 1..(Len(s) - 1) : Follows(s[i], s[i + 1])

Script(s) == Chain(s) /\ (s # <<>> => EndsCall(s[Len(s)]))

DriverInv ==
    /\ Script(todo)
    /\ quiet \in 1..Pace
    /\ dac_arm \in BOOLEAN /\ (dac_arm <=> NextLowers("dac_arm"))
    /\ adc_arm \in BOOLEAN /\ (adc_arm <=> NextLowers("adc_arm"))
    /\ dac_sel \in {{}, {CONTROL_LOOP}}

(* The latest a transfer can be, counted from the raising of arm, against  *)
(* the time the driver has taken for its accesses since: `pause` cycles,   *)
(* and Pace more if it has lowered arm.                                    *)
OnTime(arm, phase, count, wait, pause, bits) ==
    LET since == IF arm THEN pause ELSE Pace + pause IN
    /\ phase = "idle" /\ arm => pause = 1
    /\ phase = "select" => count \in 1..wait /\ since <= 1 + count
    /\ phase = "load" => since <= wait + 2
    /\ phase = "shift" => since <= wait + 2 + bits
    /\ phase = "settle" => since <= wait + 3 + MaxShift

AtRest(phase, pause) == phase = "idle" \/ (phase = "done" /\ pause = 1)

TimingInv ==
    /\ shifted \in 0..MaxShift
    /\ OnTime(dac_arm, mmio_phase, mmio_count, DAC_SS_WAIT, quiet, shifted)
    /\ OnTime(adc_arm, adc_phase, adc_count, ADC_CONV_WAIT, quiet, shifted)
    /\ NextRaises("dac_arm") => AtRest(mmio_phase, quiet)
    /\ ~adc_arm /\ ~NextIs("adc_recv_buf") => AtRest(adc_phase, quiet)

Phases == {"idle", "select", "load", "shift", "settle", "done"}

PhaseInv == {mmio_phase, adc_phase, cl_phase} \subseteq Phases

(* The frame on the wires is the MMIO master's just while it sends one.    *)
FrameInv ==
    /\ framing \in {NoFrame, Broken, MMIO, CONTROL_LOOP}
    /\ framing = MMIO <=> dac_sel = {} /\ Selecting(mmio_phase)

(* What the DAC offers to the MMIO master. *)
Asked == IF dac_sel = {} THEN dac_answer ELSE Nop

AnswerInv ==
    /\ \/ mmio_phase = "idle" /\ dac_arm
       \/ mmio_phase = "select" /\ mmio_count = 1
       => expect = Asked
    /\ \/ mmio_phase = "select" /\ mmio_count # 1
       \/ mmio_phase \in {"load", "shift"}
       => mmio_loaded = expect
    /\ \/ mmio_phase = "idle" /\ ~dac_arm
       \/ mmio_phase \in {"settle", "done"}
       => dac_recv_buf = expect

SampleInv ==
    /\ \/ adc_phase = "select" /\ adc_count # 1
       \/ adc_phase \in {"load", "shift"}
       => adc_loaded = adc_in
    /\ \/ adc_phase \in {"settle", "done"}
       \/ adc_phase = "idle" /\ NextIs("adc_recv_buf")
       => adc_recv_buf = adc_in

(* A command is on its way from its writing to the end of its frame.       *)
Pending ==
    /\ dac_sel = {}
    /\ \/ NextRaises("dac_arm")
       \/ mmio_phase = "idle" /\ dac_arm
       \/ Selecting(mmio_phase)

DueInv ==
    due = IF ~Pending THEN <<>>
          ELSE IF mmio_phase \in {"shift", "settle"} THEN <<mmio_sent>>
          ELSE <<dac_send_buf>>

BaseInv ==
    /\ DriverInv /\ PhaseInv /\ TimingInv
    /\ FrameInv /\ AnswerInv /\ SampleInv /\ DueInv
-----------------------------------------------------------------------------
LEMMA ConstantFacts ==
    /\ DAC_SS_WAIT \in Nat \ {0} /\ ADC_CONV_WAIT \in Nat \ {0}
    /\ MaxShift \in Nat /\ Pace \in Nat /\ Pace >= 2
    /\ 2 * Pace > DAC_SS_WAIT + MaxShift + 3
    /\ 2 * Pace >= ADC_CONV_WAIT + MaxShift + 3
BY WaitAssumption, PaceAssumption

(* What is left of a routine after its next access. *)
LEMMA TailScript ==
    ASSUME NEW s, Script(s), s # <<>>
    PROVE  /\ Script(Tail(s)) /\ Head(s) \in Accesses /\ Tail(s) # s
           /\ Tail(s) # <<>> => Follows(Head(s), Head(Tail(s)))
           /\ Tail(s) = <<>> => EndsCall(Head(s))
<1>. /\ s \in Seq(Accesses) /\ Len(s) \in Nat /\ Len(s) >= 1
     /\ Head(s) = s[1] /\ Head(s) \in Accesses
    BY EmptySeq, LenProperties DEF Script, Chain
<1>. DEFINE t == Tail(s)
<1>1. /\ t \in Seq(Accesses) /\ Len(t) = Len(s) - 1
      /\ \A i \in 1..(Len(s) - 1) : t[i] = s[i + 1]
    BY HeadTailProperties
<1>. HIDE DEF t
<1>2. t # s
    BY <1>1
<1>3. \A i \in 1..(Len(s) - 1) : Follows(s[i], s[i + 1])
    BY DEF Script, Chain
<1>4. ASSUME NEW i \in 1..(Len(t) - 1)
      PROVE  Follows(t[i], t[i + 1])
    <2>1. t[i] = s[i + 1] /\ t[i + 1] = s[(i + 1) + 1]
        BY <1>1
    <2>2. i + 1 \in 1..(Len(s) - 1)
        BY <1>1
    <2>3. Follows(s[i + 1], s[(i + 1) + 1])
        BY <2>2, <1>3
    <2>. QED
        BY <2>1, <2>3
<1>5. ASSUME t # <<>>
      PROVE  EndsCall(t[Len(t)]) /\ Follows(Head(s), Head(t))
    <2>1. Len(s) - 1 \in 1..(Len(s) - 1) /\ 1 \in 1..(Len(s) - 1)
        BY <1>1, <1>5, EmptySeq
    <2>2. t[Len(t)] = s[(Len(s) - 1) + 1] /\ Head(t) = s[1 + 1]
        BY <2>1, <1>1
    <2>3. (Len(s) - 1) + 1 = Len(s)
        OBVIOUS
    <2>4. Follows(s[1], s[1 + 1])
        BY <2>1, <1>3
    <2>. QED
        BY <2>2, <2>3, <2>4 DEF Script, Chain
<1>6. ASSUME t = <<>>
      PROVE  EndsCall(Head(s))
    <2>1. Len(t) = 0
        BY <1>6, EmptySeq
    <2>2. Len(s) = 1
        BY <1>1, <2>1
    <2>. QED
        BY <2>2 DEF Script, Chain
<1>. QED
    BY <1>1, <1>2, <1>4, <1>5, <1>6 DEF Script, Chain, t

(* One sequence of accesses after another. *)
LEMMA Joined ==
    ASSUME NEW s, NEW t, Chain(s), Chain(t), s # <<>>, t # <<>>,
           Follows(s[Len(s)], t[1])
    PROVE  /\ Chain(s \o t) /\ s \o t # <<>>
           /\ (s \o t)[1] = s[1] /\ (s \o t)[Len(s \o t)] = t[Len(t)]
<1>. DEFINE u == s \o t
<1>. /\ s \in Seq(Accesses) /\ Len(s) \in Nat /\ Len(s) >= 1
     /\ t \in Seq(Accesses) /\ Len(t) \in Nat /\ Len(t) >= 1
    BY EmptySeq, LenProperties DEF Chain
<1>1. /\ u \in Seq(Accesses) /\ Len(u) = Len(s) + Len(t)
      /\ \A i \in 1..(Len(s) + Len(t)) : u[i] = IF i <= Len(s) THEN s[i] ELSE t[i - Len(s)]
    BY ConcatProperties
<1>. HIDE DEF u
<1>2. ASSUME NEW i \in 1..(Len(u) - 1)
      PROVE  Follows(u[i], u[i + 1])
    <2>1. CASE i < Len(s)
        <3>1. u[i] = s[i] /\ u[i + 1] = s[i + 1] /\ i \in 1..(Len(s) - 1)
            BY <2>1, <1>1
        <3>. QED
            BY <3>1 DEF Chain
    <2>2. CASE i = Len(s)
        <3>1. u[i] = s[Len(s)] /\ u[i + 1] = t[1]
            BY <2>2, <1>1
        <3>. QED
            BY <3>1
    <2>3. CASE i > Len(s)
        <3>1. /\ u[i] = t[i - Len(s)] /\ u[i + 1] = t[(i - Len(s)) + 1]
              /\ i - Len(s) \in 1..(Len(t) - 1)
            BY <2>3, <1>1
        <3>. QED
            BY <3>1 DEF Chain
    <2>. QED
        BY <2>1, <2>2, <2>3
<1>3. u[Len(u)] = t[Len(t)] /\ u[1] = s[1]
    BY <1>1
<1>4. u # <<>>
    BY <1>1, EmptySeq
<1>5. Chain(u)
    BY <1>1, <1>2 DEF Chain
<1>. QED
    BY <1>3, <1>4, <1>5 DEF u

LEMMA Single ==
    ASSUME NEW a \in Accesses
    PROVE  Chain(<<a>>) /\ <<a>> # <<>> /\ <<a>>[1] = a /\ Len(<<a>>) = 1
BY DEF Chain

LEMMA Pair ==
    ASSUME NEW a \in Accesses, NEW b \in Accesses, Follows(a, b)
    PROVE  /\ Chain(<<a, b>>) /\ <<a, b>> # <<>>
           /\ <<a, b>>[1] = a /\ <<a, b>>[Len(<<a, b>>)] = b
<1>1. ASSUME NEW i \in 1..(Len(<<a, b>>) - 1)
      PROVE  Follows(<<a, b>>[i], <<a, b>>[i + 1])
    <2>1. i = 1
        BY <1>1
    <2>2. <<a, b>>[i] = a /\ <<a, b>>[i + 1] = b
        BY <2>1
    <2>. QED
        BY <2>2
<1>. QED
    BY <1>1 DEF Chain

LEMMA AccessTypes ==
    /\ \A word \in DacWord : Access("dac_send_buf", word) \in Accesses
    /\ \A on \in BOOLEAN : /\ Access("dac_arm", on) \in Accesses
                           /\ Access("adc_arm", on) \in Accesses
                           /\ Access("cl_run_loop_in", on) \in Accesses
    /\ \A reg \in {"dac", "ctrl"} : Access("dac_recv_buf", reg) \in Accesses
    /\ Access("adc_recv_buf", 0) \in Accesses
    /\ Access("dac_sel", {}) \in Accesses
    /\ Access("dac_sel", {CONTROL_LOOP}) \in Accesses
BY DEF Access, Accesses, Arms

LEMMA AccessOrder ==
    ASSUME NEW word, NEW reg
    PROVE  /\ Follows(Access("dac_send_buf", word), Access("dac_arm", TRUE))
           /\ Follows(Access("dac_arm", TRUE), Access("dac_arm", FALSE))
           /\ Follows(Access("adc_arm", TRUE), Access("adc_arm", FALSE))
           /\ Follows(Access("dac_arm", FALSE), Access("dac_send_buf", word))
           /\ Follows(Access("dac_arm", FALSE), Access("dac_recv_buf", reg))
           /\ Follows(Access("adc_arm", FALSE), Access("adc_recv_buf", 0))
           /\ Follows(Access("dac_sel", {}), Access("dac_send_buf", word))
BY DEF Access, Follows, Raises, Lowers, Arms

LEMMA CommandChain ==
    ASSUME NEW word \in DacWord
    PROVE  /\ Chain(Command(word)) /\ Command(word) # <<>>
           /\ Command(word)[1] = Access("dac_send_buf", word)
           /\ Command(word)[Len(Command(word))] = Access("dac_arm", FALSE)
<1>. DEFINE a == Access("dac_send_buf", word)
            b == Access("dac_arm", TRUE)
            c == Access("dac_arm", FALSE)
<1>1. a \in Accesses /\ b \in Accesses /\ c \in Accesses
    BY AccessTypes
<1>2. Follows(a, b) /\ Follows(b, c)
    BY AccessOrder
<1>3. Command(word) = <<a>> \o <<b, c>>
    BY DEF Command, RaiseAndLower
<1>. DEFINE s == <<a>>
            t == <<b, c>>
            u == Command(word)
<1>. HIDE DEF a, b, c
<1>4. /\ Chain(s) /\ s # <<>> /\ s[Len(s)] = a /\ s[1] = a
      /\ Chain(t) /\ t # <<>> /\ t[1] = b /\ t[Len(t)] = c
    BY <1>1, <1>2, Single, Pair
<1>. HIDE DEF s, t, u
<1>5. Follows(s[Len(s)], t[1])
    BY <1>2, <1>4
<1>6. u = s \o t
    BY <1>3 DEF s, t, u
<1>7. Chain(u) /\ u # <<>> /\ u[1] = a /\ u[Len(u)] = c
    BY <1>4, <1>5, <1>6, Joined
<1>. QED
    BY <1>7 DEF a, c, u

LEMMA ReadChain ==
    ASSUME NEW reg \in {"dac", "ctrl"}
    PROVE  /\ Chain(dac_read_reg(reg)) /\ dac_read_reg(reg) # <<>>
           /\ dac_read_reg(reg)[1].reg = "dac_send_buf"
           /\ dac_read_reg(reg)[1] = Access("dac_send_buf", Word("read", reg, 0))
           /\ dac_read_reg(reg)[Len(dac_read_reg(reg))] = Access("dac_recv_buf", reg)
<1>. DEFINE word == Word("read", reg, 0)
            a == Access("dac_recv_buf", reg)
            c == Command(word)
            s == dac_read_reg(reg)
<1>1. word \in DacWord
    BY ValsAssumption DEF Word, DacWord
<1>2. /\ Chain(c) /\ c # <<>> /\ c[1] = Access("dac_send_buf", word)
      /\ c[Len(c)] = Access("dac_arm", FALSE)
    BY <1>1, CommandChain
<1>3. a \in Accesses /\ Follows(Access("dac_arm", FALSE), a)
    BY AccessTypes, AccessOrder
<1>4. s = c \o <<a>>
    BY DEF dac_read_reg
<1>5. Access("dac_send_buf", word).reg = "dac_send_buf"
    BY DEF Access
<1>. HIDE DEF word, a, c, s
<1>6. Chain(<<a>>) /\ <<a>> # <<>> /\ <<a>>[1] = a /\ <<a>>[Len(<<a>>)] = a
    BY <1>3, Single
<1>7. Follows(c[Len(c)], <<a>>[1])
    BY <1>2, <1>3, <1>6
<1>8. Chain(s) /\ s # <<>> /\ s[1] = Access("dac_send_buf", word) /\ s[Len(s)] = a
    BY <1>2, <1>4, <1>6, <1>7, Joined
<1>. QED
    BY <1>5, <1>8 DEF s, a, word

LEMMA InitChain ==
    /\ Chain(dac_init) /\ dac_init # <<>>
    /\ dac_init[1] = Access("dac_sel", {})
    /\ dac_init[Len(dac_init)] = Access("dac_recv_buf", "ctrl")
<1>. DEFINE zero == Word("write", "dac", 0)
            one  == Word("write", "ctrl", 1)
            sel  == Access("dac_sel", {})
            down == Access("dac_arm", FALSE)
            c0 == dac_write_volt(0)
            c1 == Command(one)
            c2 == dac_read_reg("ctrl")
            s1 == <<sel>> \o c0
            s2 == s1 \o c1
            s3 == s2 \o c2
<1>1. zero \in DacWord /\ one \in DacWord
    BY ValsAssumption DEF Word, DacWord
<1>2. /\ Chain(c0) /\ c0 # <<>> /\ c0[1] = Access("dac_send_buf", zero)
      /\ c0[Len(c0)] = down
    BY <1>1, CommandChain DEF dac_write_volt
<1>3. /\ Chain(c1) /\ c1 # <<>> /\ c1[1] = Access("dac_send_buf", one)
      /\ c1[Len(c1)] = down
    BY <1>1, CommandChain
<1>4. /\ Chain(c2) /\ c2 # <<>>
      /\ c2[1] = Access("dac_send_buf", Word("read", "ctrl", 0))
      /\ c2[Len(c2)] = Access("dac_recv_buf", "ctrl")
    BY ReadChain
<1>5. /\ sel \in Accesses /\ Follows(sel, Access("dac_send_buf", zero))
      /\ Follows(down, Access("dac_send_buf", one))
      /\ Follows(down, Access("dac_send_buf", Word("read", "ctrl", 0)))
    BY AccessTypes, AccessOrder
<1>6. dac_init = s3
    BY DEF dac_init
<1>. HIDE DEF zero, one, sel, down, c0, c1, c2, s1, s2, s3
<1>7. Chain(<<sel>>) /\ <<sel>> # <<>> /\ <<sel>>[1] = sel /\ <<sel>>[Len(<<sel>>)] = sel
    BY <1>5, Single
<1>8. Follows(<<sel>>[Len(<<sel>>)], c0[1])
    BY <1>2, <1>5, <1>7
<1>9. Chain(s1) /\ s1 # <<>> /\ s1[1] = sel /\ s1[Len(s1)] = down
    BY <1>2, <1>7, <1>8, Joined DEF s1
<1>10. Follows(s1[Len(s1)], c1[1])
    BY <1>3, <1>5, <1>9
<1>11. Chain(s2) /\ s2 # <<>> /\ s2[1] = sel /\ s2[Len(s2)] = down
    BY <1>3, <1>9, <1>10, Joined DEF s2
<1>12. Follows(s2[Len(s2)], c2[1])
    BY <1>4, <1>5, <1>11
<1>13. /\ Chain(s3) /\ s3 # <<>> /\ s3[1] = sel
       /\ s3[Len(s3)] = Access("dac_recv_buf", "ctrl")
    BY <1>4, <1>11, <1>12, Joined DEF s3
<1>. QED
    BY <1>6, <1>13 DEF sel

LEMMA SampleChain ==
    /\ Chain(adc_read) /\ adc_read # <<>>
    /\ adc_read[1] = Access("adc_arm", TRUE)
    /\ adc_read[Len(adc_read)] = Access("adc_recv_buf", 0)
<1>. DEFINE a == Access("adc_arm", TRUE)
            b == Access("adc_arm", FALSE)
            c == Access("adc_recv_buf", 0)
<1>1. a \in Accesses /\ b \in Accesses /\ c \in Accesses
    BY AccessTypes
<1>2. Follows(a, b) /\ Follows(b, c)
    BY AccessOrder
<1>3. adc_read = <<a, b>> \o <<c>>
    BY DEF adc_read, RaiseAndLower
<1>. HIDE DEF a, b, c
<1>4. /\ Chain(<<c>>) /\ <<c>> # <<>> /\ <<c>>[Len(<<c>>)] = c /\ <<c>>[1] = c
      /\ Chain(<<a, b>>) /\ <<a, b>> # <<>> /\ <<a, b>>[1] = a /\ <<a, b>>[Len(<<a, b>>)] = b
    BY <1>1, <1>2, Single, Pair
<1>5. Follows(<<a, b>>[Len(<<a, b>>)], <<c>>[1])
    BY <1>2, <1>4
<1>6. /\ Chain(adc_read) /\ adc_read # <<>>
      /\ adc_read[1] = a /\ adc_read[Len(adc_read)] = c
    BY <1>3, <1>4, <1>5, Joined
<1>. QED
    BY <1>6 DEF a, c

(* Every routine of the driver is such a sequence. *)
LEMMA CallScript ==
    ASSUME NEW s \in Calls
    PROVE  Script(s) /\ s # <<>> /\ StartsCall(Head(s))
<1>. SUFFICES Chain(s) /\ s # <<>> /\ StartsCall(s[1]) /\ EndsCall(s[Len(s)])
    BY EmptySeq DEF Script
<1>1. ASSUME NEW v \in DacVals, s = dac_write_volt(v)
      PROVE  Chain(s) /\ s # <<>> /\ StartsCall(s[1]) /\ EndsCall(s[Len(s)])
    <2>1. Word("write", "dac", v) \in DacWord
        BY DEF Word, DacWord
    <2>2. /\ Chain(s) /\ s # <<>>
          /\ s[1] = Access("dac_send_buf", Word("write", "dac", v))
          /\ s[Len(s)] = Access("dac_arm", FALSE)
        BY <1>1, <2>1, CommandChain DEF dac_write_volt
    <2>. QED
        BY <2>2 DEF StartsCall, EndsCall, Raises, Access
<1>2. CASE s = dac_read_reg("dac")
    BY <1>2, ReadChain DEF StartsCall, EndsCall, Raises, Access
<1>3. CASE s = dac_init
    BY <1>3, InitChain DEF StartsCall, EndsCall, Raises, Access
<1>4. CASE s = adc_read
    BY <1>4, SampleChain DEF StartsCall, EndsCall, Raises, Access
<1>5. ASSUME NEW a \in {Access("dac_sel", {CONTROL_LOOP}), Access("cl_run_loop_in", TRUE),
                        Access("cl_run_loop_in", FALSE)}, s = <<a>>
      PROVE  Chain(s) /\ s # <<>> /\ StartsCall(s[1]) /\ EndsCall(s[Len(s)])
    <2>1. a \in Accesses
        BY <1>5, AccessTypes
    <2>2. StartsCall(a) /\ EndsCall(a)
        BY <1>5 DEF StartsCall, EndsCall, Raises, Access
    <2>3. Chain(s) /\ s # <<>> /\ s[1] = a /\ s[Len(s)] = a
        BY <1>5, <2>1, Single
    <2>. QED
        BY <2>2, <2>3
<1>6. \/ \E v \in DacVals : s = dac_write_volt(v)
      \/ s \in {dac_read_reg("dac"), dac_init, adc_read}
      \/ \E a \in {Access("dac_sel", {CONTROL_LOOP}), Access("cl_run_loop_in", TRUE),
                   Access("cl_run_loop_in", FALSE)} : s = <<a>>
    BY DEF Calls
<1>. QED
    BY <1>1, <1>2, <1>3, <1>4, <1>5, <1>6
-----------------------------------------------------------------------------
(* What comes after an access, when the driver makes it.                   *)
LEMMA AccessMade ==
    ASSUME DriverInv, NEW reg, Perform(reg)
    PROVE  /\ Script(todo') /\ todo' # todo /\ quiet = Pace /\ quiet' = 1
           /\ todo # <<>> /\ Head(todo).reg = reg /\ Head(todo) \in Accesses
           /\ NextLowers("dac_arm")' <=> Raises(Head(todo), "dac_arm")
           /\ NextLowers("adc_arm")' <=> Raises(Head(todo), "adc_arm")
           /\ NextRaises("dac_arm")' <=> reg = "dac_send_buf"
           /\ NextIs("adc_recv_buf")' <=> Lowers(Head(todo), "adc_arm")
<1>1. /\ todo # <<>> /\ Head(todo).reg = reg /\ quiet = Pace
      /\ todo' = Tail(todo) /\ quiet' = 1
    BY DEF Perform, AboutTo
<1>2. /\ Script(todo') /\ Head(todo) \in Accesses /\ todo' # todo
      /\ todo' # <<>> => Follows(Head(todo), Head(todo'))
      /\ todo' = <<>> => EndsCall(Head(todo))
    BY <1>1, TailScript DEF DriverInv
<1>3. CASE todo' = <<>>
    BY <1>1, <1>2, <1>3
    DEF EndsCall, NextLowers, NextRaises, NextIs, Raises, Lowers
<1>4. CASE todo' # <<>>
    BY <1>1, <1>2, <1>4 DEF Follows, Arms, NextLowers, NextRaises, NextIs
<1>. QED
    BY <1>1, <1>2, <1>3, <1>4
-----------------------------------------------------------------------------
(* One cycle of a master as the pace sees it. *)
Moves(arm, p, c, p1, c1, wait) ==
    \/ /\ p = "idle"
       /\ IF arm THEN p1 = "select" /\ c1 = 1 ELSE p1 = "idle"
    \/ /\ p = "select"
       /\ IF c = wait THEN p1 = "load" ELSE p1 = "select" /\ c1 = c + 1
    \/ p = "load" /\ p1 = "shift"
    \/ p = "shift" /\ p1 \in {"shift", "settle"}
    \/ p = "settle" /\ p1 = "done"
    \/ p = "done" /\ p1 = (IF arm THEN "done" ELSE "idle")

LEMMA MmioMoves ==
    ASSUME Mmio!Step
    PROVE  /\ Moves(dac_arm, mmio_phase, mmio_count, mmio_phase', mmio_count', DAC_SS_WAIT)
           /\ mmio_phase = "select" =>
                 mmio_loaded' = (IF mmio_count = 1 THEN Asked ELSE mmio_loaded)
           /\ mmio_phase # "select" => mmio_loaded' = mmio_loaded
           /\ mmio_phase = "load" => mmio_sent' = dac_send_buf
           /\ mmio_phase # "load" => mmio_sent' = mmio_sent
           /\ mmio_phase = "shift" /\ mmio_phase' = "settle" => dac_recv_buf' = mmio_loaded
           /\ mmio_phase # "shift" => dac_recv_buf' = dac_recv_buf
BY DEF Mmio!Step, Mmio!Waiting, Mmio!Selecting, Mmio!Loading, Mmio!Shifting,
       Mmio!Complete, Mmio!Deselect, Mmio!Done, Moves, Asked

LEMMA AdcMoves ==
    ASSUME Adc!Step
    PROVE  /\ Moves(adc_arm, adc_phase, adc_count, adc_phase', adc_count', ADC_CONV_WAIT)
           /\ adc_phase = "select" =>
                 adc_loaded' = (IF adc_count = 1 THEN adc_in ELSE adc_loaded)
           /\ adc_phase # "select" => adc_loaded' = adc_loaded
           /\ adc_phase = "shift" /\ adc_phase' = "settle" => adc_recv_buf' = adc_loaded
           /\ adc_phase # "shift" => adc_recv_buf' = adc_recv_buf
BY DEF Adc!Step, Adc!Waiting, Adc!Selecting, Adc!Loading, Adc!Shifting,
       Adc!Complete, Adc!Deselect, Adc!Done, Moves

LEMMA LoopMoves ==
    ASSUME Loop!Step
    PROVE  Moves(cl_arm, cl_phase, cl_count, cl_phase', cl_count', DAC_SS_WAIT)
BY DEF Loop!Step, Loop!Waiting, Loop!Selecting, Loop!Loading, Loop!Shifting,
       Loop!Complete, Loop!Deselect, Loop!Done, Moves

(* A cycle in which arm does not change. *)
LEMMA OnTimeWaits ==
    ASSUME NEW arm \in BOOLEAN, NEW p, NEW p1, NEW c, NEW c1,
           NEW wait \in Nat \ {0},
           NEW q \in 1..Pace, NEW q1, q1 = (IF q < Pace THEN q + 1 ELSE q),
           NEW n \in 0..MaxShift, NEW n1 \in 0..MaxShift, p1 = "shift" => n1 = n + 1,
           Moves(arm, p, c, p1, c1, wait), OnTime(arm, p, c, wait, q, n)
    PROVE  OnTime(arm, p1, c1, wait, q1, n1)
<1>. Pace \in Nat /\ Pace >= 2 /\ MaxShift \in Nat
    BY ConstantFacts
<1>. q1 \in 1..Pace /\ q1 <= q + 1
    OBVIOUS
<1>. USE DEF Moves, OnTime
<1>1. CASE arm = TRUE
    BY <1>1
<1>2. CASE arm = FALSE
    BY <1>2
<1>. QED
    BY <1>1, <1>2

(* Lowering arm: the transfer has left idle.                               *)
LEMMA OnTimeLowers ==
    ASSUME NEW p, NEW p1, NEW c, NEW c1, NEW wait \in Nat \ {0},
           NEW n \in 0..MaxShift, NEW n1 \in 0..MaxShift, p1 = "shift" => n1 = n + 1,
           Moves(TRUE, p, c, p1, c1, wait), OnTime(TRUE, p, c, wait, Pace, n)
    PROVE  OnTime(FALSE, p1, c1, wait, 1, n1) /\ p # "idle" /\ p1 # "idle"
<1>. Pace \in Nat /\ Pace >= 2 /\ MaxShift \in Nat
    BY ConstantFacts
<1>. QED
    BY DEF Moves, OnTime

(* Any other access: if arm is low, the transfer is over.                  *)
LEMMA OnTimeLater ==
    ASSUME NEW p, NEW p1, NEW c, NEW c1, NEW wait \in Nat \ {0},
           2 * Pace >= wait + MaxShift + 3,
           NEW n \in 0..MaxShift, NEW n1 \in 0..MaxShift,
           Moves(FALSE, p, c, p1, c1, wait), OnTime(FALSE, p, c, wait, Pace, n)
    PROVE  /\ OnTime(FALSE, p1, c1, wait, 1, n1)
           /\ p \in {"idle", "settle", "done"} /\ AtRest(p1, 1)
<1>. Pace \in Nat /\ Pace >= 2 /\ MaxShift \in Nat
    BY ConstantFacts
<1>1. p # "select" /\ p # "load" /\ p # "shift"
    BY DEF OnTime
<1>2. p \in {"idle", "settle", "done"} /\ p1 \in {"idle", "done"}
    BY <1>1 DEF Moves
<1>. QED
    BY <1>2 DEF OnTime, AtRest

LEMMA RestWaits ==
    ASSUME NEW p, NEW p1, NEW c, NEW c1, NEW wait, NEW q, NEW q1,
           Moves(FALSE, p, c, p1, c1, wait), AtRest(p, q)
    PROVE  AtRest(p1, q1)
BY DEF Moves, AtRest
-----------------------------------------------------------------------------
(* What the driver does in a cycle, as the DAC and its master see it and   *)
(* as the ADC and its master do.                                           *)
Pauses == quiet' = (IF quiet < Pace THEN quiet + 1 ELSE quiet) /\ ~WriteSendBuf
Acts   == quiet = Pace /\ quiet' = 1

DacPauses ==
    /\ Pauses /\ UNCHANGED <<dac_sel, dac_send_buf, dac_arm>>
    /\ NextRaises("dac_arm")' <=> NextRaises("dac_arm")

DacOther ==
    /\ Acts /\ UNCHANGED <<dac_sel, dac_send_buf, dac_arm>> /\ ~WriteSendBuf
    /\ dac_arm = FALSE /\ ~NextRaises("dac_arm") /\ ~NextRaises("dac_arm")'

DacRaises ==
    /\ Acts /\ UNCHANGED <<dac_sel, dac_send_buf>> /\ ~WriteSendBuf
    /\ dac_arm = FALSE /\ dac_arm' = TRUE
    /\ NextRaises("dac_arm") /\ ~NextRaises("dac_arm")'

DacLowers ==
    /\ Acts /\ UNCHANGED <<dac_sel, dac_send_buf>> /\ ~WriteSendBuf
    /\ dac_arm = TRUE /\ dac_arm' = FALSE
    /\ ~NextRaises("dac_arm") /\ ~NextRaises("dac_arm")'

DacWrites ==
    /\ Acts /\ UNCHANGED <<dac_sel, dac_arm>> /\ WriteSendBuf
    /\ dac_arm = FALSE /\ ~NextRaises("dac_arm") /\ NextRaises("dac_arm")'

DacSelects ==
    /\ Acts /\ UNCHANGED <<dac_send_buf, dac_arm>> /\ ~WriteSendBuf
    /\ dac_arm = FALSE /\ ~NextRaises("dac_arm") /\ ~NextRaises("dac_arm")'

DacTurn ==
    DacPauses \/ DacOther \/ DacRaises \/ DacLowers \/ DacWrites \/ DacSelects

AdcPauses ==
    /\ Pauses /\ UNCHANGED <<adc_arm, adc_in>>
    /\ NextIs("adc_recv_buf")' <=> NextIs("adc_recv_buf")

AdcOther ==
    /\ Acts /\ UNCHANGED <<adc_arm, adc_in>> /\ adc_arm = FALSE
    /\ ~NextIs("adc_recv_buf")'

AdcRaises ==
    /\ Acts /\ adc_arm = FALSE /\ adc_arm' = TRUE
    /\ ~NextIs("adc_recv_buf") /\ ~NextIs("adc_recv_buf")'

AdcLowers ==
    /\ Acts /\ UNCHANGED adc_in /\ adc_arm = TRUE /\ adc_arm' = FALSE
    /\ NextIs("adc_recv_buf")'

AdcTurn == AdcPauses \/ AdcOther \/ AdcRaises \/ AdcLowers

LEMMA PauseTurn ==
    ASSUME DriverInv, Call \/ Wait
    PROVE  DriverInv' /\ DacPauses /\ AdcPauses
<1>. Pace \in Nat /\ Pace >= 2
    BY ConstantFacts
<1>1. /\ quiet' = (IF quiet < Pace THEN quiet + 1 ELSE quiet)
      /\ UNCHANGED <<registers, adc_in>>
      /\ todo' = todo \/ (todo = <<>> /\ todo' \in Calls)
    BY DEF Call, Wait
<1>2. quiet' # 1 /\ quiet' \in 1..Pace
    BY <1>1 DEF DriverInv
<1>3. ~WriteSendBuf
    BY <1>2 DEF WriteSendBuf, Perform
<1>4. /\ Script(todo')
      /\ NextLowers("dac_arm")' <=> NextLowers("dac_arm")
      /\ NextLowers("adc_arm")' <=> NextLowers("adc_arm")
      /\ NextRaises("dac_arm")' <=> NextRaises("dac_arm")
      /\ NextIs("adc_recv_buf")' <=> NextIs("adc_recv_buf")
    <2>1. CASE todo' = todo
        BY <2>1 DEF DriverInv, NextLowers, NextRaises, NextIs
    <2>2. CASE todo = <<>> /\ todo' \in Calls
        <3>1. Script(todo') /\ todo' # <<>> /\ StartsCall(Head(todo'))
            BY <2>2, CallScript
        <3>2. /\ ~Lowers(Head(todo'), "dac_arm") /\ ~Lowers(Head(todo'), "adc_arm")
              /\ ~Raises(Head(todo'), "dac_arm") /\ Head(todo').reg # "adc_recv_buf"
            BY <3>1 DEF StartsCall, Raises, Lowers
        <3>. QED
            BY <2>2, <3>1, <3>2 DEF NextLowers, NextRaises, NextIs
    <2>. QED
        BY <1>1, <2>1, <2>2
<1>5. /\ dac_arm' = dac_arm /\ adc_arm' = adc_arm /\ dac_sel' = dac_sel
      /\ dac_send_buf' = dac_send_buf /\ adc_in' = adc_in
    BY <1>1 DEF registers
<1>6. DriverInv'
    BY <1>2, <1>4, <1>5 DEF DriverInv
<1>7. Pauses
    BY <1>1, <1>3 DEF Pauses
<1>. QED
    BY <1>4, <1>5, <1>6, <1>7 DEF DacPauses, AdcPauses

LEMMA AccessTurn ==
    ASSUME DriverInv,
           WriteDacSel \/ WriteSendBuf \/ WriteDacArm \/ WriteAdcArm
              \/ WriteRunLoop \/ ReadBuffer
    PROVE  DriverInv' /\ DacTurn /\ AdcTurn
<1>. Pace \in Nat /\ Pace >= 2
    BY ConstantFacts
<1>. DEFINE a == Head(todo)
<1>1. PICK reg \in {"dac_sel", "dac_send_buf", "dac_arm", "adc_arm",
                    "cl_run_loop_in", "dac_recv_buf", "adc_recv_buf"} : Perform(reg)
    BY DEF WriteDacSel, WriteSendBuf, WriteDacArm, WriteAdcArm, WriteRunLoop, ReadBuffer
<1>2. /\ Script(todo') /\ todo' # todo /\ Acts
      /\ todo # <<>> /\ a.reg = reg /\ a \in Accesses
      /\ NextLowers("dac_arm")' <=> Raises(a, "dac_arm")
      /\ NextLowers("adc_arm")' <=> Raises(a, "adc_arm")
      /\ NextRaises("dac_arm")' <=> reg = "dac_send_buf"
      /\ NextIs("adc_recv_buf")' <=> Lowers(a, "adc_arm")
    BY <1>1, AccessMade DEF Acts
<1>3. /\ NextLowers("dac_arm") <=> Lowers(a, "dac_arm")
      /\ NextLowers("adc_arm") <=> Lowers(a, "adc_arm")
      /\ NextRaises("dac_arm") <=> Raises(a, "dac_arm")
      /\ NextIs("adc_recv_buf") <=> reg = "adc_recv_buf"
    BY <1>2 DEF NextLowers, NextRaises, NextIs
<1>4. /\ dac_arm \in BOOLEAN /\ (dac_arm <=> Lowers(a, "dac_arm"))
      /\ adc_arm \in BOOLEAN /\ (adc_arm <=> Lowers(a, "adc_arm"))
      /\ dac_sel \in {{}, {CONTROL_LOOP}}
    BY <1>3 DEF DriverInv
<1>5. ASSUME NEW r, Perform(r)
      PROVE  r = reg
    BY <1>2, <1>5 DEF Perform, AboutTo
<1>6. 1 \in 1..Pace
    OBVIOUS
<1>7. quiet' = 1
    BY <1>2 DEF Acts
<1>8. reg # "dac_send_buf" => ~WriteSendBuf
    BY <1>5 DEF WriteSendBuf
<1>. HIDE DEF a
<1>10. CASE reg = "dac_sel"
    <2>1. WriteDacSel
        BY <1>5, <1>10 DEF WriteDacSel, WriteSendBuf, WriteDacArm, WriteAdcArm, WriteRunLoop, ReadBuffer
    <2>2. ~Raises(a, "dac_arm") /\ ~Raises(a, "adc_arm") /\ ~Lowers(a, "adc_arm") /\ ~Lowers(a, "dac_arm")
        BY <1>2, <1>10 DEF Raises, Lowers
    <2>3. /\ dac_sel' = a.val
          /\ UNCHANGED <<dac_send_buf, dac_arm, adc_arm, cl_run_loop_in, adc_in>>
        BY <2>1 DEF WriteDacSel, a
    <2>4. a.val \in {{}, {CONTROL_LOOP}}
        BY <1>2, <1>10 DEF Accesses, Arms
    <2>5. DriverInv'
        BY <1>2, <1>4, <1>6, <1>7, <2>2, <2>3, <2>4 DEF DriverInv
    <2>6. DacSelects
        BY <1>2, <1>3, <1>4, <1>8, <1>10, <2>2, <2>3 DEF DacSelects
    <2>7. AdcOther
        BY <1>2, <1>4, <2>2, <2>3 DEF AdcOther
    <2>. QED
        BY <2>5, <2>6, <2>7 DEF DacTurn, AdcTurn
<1>11. CASE reg = "dac_send_buf"
    <2>1. WriteSendBuf
        BY <1>5, <1>11 DEF WriteDacSel, WriteSendBuf, WriteDacArm, WriteAdcArm, WriteRunLoop, ReadBuffer
    <2>2. ~Raises(a, "dac_arm") /\ ~Raises(a, "adc_arm") /\ ~Lowers(a, "adc_arm") /\ ~Lowers(a, "dac_arm")
        BY <1>2, <1>11 DEF Raises, Lowers
    <2>3. UNCHANGED <<dac_sel, dac_arm, adc_arm, cl_run_loop_in, adc_in>>
        BY <2>1 DEF WriteSendBuf
    <2>5. DriverInv'
        BY <1>2, <1>4, <1>6, <1>7, <2>2, <2>3 DEF DriverInv
    <2>6. DacWrites
        BY <1>2, <1>3, <1>4, <1>11, <2>1, <2>2, <2>3 DEF DacWrites
    <2>7. AdcOther
        BY <1>2, <1>4, <2>2, <2>3 DEF AdcOther
    <2>. QED
        BY <2>5, <2>6, <2>7 DEF DacTurn, AdcTurn
<1>12. CASE reg = "dac_arm"
    <2>1. WriteDacArm
        BY <1>5, <1>12 DEF WriteDacSel, WriteSendBuf, WriteDacArm, WriteAdcArm, WriteRunLoop, ReadBuffer
    <2>2. /\ dac_arm' = a.val
          /\ UNCHANGED <<dac_sel, dac_send_buf, adc_arm, cl_run_loop_in, adc_in>>
        BY <2>1 DEF WriteDacArm, a
    <2>3. a.val \in BOOLEAN
        BY <1>2, <1>12 DEF Accesses, Arms
    <2>4. ~Raises(a, "adc_arm") /\ ~Lowers(a, "adc_arm")
        BY <1>2, <1>12 DEF Raises, Lowers
    <2>5. AdcOther
        BY <1>2, <1>4, <2>2, <2>4 DEF AdcOther
    <2>6. CASE a.val = TRUE
        <3>1. Raises(a, "dac_arm") /\ ~Lowers(a, "dac_arm")
            BY <1>2, <1>12, <2>6 DEF Raises, Lowers
        <3>2. DriverInv'
            BY <1>2, <1>4, <1>6, <1>7, <2>2, <2>4, <2>6, <3>1 DEF DriverInv
        <3>3. DacRaises
            BY <1>2, <1>3, <1>4, <1>8, <1>12, <2>2, <2>6, <3>1 DEF DacRaises
        <3>. QED
            BY <2>5, <3>2, <3>3 DEF DacTurn, AdcTurn
    <2>7. CASE a.val = FALSE
        <3>1. ~Raises(a, "dac_arm") /\ Lowers(a, "dac_arm")
            BY <1>2, <1>12, <2>7 DEF Raises, Lowers
        <3>2. DriverInv'
            BY <1>2, <1>4, <1>6, <1>7, <2>2, <2>4, <2>7, <3>1 DEF DriverInv
        <3>3. DacLowers
            BY <1>2, <1>3, <1>4, <1>8, <1>12, <2>2, <2>7, <3>1 DEF DacLowers
        <3>. QED
            BY <2>5, <3>2, <3>3 DEF DacTurn, AdcTurn
    <2>. QED
        BY <2>3, <2>6, <2>7
<1>13. CASE reg = "adc_arm"
    <2>1. WriteAdcArm
        BY <1>5, <1>13 DEF WriteDacSel, WriteSendBuf, WriteDacArm, WriteAdcArm, WriteRunLoop, ReadBuffer
    <2>2. /\ adc_arm' = a.val
          /\ adc_in' = (IF adc_arm' THEN 1 - adc_in ELSE adc_in)
          /\ UNCHANGED <<dac_sel, dac_send_buf, dac_arm, cl_run_loop_in>>
        BY <2>1 DEF WriteAdcArm, a
    <2>3. a.val \in BOOLEAN
        BY <1>2, <1>13 DEF Accesses, Arms
    <2>4. ~Raises(a, "dac_arm") /\ ~Lowers(a, "dac_arm")
        BY <1>2, <1>13 DEF Raises, Lowers
    <2>5. DacOther
        BY <1>2, <1>3, <1>4, <1>8, <1>13, <2>2, <2>4 DEF DacOther
    <2>6. CASE a.val = TRUE
        <3>1. Raises(a, "adc_arm") /\ ~Lowers(a, "adc_arm")
            BY <1>2, <1>13, <2>6 DEF Raises, Lowers
        <3>2. DriverInv'
            BY <1>2, <1>4, <1>6, <1>7, <2>2, <2>4, <2>6, <3>1 DEF DriverInv
        <3>3. AdcRaises
            BY <1>2, <1>3, <1>4, <1>13, <2>2, <2>6, <3>1 DEF AdcRaises
        <3>. QED
            BY <2>5, <3>2, <3>3 DEF DacTurn, AdcTurn
    <2>7. CASE a.val = FALSE
        <3>1. ~Raises(a, "adc_arm") /\ Lowers(a, "adc_arm")
            BY <1>2, <1>13, <2>7 DEF Raises, Lowers
        <3>2. DriverInv'
            BY <1>2, <1>4, <1>6, <1>7, <2>2, <2>4, <2>7, <3>1 DEF DriverInv
        <3>3. AdcLowers
            BY <1>2, <1>4, <2>2, <2>7, <3>1 DEF AdcLowers
        <3>. QED
            BY <2>5, <3>2, <3>3 DEF DacTurn, AdcTurn
    <2>. QED
        BY <2>3, <2>6, <2>7
<1>14. CASE reg \in {"cl_run_loop_in", "dac_recv_buf", "adc_recv_buf"}
    <2>1. UNCHANGED <<dac_sel, dac_send_buf, dac_arm, adc_arm, adc_in>>
        BY <1>5, <1>14 DEF WriteDacSel, WriteSendBuf, WriteDacArm, WriteAdcArm, WriteRunLoop,
                           ReadBuffer, registers
    <2>2. ~Raises(a, "dac_arm") /\ ~Raises(a, "adc_arm") /\ ~Lowers(a, "adc_arm") /\ ~Lowers(a, "dac_arm")
        BY <1>2, <1>14 DEF Raises, Lowers
    <2>3. DriverInv'
        BY <1>2, <1>4, <1>6, <1>7, <2>1, <2>2 DEF DriverInv
    <2>4. DacOther
        BY <1>2, <1>3, <1>4, <1>8, <1>14, <2>1, <2>2 DEF DacOther
    <2>5. AdcOther
        BY <1>2, <1>4, <2>1, <2>2 DEF AdcOther
    <2>. QED
        BY <2>3, <2>4, <2>5 DEF DacTurn, AdcTurn
<1>. QED
    BY <1>10, <1>11, <1>12, <1>13, <1>14

LEMMA DriverTurn ==
    ASSUME DriverInv, Driver
    PROVE  DriverInv' /\ DacTurn /\ AdcTurn
BY PauseTurn, AccessTurn DEF Driver, DacTurn, AdcTurn
-----------------------------------------------------------------------------
LEMMA DacTiming ==
    ASSUME DriverInv, TimingInv, DacTurn, Mmio!Step,
           shifted' \in 0..MaxShift, mmio_phase' = "shift" => shifted' = shifted + 1
    PROVE  /\ OnTime(dac_arm', mmio_phase', mmio_count', DAC_SS_WAIT, quiet', shifted')
           /\ NextRaises("dac_arm")' => AtRest(mmio_phase', quiet')
           /\ DacRaises => mmio_phase = "idle" /\ mmio_phase' = "idle"
           /\ DacLowers => mmio_phase # "idle" /\ mmio_phase' # "idle"
           /\ DacOther \/ DacWrites \/ DacSelects =>
                 mmio_phase \in {"idle", "settle", "done"} /\ mmio_phase' \in {"idle", "done"}
<1>. /\ DAC_SS_WAIT \in Nat \ {0} /\ Pace \in Nat /\ MaxShift \in Nat
     /\ 2 * Pace >= DAC_SS_WAIT + MaxShift + 3
    BY ConstantFacts
<1>1. Moves(dac_arm, mmio_phase, mmio_count, mmio_phase', mmio_count', DAC_SS_WAIT)
    BY MmioMoves
<1>2. /\ OnTime(dac_arm, mmio_phase, mmio_count, DAC_SS_WAIT, quiet, shifted)
      /\ NextRaises("dac_arm") => AtRest(mmio_phase, quiet)
      /\ shifted \in 0..MaxShift /\ quiet \in 1..Pace /\ dac_arm \in BOOLEAN
    BY DEF TimingInv, DriverInv
<1>3. CASE DacPauses
    <2>1. OnTime(dac_arm', mmio_phase', mmio_count', DAC_SS_WAIT, quiet', shifted')
        <3>1. dac_arm' = dac_arm /\ quiet' = (IF quiet < Pace THEN quiet + 1 ELSE quiet)
            BY <1>3 DEF DacPauses, Pauses
        <3>2. OnTime(dac_arm, mmio_phase', mmio_count', DAC_SS_WAIT, quiet', shifted')
            BY <1>1, <1>2, <3>1, OnTimeWaits
        <3>. QED
            BY <3>1, <3>2
    <2>2. ASSUME NextRaises("dac_arm")'
          PROVE  AtRest(mmio_phase', quiet')
        <3>1. NextRaises("dac_arm")
            BY <1>3, <2>2 DEF DacPauses
        <3>2. dac_arm = FALSE
            BY <3>1 DEF DriverInv, NextRaises, NextLowers, Raises, Lowers
        <3>. QED
            BY <1>1, <1>2, <3>1, <3>2, RestWaits
    <2>3. dac_arm' = dac_arm /\ ~WriteSendBuf /\ (NextRaises("dac_arm")' <=> NextRaises("dac_arm"))
        BY <1>3 DEF DacPauses, Pauses
    <2>4. quiet' # 1
        BY <1>2, <1>3, ConstantFacts DEF DacPauses, Pauses
    <2>. QED
        BY <2>1, <2>2, <2>4 DEF DacOther, DacRaises, DacLowers, DacWrites, DacSelects, Acts
<1>4. CASE DacOther \/ DacWrites \/ DacSelects
    <2>1. dac_arm = FALSE /\ dac_arm' = FALSE /\ quiet = Pace /\ quiet' = 1
        BY <1>4 DEF DacOther, DacWrites, DacSelects, Acts
    <2>2. /\ Moves(FALSE, mmio_phase, mmio_count, mmio_phase', mmio_count', DAC_SS_WAIT)
          /\ OnTime(FALSE, mmio_phase, mmio_count, DAC_SS_WAIT, Pace, shifted)
        BY <1>1, <1>2, <2>1
    <2>3. /\ OnTime(FALSE, mmio_phase', mmio_count', DAC_SS_WAIT, 1, shifted')
          /\ mmio_phase \in {"idle", "settle", "done"} /\ AtRest(mmio_phase', 1)
        BY <1>2, <2>2, OnTimeLater
    <2>4. ~DacRaises /\ ~DacLowers
        BY <2>1 DEF DacRaises, DacLowers
    <2>5. mmio_phase' \in {"idle", "done"}
        BY <2>3 DEF AtRest
    <2>. QED
        BY <2>1, <2>3, <2>4, <2>5
<1>5. CASE DacRaises
    <2>1. /\ dac_arm = FALSE /\ dac_arm' = TRUE /\ quiet = Pace /\ quiet' = 1
          /\ NextRaises("dac_arm") /\ ~NextRaises("dac_arm")'
        BY <1>5 DEF DacRaises, Acts
    <2>2. /\ Moves(FALSE, mmio_phase, mmio_count, mmio_phase', mmio_count', DAC_SS_WAIT)
          /\ AtRest(mmio_phase, Pace)
        BY <1>1, <1>2, <2>1
    <2>3. /\ OnTime(TRUE, mmio_phase', mmio_count', DAC_SS_WAIT, 1, shifted')
          /\ mmio_phase = "idle" /\ mmio_phase' = "idle"
        <3>1. mmio_phase = "idle"
            BY <2>2, ConstantFacts DEF AtRest
        <3>2. mmio_phase' = "idle"
            BY <2>2, <3>1 DEF Moves
        <3>. QED
            BY <3>1, <3>2, ConstantFacts DEF OnTime
    <2>4. ~DacLowers
        BY <2>1 DEF DacLowers
    <2>. QED
        BY <2>1, <2>3, <2>4
<1>6. CASE DacLowers
    <2>1. /\ dac_arm = TRUE /\ dac_arm' = FALSE /\ quiet = Pace /\ quiet' = 1
          /\ ~NextRaises("dac_arm")'
        BY <1>6 DEF DacLowers, Acts
    <2>2. /\ Moves(TRUE, mmio_phase, mmio_count, mmio_phase', mmio_count', DAC_SS_WAIT)
          /\ OnTime(TRUE, mmio_phase, mmio_count, DAC_SS_WAIT, Pace, shifted)
        BY <1>1, <1>2, <2>1
    <2>3. /\ OnTime(FALSE, mmio_phase', mmio_count', DAC_SS_WAIT, 1, shifted')
          /\ mmio_phase # "idle" /\ mmio_phase' # "idle"
        BY <1>2, <2>2, OnTimeLowers
    <2>4. ~DacRaises /\ ~DacOther /\ ~DacWrites /\ ~DacSelects
        BY <2>1 DEF DacRaises, DacOther, DacWrites, DacSelects
    <2>. QED
        BY <2>1, <2>3, <2>4
<1>. QED
    BY <1>3, <1>4, <1>5, <1>6 DEF DacTurn

LEMMA AdcTiming ==
    ASSUME DriverInv, TimingInv, AdcTurn, Adc!Step,
           shifted' \in 0..MaxShift, adc_phase' = "shift" => shifted' = shifted + 1
    PROVE  /\ OnTime(adc_arm', adc_phase', adc_count', ADC_CONV_WAIT, quiet', shifted')
           /\ ~adc_arm' /\ ~NextIs("adc_recv_buf")' => AtRest(adc_phase', quiet')
           /\ AdcRaises => adc_phase = "idle" /\ adc_phase' = "idle"
           /\ AdcLowers => adc_phase # "idle" /\ adc_phase' # "idle"
<1>. /\ ADC_CONV_WAIT \in Nat \ {0} /\ Pace \in Nat /\ MaxShift \in Nat
     /\ 2 * Pace >= ADC_CONV_WAIT + MaxShift + 3
    BY ConstantFacts
<1>1. Moves(adc_arm, adc_phase, adc_count, adc_phase', adc_count', ADC_CONV_WAIT)
    BY AdcMoves
<1>2. /\ OnTime(adc_arm, adc_phase, adc_count, ADC_CONV_WAIT, quiet, shifted)
      /\ ~adc_arm /\ ~NextIs("adc_recv_buf") => AtRest(adc_phase, quiet)
      /\ shifted \in 0..MaxShift /\ quiet \in 1..Pace /\ adc_arm \in BOOLEAN
    BY DEF TimingInv, DriverInv
<1>3. CASE AdcPauses
    <2>1. adc_arm' = adc_arm /\ quiet' = (IF quiet < Pace THEN quiet + 1 ELSE quiet)
        BY <1>3 DEF AdcPauses, Pauses
    <2>2. OnTime(adc_arm, adc_phase', adc_count', ADC_CONV_WAIT, quiet', shifted')
        BY <1>1, <1>2, <2>1, OnTimeWaits
    <2>3. ASSUME ~adc_arm', ~NextIs("adc_recv_buf")'
          PROVE  AtRest(adc_phase', quiet')
        <3>1. ~NextIs("adc_recv_buf") /\ adc_arm = FALSE
            BY <1>2, <1>3, <2>3, <2>1 DEF AdcPauses
        <3>. QED
            BY <1>1, <1>2, <3>1, RestWaits
    <2>4. quiet' # 1
        BY <1>2, <2>1, ConstantFacts
    <2>. QED
        BY <2>1, <2>2, <2>3, <2>4 DEF AdcRaises, AdcLowers, Acts
<1>4. CASE AdcOther
    <2>1. adc_arm = FALSE /\ adc_arm' = FALSE /\ quiet = Pace /\ quiet' = 1
        BY <1>4 DEF AdcOther, Acts
    <2>2. /\ Moves(FALSE, adc_phase, adc_count, adc_phase', adc_count', ADC_CONV_WAIT)
          /\ OnTime(FALSE, adc_phase, adc_count, ADC_CONV_WAIT, Pace, shifted)
        BY <1>1, <1>2, <2>1
    <2>3. /\ OnTime(FALSE, adc_phase', adc_count', ADC_CONV_WAIT, 1, shifted')
          /\ AtRest(adc_phase', 1)
        BY <1>2, <2>2, OnTimeLater
    <2>4. ~AdcRaises /\ ~AdcLowers
        BY <2>1 DEF AdcRaises, AdcLowers
    <2>. QED
        BY <2>1, <2>3, <2>4
<1>5. CASE AdcRaises
    <2>1. /\ adc_arm = FALSE /\ adc_arm' = TRUE /\ quiet = Pace /\ quiet' = 1
          /\ ~NextIs("adc_recv_buf")
        BY <1>5 DEF AdcRaises, Acts
    <2>2. /\ Moves(FALSE, adc_phase, adc_count, adc_phase', adc_count', ADC_CONV_WAIT)
          /\ AtRest(adc_phase, Pace)
        BY <1>1, <1>2, <2>1
    <2>3. /\ OnTime(TRUE, adc_phase', adc_count', ADC_CONV_WAIT, 1, shifted')
          /\ adc_phase = "idle" /\ adc_phase' = "idle"
        <3>1. adc_phase = "idle"
            BY <2>2, ConstantFacts DEF AtRest
        <3>2. adc_phase' = "idle"
            BY <2>2, <3>1 DEF Moves
        <3>. QED
            BY <3>1, <3>2, ConstantFacts DEF OnTime
    <2>4. ~AdcLowers
        BY <2>1 DEF AdcLowers
    <2>. QED
        BY <2>1, <2>3, <2>4
<1>6. CASE AdcLowers
    <2>1. /\ adc_arm = TRUE /\ adc_arm' = FALSE /\ quiet = Pace /\ quiet' = 1
          /\ NextIs("adc_recv_buf")'
        BY <1>6 DEF AdcLowers, Acts
    <2>2. /\ Moves(TRUE, adc_phase, adc_count, adc_phase', adc_count', ADC_CONV_WAIT)
          /\ OnTime(TRUE, adc_phase, adc_count, ADC_CONV_WAIT, Pace, shifted)
        BY <1>1, <1>2, <2>1
    <2>3. /\ OnTime(FALSE, adc_phase', adc_count', ADC_CONV_WAIT, 1, shifted')
          /\ adc_phase # "idle" /\ adc_phase' # "idle"
        BY <1>2, <2>2, OnTimeLowers
    <2>4. ~AdcRaises
        BY <2>1 DEF AdcRaises
    <2>. QED
        BY <2>1, <2>3, <2>4
<1>. QED
    BY <1>3, <1>4, <1>5, <1>6 DEF AdcTurn
-----------------------------------------------------------------------------
LEMMA NextTiming ==
    ASSUME DriverInv, TimingInv, Next
    PROVE  TimingInv'
<1>1. shifted' \in 0..MaxShift /\ ("shift" \in {mmio_phase', adc_phase'} => shifted' = shifted + 1)
    BY ConstantFacts DEF Next, Masters, TimingInv
<1>2. DacTurn /\ AdcTurn
    BY DriverTurn DEF Next
<1>3. Mmio!Step /\ Adc!Step
    BY DEF Next, Masters
<1>4. /\ OnTime(dac_arm', mmio_phase', mmio_count', DAC_SS_WAIT, quiet', shifted')
      /\ NextRaises("dac_arm")' => AtRest(mmio_phase', quiet')
    BY <1>1, <1>2, <1>3, DacTiming
<1>5. /\ OnTime(adc_arm', adc_phase', adc_count', ADC_CONV_WAIT, quiet', shifted')
      /\ ~adc_arm' /\ ~NextIs("adc_recv_buf")' => AtRest(adc_phase', quiet')
    BY <1>1, <1>2, <1>3, AdcTiming
<1>6. OnTime(dac_arm, mmio_phase, mmio_count, DAC_SS_WAIT, quiet, shifted)'
    BY <1>4 DEF OnTime
<1>7. OnTime(adc_arm, adc_phase, adc_count, ADC_CONV_WAIT, quiet, shifted)'
    BY <1>5 DEF OnTime
<1>8. AtRest(mmio_phase, quiet)' <=> AtRest(mmio_phase', quiet')
    BY DEF AtRest
<1>9. AtRest(adc_phase, quiet)' <=> AtRest(adc_phase', quiet')
    BY DEF AtRest
<1>. QED
    BY <1>1, <1>4, <1>5, <1>6, <1>7, <1>8, <1>9 DEF TimingInv

LEMMA NextPhases ==
    ASSUME Next
    PROVE  PhaseInv'
BY MmioMoves, AdcMoves, LoopMoves DEF Next, Masters, Moves, PhaseInv, Phases
-----------------------------------------------------------------------------
(* The wires change hands when neither master has a frame.                 *)
LEMMA Ports ==
    ASSUME DriverInv
    PROVE  /\ port \in {MMIO, CONTROL_LOOP} /\ (port = MMIO <=> dac_sel = {})
           /\ wirePhase = IF dac_sel = {} THEN mmio_phase ELSE cl_phase
<1>1. CASE dac_sel = {}
    BY <1>1 DEF port, spi_switch, wirePhase, Phase, MMIO, CONTROL_LOOP
<1>2. CASE dac_sel = {CONTROL_LOOP}
    BY <1>2 DEF port, spi_switch, wirePhase, Phase, MMIO, CONTROL_LOOP
<1>. QED
    BY <1>1, <1>2 DEF DriverInv

LEMMA PortsNext ==
    ASSUME DriverInv'
    PROVE  /\ port' \in {MMIO, CONTROL_LOOP} /\ (port' = MMIO <=> dac_sel' = {})
           /\ wirePhase' = IF dac_sel' = {} THEN mmio_phase' ELSE cl_phase'
<1>1. CASE dac_sel' = {}
    BY <1>1 DEF port, spi_switch, wirePhase, Phase, MMIO, CONTROL_LOOP
<1>2. CASE dac_sel' = {CONTROL_LOOP}
    BY <1>2 DEF port, spi_switch, wirePhase, Phase, MMIO, CONTROL_LOOP
<1>. QED
    BY <1>1, <1>2 DEF DriverInv

-----------------------------------------------------------------------------
(* What a step of the whole does for the DAC's master.                     *)
LEMMA DacPlaces ==
    ASSUME BaseInv, Next
    PROVE  /\ DacTurn
           /\ Moves(dac_arm, mmio_phase, mmio_count, mmio_phase', mmio_count', DAC_SS_WAIT)
           /\ DacRaises => mmio_phase = "idle" /\ mmio_phase' = "idle"
           /\ DacLowers => mmio_phase # "idle" /\ mmio_phase' # "idle"
           /\ DacOther \/ DacWrites \/ DacSelects =>
                 mmio_phase \in {"idle", "settle", "done"} /\ mmio_phase' \in {"idle", "done"}
<1>1. DriverInv /\ TimingInv /\ DacTurn /\ Mmio!Step
    BY DriverTurn DEF BaseInv, Next, Masters
<1>2. shifted' \in 0..MaxShift /\ (mmio_phase' = "shift" => shifted' = shifted + 1)
    BY ConstantFacts DEF Next, Masters, TimingInv, BaseInv
<1>. QED
    BY <1>1, <1>2, DacTiming, MmioMoves

LEMMA AdcPlaces ==
    ASSUME BaseInv, Next
    PROVE  /\ AdcTurn
           /\ Moves(adc_arm, adc_phase, adc_count, adc_phase', adc_count', ADC_CONV_WAIT)
           /\ AdcRaises => adc_phase = "idle" /\ adc_phase' = "idle"
           /\ AdcLowers => adc_phase # "idle" /\ adc_phase' # "idle"
<1>1. DriverInv /\ TimingInv /\ AdcTurn /\ Adc!Step
    BY DriverTurn DEF BaseInv, Next, Masters
<1>2. shifted' \in 0..MaxShift /\ (adc_phase' = "shift" => shifted' = shifted + 1)
    BY ConstantFacts DEF Next, Masters, TimingInv, BaseInv
<1>. QED
    BY <1>1, <1>2, AdcTiming, AdcMoves
-----------------------------------------------------------------------------
(* While the driver changes the wires the MMIO registers' master is at     *)
(* rest; otherwise they stay, and with them the frame.                     *)
LEMMA NextFrame ==
    ASSUME BaseInv, DriverInv', Next
    PROVE  FrameInv' /\ ~Cut(MMIO)
<1>1. /\ port \in {0, 1} /\ port' \in {0, 1}
      /\ port = 0 <=> dac_sel = {}
      /\ port' = 0 <=> dac_sel' = {}
      /\ wirePhase = IF port = 0 THEN mmio_phase ELSE cl_phase
      /\ wirePhase' = IF port' = 0 THEN mmio_phase' ELSE cl_phase'
      /\ dac_sel' = dac_sel => port' = port
    <2>1. dac_sel' = dac_sel => port' = port
        BY DEF port
    <2>. QED
        BY <2>1, Ports, PortsNext DEF BaseInv, MMIO, CONTROL_LOOP
<1>2. Moves(dac_arm, mmio_phase, mmio_count, mmio_phase', mmio_count', DAC_SS_WAIT)
    BY MmioMoves DEF Next, Masters
<1>3. /\ framing \in {-1, -2, 0, 1}
      /\ framing = 0 <=> port = 0 /\ Selecting(mmio_phase)
    BY <1>1 DEF BaseInv, FrameInv, NoFrame, Broken, MMIO, CONTROL_LOOP
<1>4. framing' = IF framing # -1 /\ Selecting(wirePhase) /\ wirePhase # "settle"
                 THEN IF port' = framing THEN framing ELSE -2
                 ELSE IF ~Selecting(wirePhase') THEN -1
                 ELSE IF wirePhase' = "select" THEN port'
                 ELSE -2
    BY DEF Next, DacStep, WatchWires, Ending, NoFrame, Broken
<1>5. SUFFICES /\ framing' \in {-1, -2, 0, 1}
               /\ framing' = 0 <=> port' = 0 /\ Selecting(mmio_phase')
               /\ framing = 0 => framing' # -2
    BY <1>1 DEF FrameInv, Cut, NoFrame, Broken, MMIO, CONTROL_LOOP
<1>6. framing' \in {-1, -2, 0, 1}
    BY <1>1, <1>3, <1>4
<1>. HIDE DEF port, wirePhase
<1>7. CASE port' = port /\ port = 0
    <2>1. CASE mmio_phase \in {"idle", "done"}
        <3>1. framing # 0 /\ ~Selecting(wirePhase)
            BY <1>1, <1>3, <1>7, <2>1 DEF Selecting
        <3>2. mmio_phase' \in {"idle", "done", "select"}
            BY <1>2, <2>1 DEF Moves
        <3>. QED
            BY <1>1, <1>4, <1>6, <1>7, <3>1, <3>2 DEF Selecting
    <2>2. CASE mmio_phase \in {"select", "load", "shift"}
        <3>1. framing = 0 /\ Selecting(wirePhase) /\ wirePhase # "settle"
            BY <1>1, <1>3, <1>7, <2>2 DEF Selecting
        <3>2. Selecting(mmio_phase')
            BY <1>2, <2>2 DEF Moves, Selecting
        <3>3. framing' = 0
            BY <1>4, <1>7, <3>1
        <3>. QED
            BY <1>7, <3>2, <3>3
    <2>3. CASE mmio_phase = "settle"
        <3>1. mmio_phase' = "done"
            BY <1>2, <2>3 DEF Moves
        <3>2. wirePhase = "settle" /\ ~Selecting(wirePhase')
            BY <1>1, <1>7, <2>3, <3>1 DEF Selecting
        <3>. QED
            BY <1>1, <1>4, <1>7, <3>1, <3>2 DEF Selecting
    <2>. QED
        BY <1>2, <2>1, <2>2, <2>3 DEF Moves
<1>8. CASE port' = port /\ port # 0
    BY <1>1, <1>3, <1>4, <1>6, <1>8
<1>9. CASE port' # port
    <2>1. DacSelects
        <3>1. DacTurn
            BY DriverTurn DEF Next, BaseInv
        <3>. QED
            BY <1>1, <1>9, <3>1 DEF DacTurn, DacPauses, DacOther, DacRaises, DacLowers, DacWrites
    <2>2. mmio_phase \in {"idle", "done"} /\ mmio_phase' \in {"idle", "done"}
        <3>1. mmio_phase \in {"idle", "settle", "done"}
            BY <2>1, DacPlaces
        <3>2. mmio_phase # "settle"
            BY <2>1, ConstantFacts DEF DacSelects, Acts, BaseInv, TimingInv, OnTime
        <3>3. mmio_phase' \in {"idle", "done"}
            BY <2>1, DacPlaces
        <3>. QED
            BY <3>1, <3>2, <3>3
    <2>3. ~Selecting(mmio_phase) /\ ~Selecting(mmio_phase') /\ framing # 0
        BY <1>3, <2>2 DEF Selecting
    <2>4. framing' # 0
        <3>1. CASE framing # -1 /\ Selecting(wirePhase) /\ wirePhase # "settle"
            BY <1>4, <2>3, <3>1
        <3>2. CASE ~(framing # -1 /\ Selecting(wirePhase) /\ wirePhase # "settle")
            <4>1. wirePhase' = "select" => port' # 0
                BY <1>1, <2>2
            <4>. QED
                BY <1>4, <3>2, <4>1
        <3>. QED
            BY <3>1, <3>2
    <2>. QED
        BY <1>6, <2>3, <2>4
<1>. QED
    BY <1>7, <1>8, <1>9

(* The DAC's answer stays from the raising of arm until it is taken.       *)
LEMMA NextAnswer ==
    ASSUME BaseInv, DriverInv', Next
    PROVE  AnswerInv'
<1>1. /\ DacTurn
      /\ Moves(dac_arm, mmio_phase, mmio_count, mmio_phase', mmio_count', DAC_SS_WAIT)
      /\ DacRaises => mmio_phase = "idle" /\ mmio_phase' = "idle"
      /\ DacLowers => mmio_phase # "idle" /\ mmio_phase' # "idle"
      /\ DacOther \/ DacWrites \/ DacSelects => mmio_phase' \in {"idle", "done"}
    BY DacPlaces
<1>2. Mmio!Step
    BY DEF Next, Masters
<1>3. dac_arm \in BOOLEAN /\ dac_arm' \in BOOLEAN
    BY DEF BaseInv, DriverInv
<1>4. mmio_phase = "select" => mmio_count \in 1..DAC_SS_WAIT
    BY DEF BaseInv, TimingInv, OnTime
<1>5. expect' = IF ~(dac_arm' /\ ~dac_arm) THEN expect ELSE Asked
    BY DEF Next, Record, Asked
<1>6. DacRaises <=> dac_arm = FALSE /\ dac_arm' = TRUE
    BY <1>1, <1>3 DEF DacTurn, DacPauses, DacOther, DacRaises, DacLowers, DacWrites, DacSelects
<1>7. ~DacRaises => expect' = expect
    BY <1>3, <1>5, <1>6
<1>8. dac_sel' = dac_sel /\ mmio_phase # "settle" => Asked' = Asked
    <2>1. ASSUME dac_sel' = dac_sel, mmio_phase # "settle", dac_sel = {}
          PROVE  dac_answer' = dac_answer
        <3>1. wirePhase = mmio_phase /\ wirePhase' = mmio_phase'
            BY <2>1, Ports, PortsNext DEF BaseInv
        <3>2. ~Released
            BY <1>1, <2>1, <3>1 DEF Moves, Released, Selecting
        <3>. QED
            BY <3>2 DEF Next, DacStep, device
    <2>. QED
        BY <2>1 DEF Asked
<1>9. DacRaises \/ dac_arm = TRUE => dac_sel' = dac_sel
    BY <1>1 DEF DacTurn, DacPauses, DacOther, DacRaises, DacLowers, DacWrites, DacSelects
<1>10. /\ \/ mmio_phase = "idle" /\ dac_arm
          \/ mmio_phase = "select" /\ mmio_count = 1
          => expect = Asked
       /\ \/ mmio_phase = "select" /\ mmio_count # 1
          \/ mmio_phase \in {"load", "shift"}
          => mmio_loaded = expect
       /\ \/ mmio_phase = "idle" /\ ~dac_arm
          \/ mmio_phase \in {"settle", "done"}
          => dac_recv_buf = expect
    BY DEF BaseInv, AnswerInv
<1>20. CASE mmio_phase = "idle"
    <2>2. CASE DacRaises
        BY <1>1, <1>5, <1>6, <1>8, <1>9, <1>20, <2>2 DEF AnswerInv
    <2>3. CASE ~DacRaises /\ dac_arm = TRUE
        <3>1. mmio_phase' = "select" /\ mmio_count' = 1
            BY <1>1, <1>20, <2>3 DEF Moves
        <3>2. expect' = Asked'
            BY <1>7, <1>8, <1>9, <1>10, <1>20, <2>3
        <3>. QED
            BY <3>1, <3>2 DEF AnswerInv
    <2>4. CASE ~DacRaises /\ dac_arm = FALSE
        <3>1. mmio_phase' = "idle" /\ dac_arm' = FALSE
            BY <1>1, <1>3, <1>6, <1>20, <2>4 DEF Moves
        <3>2. dac_recv_buf' = expect'
            BY <1>2, <1>7, <1>10, <1>20, <2>4, MmioMoves
        <3>. QED
            BY <3>1, <3>2 DEF AnswerInv
    <2>. QED
        BY <1>3, <2>2, <2>3, <2>4
<1>21. CASE mmio_phase = "select" /\ mmio_count = 1
    <2>1. expect' = Asked /\ mmio_loaded' = Asked
        BY <1>1, <1>2, <1>7, <1>10, <1>21, MmioMoves
    <2>2. mmio_phase' = "load" \/ (mmio_phase' = "select" /\ mmio_count' # 1)
        BY <1>1, <1>21 DEF Moves
    <2>. QED
        BY <2>1, <2>2 DEF AnswerInv
<1>22. CASE mmio_phase = "select" /\ mmio_count # 1
    <2>1. expect' = expect /\ mmio_loaded' = expect
        BY <1>1, <1>2, <1>7, <1>10, <1>22, MmioMoves
    <2>2. mmio_phase' = "load" \/ (mmio_phase' = "select" /\ mmio_count' # 1)
        BY <1>1, <1>4, <1>22, ConstantFacts DEF Moves
    <2>. QED
        BY <2>1, <2>2 DEF AnswerInv
<1>23. CASE mmio_phase \in {"load", "shift"}
    <2>1. expect' = expect /\ mmio_loaded' = expect
        BY <1>1, <1>2, <1>7, <1>10, <1>23, MmioMoves
    <2>2. mmio_phase' = "shift" \/ (mmio_phase' = "settle" /\ dac_recv_buf' = mmio_loaded)
        BY <1>1, <1>2, <1>23, MmioMoves DEF Moves
    <2>. QED
        BY <1>10, <1>23, <2>1, <2>2 DEF AnswerInv
<1>24. CASE mmio_phase \in {"settle", "done"}
    <2>1. expect' = expect /\ dac_recv_buf' = expect
        BY <1>1, <1>2, <1>7, <1>10, <1>24, MmioMoves
    <2>2. mmio_phase' = "done" \/ (mmio_phase' = "idle" /\ dac_arm' = FALSE)
        BY <1>1, <1>3, <1>6, <1>24 DEF Moves
    <2>. QED
        BY <2>1, <2>2 DEF AnswerInv
<1>. QED
    BY <1>1, <1>20, <1>21, <1>22, <1>23, <1>24 DEF Moves

LEMMA NextSample ==
    ASSUME BaseInv, Next
    PROVE  SampleInv'
<1>1. /\ AdcTurn
      /\ Moves(adc_arm, adc_phase, adc_count, adc_phase', adc_count', ADC_CONV_WAIT)
      /\ AdcRaises => adc_phase = "idle" /\ adc_phase' = "idle"
      /\ AdcLowers => adc_phase # "idle" /\ adc_phase' # "idle"
    BY AdcPlaces
<1>2. Adc!Step
    BY DEF Next, Masters
<1>3. /\ ~AdcRaises => adc_in' = adc_in
      /\ AdcRaises \/ AdcOther => ~NextIs("adc_recv_buf")'
      /\ AdcPauses => (NextIs("adc_recv_buf")' <=> NextIs("adc_recv_buf"))
    BY <1>1 DEF AdcTurn, AdcPauses, AdcOther, AdcRaises, AdcLowers
<1>4. adc_phase = "select" => adc_count \in 1..ADC_CONV_WAIT
    BY DEF BaseInv, TimingInv, OnTime
<1>5. /\ \/ adc_phase = "select" /\ adc_count # 1
         \/ adc_phase \in {"load", "shift"}
         => adc_loaded = adc_in
      /\ \/ adc_phase \in {"settle", "done"}
         \/ adc_phase = "idle" /\ NextIs("adc_recv_buf")
         => adc_recv_buf = adc_in
    BY DEF BaseInv, SampleInv
<1>10. CASE adc_phase = "idle"
    <2>1. (adc_phase' = "select" /\ adc_count' = 1) \/ adc_phase' = "idle"
        BY <1>1, <1>10 DEF Moves
    <2>2. ASSUME adc_phase' = "idle", NextIs("adc_recv_buf")'
          PROVE  adc_recv_buf' = adc_in'
        <3>1. AdcPauses /\ ~AdcRaises
            BY <1>1, <1>3, <2>2 DEF AdcTurn
        <3>2. NextIs("adc_recv_buf")
            BY <1>3, <2>2, <3>1
        <3>3. adc_in' = adc_in
            BY <1>3, <3>1
        <3>. QED
            BY <1>2, <1>5, <1>10, <3>2, <3>3, AdcMoves
    <2>. QED
        BY <2>1, <2>2 DEF SampleInv
<1>11. CASE adc_phase = "select"
    <2>1. adc_in' = adc_in /\ adc_loaded' = adc_in
        BY <1>1, <1>2, <1>3, <1>5, <1>11, AdcMoves
    <2>2. adc_phase' \in {"load", "select"}
        BY <1>1, <1>11 DEF Moves
    <2>. QED
        BY <2>1, <2>2 DEF SampleInv
<1>12. CASE adc_phase \in {"load", "shift"}
    <2>1. adc_in' = adc_in /\ adc_loaded' = adc_in
        BY <1>1, <1>2, <1>3, <1>5, <1>12, AdcMoves
    <2>2. adc_phase' = "shift" \/ (adc_phase' = "settle" /\ adc_recv_buf' = adc_loaded)
        BY <1>1, <1>2, <1>12, AdcMoves DEF Moves
    <2>. QED
        BY <1>5, <1>12, <2>1, <2>2 DEF SampleInv
<1>13. CASE adc_phase \in {"settle", "done"}
    <2>1. adc_in' = adc_in /\ adc_recv_buf' = adc_in
        BY <1>1, <1>2, <1>3, <1>5, <1>13, AdcMoves
    <2>2. adc_phase' \in {"done", "idle"}
        BY <1>1, <1>13 DEF Moves
    <2>. QED
        BY <2>1, <2>2 DEF SampleInv
<1>. QED
    BY <1>1, <1>10, <1>11, <1>12, <1>13 DEF Moves

(* A command stays the one that is due until the end of its frame.         *)
LEMMA NextDue ==
    ASSUME BaseInv, DriverInv', Next
    PROVE  DueInv'
<1>1. /\ DacTurn
      /\ Moves(dac_arm, mmio_phase, mmio_count, mmio_phase', mmio_count', DAC_SS_WAIT)
      /\ DacRaises => mmio_phase = "idle" /\ mmio_phase' = "idle"
      /\ DacLowers => mmio_phase # "idle" /\ mmio_phase' # "idle"
      /\ DacOther \/ DacWrites \/ DacSelects =>
            mmio_phase \in {"idle", "settle", "done"} /\ mmio_phase' \in {"idle", "done"}
    BY DacPlaces
<1>2. /\ mmio_phase = "load" => mmio_sent' = dac_send_buf
      /\ mmio_phase # "load" => mmio_sent' = mmio_sent
    BY MmioMoves DEF Next, Masters
<1>3. Arriving <=> dac_sel = {} /\ mmio_phase = "settle"
    BY Ports DEF BaseInv, Arriving, Ending
<1>4. dac_arm \in BOOLEAN /\ dac_arm' \in BOOLEAN
    BY DEF BaseInv, DriverInv
<1>5. due = IF ~Pending THEN <<>>
            ELSE IF mmio_phase \in {"shift", "settle"} THEN <<mmio_sent>>
            ELSE <<dac_send_buf>>
    BY DEF BaseInv, DueInv
<1>6. PICK waiting, written :
        /\ due' = waiting \o written
        /\ waiting = IF Arriving /\ due # <<>> THEN Tail(due) ELSE due
        /\ written = IF dac_sel = {} /\ WriteSendBuf THEN <<dac_send_buf'>> ELSE <<>>
    BY DEF Next, Record
<1>7. \E w : due \in {<<>>, <<w>>}
    BY <1>5
<1>8. waiting = IF Arriving THEN <<>> ELSE due
    <2>1. PICK w : due \in {<<>>, <<w>>}
        BY <1>7
    <2>2. due # <<>> => Tail(due) = <<>>
        <3>1. Tail(<<w>>) = <<>>
            OBVIOUS
        <3>. QED
            BY <2>1, <3>1
    <2>. QED
        BY <1>6, <2>2
<1>9. /\ ~(dac_sel = {} /\ WriteSendBuf) => due' = waiting
      /\ waiting = <<>> => due' = written
    <2>1. waiting \o <<>> = waiting
        BY <1>7, <1>8
    <2>2. written \in Seq({dac_send_buf'})
        <3>1. <<>> \in Seq({dac_send_buf'}) /\ <<dac_send_buf'>> \in Seq({dac_send_buf'})
            OBVIOUS
        <3>. QED
            BY <1>6, <3>1
    <2>3. <<>> \o written = written
        BY <2>2
    <2>. QED
        BY <1>6, <2>1, <2>3
<1>10. NextRaises("dac_arm") => mmio_phase \in {"idle", "done"} /\ dac_arm = FALSE
    BY DEF BaseInv, TimingInv, DriverInv, AtRest, NextRaises, NextLowers, Raises, Lowers
<1>11. Pending <=> /\ dac_sel = {}
                   /\ \/ NextRaises("dac_arm")
                      \/ mmio_phase = "idle" /\ dac_arm
                      \/ mmio_phase \in {"select", "load", "shift", "settle"}
    BY DEF Pending, Selecting
<1>12. Pending' <=> /\ dac_sel' = {}
                    /\ \/ NextRaises("dac_arm")'
                       \/ mmio_phase' = "idle" /\ dac_arm'
                       \/ mmio_phase' \in {"select", "load", "shift", "settle"}
    BY DEF Pending, Selecting
<1>13. SUFFICES due' = IF ~Pending' THEN <<>>
                       ELSE IF mmio_phase' \in {"shift", "settle"} THEN <<mmio_sent'>>
                       ELSE <<dac_send_buf'>>
    BY DEF DueInv
<1>. HIDE DEF Pending, Arriving
<1>20. CASE dac_sel # {}
    <2>1. due' = <<>>
        BY <1>3, <1>5, <1>8, <1>9, <1>11, <1>20
    <2>2. CASE dac_sel' = dac_sel
        BY <1>12, <1>20, <2>1, <2>2
    <2>3. CASE dac_sel' # dac_sel
        <3>1. DacSelects
            BY <1>1, <2>3 DEF DacTurn, DacPauses, DacOther, DacRaises, DacLowers, DacWrites
        <3>2. dac_arm' = FALSE /\ ~NextRaises("dac_arm")' /\ mmio_phase' \in {"idle", "done"}
            BY <1>1, <3>1 DEF DacSelects
        <3>. QED
            BY <1>12, <2>1, <3>2
    <2>. QED
        BY <2>2, <2>3
<1>21. CASE dac_sel = {} /\ (DacOther \/ DacSelects)
    <2>1. /\ dac_arm = FALSE /\ dac_arm' = FALSE /\ ~NextRaises("dac_arm")
          /\ ~NextRaises("dac_arm")' /\ ~WriteSendBuf
          /\ mmio_phase \in {"idle", "settle", "done"} /\ mmio_phase' \in {"idle", "done"}
        BY <1>1, <1>21 DEF DacOther, DacSelects
    <2>2. waiting = <<>>
        BY <1>3, <1>5, <1>8, <1>11, <1>21, <2>1
    <2>. QED
        BY <1>9, <1>12, <2>1, <2>2
<1>22. CASE dac_sel = {} /\ DacWrites
    <2>1. /\ dac_arm = FALSE /\ ~NextRaises("dac_arm") /\ dac_sel' = dac_sel
          /\ NextRaises("dac_arm")' /\ WriteSendBuf
          /\ mmio_phase \in {"idle", "settle", "done"} /\ mmio_phase' \in {"idle", "done"}
        BY <1>1, <1>22 DEF DacWrites
    <2>2. waiting = <<>>
        BY <1>3, <1>5, <1>8, <1>11, <1>22, <2>1
    <2>3. due' = <<dac_send_buf'>>
        BY <1>6, <1>9, <1>22, <2>1, <2>2
    <2>4. Pending'
        BY <1>12, <1>22, <2>1
    <2>. QED
        BY <2>1, <2>3, <2>4
<1>23. CASE dac_sel = {} /\ DacRaises
    <2>1. /\ dac_arm' = TRUE /\ NextRaises("dac_arm") /\ dac_sel' = dac_sel
          /\ dac_send_buf' = dac_send_buf /\ ~WriteSendBuf
          /\ mmio_phase = "idle" /\ mmio_phase' = "idle"
        BY <1>1, <1>23 DEF DacRaises
    <2>2. due' = <<dac_send_buf>>
        BY <1>3, <1>5, <1>8, <1>9, <1>11, <1>23, <2>1
    <2>3. Pending'
        BY <1>12, <1>23, <2>1
    <2>. QED
        BY <2>1, <2>2, <2>3
<1>24. CASE dac_sel = {} /\ (DacLowers \/ DacPauses)
    <2>1. /\ dac_sel' = {} /\ dac_send_buf' = dac_send_buf /\ ~WriteSendBuf
          /\ NextRaises("dac_arm")' <=> NextRaises("dac_arm")
        BY <1>24 DEF DacLowers, DacPauses, Pauses
    <2>2. CASE mmio_phase = "idle" /\ dac_arm = TRUE
        <3>1. mmio_phase' = "select"
            BY <1>1, <2>2 DEF Moves
        <3>2. due' = <<dac_send_buf>>
            BY <1>3, <1>5, <1>8, <1>9, <1>11, <1>24, <2>1, <2>2
        <3>. QED
            BY <1>12, <2>1, <3>1, <3>2
    <2>3. CASE mmio_phase \in {"idle", "done"} /\ ~(mmio_phase = "idle" /\ dac_arm = TRUE)
        <3>1. mmio_phase' \in {"idle", "done"}
            BY <1>1, <1>4, <2>3 DEF Moves
        <3>2. mmio_phase' = "idle" => dac_arm' = FALSE
            <4>1. CASE DacLowers
                BY <4>1 DEF DacLowers
            <4>2. CASE DacPauses
                <5>1. dac_arm' = dac_arm
                    BY <4>2 DEF DacPauses
                <5>2. mmio_phase' = "idle" => dac_arm = FALSE
                    BY <1>1, <1>4, <2>3 DEF Moves
                <5>. QED
                    BY <5>1, <5>2
            <4>. QED
                BY <1>24, <4>1, <4>2
        <3>3. due' = IF NextRaises("dac_arm") THEN <<dac_send_buf>> ELSE <<>>
            BY <1>3, <1>4, <1>5, <1>8, <1>9, <1>11, <1>24, <2>1, <2>3
        <3>4. Pending' <=> NextRaises("dac_arm")
            BY <1>12, <2>1, <3>1, <3>2
        <3>. QED
            BY <2>1, <3>1, <3>3, <3>4
    <2>4. CASE mmio_phase \in {"select", "load", "shift"}
        <3>1. mmio_phase' \in {"select", "load", "shift", "settle"}
            BY <1>1, <2>4 DEF Moves
        <3>2. Pending /\ Pending'
            BY <1>11, <1>12, <1>24, <2>1, <2>4, <3>1
        <3>3. due' = due
            BY <1>3, <1>8, <1>9, <2>1, <2>4
        <3>4. mmio_phase = "select" => mmio_phase' \in {"select", "load"}
            BY <1>1 DEF Moves
        <3>5. mmio_phase = "load" => mmio_phase' = "shift"
            BY <1>1 DEF Moves
        <3>6. mmio_phase = "shift" => mmio_phase' \in {"shift", "settle"}
            BY <1>1 DEF Moves
        <3>. QED
            BY <1>2, <1>5, <2>1, <2>4, <3>2, <3>3, <3>4, <3>5, <3>6
    <2>5. CASE mmio_phase = "settle"
        <3>1. mmio_phase' = "done"
            BY <1>1, <2>5 DEF Moves
        <3>2. ~NextRaises("dac_arm")
            BY <1>10, <2>5
        <3>3. due' = <<>>
            BY <1>3, <1>8, <1>9, <1>24, <2>1, <2>5
        <3>. QED
            BY <1>12, <2>1, <3>1, <3>2, <3>3
    <2>. QED
        BY <1>1, <2>2, <2>3, <2>4, <2>5 DEF Moves
<1>. QED
    BY <1>1, <1>20, <1>21, <1>22, <1>23, <1>24 DEF DacTurn
-----------------------------------------------------------------------------
LEMMA InitBase == Init => BaseInv
<1>. SUFFICES ASSUME Init
              PROVE  BaseInv
    OBVIOUS
<1>1. /\ dac_sel = {} /\ dac_arm = FALSE /\ adc_arm = FALSE /\ shifted = 0
      /\ mmio_phase = "idle" /\ adc_phase = "idle" /\ cl_phase = "idle"
      /\ dac_recv_buf = Nop /\ expect = Nop /\ due = <<>> /\ framing = NoFrame
      /\ todo = <<>> /\ quiet = Pace /\ cl_arm = FALSE
    BY DEF Init, Mmio!PowerUp, Adc!PowerUp, Loop!PowerUp
<1>2. Script(todo)
    <2>1. Len(<<>>) = 0 /\ <<>> \in Seq(Accesses)
        BY EmptySeq
    <2>. QED
        BY <1>1, <2>1 DEF Script, Chain
<1>3. /\ ~NextLowers("dac_arm") /\ ~NextLowers("adc_arm") /\ ~NextRaises("dac_arm")
      /\ ~NextIs("adc_recv_buf")
    BY <1>1 DEF NextLowers, NextRaises, NextIs
<1>4. DriverInv
    <2>1. Pace \in 1..Pace
        BY ConstantFacts
    <2>. QED
        BY <1>1, <1>2, <1>3, <2>1 DEF DriverInv
<1>5. PhaseInv /\ SampleInv /\ AnswerInv
    BY <1>1, <1>3 DEF PhaseInv, Phases, SampleInv, AnswerInv
<1>6. TimingInv
    BY <1>1, <1>3, ConstantFacts DEF TimingInv, OnTime, AtRest
<1>7. FrameInv
    BY <1>1 DEF FrameInv, Selecting, NoFrame, Broken, MMIO, CONTROL_LOOP
<1>8. DueInv
    BY <1>1, <1>3 DEF DueInv, Pending, Selecting
<1>. QED
    BY <1>4, <1>5, <1>6, <1>7, <1>8 DEF BaseInv

LEMMA NextBase == BaseInv /\ [Next]_vars => BaseInv'
<1>. SUFFICES ASSUME BaseInv, [Next]_vars
              PROVE  BaseInv'
    OBVIOUS
<1>1. CASE Next
    <2>1. DriverInv'
        BY <1>1, DriverTurn DEF Next, BaseInv
    <2>2. PhaseInv' /\ TimingInv'
        BY <1>1, NextPhases, NextTiming DEF BaseInv
    <2>3. FrameInv' /\ AnswerInv' /\ SampleInv' /\ DueInv'
        BY <1>1, <2>1, NextFrame, NextAnswer, NextSample, NextDue
    <2>. QED
        BY <2>1, <2>2, <2>3 DEF BaseInv
<1>2. CASE UNCHANGED vars
    <2>. USE <1>2 DEF vars, registers, mmioVars, adcVars, clVars, device
    <2>1. DriverInv'
        BY DEF BaseInv, DriverInv, NextLowers
    <2>2. PhaseInv'
        BY DEF BaseInv, PhaseInv
    <2>3. TimingInv'
        BY DEF BaseInv, TimingInv, OnTime, AtRest, NextRaises, NextIs
    <2>4. FrameInv'
        BY DEF BaseInv, FrameInv
    <2>5. AnswerInv'
        BY DEF BaseInv, AnswerInv, Asked
    <2>6. SampleInv'
        BY DEF BaseInv, SampleInv, NextIs
    <2>7. DueInv'
        BY DEF BaseInv, DueInv, Pending, NextRaises
    <2>. QED
        BY <2>1, <2>2, <2>3, <2>4, <2>5, <2>6, <2>7 DEF BaseInv
<1>. QED
    BY <1>1, <1>2

(* Whatever the driver and the loop do in turns, the accesses that remain  *)
(* belong to a routine, and the transfers are as far as its pace demands.  *)
THEOREM BaseInvariance == Spec => []BaseInv
BY InitBase, NextBase, PTL DEF Spec
-----------------------------------------------------------------------------
(* comm.py, dac_init and its callers: the driver gives the wires away and   *)
(* takes them back without a look at `finished`, and yet its own frames are *)
(* whole, as long as two of its accesses are never closer than Pace (see    *)
(* PaceAssumption); the loop's may be cut.                                  *)
THEOREM OwnFramesStayWhole == Spec => OwnFramesWhole
<1>1. BaseInv /\ BaseInv' /\ [Next]_vars =>
          [/\ port' = MMIO /\ Selecting(wirePhase') => framing' = MMIO
           /\ ~Cut(MMIO)]_vars
    <2>. SUFFICES ASSUME BaseInv, BaseInv', Next
                  PROVE  /\ port' = MMIO /\ Selecting(wirePhase') => framing' = MMIO
                         /\ ~Cut(MMIO)
        OBVIOUS
    <2>1. ~Cut(MMIO)
        BY NextFrame DEF BaseInv
    <2>2. port' = MMIO => dac_sel' = {} /\ wirePhase' = mmio_phase'
        BY PortsNext DEF BaseInv
    <2>. QED
        BY <2>1, <2>2 DEF BaseInv, FrameInv
<1>. QED
    BY <1>1, BaseInvariance, PTL DEF Spec, OwnFramesWhole

(* comm.py, dac_write_volt and dac_init: every command the driver writes    *)
(* while it has the DAC reaches it, once and before the next is written, as *)
(* long as two of its accesses are never closer than Pace.                  *)
THEOREM CommandsArriveInOrder == Spec => CommandsInOrder
<1>1. BaseInv /\ BaseInv' =>
          /\ Arriving => due # <<>> /\ mmio_sent = Head(due)
          /\ Len(due') <= 1
    <2>. SUFFICES ASSUME BaseInv, BaseInv'
                  PROVE  /\ Arriving => due # <<>> /\ mmio_sent = Head(due)
                         /\ Len(due') <= 1
        OBVIOUS
    <2>1. ASSUME Arriving
          PROVE  due = <<mmio_sent>>
        <3>1. dac_sel = {} /\ mmio_phase = "settle"
            BY <2>1, Ports DEF BaseInv, Arriving, Ending
        <3>. QED
            BY <3>1 DEF BaseInv, DueInv, Pending, Selecting
    <2>2. due' \in {<<>>, <<mmio_sent'>>, <<dac_send_buf'>>}
        BY DEF BaseInv, DueInv
    <2>. QED
        BY <2>1, <2>2
<1>. QED
    BY <1>1, BaseInvariance, PTL DEF CommandsInOrder

(* comm.py, adc_read and dac_read_reg: when the driver reads a buffer, with *)
(* no look at `finished`, it has what the converter answered in the         *)
(* transfer of this very call, as long as two of its accesses are never     *)
(* closer than Pace.                                                        *)
THEOREM AnswersBelongToTheCall == Spec => []AnswersAreOwn
<1>1. ASSUME BaseInv, AboutTo("dac_recv_buf")
      PROVE  dac_recv_buf = expect
    <2>1. quiet = Pace /\ dac_arm = FALSE
        BY <1>1 DEF BaseInv, DriverInv, AboutTo, NextLowers, Lowers
    <2>2. mmio_phase \in {"idle", "settle", "done"}
        BY <1>1, <2>1, ConstantFacts
        DEF BaseInv, TimingInv, OnTime, PhaseInv, Phases
    <2>. QED
        BY <1>1, <2>1, <2>2 DEF BaseInv, AnswerInv
<1>2. ASSUME BaseInv, AboutTo("adc_recv_buf")
      PROVE  adc_recv_buf = adc_in
    <2>1. quiet = Pace /\ adc_arm = FALSE /\ NextIs("adc_recv_buf")
        BY <1>2 DEF BaseInv, DriverInv, AboutTo, NextLowers, NextIs, Lowers
    <2>2. adc_phase \in {"idle", "settle", "done"}
        BY <1>2, <2>1, ConstantFacts
        DEF BaseInv, TimingInv, OnTime, PhaseInv, Phases
    <2>. QED
        BY <1>2, <2>1, <2>2 DEF BaseInv, SampleInv
<1>3. BaseInv => AnswersAreOwn
    BY <1>1, <1>2 DEF AnswersAreOwn
<1>. QED
    BY <1>3, BaseInvariance, PTL
=============================================================================
