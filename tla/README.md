# Upsilon: TLA+ models, checks and proofs

Upsilon is a controller for scanning probe microscopes: an FPGA design
(`src/gateware/rtl`) inside a LiteX system on chip (`src/gateware/soc.py`), a
Linux userland that reaches the design through memory-mapped registers
(`src/gateware/mmio_descr.py`, `src/linux`) and a host client
(`src/client`). The program's own logic is in the Verilog: hand-written state
machines that hold each other up with `arm`/`finished` handshakes. This
directory holds models of those state machines, TLC runs over small instances of
them, and TLAPS proofs for every instance.

Contents: [parts of the system](#parts-of-the-system) ·
[modules](#modules) · [how Verilog becomes TLA+](#how-verilog-becomes-tla) ·
[runs](#runs-bounds-and-fairness) · [what the runs show against the docs](#where-code-and-documentation-disagree) ·
[proofs](#proofs) · [not modelled](#what-is-not-modelled) · [what could follow](#what-could-follow)

## Parts of the system

All units of the gateware share one clock and one synchronous reset (`rst_L`, an
external pin, `soc.py:173`; it does not reach the MMIO registers). Units meet in
three ways: an `arm`/`finished` handshake (master raises `arm`, slave raises
`finished` and keeps it until `arm` falls), registers read in place (the master's
shift register *is* the receive buffer), and the wires to the converters.

| Part | State | Operations | Talks to |
|---|---|---|---|
| SPI master (`spi/spi_master.v`) | state, bit counter, half-cycle timer, shift registers, `sck`, `finished` | accept arm, clock edge, half-cycle wait, finish, idle, reset | slave-select wrapper; converter wires |
| Slave-select wrapper (`spi/spi_master_ss_template.v`) | state, `ss`, settle timer, `arm_master` | select, settle, wait for core, release, reset | its user (MMIO, control loop, raster, waveform); core |
| SPI slave (`spi/spi_slave.v`) | edge detectors, bit counter, shift registers, `finished`, `err` | rise/fall of select, clock edges, reset | simulated converters |
| SPI switch (`spi/spi_switch.v`) | none (combinational) | connect the selected master | MMIO master, control loop, wires |
| Control loop (`control_loop/control_loop.v.m4`) | main state machine, parameters, history of error and adjustment, cycle counters, `change_made` | read the DAC, delay, apply parameters, sample, compute, write, stop, reset | ADC master, DAC master, arithmetic, `cl_*` registers |
| Arithmetic (`control_loop_math.v.m4`, `boothmul.v`, `intsat.v`, `sign_extend.v`) | state, multiplier, saturating sums | one calculation per `arm` | control loop |
| Raster unit (`raster/raster.v`) | scan state machine, position, line/sample counters, kernel registers | read position, settle, measure, store, advance, next line, abort | two DAC masters, ADC masters, RAM shim, kernel |
| RAM shim and FIFO (`raster/ram_shim.v`, `ram_fifo*.v`) | write pointer, halves of a word, FIFO | accept sample, write halves, commands | raster unit, system RAM, processor |
| Waveform unit (`waveform/waveform.v`, `bram_interface.v`) | playback state machine, word counter, buffer refresh | refresh, next word, DAC write, stop | DAC master, system RAM, processor |
| Base (`base/base.v.m4`) | MMIO masters | wiring | everything above but raster and waveform |
| MMIO registers and drivers (`mmio_descr.py`, `csr2mp.py`, `linux/comm.py`) | register file | read, write, arm/lower sequences | base |
| Host client (`client/`), OS and build | none of interest | start scripts, plot | the board |

### What is hard

* **Stale `finished`.** A master's `finished` outlives the release of `arm` by up
  to two cycles, and falls only in an idle cycle. Every user that arms again has
  to wait long enough; nothing in the handshake makes it wait.
* **Shift registers as buffers.** `from_slave`, `measured_value` are garbage for
  most of a transfer. A consumer that looks one cycle early gets a mixture.
* **Users that let go.** Software can lower `arm` in any cycle, and an LTC ADC loses
  its framing if the frame is not completed.
* **Edges.** Four SPI modes, bits driven and sampled on opposite edges, each end
  seeing the other two cycles late; counters that are compared on one edge and
  stepped on the other.
* **Parameters under a running loop.** Software writes them one at a time, while
  iterations go on; a request flag and an acknowledgement flag, written by two
  always blocks, are all that keeps them apart.
* **Stop, reset, restart.** Some registers are cleared by a stop, some only at
  power-up.
* **Scan arithmetic and memory** (raster, RAM shim, waveform): off-by-one at line
  ends, wrap tests, values accepted twice, refreshes during playback.

* **A driver that does not look.** `comm.py` raises `arm`, lowers it and reads; only the
  slowness of the bus and of MicroPython makes that work.

`PROJECT.json` lists each of these at its line, with the properties that cover it or
the reason why none does.

### What makes each part correct

| Part | Properties |
|---|---|
| SPI master and wrapper | every frame has exactly WID pulses whatever the user does (`FramesAreWhole`); the clock is quiet outside it (`ClockQuiet`); `finished` is never the previous one's (`FinishedIsFresh`); every transfer ends; the handshake is that of `SpiTransfer` (`Contract`) |
| SPI link | both ends receive the word the other sent (`MasterReceives`, `SlaveReceives`) |
| Control loop | the stored DAC value is the DAC's (`TracksDac`); units are released at the end of their transfer (`ReleaseAtTheEnd`); operands are stable (`OperandsStable`) and consistent (`HistoryMatchesParams`); parameter changes are applied once, completely and eventually (`AppliedOnce`, `AckMeansAppliedInSession`, `ChangeIsMade`); the time step is the period (`CyclesArePeriod`); no deadlock between the four handshakes (`LoopNeverStalls`) |
| Arithmetic | every product is exact (`ProductExact`) and of the operands that are current (`FactorsCurrent`); the results are those of the formula in saturating arithmetic (`ResultIsRight`) and agree with the bench's C++ reference where that is right (`BenchAgrees`); the handshake is the one the loop relies on (`MathContract`) |
| Raster | every point is measured at rest, a single step from the last one (`SingleStep`), each once (`EveryPoint`); a scan works with the parameters it started with (`ParamsKept`); an abort leaves nothing behind (`AbortIsClean`); scans end (`ScanEnds`) |
| RAM shim, FIFO | samples get to memory once, in order and one behind the other (`StoredInOrder`, `AllStored`); the processor never reads past what is there (`PointerNeverAhead`); the FIFO is a bounded queue (`FifoIsQueue`); a memory write is held until it is answered (`BusHeld`) |
| Waveform | words are played in turn, each whole and from one refresh (`PlayedInOrder`); a stop never cuts one (`StopsBetweenWords`); stops, refreshes and halts are answered (`Responds`) |
| Base and driver | the DAC sees all of every frame of the registers' master (`OwnFramesWhole`); what is commanded arrives, once and in order (`CommandsInOrder`); what is read is the answer of the transfer just made (`AnswersAreOwn`) |

## Modules

```
SpiWord                       words and modes
  SpiMaster                   spi_master.v
    SpiMasterSS               spi_master_ss_template.v on top of it; SSSpec
      SpiMasterSS_proofs      proofs about SSSpec
      SpiLink                 + SpiSlave, wired; LinkSpec; refines SpiTransfer
        SpiLink_proofs        proofs about LinkSpec
        MCSpiLink             instance for TLC
  SpiSlave                    spi_slave.v
SpiTransfer                   what a master promises to its user
  ControlLoop                 control_loop.v.m4 with two SpiTransfers, a
                              MathUnit, the DAC, software; Spec
    ControlLoop_proofs        proofs about Spec
    MCControlLoop             instance for TLC
  Base                        base.v.m4: one DAC, its crossbar and its two
                              masters, an ADC, the driver comm.py
    Base_proofs
    MCBase                    instance for TLC, the bench of the crossbar
  Raster                      raster.v with two DAC masters, ADCs, the input of
                              the RAM shim, the processor
    Raster_proofs
    MCRaster                  instance for TLC
  Waveform                    waveform.v with its DAC master
    MCWaveform, Waveform_proofs
BramInterface                 bram_interface.v and the memory; Waveform extends it
MathUnit                      what the arithmetic promises to the control loop
  ControlLoopMath             control_loop_math.v.m4; refines MathUnit
    MCControlLoopMath, ControlLoopMath_proofs
  BoothMul                    boothmul.v, inside ControlLoopMath
  IntSat                      intsat.v, inside ControlLoopMath
Queue                         a bounded queue
  RamFifo                     ram_fifo.v and its dual-port RAM; refines Queue
    RamShim                   ram_shim.v around a RamFifo, with producer,
                              memory and processor
      MCRamShim, RamShim_proofs (the FIFO's proofs too)
ShimInput                     the producer's side of ram_shim.v, which Raster
                              and RamShim share
```

* **SpiMaster.** One action per branch of the state machine (`Idle`, `AcceptArm`,
  `OnCycle`, `CycleWait`, `WaitFinished`, `MasterReset`); the Verilog tasks
  `idle_state`, `setup_bits`, `read_data`, `write_data`, `cycle_change` are action
  fragments of the same name. POLARITY, PHASE and CYCLE_HALF_WAIT are a variable
  that never changes (`mode`), so one run covers all modes. Registers without
  initialiser start with any value. `spi_master_no_read` and `_no_write` are the same
  circuit with one data path removed and need no module.
* **SpiMasterSS.** The wrapper, one action per state and branch, in lockstep with
  the core. Its inputs are arbitrary in every cycle. History: `edges` counts the
  edges of `sck` since select, `sent` is the word the core copied.
* **SpiSlave.** One action per case of `{ss_delay, ss}`.
* **SpiLink.** Master and slave on shared wires. The device changes its answer only
  between frames, as `dac_sim.v` and `adc_sim.v` do; the user does as it likes.
* **SpiTransfer.** The abstract engine: phases idle, select, load, shift, settle,
  done; `lag` says for how long a stale `finished` is still seen; `from_slave` is
  garbage during `shift`; `to_slave` is read once, SS_WAIT + 1 cycles after `arm`.
  SpiLink is shown to implement it, with a mapping of `phase` and `lag` from the
  two state machines and the same `finished` and `from_slave`.
* **ControlLoop.** One action per state and branch of the main machine, the two
  side blocks (`CountCycles`, `ClearChangeMade`), `reset_loop`. The masters of
  the DAC and the ADC are instances of SpiTransfer. The arithmetic unit is
  its contract, MathUnit: it takes any number of cycles and returns any DAC value; the error
  and the adjustment it keeps are represented by the setpoint and the I they were
  computed with, which is what the properties tell apart. The DAC is that of
  `dac_sim.v` (its control register apart, which Base has). A DAC write by the MMIO master is
  possible while the loop is stopped (`OtherMaster`). Software makes at most one write
  per cycle; the parameter registers, which nobody reads before a request, are written
  as a set. `Rules` says which rules of the protocol software keeps; it is `Careful` if it
  keeps all three.

  The protocol (`MayRewrite`, `MayRequest`, `MayStart`) is what `mmio_descr.py`
  160-179 suggests, and two things it does not say but the code needs: a request is not
  raised again before the acknowledgement of the last one has fallen, and the loop is
  not started again in the one cycle in which it stops. What happens
  otherwise is shown by `control_loop_restart`, without the rule "start"; without "request" see
  [below](#where-code-and-documentation-disagree).

* **MathUnit, ControlLoopMath, BoothMul, IntSat.** The calculation state by state, with
  the multiplier stepping one round per cycle beside it and the two saturations as
  operators; numbers are integers of the widths of the code. The environment is the test
  bench: gains and samples from a set, the results fed back. BoothMul also has the
  product as a function of its operands, which the instance compares with the integer
  product for every pair (`BoothmulBench`), as it compares the saturation with clamping
  (`IntsatBench`).
* **Queue, RamFifo.** The FIFO with its size counter, two ports and reset. `Queue` is what
  it promises; `Contents` reads the queue off the pointers. `FifoSpec` has any user
  who looks at `full` and `empty`, `BenchSpec` is the test bench.
* **ShimInput, RamShim.** The block that takes samples into the FIFO, the one that
  writes them to memory in two halves, and the command block, with a producer, a memory
  of any speed and a processor that sets the region up, of any length, and then polls the write
  pointer. It may hold a command for longer than it takes (`HoldCommand`), which the shim then
  executes again. `Follows` is the place of a word by that of the one before it. `Offset` lets either of the two blocks that assign `loc_off` win.
* **Raster.** All states of the scan and the whole register interface. The DACs, the ADCs
  (each transfer an SpiTransfer or a handshake) and the shim's input are in the model,
  the memory behind the FIFO takes a sample at any time. The processor writes every
  parameter, starts, aborts and restarts. `StepTo` is the reference for a move: the step that
  was asked for, back again on the way back, and one at right angles to begin a line. Where the
  points lie as a whole, in the box or not, is `InBox`. The comparisons of counters with a size
  less one are made in 32 bits, those of the literal 1, so a size of 0 is never reached.
* **BramInterface, Waveform.** The refresh of the buffer from memory, the server that hands
  out words, the playback, and the DAC master. Reset may come in any cycle. Words are told
  apart by the refresh that brought them (`generation`) and their place.
* **Base.** One DAC with its crossbar, the MMIO master and the control loop's, and an ADC
  with its MMIO master. The driver's routines are sequences of register accesses,
  called in any order; at least `Pace` cycles pass between two accesses. The control
  loop is reduced to what it does with its DAC master. The driver selects a master
  whenever it likes, as `dac_init` does. `framing` follows whose frame the DAC is receiving
  (`WatchWires`): after a change of hands it may get the rest of another one's frame, or see its
  select line released in the middle; it then takes any word for what it received (`DacStep`).

## How Verilog becomes TLA+

One step is one rising edge of `clk`. A non-blocking assignment is a primed
variable, a register that a branch leaves alone is UNCHANGED, `case` branches are
disjuncts guarded by the state. All units step together, so a composition is a
conjunction of their steps. The order of two non-blocking assignments to the same
register in one branch (`from_slave <= from_slave << 1; from_slave[0] <= ...`) is
resolved as Verilog does: the last one wins. A unit sees the others' registers as they
were before the edge. Reset is a step of its own that may come in any cycle.

A test bench in C++ raises the clock, evaluates the circuit and then looks at the outputs
and sets the inputs; so in a model with a bench, an edge is followed by what the bench
does after it, in the same step, with its random numbers as choices and its
assertions as properties.

Ready signals nobody connects (`ready_to_arm` at the users), waveform dumping and
`$error` checks of the simulation build are left out; what the checks assert about
`ready_to_arm` follows from the states.

## Runs, bounds and fairness

| Run | Question | Result |
|---|---|---|
| `spi_link` | frames, data, contract of the SPI master | holds |
| `control_loop` | all properties of the loop, careful software | holds |
| `control_loop_restart` | `TracksDac` with software that restarts at once | violated |
| `control_loop_math` | are products and results right, and is the contract kept? | holds |
| `ram_shim` | does every sample get to memory, once and in order? | holds |
| `ram_shim_region` | does it keep to the region it is given? | not if its length is even |
| `raster` | the scan, its parameters, aborts and restarts | holds |
| `raster_box` | does the scan stay in the box? | no |
| `raster_samples` | is each sample of a point handed to the shim once? | no |
| `raster_abort` | does a lowered `arm` end the scan? | not always |
| `waveform` | playback under refreshes, stops and resets | holds |
| `base` | the driver without `finished`, on shared wires | holds |

**spi_link** uses 3-bit words, SS_WAIT 1, all four modes with CYCLE_HALF_WAIT 2 and
the DAC's mode (0, 1) with 3. Three bits have a first, an inner and a last bit; the code
treats all inner bits alike. The two words 101 and 011 are such that a word
shifted by one place in either direction is never taken for the other whatever bit comes
in. SS_WAIT matters through being 0 or not (it is never 0 in the gateware; a master with
SS_WAIT 0 would drop select at once on a stale `finished`, which is why
`SSWaitAssumption` excludes it) and through the stale cycle it must cover, of which 1 is
the worst case. CYCLE_HALF_WAIT 2 is the smallest at which data survives: with 0 and
1 the two flip-flops in each data line make the ends sample the previous bit. The
gateware uses 10 and 5; the default of `spi_master` is 1, and its comment speaks of one
cycle of buffering (`spi_master.v:12-15`). `arm`, the data and the reset are free in
every cycle. The control part (`FramesAreWhole`, `ClockQuiet`, `FinishedIsFresh`)
is proved for all values, what depends on the data for every half cycle of at least 2.

**control_loop** uses READ_DAC_DELAY 3, one cycle of DAC_SS_WAIT and ADC_CONV_WAIT, a
counter modulo 2, two DAC codes, two parameter sets (one with a delay of one cycle).
The transfer time is unbounded: `shift` may last any number of cycles, so no property
depends on it. READ_DAC_DELAY 3 is the smallest that works (below, the `finished` of the
first frame is still up when the second is awaited; the gateware uses 5). The counter
modulo 2 wraps in every iteration. Two DAC codes and two parameter sets are enough to tell
a right one from a wrong one. `control_loop_restart` uses 5 cycles of READ_DAC_DELAY and
DAC_SS_WAIT, as the gateware does, so that what it shows is not a matter of
small numbers.

**control_loop_math** uses words of 5 bits with one fractional bit, so that products have bits
below the point and results saturate on both sides; gains 2, 3, -16 and 15, the extreme
ones among them, and samples 1 and -2. The feedback of the test bench takes the unit
through many more operands than it is given. The multiplier is also compared with the
integer product on every pair of operands of its instance, before the run.

**ram_shim** has a FIFO of 2, samples of two halves and a region of 8 or of 9 bytes: with the even
length the test for the end never succeeds and the shim writes on behind the region, round the end
of the addresses (32) even; with the odd one it succeeds, in the middle of a sample, and the last
word reaches one byte beyond the region. `StoredInOrder` asks that words follow each
other; that they keep to the region is `RegionKept`, which `ram_shim_region` shows to fail. The memory answers within 3 cycles, the producer pauses
for at most 2: both orders of every race between filling and draining occur, full and empty
included. Four samples, eight words of two bytes, go beyond the end of either region.

**raster** has three ADCs, of which a mask selects one or two, so that there is a first, a
last and one left out; positions modulo 16 and two sets of parameters, two lines of two
samples with a settle time of 2, and one line of three samples with none. Two scans show what
one leaves for the next. The runs that show a violation have one. Sizes of 0 are not run: such a
scan never ends, and the count of its measurements has no bound.

**waveform** has 3 words (first, inner, last), a wait of 0 or 1 cycle, and 3 generations of
words used in turn. `arm` and the halt bit are free in every cycle, a refresh may begin at any
time and is held until it is finished, as its handshake asks. Memory answers after any
delay.

**base** has transfers as long as the pace allows: `PaceAssumption` says that two accesses take
longer than a transfer (and, for the DAC, than the release of its select line too), and the instance
meets it with nothing to spare; with one cycle more in an ADC transfer `AnswersAreOwn` fails. In the gateware a DAC transfer takes some 540 cycles
(5.4 µs), so `comm.py` needs 2.7 µs per access, which MicroPython on the board takes easily and a
driver in C would not. A reset does not reach the registers and is not part of this run:
with `arm` up it would make the master send the word again.

**Fairness.** The only scheduler is the clock. `LinkSpec` has weak fairness of the one
next-state action: the clock does not stop. `ControlLoop!Spec` says the same with a
history bit, `[]<>clk /\ []<>~clk`, because TLC evaluates it faster, and adds
that a transfer and a calculation come to an end: the first is part of
`SpiTransfer!Spec`, which `spi_link` shows the master to satisfy; for the second the
arithmetic unit counts through a fixed sequence of states and a multiplier that ends
after a fixed number of cycles (`MathContract` shows it). The raster unit is given that
its transfers end, its ADCs answer and its FIFO is drained, the waveform unit that
transfers end; for the RAM shim the clock alone is enough, because its memory is bounded. Nothing
is assumed of software.

**Mutants.** Every property of a passing run is paired with a mutation of the code's
model that breaks it (definitions marked `mutant`): a forgotten reset of `sck`, a frame
one half-cycle short or long, an arm not lowered, a parameter not copied, and so on.

## Where code and documentation disagree

Five disagreements are shown by runs of their own:

1. **Restart in consecutive cycles** (`control_loop_restart`). `control_loop.v.m4`
   218-222 says the loop starts by finding the DAC's value. If `cl_run_loop_in`
   is low just in the cycle in which the loop passes CYCLE_START, and high in the next,
   WAIT_FOR_DAC_READ takes the stale `finished` of the last DAC write for the end
   of its read, replaces the read command with 0 before it was copied, and
   takes the word the DAC answers to nothing for its value.
2. **Samples lost and doubled** (`raster_samples`). `raster.v:7-9`: "each value read into system
   memory". SCAN_ADC_VALUES goes on shifting while the shim has not taken the sample it
   offers, and the shim takes one whose commit is still up a second time. The bench does not
   see it: `raster_sim.cpp:231` asserts the opposite of what it means, and `exit(0)` at 233
   precedes the comparison of the samples.
3. **An abort that does not end** (`raster_abort`). `raster.v:153-157`: `arm` "can be adjusted
   while the loop is running (in order to terminate the scan)". `running` is cleared only in
   a cycle of WAIT_ON_ARM_DEASSERT with `arm` up; if it was lowered late in the scan, `running`
   stays set and every write of a parameter is refused.
4. **Behind the region** (`ram_shim_region`). `ram_shim.v:26-27`: the kernel says "what the memory
   location is, and how long it is". The test for its end compares an offset that advances by two
   with the length less one (`:144`, `:157`): with an even length, like the 1000 of
   `ram_shim_sim.cpp:95`, it never succeeds, with an odd one the last word has one byte too many. The
   bench does not see it, because it expects four times as many bytes in a row.
5. **Out of the box** (`raster_box`). `raster.v:6-7`: "sweeps two DACs ... across a box". At the end
   of a line the scanner turns and moves before it measures, so the way back ends
   one step before the line began, and the next line begins there: the scan drifts by one step
   per line. Each move by itself is right (`SingleStep`, checked and proved).

Others are stated as properties of the models, which TLC finds violated when they are put into
the configuration named:

6. **Acknowledged and cleared** (`AckMeansApplied`, `MCControlLoop.cfg`). `mmio_descr.py:170-171`:
   `cl_change_made` signals "that the parameters have been applied". A stop or a
   reset clears setpoint, I and delay (not P) but not the acknowledgement; if the
   request is still up, the loop iterates with cleared parameters and does not read
   them again. Within a session the acknowledgement is honest
   (`AckMeansAppliedInSession`, checked and proved).
7. **A request raised again** (`AckMeansAppliedInSession`, `MCControlLoop.cfg` with `Rules = {"rewrite", "start"}`). `mmio_descr.py:163-164`: raising
   `cl_assert_change` "signals the control loop that it should read in new values";
   `:173`: `cl_change_made` is high "only while `cl_assert_change` is high". The
   acknowledgement is not lowered in CYCLE_START, where the loop waits for its delay; a request that
   falls and rises there keeps the old acknowledgement, and the new parameters are never read.
8. **A transfer that software interrupts** (`FramesWhole`, `MCBase.cfg`). `mmio_descr.py:134-136`: "it is currently not
   possible to interrupt SPI transfers in software". `dac_init` selects the MMIO master without
   asking (`comm.py:37`), and so do the scripts; if the loop is in the middle of a frame, the DAC
   takes what it has got for a word. Software cannot see when the loop has stopped (`cl_in_loop`
   stays high, below). The frames of the driver itself stay whole all the same
   (`OwnFramesWhole`, checked and proved).
9. **The register that is not read** (`RegisterIsRead`, `MCBase.cfg`). `comm.py:27`: "Read a register from a DAC".
   The DAC answers a read in the next frame, which `dac_read_reg` does not send: it returns
   the answer to the command before, however long it waits.
10. **Signs left over** (`RegistersStand`, `MCRaster.cfg`). `raster.v:155-157`: "each register can only be modified when
   the loop is not running". The scanner negates `dx` and `dy` itself, and an abort on the way
   back leaves them so; a processor that starts the next scan without writing them again goes
   the other way.

Met on the way, with no run of their own:

* `adc_finished` "is on only when adc_arm is high" (`mmio_descr.py:48`, `:112`), but
  `spi_master.v:222` raises it at the end of every transfer, also of one whose `arm` was
  lowered on the way.
* `cl_in_loop` is "high if the control loop is running" (`mmio_descr.py:176-177`), but it stays
  high after the first start: `running` (`control_loop.v.m4:251`) is never cleared.
* The lower limit of the clamp in `control_loop_math_implementation.cpp` is half of what it
  should be, so `BenchAgrees` compares only where no value of the reference reaches a limit.
* The "third run" of `waveform_sim.cpp` tests nothing, since `finished` is still up from the second.
* `dac_sim.v:48` stores the word it answered, not the one it received, as its control register.
* In the waveform unit the stale `finished` of the DAC is safe by exactly one cycle, and a stop goes
  on with the next word unless `arm` is low in a cycle in which `running` is (`waveform.v:150`).

## Proofs

`SpiMasterSS_proofs` proves, from `WidAssumption` (WID > 0), `ModeAssumption` (modes are
records of a polarity, a phase and a natural half-cycle wait) and `SSWaitAssumption`
(SS_WAIT > 0), for arbitrary inputs and resets in every cycle:

* `TypeCorrect`: `SSSpec => []SSTypeOK`,
* `ClockIsQuiet`: `SSSpec => []ClockQuiet`,
* `FinishedStaysFresh`: `SSSpec => []FinishedIsFresh`,
* `WholeFrames`: `SSSpec => FramesAreWhole`.

None is inductive. `SSInv` adds what the two state machines know of each other:
while deselected the core is idle or becoming so (`InvDeselected`); while select
settles it is ready (`InvSelecting`), which is where a stale `finished` fades; when
released it has finished (`InvReleasing`); and during the transfer (`Counting`) the
number of edges of `sck` is `2 * bit_counter` at the idle level, `2 * bit_counter + 1`
just after an edge away from it and `2 * bit_counter - 1` once the core has
counted that edge. So the last half cycle, where the counter is WID and
`sck` is idle, is the one after `2 * WID` edges. The lemmas split a step by what
the wrapper does, then by what the core does; the data path, which control does not
look at, is typed once for all actions (`DataTyped`).

`SpiLink_proofs` adds the slave and the wires. `LinkIsMaster` (`LinkSpec => SSSpec`): the link is a
master with particular inputs, so the theorems above hold in it, and with `SSInv` in hand only
the other end and the data are left. From `WordsAssumption`:

* `LinkIsTyped`: `LinkSpec => []LinkTypeOK`, for every half cycle,

and for half cycles of at least 2 (`SlowClock`; the code has 10 and 5)

* `MasterGetsWord`: `LinkSpec => []MasterReceives`, `SlaveGetsWord`: `LinkSpec => []SlaveReceives`,
* `LinkKeepsContract`: `LinkSpec => Transfer!Safety`, the safety part of `Contract`: each
  step is a step of the abstract engine, a halt or a stutter.

`LinkInv` counts. The bits that were driven and those that were sampled are functions of
the master's `bit_counter` and of how much of the last edge the slave has seen
(`slv_sck_delay`): the two ends act on an edge in the same cycle. `ShiftInv` says which bits of
the two words each shift register holds then, in whatever mode; a bit is through the flip-flops
when it is sampled because the half cycle is long enough, which is where `SlowClock` is needed.

`ControlLoop_proofs` proves

* `TimeStepIsPeriod`: `Spec => []CyclesArePeriod`, from `CountAssumption`
  (CountMod > 1). `TimeInv`: in CYCLE_START `timer` is 0 for the first
  cycle only; in that cycle `counting_timer` holds the length of the iteration that
  has ended, and from the next one on it equals the cycles since the iteration began.
* `AckIsHonest`: for careful software (one that keeps all the `Rules`), `Spec => []AckMeansAppliedInSession`.
  `AckInv`: between request and acknowledgement the registers hold what was offered;
  from then on the loop does, until it stops. It uses no property of the SPI masters or
  the arithmetic: only what each action does to the parameters (`ParamSteps`) and what
  the protocol forbids (`SoftwareSteps`).
* `ParamsAppliedOnce`: `Spec => AppliedOnce`, whatever software does.
* For careful software, from `DelayAssumption` (READ_DAC_DELAY >= 3), `WaitAssumption` and
  the types of the constants: `LoopIsTyped` (`[]LoopTypeOK`), `LoopTracksDac` (`[]TracksDac`),
  `HistoryIsConsistent` (`[]HistoryMatchesParams`), `UnitsReleasedAtTheEnd` (`ReleaseAtTheEnd`),
  `OperandsAreStable` (`OperandsStable`).

The last five rest on `LoopInv`. Its heart are `DacInv` and `AdcInv`, which follow a `finished`
from the release of `arm` until it has faded (`lag`): the gap between the two frames of the DAC
read, a stop and the transfer of the ADC each leave the DAC's flag the time it takes, and the
calculation leaves it to the ADC's. So every wait ends with the transfer that was armed for it,
and then `FrameInv` gives what is in the frame, `HistoryInv` what the results were computed
with. Software has to be careful because a loop that is started again in the cycle
after a stop arms the DAC while its flag is up; that is `control_loop_restart`.

`RamShim_proofs` proves about the FIFO, from `DepthAssumption`, `SizeAssumption` and
`DataAssumption` (a depth that its counter can hold, some datum):

* `FifoImplementsQueue`: `FifoSpec => []FifoInv /\ FifoIsQueue`,
* `BenchIsCareful`: `BenchSpec => FifoIsQueue`.

`FifoInv` says that the write pointer is the read pointer plus the size, modulo the depth; the
lemmas show that the slots between the two then change as a queue does, with `Contents` as
the mapping. About the shim it proves `ShimUsesQueue`: `Spec => FifoIsQueue` and `WritesAreHeld`:
`Spec => BusHeld`. The shim tests `full` and `empty` one cycle before it acts; `UseInv`
(`PushInv`, `PopInv`) says what it has asked for is still possible, since only one side pushes
and only one pops. `SetInv` adds that the region has been set up before the first write and what
is on the bus in each state. Then

* `ShimIsTyped`: `Spec => []ShimTypeOK`,
* `SamplesAreStoredInOrder`: `Spec => []StoredInOrder`,
* `PointerKeepsBehind`: `Spec => PointerNeverAhead`

by `ShimInv`, which counts the samples along their way: those `Pushed`, `Popped` and `Taken` by
memory are given by the state of the producer, the FIFO and the writer (`QueueInv`,
`WriterInv`); `loc_off` is even, and below the length if that is odd (`OffsetInv`); and the address
is that of the word being written, or follows it (`PlaceInv`). It needs what
`RegionAssumption` says: two bytes to a word, an even number of addresses, a region of any
length that fits among them; and facts about powers of two (`PowerAssumption`) that the provers do not know.

`ControlLoopMath_proofs` proves

* `SaturationClamps`: looking at the bits that are cut off is clamping,
* `FactorsAreCurrent`: `Spec => []FactorsCurrent`. `MulInv`: the multiplier is disarmed wherever
  it is not used, and from its first round on it has the operands that are in the registers,
* `UnitKeepsContract`: `Spec => Unit!UnitSafety`, the safety part of `MathContract`, by `UnitInv`,
* `ProductsAreExact`: `Spec => []ProductExact`,
* `ResultsAreRight`: `Spec => []ResultIsRight`,
* `BenchIsMet`: `Spec => []BenchAgrees`,

from `WidthAssumption`, `InputAssumption` and `PowerAssumption` (`2^(i+j) = 2^i * 2^j` for the
exponents that occur). Booth's algorithm is proved as the register runs it: `Partial`
splits the register after n rounds into the product of the n bits that are used up, as a
signed number, the bits that are left and the bit shifted out last; `RoundKept` is one round, with
the overflow bit that the most negative multiplicand needs, `BoothInv` holds it
along the rounds and `PartialEnds` reads the product off. `RangeInv` keeps every
register to its width, the slot of `a1` that WAIT_ON_ARM does not clear included; `UserInv` says that
the operands change only in WAIT_ON_ARM; `ValueInv` which term of the formula is in which
register in which state. No sum is cut (`SumIsWhole`). For `BenchAgrees` the proof shows where
the bench's reference stops being right: its clamp gives half the lower limit already at
-(ConstHalf - 1), a value the unit can still represent, so that one is excluded too.

`Waveform_proofs` proves `UnitStopsBetweenWords`: `Spec => []StopsBetweenWords`. `WaveInv` follows
the DAC's flag (`FlagIsFresh`: it is down again before the next word is armed), the
handshakes as functions of the state, and the counters of the two sides, which agree whenever
no word is between them (`CountersAgree`). `WordsArePlayedInOrder`: `Spec => []PlayedInOrder`
adds the buffer in `PlayInv`: the place, the address and the counter of a refresh go together
(`CopyInv`), the buffer is whole, from one refresh, whenever a word may be handed out
(`BufferInv`), and a reset in the middle of a refresh leaves the request up and the unit at rest.

`Raster_proofs` proves, from `RasterWaits`, `RasterGap`, `RasterSizes`, `RasterParams` and
`RasterOrigins`,

* `RasterIsTyped`: `Spec => []RasterTypeOK`,
* `AbortsAreClean`: `Spec => []AbortIsClean`,
* `ParametersAreKept`: `Spec => []ParamsKept`,
* `EveryMoveIsOneStep`: `Spec => []SingleStep`,
* `EveryPointMeasured`: `Spec => []EveryPoint`.

`RasterInv` has four parts. Flags: two cycles between commands (`RasterGap`; the code has 10)
are enough for a `finished` to fade, state by state (`FadeInv`). Processor: what
it still has to write (`ScriptInv`) and the registers it has written (`ConfigInv`),
with which the scan starts; `running` keeps them while it lasts. Probe: the frame under way is the
one the scanner asked for, and the DAC's code follows it (`FrameInv`). Grid: line, sample
and direction give the index of the point in the scan, and the probe is where it was last measured
or one step further (`GridInv`); with a size of 0 a scan never comes to the end of a line, or
never to its last line (`ZeroInv`), so `EveryPoint` needs no condition on sizes.

`Base_proofs` proves, from `WaitAssumption`, `PaceAssumption` and `ValsAssumption`,

* `OwnFramesStayWhole`: `Spec => OwnFramesWhole`,
* `CommandsArriveInOrder`: `Spec => CommandsInOrder`,
* `AnswersBelongToTheCall`: `Spec => []AnswersAreOwn`.

`BaseInv`: what is left of a routine, and which access may follow which (`DriverInv`, over `Chain`:
routines are sequences, but two neighbours say enough); how far a transfer must have got, counted
from the raising of `arm` against the pace of the driver (`TimingInv`); so a command is
due from its writing to the end of its frame (`DueInv`), the frame the DAC receives is the driver's
just while its master sends one and has the wires (`FrameInv`), which holds whatever became of
a frame of the loop before, and the answer stays from the end of the transfer to the reading
(`AnswerInv`, `SampleInv`).

The invariants, from `SSInv` and `LinkInv` to `ValueInv` and `BaseInv`, were checked with TLC on the
small instances before they were proved.

So every invariant and every action property of the passing runs is a theorem, under the
assumptions named. Only
model-checked is what is temporal: `LoopNeverStalls`, `ChangeIsMade`, `AllStored`, `ScanEnds`,
`Responds`, and the liveness parts of `Contract` and `MathContract`; liveness under fairness
is out of the prover's reach. `Multiplier!run`, the multiplication of `boothmul_sim.cpp` as one
recursive function, is compared with the product by TLC only: the theorem is about the
circuit, step by step. The proofs hold for the specifications as they are, with the
contracts (`SpiTransfer`, `MathUnit`) in the place of the units behind them; that the units keep
these contracts is proved for safety and checked for liveness.

## What is not modelled

* SPI with CYCLE_HALF_WAIT 0 or 1 is modelled but excluded from the runs that check data
  (see the bounds above); the proofs of control and types cover it, those about data ask for 2.
* The converters' analogue timing (conversion time is SS_WAIT cycles of waiting).
* Metastability and everything below the clock cycle.
* The ADC's crossbar: its flush port is assigned to nets that are declared nowhere
  (`base.v.m4:202-204`), and neither is `test_clock`, so the file does not elaborate as it
  is. Base has the ADC on MMIO all the time, as the scripts do.
* `csr2mp.py` generates accessors, and the bus they use is not in the repository: the models write
  and read a register as a whole, where 64-bit ones take two accesses.
* Commands to the RAM shim after the region has been set up: nothing makes them safe, since two
  blocks assign `loc_off`.
* Scans with a size of 0 are in the model and in the proofs, but in no run (see the bounds above).
* A bus that is faster than `PaceAssumption` allows: the driver's answers and commands would be lost,
  but how fast the bus is cannot be read from this repository.
* A user of `bram_interface.v` that holds `refresh_start` after `refresh_finished`: it gets no
  words as long as it does, by the design of that handshake. The models' user lowers
  it in the cycle in which it sees the flag, as the bench does; it holds it through a reset,
  so that a refresh the reset has cut is made again.
* `control_loop_sim_interactive.cpp` drives an interface the control loop no longer has, and
  `linux/control_loop_test.py` uses registers that no longer exist. The reader in
  `bram_interface_sim.cpp` and the transfer function of the simulated probe are left out.
* `ramp.v` and `bram_dma.cpp` are dead code that does not compile.
* `soc.py`, the operating system, the build and the host client hold no state that
  interacts with the gateware at run time.

## What could follow

* Wide registers written in two halves while the loop runs, once the bus is in the
  repository; resets in Base.
* Lemmas that bound how long a transfer, a calculation or a scan takes: safety properties
  from which the liveness above would follow by the clock alone.
* What the violated properties ask, as properties of the passing runs, once the code is mended.
