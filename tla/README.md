# A verification project for simulavr

simulavr simulates AVR microcontrollers: a central clock steps one or more
devices, each device executes a program instruction by instruction, clocks its
peripherals and lets them interrupt the program. The modules here model the
parts of that machinery whose behaviour depends on the order of many small
steps, check them with TLC on small instances and prove the most important
invariants with TLAPS for all instances.

Contents: [inventory](#inventory), [modules and code](#modules-and-code),
[runs](#runs), [bounds](#bounds), [fairness](#fairness), [proofs](#proofs),
[findings](#findings), [not modelled](#not-modelled), [plan](#plan).

## Inventory

| component | state | operations | talks to |
|---|---|---|---|
| `SystemClock` (systemclock.cpp) | time, heap of members, break flag, signal disposition | Add, Step, Reschedule, Endless, Run, RunTimeRange, Stop, ResetClock, signals | steps devices and other `SimulationMember`s; they call `Stop` |
| `AvrDevice` (avrdevice.cpp) | cycle count, PC, deferred interrupt, list of clocked hardware | Step, Reset, AddToCycleList, RemoveFromCycleList | clock, interrupt system, stack, every peripheral |
| `HWIrqSystem` (irqsystem.cpp) | queue of pending vectors, statistic entries, trace values | SetIrqFlag, ClearIrqFlag, GetNewPc, IrqHandlerStarted/Finished | peripherals raise, the core takes, the stack reports the end |
| `HWStack` (hwstack.cpp) | stack pointer, return points, threads | Push, Pop, PushAddr, PopAddr, SetSpl/h, SetReturnPoint | core, `IrqFunktor` callbacks into the interrupt system |
| external interrupts (externalirq.cpp) | mask, flag, mode, saved pin levels | pin callbacks, register writes, ClearIrqFlag, Reset | pins, interrupt system |
| EEPROM (hweeprom.cpp) | cells, registers, write state machine | register accesses, CpuCycle, Reset | cycle list, interrupt system, clock |
| watchdogs (watchdog.cpp, hwwado.cpp) | control register, gate, time out | register writes, WDR, CpuCycle, Reset | resets the whole device from inside its cycle |
| timers (hwtimer/) | counters, compare values, waveform mode, flags | CpuCycle, register writes, input capture | prescaler, pins, interrupt system |
| UART (hwuart.cpp) | receiver, transmitter, status, format | register accesses, CpuCycle, Reset | pins, interrupt system |
| SPI (hwspi.cpp) | shift registers, bit and clock counters, status | register accesses, CpuCycle | pins, interrupt system |
| flash self programming (flashprog.cpp) | operation, enable window, page buffer, section lock | SPM, SPMCR writes, CpuCycle | core, flash |
| decoder (decoder.cpp) | registers, SREG, PC | one operation per instruction | core, memory, flash |
| pins, nets, ports | drivers, levels | output changes, callbacks | peripherals |
| gdb server (cmd/gdbserver.cpp) | connection, run mode | packets, Step | clock, device |

What is hard in this code, although it runs in one thread:

* *Order*: peripherals, register writes, resets and the taking of interrupts
  come in any order between two instructions; the queue of the interrupt system
  and the flags of the peripherals are two copies of the same fact.
* *State kept across steps*: a vector is acknowledged one instruction before it
  is entered; a handler's end is recognised later by the stack pointer alone; a
  write is enabled, started and finished in different cycles; a compare value
  waits for the end of the period, a word for the end of a frame.
* *Callbacks into a loop*: hardware takes itself off the list the core walks;
  the watchdog resets the device from inside that walk; `ClearIrqFlag` erases
  from the map `GetNewPc` iterates over.
* *Two clocks*: receiver and transmitter, master and slave sample what the
  other one drives, one of them always a cycle earlier.
* *Resets* that reach some of the state and not the rest.
* *Time outs* of four cycles, off by one or not; waiting that must end.
* *Borders*: flags of a byte that a second instruction turns into those of a
  word, counters compared with `==`, jumps around the end of the flash.

Correctness, per component: the clock runs members in time order and its loops
end; no interrupt event is lost, none is taken twice or dropped between
acknowledgement and entry, and code goes on after a handler that left interrupts
disabled; the end of every handler is noticed; registered hardware gets every
cycle once (which it does not, see *Findings*); a write to the
EEPROM or to the flash needs its enable and lands where it was asked for; a
watchdog resets exactly the programs that hang; a timer overflows and captures
when it should and its output has the duty cycle asked for; what a UART or an
SPI sends arrives, once and in time; instructions compute what the code that a
compiler puts together from them expects.

`PROJECT.json` lists the hazards line by line with the properties aimed at them.

## Modules and code

| module | models | remarks |
|---|---|---|
| `MinHeap` | the heap of systemclock.h/.cpp | operators on sequences; the sift loops are recursive functions |
| `TimeTable` | what the clock promises | abstract specification: a set of places, the earliest runs |
| `SystemClock` | `SystemClock` | `StepMember` is `Step`; a member's answer, result and call of `Stop` are arbitrary; `LoopStep`/`LoopExit` are one turn of `Endless`, `Run` or `RunTimeRange`; `Signal` is SIGINT or SIGTERM |
| `ExternalIrq` | `ExternalIRQHandler`, `ExternalIRQSingle`, `ExternalIRQPort`, `HWIrqSystem::GetNewPc` | registers are sets of lines; the undefined increment of an erased iterator is a choice between going on and the end of the process |
| `AvrCore` | `AvrDevice::Step`/`Reset`, `HWStackSram`, the queue of `HWIrqSystem` | the program is arbitrary, or with `WellBehaved` one that keeps its stack balanced; `frames`, `owed`, `fresh`, `booting` are history |
| `CycleList` | `hwCycleList` and the walk of `Step` | each `CpuCycle` may hold, leave, or reset the device; what constructors register (`Permanent`) is there from the start; what an erase leaves is given place by place (`Removed`), which is what its proofs count |
| `Eeprom` | `HWEeprom` | EECR as a set of bits, bytes as sets of ones; `window`, `stranded` and `asked` are history |
| `Watchdog` | `WatchDog` | distances to the time out instead of absolute times |
| `DeviceCycle` | `AvrDevice::Step` and `Reset` with a watchdog | composes `Watchdog` and `CycleList`: the walk calls the watchdog, its time out resets the device inside the walk, instructions run between walks unless some hardware holds the CPU |
| `Timer` | `BasicTimerUnit`, `HWTimer16`, `TimerIRQRegister` | the counting state is a record and the events of a count functions on it, applied in the order of `CountTimer`; the prescaler gives a clock or not, freely; `period`, `idle`, `seen`, `same` and `changed` are history |
| `Uart` | `HWUart`, `HWUsart` | RX is wired to TX, one of the three samples of a bit may be wrong; `inflight`, `age` and `wild` are history: a program is *wild* after an access that breaks the rules, up to the next reset |
| `Spi` | `HWSpi`, twice | master and slave on the same wires take turns; `sent`, `clean`, `age` are history |
| `Alu` | flag functions and results of decoder.cpp | bytes are numbers, flags a record |
| `FlashProg` | `FlashProgramming`, the lock of `AvrFlash` | operators on a record that is part of the core's state |
| `Decoder` | the `avr_op_` classes and their execution in `Step` | one operator per instruction, from core to core; the core has RAMPZ and EIND |
| `Routines` | the entry of interrupts in `Step`; programs for `Decoder` | short routines as compilers emit them, which end at a BREAK, with a handler that saves what it uses |

State variables have the names of the members they model; an action stands for
the whole method, including what it calls. A call of the peripherals'
`CpuCycle`, an instruction and a reset are separate actions because the code
runs them one after the other in one thread; inside one action nothing else
happens. `AvrCore` abstracts the instructions to what they do to stack, I flag
and cycle count, with any program; `Decoder` has all of their effect, on the
programs of `Routines`.

Definitions called *Mutant of ...* are wrong variants of the one they name.
They are not used by any specification: each property is known to fail for one
of them. The `TypeOK` of a module documents its state and is part of the
inductive invariant of its proofs; where its bounds are a question of their own
(`ExternalIrq`, `AvrCore`), it is an invariant of a run.

`SystemClock::Add` does not look whether its member is in the table already
(systemclock.cpp:129). The guard of the action `Add` stands for its callers,
which add each device once; that no member has two places rests on them.

The theorems are in modules of their own, one for each component: `AvrCoreProofs`,
`ExternalIrqProofs`, `EepromProofs`, `DeviceCycleProofs`, `TimerProofs`,
`UartProofs`, `SpiProofs` and `SystemClockProofs`. The ones about `Alu` are in
`AvrCoreProofs`; the ones about `Watchdog`, `CycleList` and their composition in
`DeviceCycleProofs`. Because `DeviceCycle` extends both, the specification of
`CycleList` is called `ListSpec` and its state `listVars`.

## Runs

Passing runs and what they show:

* `clock` - all interleavings of Add, Step, Stop, ResetClock, signals and the
  loops with four members: the heap invariant and the refinement of
  `TimeTable`; a break ends the loop, and no sequence of answers keeps
  `Run` or `RunTimeRange` from its end time while there are members.
* `external_irq` - flag and mask set implies queued; a level request stays
  queued while the pin asks; a flag disappears only for one of four reasons.
* `core` - programs with balanced stacks, nested handlers and resets: an
  acknowledged vector is never dropped and is entered in the end, every running
  handler has its return point, and after a RETI that was executed with I clear
  the code returned to runs at least one instruction before the next handler
  (`ProgressAfterReti`). A handler that enabled interrupts gives no such promise:
  `Step` prepares the next vector at the RETI itself and enters it right after,
  so that such handlers can starve the code they interrupt. That the first and
  the last hold for arbitrary programs is proved.
* `decoder` - the routines end with the sum, difference, shift or product of
  their operands and its flags (`WideArithmetic`), branches after comparisons
  of words are taken when they should (`BranchesRight`), skips, calls and loops
  come back with the stack where it was (`ControlRight`), pointers that move go
  to memory and back (`PointersRight`), and a boot loader erases, fills and
  writes a page in time and nothing else (`ProgramsPage`); all with an
  interrupt between any two instructions and on cores with return addresses of
  two and three bytes.
* `eeprom` - with resets at any time: what is pending is clocked, busy is
  visible, only the cell asked for changes, the enable window (except for the
  enable state that a reset leaves standing, see below), the ready interrupt.
* `device_cycle` - the watchdog on the cycle list of a device, with a UART
  registered before it and an EEPROM, a timer and an SPI that come and go: no
  hardware is called twice in a cycle; what is registered when the device is
  built is called in every cycle, whatever leaves the list behind it
  (`PermanentCalled`), so that the watchdog and the UART, which count calls,
  count cycles; no more hardware misses its call than left the list under the
  walk. On that: the watchdog's gate, no early reset, warning before the reset,
  hanging programs are reset, also while other hardware holds the CPU.
* `timer` - no event is lost between TIFR, TIMSK and the queue; in fast PWM, in a
  period that began with a compare value below the top, the output is high
  exactly up to the compare value in effect, whenever OCR is written, and a
  period that began with the compare value at the top is low throughout
  (`DutyCycle`; hwtimer.cpp:142-157 runs the compare event after the top event of
  the same count); a timer that counts up overflows in time wherever a mode
  change has caught its counter; once the noise canceler has seen its input
  change since it was switched on, it lets no level through that was not there
  for five samples (`CaptureIsFiltered`; what happens before that, see below).
* `uart` - an enabled flag is queued whatever is written; with programs that
  keep the rules every frame that is completed is the next word that was sent,
  with glitches on the line, and it comes within the bit times of a frame and
  two more; after a reset this holds again whatever was done before.
* `spi` - a byte that nobody disturbs is exchanged, with the bit counters of
  both sides in step; every byte ends in bounded time, whatever disturbs it.

The runs with the result *violation* are the [findings](#findings).

`CHECK_DEADLOCK FALSE` appears where the modelled program really ends: a killed
process or a passed time bound (`SystemClock`), an exit symbol (`AvrCore`), an
invalid iterator (`ExternalIrq`).

## Bounds

* `SystemClock`: four members, delays -1, 0, 1, 2 and steps until time 2
  (`MaxTime`; places reach 4). Four members give a heap of three levels, so both
  sifts choose between children and go two levels deep.
* `ExternalIrq`: two single lines and one port with one pin; two lines of
  different priority and one without level mode are what the scan tells apart.
* `AvrCore`: two vectors, one of which its hardware keeps asking for. With
  `WellBehaved`: 24 stack bytes, two nested handlers (`MaxNesting`), two pushed
  bytes per handler (`MaxPush`), so that handlers nest over pushes. A stack
  pointer that wraps around needs another kind of program and is covered by the
  proofs only.
* `Decoder`, `Routines`: eleven operands at the borders of bytes and words, both
  values of the flags at the start, three kinds of core, one interrupt
  (`MaxIrqs`) at any place, pages of two words, 64 words of flash. The proofs
  about `Alu` cover all operands.
* `Eeprom`: two cells of one bit, writes of 6 and 3 cycles: longer and shorter
  than the enable window of 4. One bit tells erased, programmed and the logical
  and apart.
* `DeviceCycle`: periods 3 and 6, one reserved prescaler, 13 cycles counted since
  the last WDR (`MaxSince`), more than two periods. The constructor leaves
  `counter` uninitialized; values above 4 are left out since they only run down
  while WDCE is clear. Five peripherals: two from the constructors, the second of
  which is the watchdog and resets, one that leaves the list in its own cycle,
  two that programs and resets take off, so that places are lost at the index, by
  the EEPROM, and behind it, by a reset.
* `Timer`: a counter of two bits in a long of three (`LongMax`), tops at 1, 2 and
  3, one compare unit, and five kinds of programs (`Programs`): PWM with fixed
  tops, with OCRA and with ICR as top, normal and CTC mode with interrupts, input
  capture. Each gives the modes and values that it writes; within it they are
  written at any time.
* `Uart`: six kinds of programs: three that keep the rules (two words and short
  frames, two stop bits and a slow clock, nine bits) and three that once write
  the status, control or format register against them (`wild`). At most three
  words are remembered as sent; one in UDR and one in the shift register are
  what the transmitter holds.
* `Spi`: both clock phases, each with one polarity and bit order (these only
  invert SCK and rename bits), a divisor of two, two writes of the master
  (`MaxWrites`), two disturbing events (`MaxEvents`), and an asymmetric byte. A
  divisor of one (SPI2X) is excluded by `SpiAssumption`, see below.

## Fairness

* `SystemClock!FairSpec`: a loop that was entered keeps turning (straight code
  in one thread). Nothing is assumed about members, signals or callers.
* `AvrCore!FairSpec`: the simulation keeps stepping the core until it stops.
* `Eeprom!FairSpec`, `DeviceCycle!DeviceFairSpec`: the core keeps being clocked;
  `AvrDevice::Step` walks the list in every cycle, also while the CPU is held.
  That the walk reaches the watchdog is not assumed but follows from its place
  on the list. Programs and resets are not assumed to do anything.
* `Timer`, `Uart` and `Spi` need none: what must happen is bounded by a number of
  their own clocks (`OverflowInTime`, `ArrivesInTime`, `DoneInTime`), which is
  more than that it happens eventually.

## Proofs

A property that a run checks on a small instance is a theorem for every value of
the constants here. Each module states an inductive invariant `Inv` (it was
model-checked on the instance of the run first), proves that the initial states
have it and that every action keeps it, and reads the properties off it.

`ExternalIrqProofs` (any set of lines and pins). `TypeCorrect`, `NoEventLost`,
`LevelNotConsumed` and `EdgeNotForgotten` rest on
`Inv == TypeOK /\ FlaggedIsQueued`, which is inductive: the types are needed
because `GetNewPc` compares vectors and because the least servable vector has to
exist (`LeastIsMember`, from well-foundedness of the natural numbers). The
interesting case is `GetNewPc`: every line it takes from the queue loses its flag
in the same step, and what it passes over are level lines.
Assumption: vectors are positive numbers, single lines and ports are disjoint.

`AvrCoreProofs` (any vectors, stack size, nesting and program, well behaved or
not). `TypeCorrect`, `NothingDropped` and `Progress` rest on `Inv`, which adds to
`TypeOK` and `AcknowledgedIsDeferred` that a deferral has a vector and that
none is left by a RETI that was executed with I clear (`fresh => ~deferIrq`).
Without these two the properties are not inductive: an instruction could
overwrite an acknowledged vector, and a step could start with a fresh RETI and
a deferral. Lemmas: the stack pointer is reduced modulo `stackCeil`
(`Wrap`), walks over return points keep their types (`CheckKeepsTypes`), every
instruction keeps the stack's types (`ExecuteStack`), the first of a queue is
queued (`FirstIsQueued`). Assumption `CoreAssumption`: vectors are positive,
the stack has at least one byte.

`HandlersAreArmed` is the property of the return points: a popped stack pointer
must reach the one of the handler that ends and no other. It needs the geometry
of the stack (`StackInv`): handlers lie below each other in the order of their
entry (`Nested`), each was entered in the part of the stack of the code that it
interrupted (`Within`), and the running code stays in its own part (`Balanced`).
Assumption `RoomAssumption`: a well behaved program has room for its deepest
nesting, twice, because an interrupt that is deferred over a reset is entered
on the stack of before the reset. With less room the stack pointer wraps around
and the property fails.

`EepromProofs` (any cells and write times). `TypeCorrect`, `WorkIsClocked`,
`WriteIsVisible`, `NoStrayWrite`, `WriteNeedsEnable`. The invariant adds that the
count of the enable state is the window the program opened, unless a reset
cleared it (`WindowIsCounted`), and that a write under way goes to the address it
was asked for (`WriteIsAsked`): the program may change EEAR during a write.

`DeviceCycleProofs`, about `Watchdog` (any table of periods). `TypeCorrect`,
`GateProtects`, `ServedIsNotReset`, `WarnedFirst`. The invariant relates what is
left of the time out to what has passed since the last WDR: together at least a
period (`FullPeriod`); the gate is open as long as its count runs
(`GateIsCounted`); a counted time out has raised its interrupt
(`CountedIsWarned`). Assumption: periods are positive and at most `MaxSince`, up
to which the history counts.

About `CycleList` (`DeviceCycleProofs`, any hardware, any of it leaving or
resetting): `ListTypeCorrect`, `NoSecondCall`, `PermanentNotMissed` and
`GapsBound`. The invariant says of a walk that
nothing ahead of the index has been called, and that not more places behind it
were passed over (`Skipped`) than hardware left the list. The first holds because
what stays only moves forward (`PlaceFacts`: the n-th that stays was the n-th or a
later one). For the second (`GapsCount`) the places skipped after a call are
either places that were skipped before, or were moved over the index, and of these
there are at most as many as the places up to the index that became free; both
are counted with injections. That the n-th place exists at all (`PlaceExists`)
takes the least place with n that stay up to it. `PermanentNotMissed` needs
that the list begins with the permanent hardware at all times, so that everything
of it up to the index has been called.
Assumption `HardwareAssumption`: the permanent hardware is registered once and is
none of what leaves.

`DeviceImplements`: a device with its watchdog (`DeviceSpec`) implements both
specifications, `Spec` of `Watchdog` and `ListSpec` of `CycleList`, so that all of
the above holds in the composition.

`TimerProofs` (any width, tops, compare units and program). `NoEventLost`:
`FlaggedIsQueued` is inductive by itself, since what raises a flag looks at the
mask, what sets a mask bit looks at the flag, and what takes a vector out of the
queue clears its flag. `TypeCorrect`, `DutyCycleKept`, `OverflowComes` and
`PulsesAreFiltered` need the counter: where tops come from (`TopInRange`), how far
the counter can be since the last overflow (`IdleIsCounted`: once from above the
top to the maximum, once from zero to the top), that it is not above the top once
fast PWM has passed it (`SteadyCounts`), and that since its input changed the
noise canceler has counted less equal samples than there were (`CancelerCounts`).
`DutyCycleKept` includes the compare value at the top, where the output is low;
`PulsesAreFiltered` begins at the first change of the input after the canceler
was switched on, since up to then its count is what it was left with. Assumption:
the three fixed tops are positive and within the counter, the long is longer than
the counter. `OverflowInTime` is about tops up to the maximum: see *Findings* for
the other ones.

`UartProofs` (any kinds of programs). `TypeCorrect` and `NoEventLost`, for all
formats and formats changed in the middle of a frame. The types are not inductive
by themselves: the receiver's votes and its bit count stay in their range only
because votes are taken at ticks 8 to 10 and data is read only while there is
room for a bit (`Counted`). The queue is in step after `CheckForNewSetIrq` and
`CheckForNewClearIrq` if it was before the access (`CheckQueues`).

With programs that keep the rules (`Linked`: both directions are enabled together;
the format is changed only when the line is quiet; no parity; UDR is written only
when UDRE is set) it also proves `SentIsReceived`, that every frame the receiver
completes is the next word sent, and `WordsArrive`, the bound on its time. Their
invariant is `KeepsStep`: while the program is not wild, `Framed` holds. The
receiver starts at the falling edge of the start bit, so from then on its count
of ticks and the transmitter's bit are one clock of 16 ticks per bit (`InPhase`):
whenever it takes its samples, at ticks 8 to 10, the line has the bit it
wants, of the three samples at most one is wrong, so the majority is right
(`VotesRight`, `VoteWins`) and the bits read so far are those of the word
(`ReadsWell`). The queue of words sent is the one that is still being read, the
one in the shift register and the one in UDR (`QueueRight`), and the age of the
oldest follows the bit of its frame (`AgeRight`). One lemma for each state of
receiver and transmitter says that its step keeps this (`RxFramed`, `TxFramed`);
a reset makes it true again, whatever the program did before.

`SystemClockProofs` (any members, any answers and delays, any time bound).
`HeapStaysOrdered`, `ClockIsTimeTable` (every step of the clock is one of
`TimeTable` or leaves it alone), `TimeRunsForward` (the time of a simulation
never goes back but by a reset) and `TypeCorrect`. Assumption `DelaysAssumption`:
delays are integers, the time bound is a natural number. The sift loops are
recursive functions; that such functions exist and that they satisfy their
equations is shown with a least counterexample (`LeastExists`, `UpExists`,
`DownExists`), and so is what they do (`UpFacts`, `DownFacts`): an element
moves through the heap as through a hole, around which the order holds, and the
result is a rearrangement of what was there; that it leaves nothing out is a
count (`Onto`). `Inv == TypeOK /\ HeapOrdered /\ NothingOverdue`: that no entry
lies in the past is needed for the order of times, and holds because a member is
put back at a later time than the one it ran at (`NextPlaceIsLater`).

About `Alu` (`AvrCoreProofs`, all operands): `AddFlagsRight` and `SubFlagsRight`,
the formulas of `get_add_carry`, `get_add_overflow`, `get_sub_carry` and
`get_sub_overflow`, which look at single bits of operands and result, are
carry, half carry and the sign of the sum or difference that has not been
wrapped. `WideAdd` and `WideCompare` chain two of them: the flags after the high
bytes are those of the words, also Z, which SBC and CPC only ever clear. Lemmas:
a bit as a comparison (`HighBit`, `MiddleBit`), results wrap at most once
(`AddRange`, `SubRange`).

`SpiProofs` (any clock modes with a divisor from 2 on, any bytes, any number of
writes, faults and settings). `TypeCorrect` and `BytesEnd` rest on `Inv`, which
looks at each interface for itself. For m: a byte is finished only by a master that
is behind its last leading edge (`Masterlike`), and the age of its byte and what is
left of it (`Rest`, a count of the cycles to the leading edge of bit 7 and to the
end) are together at most nine bits (`MasterRight`). Every cycle takes one off the
rest (`RestFalls`), a collision leaves it alone, and whatever switches the
interface begins a count that has room for all of it (`RestBound`). For s: nothing
is finished between two cycles, and before the first edge nothing is shifted in
(`Fresh`).

`BitsInStep` and `BytesExchanged` need both interfaces together: `Linked` says that
in an undisturbed byte before a cycle of the master the slave has seen every edge
(`BeforeMaster`), and before a cycle of the slave that it has seen all but the one of
this cycle (`BeforeSlave`). Between the edges both have shifted in the first bits of
the other's byte (`First`), one less when the phase takes them at the trailing edge
(`Taken`), and the lines have the bit that will be taken. When the master has read
its byte the slave has still to see the last edge (`Ends`): that is why a slave
that is disturbed right then loses the byte although the master has it, and why
`Over` asks for the slave's counter too. One lemma for each kind of cycle says that
it keeps this (`MasterCounts`, `MasterRaises`, `MasterFalls`, `MasterStops`,
`SlaveStarts`, `SlaveHolds`, `SlaveRises`, `SlaveEndsBit`, `SlaveStops`).
Assumption `SpiAssumption`: the divisor is at least 2; with 1 a slave answers after
the master has sampled, see *Findings*.

Only model-checked: all liveness properties (`BreakEndsLoop`, `LimitEndsLoop`,
`TakenIsEntered`, `ReadyIrqComes`, `HangIsReset`: fairness and ENABLED are outside
the prover's reach), and `Decoder` and what is built on it (it uses the bit operators
of `Bitwise`, which the provers do not know).

## Findings

Each is a run that TLC refutes, with the sentence of the repository it
contradicts quoted in `PROJECT.json`.

| run | what happens |
|---|---|
| `missed_cycle` | hardware that leaves the cycle list in its own `CpuCycle` (the EEPROM) makes the hardware that moves into its place miss the cycle, although it is registered; `MissedOnlyByGaps` says how much can be missed, `PermanentCalled` who cannot. A reset by the watchdog takes away only places that the walk has not reached, and nothing misses its call by it |
| `core_reset` | a deferred interrupt survives a reset and is entered first |
| `decoder_jump` | EICALL and EIJMP go one word too far; RJMP and RCALL to word 0 leave the flash |

Further behaviour worth knowing, for which there is no run. Clock, core and
interrupts:

* `Reschedule` mixes 0-based and 1-based positions and overwrites another
  member (systemclock.cpp:190); nothing calls it.
* `GetNewPc` increments an iterator to an entry that `ClearIrqFlag` has erased,
  for a level request that went away (irqsystem.cpp:217; `crashed` in
  `ExternalIrq`).
* The statistic keeps the first time of each event until it has all four, so a
  request raised again while its handler runs is mixed into the entry of the
  next call (irqsystem.cpp:241).
* A RETI executed with I set, at the end of a handler that enabled interrupts, is
  itself the instruction before the next entry (avrdevice.cpp:333): handlers of
  this kind that are always asked for starve the program.
* A cleared mask bit leaves a queued external or timer interrupt in place, and it
  is taken although it is disabled (externalirq.cpp:121, timerirq.cpp:131). The
  same holds for a reset of timers and UART.
* A line whose pin is already low does not fire when it is switched to low
  level mode (externalirq.cpp:203).
* Return points survive a reset, so the trace value of an interrupted handler
  stays 1 and its next call leaves no edge (avrdevice.cpp:384).

EEPROM and watchdog:

* A reset in the enable state stops its count but not the state: writes stay
  enabled until the next one (hweeprom.cpp:102; `stranded` in `Eeprom`).
* A read and a write of the EEPROM requested together in the enable state leave
  the write bit set with no write under way (hweeprom.cpp:174).
* `WatchDog::setWdtcsr` only ever sets WDRE and the prescaler, so the watchdog
  cannot be switched off (watchdog.cpp:58); `HWWado::SetWdtcr` compares masked
  bits with 1, so that the older one cannot be switched on (hwwado.cpp:38).

Timers:

* The up and down counting branch never masks the counter: above the top it
  counts on to the end of an unsigned long (hwtimer.cpp:124). An input capture
  stores such a count in ICR (hwtimer.cpp:187), and fast PWM with ICR as top takes
  it as its top (hwtimer.cpp:876): the counter, masked there, never reaches it and
  the timer stops overflowing until ICR is written again.
* In fast PWM with the compare value at the top the output is low all the time,
  and for one period more after a lower value was written: the compare event
  clears what the top event of the same count has set (hwtimer.cpp:142-157). The
  repository does not say what it should be; `DutyCycle` states it as it is.
* A write to ICR changes the top in fast PWM only; COM_TOGGLE of unit A in the
  OCRA modes is overwritten.
* The noise canceler keeps its old samples while it is switched off
  (hwtimer.cpp:168): right after it is switched on, a pulse of one sample at the
  level it was left with is captured.

UART and SPI:

* The receiver never leaves RX_READ_PARITY (hwuart.cpp:262): with parity enabled
  nothing is ever received. Transmitter and receiver also disagree on UPM0, and
  the parity bits are never initialised.
* The ninth data bit is put into an `unsigned char` and lost (hwuart.cpp:404).
* A write to UCSRA replaces UDRE (hwuart.cpp:75): the transmitter then sends a
  frame that nobody wrote; a one written to TXC raises its vector.
* There is no overrun flag with two stop bits.
* A write to SPDR between the last bit and `trxend` drops the received byte with
  neither SPIF nor WCOL; a colliding write sets WCOL but replaces the byte that is
  being sent (hwspi.cpp:81); the slave never sets WCOL.
* After a mode fault the return to master starts a transfer that nobody asked
  for; SS raised in the cycle in which the master ends loses the slave's byte.
* An access to SPDR clears SPIF but leaves its vector queued, and enabling SPIE
  with SPIF set queues nothing.
* With a divisor of one the slave answers after the master has sampled.

Decoder and flash:

* ESPM replaces RAMPZ by the carry of Z and moves Z by one (decoder.cpp:607).
* A reset during programming leaves the section locked, and the next instruction
  in it ends the simulation (flashprog.cpp:106).
* An erase also clears the page buffer, so filling before erasing loses the data;
  the buffer is not cleared after a write. A write to SPMCR in the enable window
  changes the register but not the operation.

## Not modelled

The converter and comparator, pins, nets and ports, and the gdb server are in
the plan. Out of scope: formatting of traces, the user interface and its
sockets, the WIZnet models, the Verilog and language bindings, loading of
programs, the tables that describe devices. Vendored libraries (elfio, getopt,
gtest, which alone is more than a third of the repository's lines) and the
examples and regression tests are not part of the simulator; with them counted
the modules cover a small share of the repository, of the simulator's own core,
clock, interrupts, decoder and peripherals most.

Inside the modelled components: asynchronous clock members, `Reschedule`, direct
changes of the simulation time (Verilog only); the statistic of interrupts; the
three level stack and the thread list; the variant of external interrupts with
one mode bit and of the AT90S8515; loading an EEPROM image; the older watchdog
`HWWado`; the prescalers' counters, the latch for high bytes, the capture from
the comparator and `HWTimerTinyX5`; synchronous mode and the address shared by
UCSRC and UBRRH; the change of the SPI's prescaler; the decoding of opcodes
(`lookup_opcode`), SLEEP, reading the signature, and running code that was
programmed by itself (it is data in `Decoder`).

## Plan

Done: clock and heap against `TimeTable`; external interrupts, core, cycle list;
EEPROM and watchdog, the watchdog on the cycle list; timer, UART and SPI; instructions and flash programming; the
safety properties of external interrupts, core, cycle list, EEPROM, watchdog and
timer, of the clock with its refinement of `TimeTable`, of the UART with its frames
and of the SPI with its bytes, as theorems.

Next, in this order:

1. `HWTimerTinyX5` and the prescaler multiplexer; the converter and comparator.
2. Drivers of a net; the run control of the gdb server; the thread list and the
   three level stack.
3. The decoding of opcodes against the instructions' operands.
