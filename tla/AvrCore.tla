------------------------------ MODULE AvrCore ------------------------------
(***************************************************************************)
(* One AVR core: AvrDevice::Step and AvrDevice::Reset (avrdevice.cpp),     *)
(* taking interrupts from HWIrqSystem (irqsystem.cpp) and detecting the    *)
(* end of interrupt handlers by the return points of HWStackSram           *)
(* (hwstack.cpp).                                                          *)
(*                                                                         *)
(* The simulated program is arbitrary: each instruction is one of the      *)
(* kinds of Ops, which are told apart by what they do to the I flag, the   *)
(* stack pointer and the cycle count.  Program counters and the bytes on   *)
(* the stack are left out.  A step that is held by a peripheral or by a    *)
(* breakpoint changes nothing here and is a stuttering step.               *)
(***************************************************************************)
EXTENDS Integers, Sequences

CONSTANTS Vectors,      \* interrupt vectors; a smaller one has priority
          Sticky,       \* vectors whose hardware keeps asking when taken
          StackCeil,    \* HWStackSram::stackCeil
          InitSP,       \* where the program puts its stack
          MaxNesting,   \* bound: handlers that a program nests
          MaxPush,      \* bound: bytes a program pushes per handler
          WellBehaved   \* the program pops what it pushed and no more

NoVector == 0           \* newIrqPc = 0xffffffff

AddrBytes == 2          \* AvrDevice::PC_size

Ops == {"nop", "sei", "cli", "outSreg0", "stSreg0", "push", "pop",
        "call", "ret", "reti", "setSP", "break"}

ASSUME CoreAssumption ==
  /\ Vectors \subseteq Nat \ {0}
  /\ Sticky \subseteq Vectors
  /\ StackCeil \in Nat \ {0}
  /\ InitSP \in 0 .. StackCeil - 1
  /\ MaxNesting \in Nat /\ MaxPush \in Nat
  /\ WellBehaved \in BOOLEAN

(* A well behaved program has room for its handlers at their deepest; twice, *)
(* because an interrupt that waits over a reset is entered on the old stack. *)
ASSUME RoomAssumption ==
  WellBehaved => InitSP >= 2 * (MaxNesting * (AddrBytes + MaxPush) + MaxPush)

VARIABLES cpuCycles,       \* cycles until the next instruction
          iflag,           \* the I bit of SREG
          deferIrq,        \* a taken interrupt waits for one instruction
          newIrqPc,        \* the vector GetNewPc answered last
          irqPartnerList,  \* vectors waiting in HWIrqSystem
          sp,              \* HWStack::stackPointer
          returnPoints,    \* HWStack::returnPointList as <<sp, vector>>
          irqTrace,        \* vectors whose VCD trace value is 1
          stopped,         \* an exit symbol was reached
          (* history of the simulated program, not part of the simulator *)
          frames,          \* handlers a well behaved program is in, [vec, sp]
          owed,            \* vectors taken from the queue, not yet entered
          fresh,           \* the last instruction was a RETI, executed with I clear
          booting          \* the program has yet to set up its stack

device == <<cpuCycles, iflag, deferIrq, newIrqPc>>
stack == <<sp, returnPoints, irqTrace>>
history == <<frames, owed, fresh, booting>>
vars == <<device, irqPartnerList, stack, stopped, history>>

TypeOK ==
  /\ cpuCycles \in -2 .. 3
  /\ iflag \in BOOLEAN
  /\ deferIrq \in BOOLEAN
  /\ newIrqPc \in Vectors \cup {NoVector}
  /\ irqPartnerList \subseteq Vectors
  /\ sp \in 0 .. StackCeil - 1
  /\ returnPoints \subseteq (0 .. StackCeil - 1) \X Vectors
  /\ irqTrace \subseteq Vectors
  /\ stopped \in BOOLEAN
  /\ frames \in Seq([vec : Vectors, sp : 0 .. StackCeil - 1])
  /\ owed \subseteq Vectors
  /\ fresh \in BOOLEAN
  /\ booting \in BOOLEAN

Init ==
  /\ cpuCycles = 0 /\ iflag = FALSE
  /\ deferIrq = FALSE /\ newIrqPc = NoVector
  /\ irqPartnerList = {}
  /\ sp = InitSP /\ returnPoints = {} /\ irqTrace = {}
  /\ stopped = FALSE
  /\ frames = <<>> /\ owed = {} /\ fresh = FALSE /\ booting = TRUE
-----------------------------------------------------------------------------
(* The stack.  A walk of the stack pointer over n bytes, down or up,       *)
(* passes these places, the last of which it stays at.                     *)
Down(n) == {(sp - i) % StackCeil : i \in 1 .. n}
Up(n)   == {(sp + i) % StackCeil : i \in 1 .. n}

(* CheckReturnPoints at every place of a walk: the listeners registered    *)
(* there run IrqHandlerFinished for their vector and are removed.          *)
Finished(walk, points) == {v \in Vectors : \E s \in walk : <<s, v>> \in points}

CheckReturnPoints(walk, points, running) ==
  /\ returnPoints' = {p \in points : p[1] \notin walk}
  /\ irqTrace' = running \ Finished(walk, points)

Push(n) ==
  /\ sp' = (sp - n) % StackCeil
  /\ CheckReturnPoints(Down(n), returnPoints, irqTrace)

Pop(n) ==
  /\ sp' = (sp + n) % StackCeil
  /\ CheckReturnPoints(Up(n), returnPoints, irqTrace)

SetStackPointer(s) ==
  /\ sp' = s
  /\ CheckReturnPoints({s}, returnPoints, irqTrace)
-----------------------------------------------------------------------------
(* HWIrqSystem.  SetIrqFlag and ClearIrqFlag are called by the peripherals *)
(* between any two steps of the core.                                      *)
SetIrqFlag(v) ==
  /\ ~stopped
  /\ irqPartnerList' = irqPartnerList \cup {v}
  /\ UNCHANGED <<device, stack, stopped, history>>

ClearIrqFlag(v) ==
  /\ ~stopped
  /\ irqPartnerList' = irqPartnerList \ {v}
  /\ UNCHANGED <<device, stack, stopped, history>>

First == CHOOSE v \in irqPartnerList : \A w \in irqPartnerList : v <= w

(* opIsCli: CLI, or OUT to SREG with bit 7 clear.  A store to SREG through *)
(* the data space (ST, STS) clears I as well and is not recognised.        *)
opIsCli(op) == op \in {"cli", "outSreg0"}

(* Mutant of PrepareIrq: the vector is taken before the look at the next    *)
(* instruction.                                                            *)
PrepareIrqTakesFirst(op) ==
  IF ~iflag \/ irqPartnerList = {}
  THEN UNCHANGED <<deferIrq, newIrqPc, irqPartnerList, owed>>
  ELSE /\ newIrqPc' = First
       /\ deferIrq' = ~opIsCli(op)
       /\ irqPartnerList' = irqPartnerList \ ({First} \ Sticky)
       /\ owed' = owed \cup {First}

(* Mutant of PrepareIrq: SEI and RETI count as if already executed. *)
PrepareIrqEarly(op) ==
  IF ~(iflag \/ op \in {"sei", "reti"}) \/ opIsCli(op) \/ irqPartnerList = {}
  THEN UNCHANGED <<deferIrq, newIrqPc, irqPartnerList, owed>>
  ELSE /\ newIrqPc' = First
       /\ deferIrq' = TRUE
       /\ irqPartnerList' = irqPartnerList \ ({First} \ Sticky)
       /\ owed' = owed \cup {First}

(* Interrupt preparation in Step: with I set and unless the next           *)
(* instruction clears it, the first pending vector is taken (GetNewPc) and *)
(* deferred by one instruction.                                            *)
PrepareIrq(op) ==
  IF ~iflag \/ opIsCli(op)
  THEN UNCHANGED <<deferIrq, newIrqPc, irqPartnerList, owed>>
  ELSE IF irqPartnerList = {}
  THEN newIrqPc' = NoVector /\ UNCHANGED <<deferIrq, irqPartnerList, owed>>
  ELSE /\ newIrqPc' = First
       /\ deferIrq' = TRUE
       /\ irqPartnerList' = irqPartnerList \ ({First} \ Sticky)
       /\ owed' = owed \cup {First}

(* What an instruction does to the stack and to the I flag. *)
Execute(op) ==
  /\ iflag' = CASE op \in {"sei", "reti"} -> TRUE
                [] op \in {"cli", "outSreg0", "stSreg0"} -> FALSE
                [] OTHER -> iflag
  /\ CASE op = "push" -> Push(1)
       [] op = "pop" -> Pop(1)
       [] op = "call" -> Push(AddrBytes)
       [] op \in {"ret", "reti"} -> Pop(AddrBytes)
       [] op = "setSP" -> IF WellBehaved THEN SetStackPointer(InitSP)
                          ELSE \E s \in 0 .. StackCeil - 1 : SetStackPointer(s)
       [] OTHER -> UNCHANGED stack
  /\ frames' = IF op = "reti" /\ frames # <<>>
               THEN SubSeq(frames, 1, Len(frames) - 1) ELSE frames
  /\ fresh' = (op = "reti" /\ ~iflag)
  /\ booting' = (booting /\ op # "setSP")

(* The stack pointer at which the code that runs now started. *)
Base == IF frames = <<>> THEN InitSP ELSE frames[Len(frames)].sp - AddrBytes

(* A well behaved program sets up its stack first (its handlers do not),   *)
(* enables interrupts in handlers up to a nesting bound, and keeps its     *)
(* pushes and pops balanced.                                               *)
Sensible(op) ==
  /\ op = "setSP" <=> booting /\ frames = <<>>
  /\ op = "sei" => Len(frames) < MaxNesting
  /\ op = "push" => sp > Base - MaxPush
  /\ op = "call" => sp - 1 > Base - MaxPush
  /\ op = "pop" => sp < Base
  /\ op = "ret" => sp + 1 < Base
  /\ op = "reti" => frames # <<>> /\ sp = Base

Clock == cpuCycles > 0 /\ ~stopped

AtInstruction == cpuCycles <= 0 /\ ~stopped

(* Mutant of Deferred: the I flag is asked again before entering. *)
DeferredIfEnabled == deferIrq /\ newIrqPc # NoVector /\ iflag

Deferred == deferIrq /\ newIrqPc # NoVector

(* Mutant of CyclesLeft: the cycle of this step is not counted. *)
CyclesUncounted(op, c) == IF op = "break" THEN -1 ELSE c

(* Cycles left after the step that executes op, which takes c cycles; the  *)
(* BREAK instruction answers BREAK_POINT + 1, which is -1, instead.        *)
CyclesLeft(op, c) == (IF op = "break" THEN -1 ELSE c) - 1

(* Mutant of ReturnPoint: the PC is pushed before the point is set. *)
ReturnPointAfterPush == <<(sp - AddrBytes) % StackCeil, newIrqPc>>

(* The listener that Step registers for the handler it enters. *)
ReturnPoint == <<sp, newIrqPc>>

(* Step at an instruction, no interrupt waiting: prepare one, execute the  *)
(* instruction in c cycles.                                                *)
StepInstruction(op, c) ==
  /\ AtInstruction
  /\ ~Deferred
  /\ WellBehaved => Sensible(op)
  /\ PrepareIrq(op)
  /\ Execute(op)
  /\ cpuCycles' = CyclesLeft(op, c)
  /\ UNCHANGED stopped

(* Step at an instruction with a deferred interrupt: arm the return point  *)
(* at the current stack pointer, push the PC and clear I.                  *)
StepEnterIrq ==
  /\ AtInstruction
  /\ Deferred
  /\ deferIrq' = FALSE
  /\ sp' = (sp - AddrBytes) % StackCeil
  /\ CheckReturnPoints(Down(AddrBytes),
                       returnPoints \cup {ReturnPoint},
                       irqTrace \cup {newIrqPc})
  /\ cpuCycles' = 4 - 1
  /\ iflag' = FALSE
  /\ frames' = IF WellBehaved THEN Append(frames, [vec |-> newIrqPc, sp |-> sp])
               ELSE frames
  /\ owed' = owed \ {newIrqPc}
  /\ fresh' = FALSE
  /\ UNCHANGED <<newIrqPc, irqPartnerList, stopped, booting>>

(* Step in the middle of an instruction. *)
StepWait ==
  /\ Clock
  /\ cpuCycles' = cpuCycles - 1
  /\ UNCHANGED <<iflag, deferIrq, newIrqPc, irqPartnerList, stack, stopped, history>>

(* Step at an exit symbol: the simulation is stopped. *)
StepExit ==
  /\ AtInstruction
  /\ stopped' = TRUE
  /\ UNCHANGED <<device, irqPartnerList, stack, history>>

(* Reset.  HWStack and HWIrqSystem are no Hardware, so the stack pointer,  *)
(* the return points and the queue are not reset; deferIrq is not either.  *)
Reset ==
  /\ ~stopped
  /\ WellBehaved => ~booting   \* bound: one reset per stack set-up
  /\ iflag' = FALSE
  /\ cpuCycles' = 0
  /\ frames' = <<>> /\ owed' = {} /\ fresh' = FALSE /\ booting' = TRUE
  /\ UNCHANGED <<deferIrq, newIrqPc, irqPartnerList, stack, stopped>>

Step ==
  \/ \E op \in Ops, c \in 1 .. 4 : StepInstruction(op, c)
  \/ StepEnterIrq
  \/ StepWait

Next ==
  \/ Step
  \/ StepExit
  \/ Reset
  \/ \E v \in Vectors : SetIrqFlag(v) \/ ClearIrqFlag(v)

Spec == Init /\ [][Next]_vars

(* The simulation loop keeps stepping the core. *)
FairSpec == Spec /\ WF_vars(Step)
-----------------------------------------------------------------------------
(* A vector that was acknowledged to its hardware and is not entered yet   *)
(* is the deferred vector, until a reset: preparing an interrupt neither   *)
(* drops nor overwrites one that still waits.                              *)
AcknowledgedIsDeferred == owed \subseteq (IF Deferred THEN {newIrqPc} ELSE {})

(* The end of every handler that runs will be noticed: its return point is *)
(* armed at the stack pointer it was entered with.                         *)
ActiveHandlerArmed ==
  \A i \in DOMAIN frames : <<frames[i].sp, frames[i].vec>> \in returnPoints

(* A handler that has I clear at its RETI lets at least one instruction of *)
(* the code it returns to run before the next handler is entered.  This is *)
(* not so for a handler that enabled interrupts: Step then prepares the    *)
(* next one at the RETI itself and enters it right after it, so that such  *)
(* handlers may follow each other and starve the interrupted code.         *)
ProgressAfterReti == fresh /\ AtInstruction => ~Deferred

(* A vector that was taken is entered, unless the simulation ends.         *)
TakenIsEntered == deferIrq ~> (~deferIrq \/ stopped)

(* After a reset the I flag is clear: no handler is entered before the     *)
(* program sets it.                                                        *)
NoIrqAfterReset == [][StepEnterIrq => ~booting]_vars
=============================================================================
