------------------------------- MODULE Eeprom -------------------------------
(***************************************************************************)
(* The EEPROM (HWEeprom, hweeprom.cpp): a cell memory behind the registers *)
(* EEAR, EEDR and EECR.  A write has to be enabled first, within four      *)
(* cycles, and then takes its time; a read is immediate and holds the CPU. *)
(* The EEPROM is clocked only while it has something to do: it enters and  *)
(* leaves the core's cycle list by itself.                                 *)
(*                                                                         *)
(* EECR is the set of its bits that are set and a byte is the set of its   *)
(* bits that are one: the erased byte is Bits, the logical and is \cap.    *)
(* Time is counted in CPU cycles; waiting is writeDoneTime - now.          *)
(***************************************************************************)
EXTENDS Naturals

CONSTANTS Addrs,            \* the cells, 0 .. size - 1
          Bits,             \* the bits of a byte
          EraseWriteTime,   \* eraseWriteDelayTime, in cycles
          SingleTime,       \* eraseDelayTime and writeDelayTime
          Extended          \* devMode = DEVMODE_EXTENDED

ASSUME EepromAssumption ==
  /\ Addrs # {}
  /\ EraseWriteTime \in Nat /\ SingleTime \in Nat
  /\ Extended \in BOOLEAN

Modes == {"ERASE", "WRITEONLY"}

eecr_mask == {"READ", "WRITE", "ENABLE", "IRQ"} \cup (IF Extended THEN Modes ELSE {})

Byte == SUBSET Bits

VARIABLES eecr, eear, eedr,   \* the registers
          opState,            \* "READY", "ENABLED" or "WRITE"
          opEnableCycles,     \* cycles until the enable bit falls
          cpuHoldCycles,      \* cycles for which the CPU is held
          opMode, opAddr,     \* of the write that is under way
          waiting,            \* cycles until the write is done
          myMemory,           \* the cells
          clocked,            \* in hwCycleList
          irq,                \* the vector is queued in the interrupt system
          canRun,             \* the core may access a register in this cycle
          (* history of what the program asked for *)
          window,             \* cycles left of the enable it gave
          stranded,           \* a reset came in the enable state it is in
          asked               \* address of the write it started last

memory == <<opState, opEnableCycles, cpuHoldCycles, opMode, opAddr, waiting, myMemory>>
vars == <<eecr, eear, eedr, memory, clocked, irq, canRun, window, stranded, asked>>

TypeOK ==
  /\ eecr \subseteq eecr_mask \ {"READ"}
  /\ eear \in Addrs /\ eedr \in Byte
  /\ opState \in {"READY", "ENABLED", "WRITE"}
  /\ opEnableCycles \in 0 .. 4
  /\ cpuHoldCycles \in 0 .. 4
  /\ opMode \subseteq Modes
  /\ opAddr \in Addrs
  /\ waiting \in Nat
  /\ myMemory \in [Addrs -> Byte]
  /\ clocked \in BOOLEAN /\ irq \in BOOLEAN /\ canRun \in BOOLEAN
  /\ window \in 0 .. 4
  /\ stranded \in BOOLEAN
  /\ asked \in Addrs

Init ==
  /\ eecr = {} /\ eedr = {}
  /\ eear \in Addrs
  /\ opState = "READY" /\ opEnableCycles = 0 /\ cpuHoldCycles = 0
  /\ opMode = {} /\ opAddr = eear /\ waiting = 0
  /\ myMemory = [a \in Addrs |-> Bits]
  /\ clocked = FALSE /\ irq = FALSE /\ canRun = TRUE
  /\ window = 0 /\ stranded = FALSE /\ asked = eear

(* How long a write with mode bits m takes. *)
WriteTime(m) == IF m \in {{"ERASE"}, {"WRITEONLY"}} THEN SingleTime ELSE EraseWriteTime

(* What a write with mode bits m makes of a cell that holds old. *)
Programmed(m, data, old) ==
  CASE m = {"ERASE"} -> Bits
    [] m = {"WRITEONLY"} -> data \cap old
    [] OTHER -> data
-----------------------------------------------------------------------------
(* Register writes of the program: one instruction of the core. *)
SetEear(a) ==
  /\ canRun /\ canRun' = FALSE
  /\ eear' = a
  /\ UNCHANGED <<eecr, eedr, memory, clocked, irq, window, stranded, asked>>

SetEedr(val) ==
  /\ canRun /\ canRun' = FALSE
  /\ eedr' = val
  /\ UNCHANGED <<eecr, eear, memory, clocked, irq, window, stranded, asked>>

(* A read is processed immediately and holds the CPU for four cycles. *)
Read ==
  /\ eedr' = myMemory[eear]
  /\ cpuHoldCycles' = 4

(* Mutant of SetReady: only enabling writes starts the clock. *)
SetReadyReadUnclocked(val) ==
  /\ opState = "READY"
  /\ eecr' = val \ {"READ", "WRITE"}
  /\ IF "ENABLE" \in val
     THEN opState' = "ENABLED" /\ opEnableCycles' = 4
     ELSE UNCHANGED <<opState, opEnableCycles>>
  /\ IF "READ" \in val THEN Read ELSE UNCHANGED <<eedr, cpuHoldCycles>>
  /\ clocked' = (clocked \/ "ENABLE" \in val)
  /\ UNCHANGED <<opMode, opAddr, waiting>>

(* SetEecr in OPSTATE_READY. *)
SetReady(val) ==
  /\ opState = "READY"
  /\ eecr' = val \ {"READ", "WRITE"}
  /\ IF "ENABLE" \in val
     THEN opState' = "ENABLED" /\ opEnableCycles' = 4
     ELSE UNCHANGED <<opState, opEnableCycles>>
  /\ IF "READ" \in val THEN Read ELSE UNCHANGED <<eedr, cpuHoldCycles>>
  /\ clocked' = (clocked \/ val \cap {"ENABLE", "READ"} # {})
  /\ UNCHANGED <<opMode, opAddr, waiting>>

StartsWrite(val) == opState = "ENABLED" /\ "WRITE" \in val /\ "READ" \notin val

(* SetEecr in OPSTATE_ENABLED: a read goes before a write, whose bit stays *)
(* in EECR although the request is ignored.                                *)
SetEnabled(val) ==
  /\ opState = "ENABLED"
  /\ \/ /\ "READ" \in val
        /\ eecr' = (val \cup {"ENABLE"}) \ {"READ"}
        /\ Read
        /\ UNCHANGED <<opState, opEnableCycles, opMode, opAddr, waiting>>
     \/ /\ StartsWrite(val)
        /\ eecr' = val \ {"ENABLE"}
        /\ cpuHoldCycles' = 2
        /\ opMode' = val \cap Modes
        /\ opAddr' = eear
        /\ opState' = "WRITE"
        /\ opEnableCycles' = 0
        /\ waiting' = WriteTime(val \cap Modes)
        /\ UNCHANGED eedr
     \/ /\ val \cap {"READ", "WRITE"} = {}
        /\ eecr' = val \cup {"ENABLE"}
        /\ UNCHANGED <<eedr, cpuHoldCycles, opState, opEnableCycles, opMode, opAddr, waiting>>
  /\ UNCHANGED clocked

(* Mutant of SetWriting: the register takes what is written to it. *)
SetWritingPlain(val) ==
  /\ opState = "WRITE"
  /\ eecr' = val
  /\ opEnableCycles' = IF "ENABLE" \in val THEN 4 ELSE opEnableCycles
  /\ UNCHANGED <<eedr, cpuHoldCycles, opState, opMode, opAddr, waiting, clocked>>

(* SetEecr in OPSTATE_WRITE. *)
SetWriting(val) ==
  /\ opState = "WRITE"
  /\ eecr' = (val \cup {"WRITE"}) \ {"READ"}
  /\ opEnableCycles' = IF "ENABLE" \in val THEN 4 ELSE opEnableCycles
  /\ UNCHANGED <<eedr, cpuHoldCycles, opState, opMode, opAddr, waiting, clocked>>

(* SetEecr; a newly enabled interrupt is raised at once if no write bit is *)
(* left.                                                                   *)
SetEecr(newval) ==
  /\ canRun /\ canRun' = FALSE
  /\ LET val == newval \cap eecr_mask
     IN  /\ SetReady(val) \/ SetEnabled(val) \/ SetWriting(val)
         /\ window' = IF opState = "READY" /\ "ENABLE" \in val THEN 4
                      ELSE IF StartsWrite(val) THEN 0 ELSE window
         /\ stranded' = (stranded /\ opState' = "ENABLED")
         /\ asked' = IF StartsWrite(val) THEN eear ELSE asked
  /\ irq' = (irq \/ ("IRQ" \notin eecr /\ "IRQ" \in eecr' /\ "WRITE" \notin eecr'))
  /\ UNCHANGED <<eear, myMemory>>

(* The core takes the interrupt: HWEeprom::ClearIrqFlag. *)
ClearIrqFlag ==
  /\ irq /\ irq' = FALSE
  /\ UNCHANGED <<eecr, eear, eedr, memory, clocked, canRun, window, stranded, asked>>
-----------------------------------------------------------------------------
(* CpuCycle leaves the cycle list when there is nothing left to do. *)
Dropped(state, enable) == state = "READY" /\ cpuHoldCycles = 0 /\ enable = 0

(* Mutant of Target: the address register is read when the write is done. *)
TargetNow == eear

(* The cell a finished write goes to. *)
Target == opAddr

(* Mutant of RaisesIrq: the interrupt is tied to the write enable. *)
RaisesIrqIfEnabled == {"IRQ", "ENABLE"} \subseteq eecr

RaisesIrq == "IRQ" \in eecr

Decremented(n) == IF n > 0 THEN n - 1 ELSE 0

(* Mutant of Fallback: the enable state outlasts its count. *)
FallbackNever(falls) == opState

(* The state after the enable count ran down, or not. *)
Fallback(falls) == IF falls /\ opState = "ENABLED" THEN "READY" ELSE opState

(* CpuCycle: count the enable down and fall back to READY, finish a write  *)
(* that is due, leave the cycle list if idle, hold the CPU.                *)
CpuCycle(left) ==
  LET enable == Decremented(opEnableCycles)
      falls  == opEnableCycles > 0 /\ enable = 0
      done   == opState = "WRITE" /\ left = 0
      state  == IF done THEN "READY" ELSE Fallback(falls)
  IN  /\ opEnableCycles' = enable
      /\ opState' = state
      /\ eecr' = eecr \ ((IF falls THEN {"ENABLE"} ELSE {})
                          \cup (IF done THEN {"WRITE"} ELSE {}))
      /\ myMemory' = IF done
                     THEN [myMemory EXCEPT ![Target] = Programmed(opMode, eedr, @)]
                     ELSE myMemory
      /\ irq' = (irq \/ (done /\ RaisesIrq))
      /\ clocked' = ~Dropped(state, enable)
      /\ cpuHoldCycles' = Decremented(cpuHoldCycles)
      /\ canRun' = (cpuHoldCycles = 0)

(* One cycle of the core: time passes and, if listed, CpuCycle is called;  *)
(* the instruction in between may have left the EEPROM alone.              *)
Cycle ==
  /\ waiting' = Decremented(waiting)
  /\ window' = Decremented(window)
  /\ IF clocked THEN CpuCycle(waiting')
     ELSE /\ canRun' = TRUE
          /\ UNCHANGED <<eecr, opState, opEnableCycles, cpuHoldCycles, myMemory, clocked, irq>>
  /\ stranded' = (stranded /\ opState' = "ENABLED")
  /\ UNCHANGED <<eear, eedr, opMode, opAddr, asked>>

(* Reset: neither the state machine nor the cycle list is touched. *)
Reset ==
  /\ eecr' = eecr \cap ({"WRITE"} \cup Modes)
  /\ eedr' = {}
  /\ opEnableCycles' = 0 /\ cpuHoldCycles' = 0
  /\ window' = 0
  /\ stranded' = (opState = "ENABLED")
  /\ UNCHANGED <<eear, opState, opMode, opAddr, waiting, myMemory, clocked, irq, canRun, asked>>

Next ==
  \/ \E a \in Addrs : SetEear(a)
  \/ \E val \in Byte : SetEedr(val)
  \/ \E val \in SUBSET eecr_mask : SetEecr(val)
  \/ ClearIrqFlag
  \/ Cycle
  \/ Reset

Spec == Init /\ [][Next]_vars

(* The core is clocked for ever. *)
FairSpec == Spec /\ WF_vars(Cycle)
-----------------------------------------------------------------------------
(* Whatever the EEPROM still has to do, it is in the cycle list to do it:  *)
(* an enable to withdraw, a write to finish or a CPU to hold.              *)
ActiveIsClocked ==
  opState # "READY" \/ opEnableCycles > 0 \/ cpuHoldCycles > 0 => clocked

(* A program that polls the write bit never takes a write for finished too *)
(* early, whatever it writes to EECR meanwhile and across a reset.         *)
BusyIsVisible == opState = "WRITE" => "WRITE" \in eecr

(* A cell changes only if a write was started for its address: changes of  *)
(* the address register during the write do not redirect it.               *)
OnlyAskedCellChanges == [][\A a \in Addrs : myMemory'[a] # myMemory[a] => a = asked]_vars

(* A program that waits for the ready interrupt of a running write gets it *)
(* unless it disables the interrupt or the device is reset.                *)
ReadyIrqComes == opState = "WRITE" /\ "IRQ" \in eecr ~> irq \/ "IRQ" \notin eecr

(* A write starts only within four cycles of the program's enable, except  *)
(* in an enable state that a reset left standing.                          *)
WriteIsEnabled ==
  [][opState # "WRITE" /\ opState' = "WRITE" => window > 0 \/ stranded]_vars

=============================================================================
