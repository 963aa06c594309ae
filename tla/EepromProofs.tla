---------------------------- MODULE EepromProofs ----------------------------
(***************************************************************************)
(* Proofs about the EEPROM: for every number of cells, every byte width    *)
(* and every write time it has its types, it is clocked while it has work, *)
(* it shows that it is busy, it changes only the cell that was asked for   *)
(* and it starts a write only in an enable window.                         *)
(***************************************************************************)
EXTENDS Eeprom, TLAPS

(* In the enable state the count that withdraws the enable is the window   *)
(* the program opened, unless a reset cleared the count: the assignments   *)
(* to opEnableCycles and opState in SetEecr, CpuCycle and Reset go         *)
(* together.                                                               *)
WindowIsCounted ==
  opState = "ENABLED" => stranded \/ (window = opEnableCycles /\ window > 0)

(* The write under way is for the address register's value at its start.   *)
WriteIsAsked == opState = "WRITE" => opAddr = asked

Inv == TypeOK /\ ActiveIsClocked /\ BusyIsVisible /\ WindowIsCounted /\ WriteIsAsked
-----------------------------------------------------------------------------
LEMMA InitInv == Init => Inv
<1> SUFFICES ASSUME Init PROVE Inv
  OBVIOUS
<1>1. clocked \in BOOLEAN /\ irq \in BOOLEAN /\ canRun \in BOOLEAN /\ stranded \in BOOLEAN
  BY Zenon DEF Init
<1> QED
  BY <1>1 DEF Init, Inv, TypeOK, ActiveIsClocked, BusyIsVisible, WindowIsCounted,
              WriteIsAsked, Byte

(* The time of every kind of write is a number of cycles. *)
LEMMA WriteTimeType == ASSUME NEW m PROVE WriteTime(m) \in Nat
  BY EepromAssumption DEF WriteTime

(* SetEecr keeps the invariant in each of the three operation states. *)
LEMMA SetEecrInv ==
  ASSUME Inv, NEW nv \in SUBSET eecr_mask, SetEecr(nv)
  PROVE  Inv'
<1> DEFINE val == nv \cap eecr_mask
<1> USE DEF Inv
<1>1. irq' \in BOOLEAN /\ stranded' \in BOOLEAN /\ canRun' \in BOOLEAN
  BY Zenon DEF SetEecr
<1>2. CASE SetReady(val)
  <2>1. clocked' \in BOOLEAN
    BY <1>2, Zenon DEF SetReady
  <2>2. TypeOK'
    BY <1>1, <1>2, <2>1 DEF SetEecr, SetReady, StartsWrite, Read, TypeOK
  <2>3. ActiveIsClocked'
    BY <1>2 DEF SetReady, Read, ActiveIsClocked, TypeOK
  <2> QED
    BY <1>2, <2>2, <2>3 DEF SetEecr, SetReady, BusyIsVisible, WindowIsCounted, WriteIsAsked
<1>3. CASE SetEnabled(val)
  <2>1. ~SetReady(val) /\ ~SetWriting(val)
    BY <1>3 DEF SetEnabled, SetReady, SetWriting
  <2>2. TypeOK'
    BY <1>1, <1>3, WriteTimeType DEF SetEecr, SetEnabled, StartsWrite, Read, TypeOK, eecr_mask
  <2>3. ActiveIsClocked'
    BY <1>3 DEF SetEnabled, ActiveIsClocked
  <2>4. BusyIsVisible'
    BY <1>3 DEF SetEnabled, StartsWrite, BusyIsVisible
  <2>5. WindowIsCounted'
    BY <1>3 DEF SetEecr, SetEnabled, StartsWrite, WindowIsCounted
  <2>6. WriteIsAsked'
    BY <1>3 DEF SetEecr, SetEnabled, StartsWrite, WriteIsAsked
  <2> QED
    BY <2>2, <2>3, <2>4, <2>5, <2>6
<1>4. CASE SetWriting(val)
  <2>1. TypeOK'
    BY <1>1, <1>4 DEF SetEecr, SetWriting, StartsWrite, TypeOK, eecr_mask
  <2> QED
    BY <1>4, <2>1 DEF SetEecr, SetWriting, StartsWrite, ActiveIsClocked, BusyIsVisible,
                      WindowIsCounted, WriteIsAsked
<1> QED
  BY <1>2, <1>3, <1>4 DEF SetEecr

(* A cycle keeps the invariant: the count and the window run down together *)
(* and the EEPROM leaves the cycle list only when it is idle.              *)
LEMMA CycleInv ==
  ASSUME Inv, Cycle
  PROVE  Inv'
<1> USE DEF Inv
<1>1. stranded' \in BOOLEAN /\ canRun' \in BOOLEAN /\ irq' \in BOOLEAN /\ clocked' \in BOOLEAN
  <2>1. stranded' \in BOOLEAN
    BY Zenon DEF Cycle
  <2>2. CASE clocked
    BY <2>1, <2>2, Zenon DEF Cycle, CpuCycle
  <2>3. CASE ~clocked
    BY <2>1, <2>3, Zenon DEF Cycle, TypeOK
  <2> QED
    BY <2>2, <2>3
<1>2. waiting' \in Nat /\ window' \in 0 .. 4
  BY DEF Cycle, Decremented, TypeOK
<1>3. CASE clocked
  <2>1. myMemory' \in [Addrs -> Byte]
    <3>1. \A old \in Byte : Programmed(opMode, eedr, old) \in Byte
      BY DEF Programmed, TypeOK, Byte
    <3> QED
      BY <1>3, <3>1 DEF Cycle, CpuCycle, Target, TypeOK
  <2>2. /\ opEnableCycles' \in 0 .. 4 /\ cpuHoldCycles' \in 0 .. 4
        /\ opState' \in {"READY", "ENABLED", "WRITE"}
        /\ eecr' \subseteq eecr_mask \ {"READ"}
    BY <1>3 DEF Cycle, CpuCycle, Decremented, Fallback, TypeOK
  <2>3. TypeOK'
    BY <1>1, <1>2, <2>1, <2>2 DEF Cycle, TypeOK
  <2>4. ActiveIsClocked'
    <3>1. ~clocked' => Dropped(opState', opEnableCycles')
      BY <1>3, Zenon DEF Cycle, CpuCycle
    <3>2. Dropped(opState', opEnableCycles') => cpuHoldCycles' = 0
      BY <1>3 DEF Cycle, CpuCycle, Dropped, Decremented
    <3> QED
      BY <3>1, <3>2 DEF Dropped, ActiveIsClocked
  <2>5. BusyIsVisible'
    BY <1>3 DEF Cycle, CpuCycle, Fallback, BusyIsVisible
  <2>6. WindowIsCounted'
    BY <1>3 DEF Cycle, CpuCycle, Fallback, Decremented, WindowIsCounted, TypeOK
  <2>7. WriteIsAsked'
    BY <1>3 DEF Cycle, CpuCycle, Fallback, WriteIsAsked
  <2> QED
    BY <2>3, <2>4, <2>5, <2>6, <2>7
<1>4. CASE ~clocked
  <2>1. opState = "READY" /\ opState' = "READY"
    BY <1>4 DEF Cycle, ActiveIsClocked
  <2>2. TypeOK'
    BY <1>1, <1>2, <1>4 DEF Cycle, TypeOK
  <2> QED
    BY <1>4, <2>1, <2>2 DEF Cycle, ActiveIsClocked, BusyIsVisible, WindowIsCounted,
                            WriteIsAsked
<1> QED
  BY <1>3, <1>4

LEMMA NextInv == Inv /\ [Next]_vars => Inv'
<1> SUFFICES ASSUME Inv, [Next]_vars PROVE Inv'
  OBVIOUS
<1> USE DEF Inv
<1>1. ASSUME NEW a \in Addrs, SetEear(a) PROVE Inv'
  BY <1>1 DEF SetEear, memory, TypeOK, ActiveIsClocked, BusyIsVisible, WindowIsCounted,
              WriteIsAsked
<1>2. ASSUME NEW v \in Byte, SetEedr(v) PROVE Inv'
  BY <1>2 DEF SetEedr, memory, TypeOK, ActiveIsClocked, BusyIsVisible, WindowIsCounted,
              WriteIsAsked
<1>3. ASSUME NEW v \in SUBSET eecr_mask, SetEecr(v) PROVE Inv'
  BY <1>3, SetEecrInv
<1>4. CASE ClearIrqFlag
  BY <1>4 DEF ClearIrqFlag, memory, TypeOK, ActiveIsClocked, BusyIsVisible,
              WindowIsCounted, WriteIsAsked
<1>5. CASE Cycle
  BY <1>5, CycleInv
<1>6. CASE Reset
  <2>1. stranded' \in BOOLEAN
    BY <1>6, Zenon DEF Reset
  <2>2. TypeOK'
    BY <1>6, <2>1 DEF Reset, TypeOK, Byte
  <2>3. WindowIsCounted'
    BY <1>6, Zenon DEF Reset, WindowIsCounted
  <2> QED
    BY <1>6, <2>2, <2>3 DEF Reset, ActiveIsClocked, BusyIsVisible, WriteIsAsked
<1>7. CASE UNCHANGED vars
  BY <1>7 DEF vars, memory, TypeOK, ActiveIsClocked, BusyIsVisible, WindowIsCounted,
              WriteIsAsked
<1> QED
  BY <1>1, <1>2, <1>3, <1>4, <1>5, <1>6, <1>7 DEF Next

LEMMA Invariance == Spec => []Inv
  BY InitInv, NextInv, PTL DEF Spec
-----------------------------------------------------------------------------
(* The registers, counts and cells of HWEeprom keep their types through    *)
(* every access of the program, every cycle and every reset.               *)
THEOREM TypeCorrect == Spec => []TypeOK
<1>1. Inv => TypeOK
  BY DEF Inv
<1> QED
  BY <1>1, Invariance, PTL

(* HWEeprom never leaves hwCycleList while an enable, a write or a CPU     *)
(* hold is pending: what CpuCycle removes itself for is what SetEecr adds  *)
(* itself for.                                                             *)
THEOREM WorkIsClocked == Spec => []ActiveIsClocked
<1>1. Inv => ActiveIsClocked
  BY DEF Inv
<1> QED
  BY <1>1, Invariance, PTL

(* The write bit of EECR stays set from the start of a write to its end,   *)
(* whatever SetEecr is given meanwhile and across a Reset.                 *)
THEOREM WriteIsVisible == Spec => []BusyIsVisible
<1>1. Inv => BusyIsVisible
  BY DEF Inv
<1> QED
  BY <1>1, Invariance, PTL

(* CpuCycle writes the cell whose address was in EEAR when the write was   *)
(* started, and nothing else changes a cell.                               *)
THEOREM NoStrayWrite == Spec => OnlyAskedCellChanges
<1>1. Inv /\ [Next]_vars => [\A a \in Addrs : myMemory'[a] # myMemory[a] => a = asked]_vars
  <2> SUFFICES ASSUME Inv, [Next]_vars, NEW a \in Addrs, myMemory'[a] # myMemory[a]
               PROVE  a = asked
    BY DEF vars
  <2>1. CASE Cycle
    BY <2>1 DEF Cycle, CpuCycle, Target, Inv, TypeOK, WriteIsAsked
  <2>2. CASE ~Cycle
    BY <2>2 DEF Next, SetEear, SetEedr, SetEecr, ClearIrqFlag, Reset, memory, vars
  <2> QED
    BY <2>1, <2>2
<1> QED
  BY <1>1, Invariance, PTL DEF Spec, OnlyAskedCellChanges

(* SetEecr starts a write only while the enable the program gave is less   *)
(* than four cycles old, or in an enable state that Reset left standing.   *)
THEOREM WriteNeedsEnable == Spec => WriteIsEnabled
<1>1. Inv /\ [Next]_vars =>
        [opState # "WRITE" /\ opState' = "WRITE" => window > 0 \/ stranded]_vars
  <2> SUFFICES ASSUME Inv, [Next]_vars, opState # "WRITE", opState' = "WRITE"
               PROVE  window > 0 \/ stranded
    BY DEF vars
  <2>1. PICK nv \in SUBSET eecr_mask : SetEecr(nv)
    BY DEF Next, SetEear, SetEedr, ClearIrqFlag, Cycle, CpuCycle, Fallback, Reset, memory, vars
  <2>2. opState = "ENABLED"
    BY <2>1 DEF SetEecr, SetReady, SetEnabled, SetWriting
  <2> QED
    BY <2>2 DEF Inv, WindowIsCounted
<1> QED
  BY <1>1, Invariance, PTL DEF Spec, WriteIsEnabled
=============================================================================
