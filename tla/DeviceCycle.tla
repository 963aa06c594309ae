---------------------------- MODULE DeviceCycle ----------------------------
(***************************************************************************)
(* The watchdog as part of a device: Watchdog and CycleList composed.  The *)
(* watchdog gets its CpuCycle from the walk of AvrDevice::Step, a time out *)
(* resets the device in the middle of the walk and so stops the timers,    *)
(* and the program executes its instructions between the walks, unless     *)
(* some hardware held the CPU.  What other hardware does is CycleList's.   *)
(***************************************************************************)
EXTENDS Watchdog, CycleList

CONSTANT watchdog        \* the WatchDog among the hardware

ASSUME DeviceAssumption == Resetters = {watchdog} /\ watchdog \in ToSet(Permanent)

deviceVars == <<vars, listVars>>

DeviceInit == Init /\ ListInit

(* The core executes an instruction: Step after its walk. *)
AtInstruction == i = 0 /\ ~hwWait

(* Instructions that reach the watchdog. *)
WatchdogInstruction ==
  /\ AtInstruction
  /\ \/ WdrInstruction
     \/ \E bits \in SUBSET {"WDRE", "WDIE", "WDCE"}, p \in Prescalers : setWdtcsr(bits, p)
     \/ ClearIrqFlag
  /\ UNCHANGED listVars

(* Instructions that start or stop other hardware. *)
ListInstruction ==
  /\ AtInstruction
  /\ OtherInstruction
  /\ \/ \E h \in Hardware : AddToCycleList(h)
     \/ \E h \in Timers : RemoveFromCycleList(h)

(* The walk calls the watchdog, which may reset the device. *)
WatchdogCalled ==
  /\ i \in 1 .. Len(hwCycleList) /\ hwCycleList[i] = watchdog
  /\ CpuCycle
  /\ Call(IF resets' THEN Timers ELSE {}, FALSE)

OtherCalled(answer) ==
  /\ i \in 1 .. Len(hwCycleList) /\ hwCycleList[i] # watchdog
  /\ WalkCalls(answer)
  /\ UNCHANGED vars

Walk ==
  \/ WalkBegins /\ UNCHANGED vars
  \/ WatchdogCalled
  \/ \E answer \in BOOLEAN : OtherCalled(answer)
  \/ WalkEnds /\ UNCHANGED vars

(* A reset of the device that is not the watchdog's. *)
DeviceReset == Reset /\ ResetOutside

DeviceNext == WatchdogInstruction \/ ListInstruction \/ Walk \/ DeviceReset

DeviceSpec == DeviceInit /\ [][DeviceNext]_deviceVars

(* The core is clocked for ever. *)
DeviceFairSpec == DeviceSpec /\ WF_deviceVars(Walk)
=============================================================================
