----------------------------- MODULE CycleList -----------------------------
(***************************************************************************)
(* The cycle list of a device (AvrDevice::hwCycleList, avrdevice.cpp): the *)
(* hardware that wants a call of CpuCycle in every cycle.  Step walks the  *)
(* list by index.  A call may take its own hardware off the list (the      *)
(* EEPROM), or reset the device (the watchdogs), which stops timers and    *)
(* with that takes them off the list; both happen while Step is walking.   *)
(* The watchdogs, the prescalers, the UART and the ADC register when the   *)
(* device is built, before any program runs, and never leave.              *)
(***************************************************************************)
EXTENDS Naturals, FiniteSets, Sequences, SequencesExt

CONSTANTS Hardware,    \* the peripherals of the device
          Leavers,     \* those whose CpuCycle may take them off the list
          Resetters,   \* those whose CpuCycle may reset the device
          Timers,      \* those that a program and a reset take off the list
          Permanent    \* those registered by their constructors, in order

ASSUME HardwareAssumption ==
  /\ IsFiniteSet(Hardware)
  /\ Leavers \cup Resetters \cup Timers \subseteq Hardware
  /\ Permanent \in Seq(Hardware) /\ IsInjective(Permanent)
  /\ ToSet(Permanent) \cap (Leavers \cup Timers) = {}

VARIABLES hwCycleList,   \* the list
          i,             \* index of the next call, 0 outside of the walk
          hwWait,        \* some CpuCycle asked to hold the CPU
          (* history of the walk *)
          began,         \* hardware on the list when the walk began
          called         \* hardware called in the walk, in order

listVars == <<hwCycleList, i, hwWait, began, called>>

ListTypeOK ==
  /\ hwCycleList \in Seq(Hardware)
  /\ i \in 0 .. Cardinality(Hardware) + 1
  /\ hwWait \in BOOLEAN
  /\ began \subseteq Hardware
  /\ called \in Seq(Hardware)

ListInit ==
  /\ hwCycleList = Permanent /\ i = 0 /\ hwWait = FALSE
  /\ began = {} /\ called = <<>>

On(h, list) == h \in ToSet(list)

(* Mutant of Added: new hardware goes to the front. *)
AddedFirst(h, list) == IF On(h, list) THEN list ELSE <<h>> \o list

(* AddToCycleList: new hardware goes to the end. *)
Added(h, list) == IF On(h, list) THEN list ELSE Append(list, h)

(* RemoveFromCycleList for every hardware of S: what stays closes up, the  *)
(* n-th of it being the one with n - 1 before it.                          *)
Stays(S, list) == {k \in DOMAIN list : list[k] \notin S}

Place(stays, n) == CHOOSE k \in stays : Cardinality({j \in stays : j < k}) = n - 1

Removed(S, list) ==
  [n \in 1 .. Cardinality(Stays(S, list)) |-> list[Place(Stays(S, list), n)]]

(* A register write of the running program starts hardware, or stops it:   *)
(* SetClockMode of a timer, SPE of the SPI.                                *)
AddToCycleList(h) ==
  /\ i = 0
  /\ hwCycleList' = Added(h, hwCycleList)
  /\ UNCHANGED <<i, hwWait, began, called>>

RemoveFromCycleList(h) ==
  /\ i = 0
  /\ hwCycleList' = Removed({h}, hwCycleList)
  /\ UNCHANGED <<i, hwWait, began, called>>

(* Step begins its walk over the list. *)
WalkBegins ==
  /\ i = 0
  /\ i' = 1
  /\ hwWait' = FALSE
  /\ began' = ToSet(hwCycleList) /\ called' = <<>>
  /\ UNCHANGED hwCycleList

(* AvrDevice::Reset between two steps: the timers are stopped. *)
ResetOutside ==
  /\ i = 0
  /\ hwCycleList' = Removed(Timers, hwCycleList)
  /\ UNCHANGED <<i, hwWait, began, called>>

Held(answer) == hwWait \/ answer

(* What a CpuCycle of h takes off the list. *)
Drops(h) ==
  {{}} \cup (IF h \in Leavers THEN {{h}} ELSE {})
       \cup (IF h \in Resetters THEN {Timers} ELSE {})

(* Mutant of After: the index stays whenever the list got shorter. *)
AfterCorrected(k, list) == IF Len(list) < Len(hwCycleList) THEN k ELSE k + 1

(* Mutant of After: the index moves on once more for what left. *)
AfterSkips(k, list) == k + 1 + Len(hwCycleList) - Len(list)

(* The index after the call at index k that left this list. *)
After(k, list) == k + 1

(* One call of the walk: it answers whether the CPU is held and leaves the *)
(* list without the hardware of D; the index moves on regardless.          *)
Call(D, answer) ==
  /\ hwCycleList' = Removed(D, hwCycleList)
  /\ called' = Append(called, hwCycleList[i])
  /\ i' = After(i, hwCycleList')
  /\ hwWait' = Held(answer)
  /\ UNCHANGED began

WalkCalls(answer) ==
  /\ i \in 1 .. Len(hwCycleList)
  /\ \E D \in Drops(hwCycleList[i]) : Call(D, answer)

(* The walk ends; Step goes on, holding the CPU or not. *)
WalkEnds ==
  /\ i > Len(hwCycleList) /\ i > 0
  /\ i' = 0
  /\ began' = {} /\ called' = <<>>
  /\ UNCHANGED <<hwCycleList, hwWait>>

ListNext ==
  \/ \E h \in Hardware : AddToCycleList(h)
  \/ \E h \in Timers : RemoveFromCycleList(h)
  \/ ResetOutside
  \/ WalkBegins
  \/ \E answer \in BOOLEAN : WalkCalls(answer)
  \/ WalkEnds

ListSpec == ListInit /\ [][ListNext]_listVars
-----------------------------------------------------------------------------
(* No hardware gets two cycles in one, whatever the calls take off the     *)
(* list under the walk.                                                    *)
CalledOnce == IsInjective(called)

WalkIsOver == i > Len(hwCycleList)

(* Hardware that registered itself when the device was built gets its      *)
(* CpuCycle in every cycle, whatever hardware comes and goes behind it: it *)
(* has the first places of the list, which no gap ever reaches.  What      *)
(* counts its time in calls (the watchdog, the UART) counts cycles.        *)
PermanentCalled == WalkIsOver => ToSet(Permanent) \subseteq ToSet(called)

(* "Called for each AVR cycle when this hardware has registered itself as  *)
(* a receiver for AVR clocks" (hardware.h): hardware that was on the list  *)
(* when Step began its walk and still is gets its CpuCycle.                *)
CalledEachCycle ==
  WalkIsOver => began \cap ToSet(hwCycleList) \subseteq ToSet(called)

(* How far CalledEachCycle fails: the index passes over one hardware for   *)
(* every place in front of it that became free, so that not more hardware  *)
(* misses its call in a walk than left the list in it.                     *)
MissedOnlyByGaps ==
  LET left == began \ ToSet(hwCycleList)
      missed == (began \ left) \ ToSet(called)
  IN  WalkIsOver => Cardinality(missed) <= Cardinality(left)
=============================================================================
