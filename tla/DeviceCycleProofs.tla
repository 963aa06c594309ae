------------------------- MODULE DeviceCycleProofs -------------------------
(***************************************************************************)
(* Proofs about the watchdog for all prescalers and periods: its types,    *)
(* that WDTCSR is protected by its gate, that a device served in time is   *)
(* not reset, and that in interrupt and reset mode a warning comes first;  *)
(* and about the cycle list, for any hardware: no hardware is called twice *)
(* in a walk, what registered when the device was built is called in every *)
(* walk, and others miss their call only because of gaps, all of which     *)
(* rests on how a list closes up when something is taken off it.  The      *)
(* device composed of the two implements both, so that all of it holds of  *)
(* the device.                                                             *)
(***************************************************************************)
EXTENDS DeviceCycle, FiniteSetTheorems, WellFoundedInduction, TLAPS

(* The gate is open exactly as long as its count runs, from the write of   *)
(* the change enable bit.  The constructor's leftover count is no window.  *)
GateIsCounted == "WDCE" \in wdtcsr => window = counter /\ window > 0

(* What is left of the time out and what has passed of it add up to the    *)
(* period at least.                                                        *)
FullPeriod ==
  timeOutAt # NoTimeOut /\ wdp \in DOMAIN Periods => since + timeOutAt >= Periods[wdp]

(* A time out is counted only together with the interrupt it raised. *)
CountedIsWarned == timeoutCount = 1 => warned

Inv == TypeOK /\ GateIsCounted /\ FullPeriod /\ CountedIsWarned
-----------------------------------------------------------------------------
(* The time left is NoTimeOut or a number of cycles. *)
LEMMA TimeOutAtType == TypeOK => timeOutAt \in Nat \cup {NoTimeOut}
  BY WatchdogAssumption DEF TypeOK

(* Wdr() sets a time out within a period, the whole one if it knows the    *)
(* prescaler.                                                              *)
LEMMA WdrType ==
  ASSUME TypeOK, NEW p \in Prescalers, Wdr(p)
  PROVE  /\ timeoutCount' = 0
         /\ timeOutAt' = NoTimeOut \/ \E q \in DOMAIN Periods : timeOutAt' \in 0 .. Periods[q]
         /\ p \in DOMAIN Periods => timeOutAt' = Periods[p]
<1>1. CASE p \in DOMAIN Periods
  BY <1>1, WatchdogAssumption DEF Wdr, TimeOutFor
<1>2. CASE p \notin DOMAIN Periods
  BY <1>2 DEF Wdr, TimeOutFor, TypeOK
<1> QED
  BY <1>1, <1>2

LEMMA InitInv == Init => Inv
<1> SUFFICES ASSUME Init PROVE Inv
  OBVIOUS
<1>1. irq \in BOOLEAN /\ canRun \in BOOLEAN /\ resets \in BOOLEAN /\ warned \in BOOLEAN
  BY Zenon DEF Init
<1> QED
  BY <1>1, WatchdogAssumption
     DEF Init, Inv, TypeOK, GateIsCounted, FullPeriod, CountedIsWarned

(* A reset of the device clears all that the invariant speaks of. *)
LEMMA ClearedInv ==
  ASSUME Inv, Cleared, counter' \in 0 .. 4,
         irq' \in BOOLEAN, canRun' \in BOOLEAN, resets' \in BOOLEAN
  PROVE  Inv'
<1>1. warned' \in BOOLEAN
  BY Zenon DEF Cleared
<1> QED
  BY <1>1, WatchdogAssumption
     DEF Cleared, Inv, TypeOK, GateIsCounted, FullPeriod, CountedIsWarned

(* A cycle that is no reset counts the window with the gate. *)
LEMMA PassedGate ==
  ASSUME Inv, Passed, counter' = Decremented(counter), wdtcsr' = Gate
  PROVE  /\ wdtcsr' \subseteq {"WDRE", "WDIE", "WDCE"}
         /\ counter' \in 0 .. 4 /\ window' \in 0 .. 4
         /\ since' \in 0 .. MaxSince
         /\ GateIsCounted'
<1>1. counter' \in 0 .. 4 /\ window' \in 0 .. 4 /\ since' \in 0 .. MaxSince
  BY WatchdogAssumption DEF Passed, Decremented, Inv, TypeOK
<1> QED
  BY <1>1 DEF Passed, Gate, Decremented, Inv, TypeOK, GateIsCounted

(* A cycle keeps the invariant, whether it is due or not. *)
LEMMA CpuCycleInv ==
  ASSUME Inv, CpuCycle
  PROVE  Inv'
<1> DEFINE left == Decremented(timeOutAt)
<1> USE DEF Inv
<1>1. canRun' \in BOOLEAN /\ counter' \in 0 .. 4 /\ counter' = Decremented(counter)
  <2>1. canRun' \in BOOLEAN
    BY Zenon DEF CpuCycle
  <2> QED
    BY <2>1 DEF CpuCycle, Decremented, TypeOK
<1>2. left = NoTimeOut \/ \E p \in DOMAIN Periods : left \in 0 .. Periods[p]
  BY WatchdogAssumption DEF Decremented, TypeOK, NoTimeOut
<1>3. CASE ResetsNow(Gate) /\ Cleared /\ resets' = TRUE /\ UNCHANGED irq
  BY <1>1, <1>3, ClearedInv DEF TypeOK
<1>4. CASE /\ Due(left)
           /\ irq' = TRUE /\ WarnThenRestart(left) /\ wdtcsr' = Gate
           /\ warned' = TRUE /\ Passed /\ UNCHANGED wdp
  <2>1. irq' \in BOOLEAN /\ resets' \in BOOLEAN /\ warned' \in BOOLEAN
    BY <1>4, Zenon DEF Passed
  <2>2. timeOutAt' = NoTimeOut \/ \E p \in DOMAIN Periods : timeOutAt' \in 0 .. Periods[p]
    BY <1>2, <1>4, WatchdogAssumption DEF WarnThenRestart
  <2>3. timeoutCount' \in 0 .. 1
    BY <1>4 DEF WarnThenRestart
  <2>4. TypeOK' /\ GateIsCounted'
    BY <1>1, <1>4, <2>1, <2>2, <2>3, PassedGate DEF TypeOK
  <2>5. FullPeriod'
    BY <1>4, <2>4, WatchdogAssumption DEF WarnThenRestart, FullPeriod, TypeOK
  <2>6. CountedIsWarned'
    BY <1>4, Zenon DEF CountedIsWarned
  <2> QED
    BY <2>4, <2>5, <2>6
<1>5. CASE /\ irq' = TRUE /\ timeOutAt' = NoTimeOut /\ wdtcsr' = Gate
           /\ warned' = TRUE /\ Passed /\ UNCHANGED <<wdp, timeoutCount>>
  <2>1. irq' \in BOOLEAN /\ resets' \in BOOLEAN /\ warned' \in BOOLEAN
    BY <1>5, Zenon DEF Passed
  <2>2. TypeOK' /\ GateIsCounted'
    BY <1>1, <1>5, <2>1, PassedGate DEF TypeOK
  <2>3. CountedIsWarned'
    BY <1>5, Zenon DEF CountedIsWarned
  <2> QED
    BY <1>5, <2>2, <2>3 DEF FullPeriod
<1>6. CASE /\ wdtcsr' = Gate /\ timeOutAt' = left /\ Passed
           /\ UNCHANGED <<wdp, timeoutCount, irq, warned>>
  <2>1. resets' \in BOOLEAN
    BY <1>6, Zenon DEF Passed
  <2>2. TypeOK' /\ GateIsCounted'
    BY <1>1, <1>2, <1>6, <2>1, PassedGate DEF TypeOK
  <2>3. FullPeriod'
    BY <1>6, TimeOutAtType, WatchdogAssumption
       DEF FullPeriod, Passed, Decremented, NoTimeOut, TypeOK
  <2> QED
    BY <1>6, <2>2, <2>3 DEF CountedIsWarned
<1> QED
  BY <1>3, <1>4, <1>5, <1>6 DEF CpuCycle, TimeOut

LEMMA NextInv == Inv /\ [Next]_vars => Inv'
<1> SUFFICES ASSUME Inv, [Next]_vars PROVE Inv'
  OBVIOUS
<1> USE DEF Inv
<1>1. CASE WdrInstruction
  <2>1. canRun' \in BOOLEAN /\ resets' \in BOOLEAN /\ warned' \in BOOLEAN
    BY <1>1, Zenon DEF WdrInstruction
  <2>2. TypeOK'
    BY <1>1, <2>1, WdrType, WatchdogAssumption DEF WdrInstruction, control, TypeOK
  <2>3. FullPeriod'
    BY <1>1, WdrType, WatchdogAssumption DEF WdrInstruction, control, FullPeriod, TypeOK
  <2>4. CountedIsWarned'
    BY <1>1, WdrType DEF WdrInstruction, control, CountedIsWarned, TypeOK
  <2> QED
    BY <1>1, <2>2, <2>3, <2>4 DEF WdrInstruction, control, GateIsCounted
<1>2. ASSUME NEW bits \in SUBSET {"WDRE", "WDIE", "WDCE"}, NEW p \in Prescalers,
             setWdtcsr(bits, p)
      PROVE  Inv'
  <2>1. canRun' \in BOOLEAN /\ resets' \in BOOLEAN
    BY <1>2, Zenon DEF setWdtcsr
  <2>2. /\ wdtcsr' \subseteq {"WDRE", "WDIE", "WDCE"}
        /\ counter' \in 0 .. 4 /\ window' \in 0 .. 4 /\ GateIsCounted'
    BY <1>2 DEF setWdtcsr, GateIsCounted, TypeOK
  <2>3. CASE "WDCE" \in wdtcsr /\ p # 0
    <3>1. Wdr(p) /\ wdp' = p /\ since' = 0 /\ warned' = FALSE
      BY <1>2, <2>3 DEF setWdtcsr
    <3>2. warned' \in BOOLEAN
      BY <3>1, Zenon
    <3>3. TypeOK'
      BY <1>2, <2>1, <2>2, <3>1, <3>2, WdrType, WatchdogAssumption DEF setWdtcsr, TypeOK
    <3> QED
      BY <2>2, <3>1, <3>3, WdrType, WatchdogAssumption DEF FullPeriod, CountedIsWarned
  <2>4. CASE ~("WDCE" \in wdtcsr /\ p # 0)
    <3>1. UNCHANGED <<wdp, timeoutCount, timeOutAt, since, warned>>
      BY <1>2, <2>4 DEF setWdtcsr
    <3> QED
      BY <1>2, <2>1, <2>2, <3>1 DEF setWdtcsr, TypeOK, FullPeriod, CountedIsWarned
  <2> QED
    BY <2>3, <2>4
<1>3. CASE ClearIrqFlag
  <2>1. irq' \in BOOLEAN /\ resets' \in BOOLEAN
    BY <1>3, Zenon DEF ClearIrqFlag
  <2> QED
    BY <1>3, <2>1 DEF ClearIrqFlag, control, history, TypeOK, GateIsCounted, FullPeriod,
                      CountedIsWarned
<1>4. CASE CpuCycle
  BY <1>4, CpuCycleInv
<1>5. CASE Reset
  <2>1. resets' \in BOOLEAN
    BY <1>5, Zenon DEF Reset
  <2> QED
    BY <1>5, <2>1, ClearedInv DEF Reset, TypeOK
<1>6. CASE UNCHANGED vars
  BY <1>6 DEF vars, control, history, TypeOK, GateIsCounted, FullPeriod, CountedIsWarned
<1>7. CASE OtherInstruction
  <2>1. canRun' \in BOOLEAN /\ resets' \in BOOLEAN
    BY <1>7, Zenon DEF OtherInstruction
  <2> QED
    BY <1>7, <2>1 DEF OtherInstruction, control, history, TypeOK, GateIsCounted, FullPeriod,
                      CountedIsWarned
<1> QED
  BY <1>1, <1>2, <1>3, <1>4, <1>5, <1>6, <1>7 DEF Next

LEMMA Invariance == Spec => []Inv
  BY InitInv, NextInv, PTL DEF Spec
-----------------------------------------------------------------------------
(* WDTCSR, the gate's count and the time out of WatchDog keep their types  *)
(* for every table of periods.                                             *)
THEOREM TypeCorrect == Spec => []TypeOK
<1>1. Inv => TypeOK
  BY DEF Inv
<1> QED
  BY <1>1, Invariance, PTL

(* setWdtcsr sets the reset bit or a prescaler only within four cycles of  *)
(* a write of the change enable bit.                                       *)
THEOREM GateProtects == Spec => ProtectedByGate
<1>1. Inv /\ [Next]_vars =>
        [("WDRE" \in wdtcsr' \ wdtcsr) \/ (wdp' \notin {wdp, 0}) => window > 0]_vars
  <2> SUFFICES ASSUME Inv, Next, ("WDRE" \in wdtcsr' \ wdtcsr) \/ (wdp' \notin {wdp, 0})
               PROVE  window > 0
    BY DEF vars
  <2>1. PICK bits \in SUBSET {"WDRE", "WDIE", "WDCE"}, p \in Prescalers : setWdtcsr(bits, p)
    BY DEF Next, WdrInstruction, OtherInstruction, ClearIrqFlag, CpuCycle, TimeOut, Cleared, Reset, Gate, control
  <2>2. "WDCE" \in wdtcsr
    BY <2>1 DEF setWdtcsr
  <2> QED
    BY <2>2 DEF Inv, GateIsCounted
<1> QED
  BY <1>1, Invariance, PTL DEF Spec, ProtectedByGate

(* A reset by the watchdog is the first disjunct of TimeOut, taken on the  *)
(* last cycle of the time out.                                             *)
LEMMA ResetIsTimeOut ==
  ASSUME Inv, Next, resets'
  PROVE  /\ Due(Decremented(timeOutAt))
         /\ ResetsNow(Gate)
<1>1. CpuCycle
  <2>1. ~WdrInstruction /\ ~OtherInstruction /\ ~ClearIrqFlag /\ ~Reset
    BY Zenon DEF WdrInstruction, OtherInstruction, ClearIrqFlag, Reset
  <2>2. ASSUME NEW bits, NEW p PROVE ~setWdtcsr(bits, p)
    BY Zenon DEF setWdtcsr
  <2> QED
    BY <2>1, <2>2 DEF Next
<1>2. ~Passed
  BY Zenon DEF Passed
<1> QED
  BY <1>1, <1>2, Zenon DEF CpuCycle, TimeOut

(* CpuCycle does not reset a device before the period chosen in WDTCSR is  *)
(* over, counted from the last WDR.                                        *)
THEOREM ServedIsNotReset == Spec => NoEarlyReset
<1>1. Inv /\ [Next]_vars =>
        [resets' /\ wdp \in DOMAIN Periods => since + 1 >= Periods[wdp]]_vars
  <2> SUFFICES ASSUME Inv, Next, resets', wdp \in DOMAIN Periods
               PROVE  since + 1 >= Periods[wdp]
    BY DEF vars
  <2>1. timeOutAt \in 0 .. 1
    BY ResetIsTimeOut, TimeOutAtType DEF Due, Decremented, Inv, NoTimeOut
  <2> QED
    BY <2>1, WatchdogAssumption DEF Inv, FullPeriod, NoTimeOut, TypeOK
<1> QED
  BY <1>1, Invariance, PTL DEF Spec, NoEarlyReset

(* With the interrupt enabled CpuCycle resets only on the second time out, *)
(* so that the interrupt has been raised since the last WDR.               *)
THEOREM WarnedFirst == Spec => WarnedBeforeReset
<1>1. Inv /\ [Next]_vars => [resets' /\ "WDIE" \in wdtcsr => warned]_vars
  <2> SUFFICES ASSUME Inv, Next, resets', "WDIE" \in wdtcsr
               PROVE  warned
    BY DEF vars
  <2>1. "WDIE" \in Gate
    BY DEF Gate
  <2> QED
    BY <2>1, ResetIsTimeOut DEF ResetsNow, Inv, CountedIsWarned
<1> QED
  BY <1>1, Invariance, PTL DEF Spec, WarnedBeforeReset
-----------------------------------------------------------------------------
(* The places of s in front of k. *)
Below(s, k) == {j \in s : j < k}

(* A nonempty set of numbers has a least one. *)
LEMMA LeastExists ==
  ASSUME NEW S, S \subseteq Nat, S # {}
  PROVE  \E x \in S : \A y \in S : x <= y
<1> DEFINE R == OpToRel(<, Nat)
<1>1. PICK x \in S : \A y \in S : <<y, x>> \notin R
  <2> HIDE DEF R
  <2>1. IsWellFoundedOn(R, Nat)
    BY NatLessThanWellFounded DEF R
  <2> QED
    BY <2>1, WFMin
<1>2. ASSUME NEW y \in S PROVE x <= y
  <2>1. x \in Nat /\ y \in Nat
    OBVIOUS
  <2>2. y < x => <<y, x>> \in R
    BY <2>1, <<y, x>>[1] = y, <<y, x>>[2] = x, <<y, x>> \in Nat \X Nat DEF OpToRel
  <2>3. ~(y < x)
    <3> HIDE DEF R
    <3> QED
      BY <1>1, <2>2
  <2> QED
    BY <2>1, <2>3
<1> QED
  BY <1>2

(* Places in front of k: finitely many, fewer than k, and one more with    *)
(* every member of s.                                                      *)
LEMMA BelowCounts ==
  ASSUME NEW m \in Nat, NEW s, s \subseteq 1 .. m, NEW k \in Nat
  PROVE  /\ IsFiniteSet(s) /\ Cardinality(s) \in Nat
         /\ IsFiniteSet(Below(s, k)) /\ Cardinality(Below(s, k)) \in Nat
         /\ k > 0 => Cardinality(Below(s, k)) <= k - 1
         /\ Cardinality(Below(s, k + 1)) =
              Cardinality(Below(s, k)) + (IF k \in s THEN 1 ELSE 0)
<1>0. \A x \in s : x \in Nat /\ x >= 1 /\ x <= m
  OBVIOUS
<1>1. IsFiniteSet(s)
  <2>1. IsFiniteSet(1 .. m)
    BY FS_Interval
  <2> QED
    BY <2>1, FS_Subset
<1>2. IsFiniteSet(Below(s, k))
  BY <1>1, FS_Subset DEF Below
<1>3. Cardinality(s) \in Nat /\ Cardinality(Below(s, k)) \in Nat
  BY <1>1, <1>2, FS_CardinalityType
<1>4. ASSUME k > 0 PROVE Cardinality(Below(s, k)) <= k - 1
  <2>1. Below(s, k) \subseteq 1 .. k - 1
    <3> SUFFICES ASSUME NEW x \in Below(s, k) PROVE x \in 1 .. k - 1
      OBVIOUS
    <3>1. x \in Nat /\ x >= 1 /\ x < k
      BY <1>0 DEF Below
    <3> QED
      BY <3>1
  <2>2. IsFiniteSet(1 .. k - 1) /\ Cardinality(1 .. k - 1) = k - 1
    BY <1>4, FS_Interval
  <2> QED
    BY <2>1, <2>2, FS_Subset
<1>5. CASE k \in s
  <2>1. Below(s, k + 1) = Below(s, k) \cup {k} /\ k \notin Below(s, k)
    <3>1. \A x \in s : x < k + 1 <=> (x < k \/ x = k)
      BY <1>0
    <3>2. ~(k < k)
      OBVIOUS
    <3> QED
      BY <1>5, <3>1, <3>2 DEF Below
  <2>2. Cardinality(Below(s, k) \cup {k}) = Cardinality(Below(s, k)) + 1
    BY <1>2, <2>1, FS_AddElement
  <2> QED
    BY <1>1, <1>2, <1>3, <1>4, <1>5, <2>1, <2>2
<1>6. CASE k \notin s
  <2>1. Below(s, k + 1) = Below(s, k)
    <3>1. \A x \in s : x < k + 1 <=> x < k
      BY <1>0, <1>6
    <3> QED
      BY <3>1 DEF Below
  <2> QED
    BY <1>1, <1>2, <1>3, <1>4, <1>6, <2>1
<1> QED
  BY <1>5, <1>6

(* There is an n-th place to stay as long as there are n of them. *)
LEMMA PlaceExists ==
  ASSUME NEW m \in Nat, NEW s, s \subseteq 1 .. m, NEW n \in 1 .. Cardinality(s)
  PROVE  \E k \in s : Cardinality(Below(s, k)) = n - 1
<1> DEFINE T == {k \in Nat : Cardinality(Below(s, k + 1)) >= n}
<1>1. Cardinality(s) \in Nat /\ n \in Nat /\ n > 0
  <2>1. Cardinality(s) \in Nat
    BY BelowCounts
  <2> QED
    BY <2>1
<1>2. m \in T
  <2>1. Below(s, m + 1) = s
    <3>1. \A x \in s : x < m + 1
      OBVIOUS
    <3> QED
      BY <3>1 DEF Below
  <2> QED
    BY <1>1, <2>1
<1>3. PICK x \in T : \A y \in T : x <= y
  BY <1>2, LeastExists
<1>4. x \in Nat /\ Cardinality(Below(s, x + 1)) >= n
  OBVIOUS
<1>5. x # 0
  <2>1. PICK one \in Nat : one = 1
    OBVIOUS
  <2>2. Cardinality(Below(s, one)) \in Nat /\ Cardinality(Below(s, one)) <= one - 1
    BY <2>1, one > 0, BelowCounts
  <2> QED
    BY <1>1, <1>4, <2>1, <2>2, 0 + 1 = 1
<1>6. Cardinality(Below(s, x)) < n
  <2>1. x - 1 \in Nat /\ (x - 1) + 1 = x /\ x - 1 \notin T
    BY <1>3, <1>4, <1>5
  <2>2. Cardinality(Below(s, x)) \in Nat
    BY <1>4, BelowCounts
  <2> QED
    BY <1>1, <2>1, <2>2
<1>7. /\ Cardinality(Below(s, x)) \in Nat
      /\ Cardinality(Below(s, x + 1)) =
           Cardinality(Below(s, x)) + (IF x \in s THEN 1 ELSE 0)
  BY <1>4, BelowCounts
<1>8. x \in s /\ Cardinality(Below(s, x)) = n - 1
  BY <1>1, <1>4, <1>6, <1>7
<1> QED
  BY <1>8

(* What Place returns: a place of s with n - 1 places of s before it,      *)
(* hence the n-th or a later place of the list.                            *)
LEMMA PlaceFacts ==
  ASSUME NEW m \in Nat, NEW s, s \subseteq 1 .. m, NEW n \in 1 .. Cardinality(s)
  PROVE  /\ Place(s, n) \in s
         /\ Cardinality(Below(s, Place(s, n))) = n - 1
         /\ Place(s, n) >= n
<1>1. Place(s, n) \in s /\ Cardinality(Below(s, Place(s, n))) = n - 1
  BY PlaceExists DEF Place, Below
<1>2. Cardinality(s) \in Nat
  BY BelowCounts
<1>3. n \in Nat /\ Place(s, n) \in Nat /\ Place(s, n) > 0
  <2>1. \A x \in s : x \in Nat /\ x > 0
    OBVIOUS
  <2>2. n \in Nat
    BY <1>2
  <2> QED
    BY <1>1, <2>1, <2>2
<1>4. Cardinality(Below(s, Place(s, n))) <= Place(s, n) - 1
  BY <1>3, BelowCounts
<1> QED
  BY <1>1, <1>3, <1>4

(* More places are below a later bound. *)
LEMMA BelowGrows ==
  ASSUME NEW m \in Nat, NEW s, s \subseteq 1 .. m, NEW j \in Nat, NEW k \in Nat, j <= k
  PROVE  Cardinality(Below(s, j)) <= Cardinality(Below(s, k))
<1>1. Below(s, j) \subseteq Below(s, k)
  <2>1. \A x \in s : x < j => x < k
    OBVIOUS
  <2> QED
    BY <2>1 DEF Below
<1>2. IsFiniteSet(Below(s, k))
  BY BelowCounts
<1> QED
  BY <1>1, <1>2, FS_Subset
(* What stays are places of the list. *)
LEMMA StaysFacts ==
  ASSUME NEW list \in Seq(Hardware), NEW D
  PROVE  /\ Len(list) \in Nat
         /\ Stays(D, list) \subseteq 1 .. Len(list)
         /\ Cardinality(Stays(D, list)) \in Nat
         /\ \A k \in Stays(D, list) : list[k] \in Hardware \ D
<1>1. Len(list) \in Nat /\ Stays(D, list) \subseteq 1 .. Len(list)
  BY DEF Stays
<1>2. Cardinality(Stays(D, list)) \in Nat
  BY <1>1, 0 \in Nat, BelowCounts
<1>3. \A k \in Stays(D, list) : list[k] \in Hardware \ D
  BY DEF Stays
<1> QED
  BY <1>1, <1>2, <1>3

(* The list that RemoveFromCycleList leaves, place by place. *)
LEMMA RemovedFacts ==
  ASSUME NEW list \in Seq(Hardware), NEW D
  PROVE  /\ Removed(D, list) \in Seq(Hardware)
         /\ DOMAIN Removed(D, list) = 1 .. Cardinality(Stays(D, list))
         /\ \A n \in DOMAIN Removed(D, list) :
              LET p == Place(Stays(D, list), n)
              IN  /\ p \in Stays(D, list) /\ p \in DOMAIN list /\ p >= n
                  /\ Cardinality(Below(Stays(D, list), p)) = n - 1
                  /\ Removed(D, list)[n] = list[p]
<1> DEFINE s == Stays(D, list)
<1>1. /\ Len(list) \in Nat /\ s \subseteq 1 .. Len(list) /\ Cardinality(s) \in Nat
      /\ \A k \in s : list[k] \in Hardware
  BY StaysFacts
<1>2. s \subseteq DOMAIN list
  BY DEF Stays
<1> HIDE DEF s
<1>3. \A n \in 1 .. Cardinality(s) :
         /\ Place(s, n) \in s /\ Place(s, n) >= n
         /\ Cardinality(Below(s, Place(s, n))) = n - 1
  BY <1>1, PlaceFacts
<1>4. PICK c \in Nat : c = Cardinality(s)
  BY <1>1
<1>5. Removed(D, list) = [n \in 1 .. c |-> list[Place(s, n)]]
  BY <1>4 DEF Removed, s
<1>6. \A n \in 1 .. c : list[Place(s, n)] \in Hardware
  BY <1>1, <1>3, <1>4
<1>7. Removed(D, list) \in Seq(Hardware)
  BY <1>5, <1>6
<1>8. DOMAIN Removed(D, list) = 1 .. c
  BY <1>5
<1>9. \A n \in 1 .. c : Removed(D, list)[n] = list[Place(s, n)]
  BY <1>5
<1> QED
  BY <1>2, <1>3, <1>4, <1>7, <1>8, <1>9 DEF s

(* RemoveFromCycleList leaves every hardware on the list at most once, and *)
(* none that it was asked to take off.                                     *)
LEMMA RemovedKeeps ==
  ASSUME NEW list \in Seq(Hardware), NEW D, IsInjective(list)
  PROVE  /\ IsInjective(Removed(D, list))
         /\ ToSet(Removed(D, list)) \subseteq ToSet(list) \ D
<1> DEFINE s == Stays(D, list)
<1> DEFINE new == Removed(D, list)
<1>1. \A n \in DOMAIN new : /\ Place(s, n) \in s /\ Place(s, n) \in DOMAIN list
                            /\ Cardinality(Below(s, Place(s, n))) = n - 1
                            /\ new[n] = list[Place(s, n)]
  BY RemovedFacts
<1>2. \A k \in s : list[k] \notin D
  BY DEF Stays
<1>3. \A n \in DOMAIN new : n \in Int
  <2>1. Cardinality(s) \in Nat /\ DOMAIN new = 1 .. Cardinality(s)
    BY RemovedFacts, StaysFacts
  <2> QED
    BY <2>1
<1> HIDE DEF new, s
<1>4. ASSUME NEW a \in DOMAIN new, NEW b \in DOMAIN new, new[a] = new[b] PROVE a = b
  <2>1. Place(s, a) = Place(s, b)
    BY <1>1, <1>4 DEF IsInjective
  <2>2. a - 1 = b - 1
    BY <1>1, <2>1
  <2> QED
    BY <1>3, <2>2
<1>5. ToSet(new) \subseteq ToSet(list) \ D
  BY <1>1, <1>2 DEF ToSet
<1> QED
  BY <1>4, <1>5 DEF IsInjective, new

(* A list that has no hardware twice is not longer than there is hardware. *)
LEMMA ListIsShort ==
  ASSUME NEW list \in Seq(Hardware), IsInjective(list)
  PROVE  Len(list) <= Cardinality(Hardware)
<1>1. Len(list) \in Nat /\ DOMAIN list = 1 .. Len(list)
  OBVIOUS
<1>2. list \in [1 .. Len(list) -> Hardware]
  BY <1>1
<1>3. list \in Injection(1 .. Len(list), Hardware)
  BY <1>2 DEF Injection
<1>4. Cardinality(1 .. Len(list)) <= Cardinality(Hardware)
  BY <1>3, FS_Injection, HardwareAssumption DEF HardwareAssumption
<1>5. Cardinality(1 .. Len(list)) = Len(list)
  BY <1>1, FS_Interval
<1> QED
  BY <1>4, <1>5

(* A longer sequence that has no element twice. *)
LEMMA AppendKeeps ==
  ASSUME NEW s \in Seq(Hardware), NEW h \in Hardware, IsInjective(s), h \notin ToSet(s)
  PROVE  /\ Append(s, h) \in Seq(Hardware)
         /\ IsInjective(Append(s, h))
         /\ ToSet(Append(s, h)) = ToSet(s) \cup {h}
<1>1. PICK m \in Nat : m = Len(s)
  OBVIOUS
<1>2. DOMAIN s = 1 .. m
  BY <1>1
<1>3. /\ DOMAIN Append(s, h) = 1 .. m + 1
      /\ Append(s, h)[m + 1] = h
      /\ \A k \in 1 .. m : Append(s, h)[k] = s[k]
      /\ Append(s, h) \in Seq(Hardware)
  BY <1>1
<1>4. \A k \in 1 .. m : s[k] # h
  BY <1>2 DEF ToSet
<1>5. \A k \in 1 .. m + 1 : k \in 1 .. m \/ k = m + 1
  OBVIOUS
<1>6. 1 .. m \subseteq 1 .. m + 1 /\ m + 1 \in 1 .. m + 1
  OBVIOUS
<1> DEFINE t == Append(s, h)
<1> HIDE DEF t
<1>7. ASSUME NEW a \in DOMAIN t, NEW b \in DOMAIN t, t[a] = t[b] PROVE a = b
  <2>1. a \in 1 .. m \/ a = m + 1
    BY <1>3, <1>5 DEF t
  <2>2. b \in 1 .. m \/ b = m + 1
    BY <1>3, <1>5 DEF t
  <2>3. CASE a \in 1 .. m /\ b \in 1 .. m
    BY <1>2, <1>3, <1>7, <2>3 DEF IsInjective, t
  <2> QED
    BY <1>3, <1>4, <1>7, <2>1, <2>2, <2>3 DEF t
<1>8. ASSUME NEW x PROVE x \in ToSet(t) <=> x \in ToSet(s) \cup {h}
  <2>1. ASSUME NEW k \in DOMAIN t, x = t[k] PROVE x \in ToSet(s) \cup {h}
    BY <1>2, <1>3, <1>5, <2>1 DEF ToSet, t
  <2>2. ASSUME NEW k \in DOMAIN s, x = s[k] PROVE x \in ToSet(t)
    BY <1>2, <1>3, <1>6, <2>2 DEF ToSet, t
  <2>3. h \in ToSet(t)
    BY <1>3, <1>6 DEF ToSet, t
  <2> QED
    BY <2>1, <2>2, <2>3 DEF ToSet
<1>9. IsInjective(t)
  BY <1>7 DEF IsInjective
<1>10. ToSet(t) = ToSet(s) \cup {h}
  BY <1>8
<1> QED
  BY <1>3, <1>9, <1>10 DEF t

-----------------------------------------------------------------------------
(* Places that the index has passed without a call of their hardware. *)
Skipped == {k \in DOMAIN hwCycleList : k < i /\ hwCycleList[k] \notin ToSet(called)}

(* The walk is still in the list it began with, ahead of it is only        *)
(* hardware that was not called, and behind it not more was skipped than   *)
(* left.                                                                   *)
WalkInv ==
  i # 0 => /\ ToSet(hwCycleList) \subseteq began
           /\ \A k \in DOMAIN hwCycleList : k >= i => hwCycleList[k] \notin ToSet(called)
           /\ Cardinality(Skipped) <= Cardinality(began \ ToSet(hwCycleList))

(* What registered when the device was built has the first places, and was *)
(* called as soon as the index has passed them.                            *)
PermanentFirst ==
  \A n \in DOMAIN Permanent :
    /\ n \in DOMAIN hwCycleList /\ hwCycleList[n] = Permanent[n]
    /\ n < i => Permanent[n] \in ToSet(called)

(* The inductive invariant. *)
ListInv ==
  /\ ListTypeOK
  /\ IsInjective(hwCycleList)
  /\ CalledOnce
  /\ WalkInv
  /\ PermanentFirst

(* The first places of a list keep their hardware when only other hardware *)
(* is taken off it: nothing in front of them becomes free.                 *)
LEMMA RemovedKeepsFirst ==
  ASSUME NEW list \in Seq(Hardware), NEW D, NEW N \in Nat, 1 .. N \subseteq Stays(D, list)
  PROVE  \A n \in 1 .. N : n \in DOMAIN Removed(D, list) /\ Removed(D, list)[n] = list[n]
<1> DEFINE s == Stays(D, list)
<1>1. Len(list) \in Nat /\ s \subseteq 1 .. Len(list) /\ Cardinality(s) \in Nat
  BY StaysFacts
<1>2. /\ DOMAIN Removed(D, list) = 1 .. Cardinality(s)
      /\ \A n \in DOMAIN Removed(D, list) :
           /\ Place(s, n) \in s /\ Place(s, n) >= n
           /\ Cardinality(Below(s, Place(s, n))) = n - 1
           /\ Removed(D, list)[n] = list[Place(s, n)]
  BY RemovedFacts
<1>3. 1 .. N \subseteq s
  OBVIOUS
<1> HIDE DEF s
<1>4. ASSUME NEW n \in 1 .. N
      PROVE  n \in DOMAIN Removed(D, list) /\ Removed(D, list)[n] = list[n]
  <2>1. n \in Nat /\ n + 1 \in Nat /\ n > 0
    OBVIOUS
  <2>2. Cardinality(Below(s, n + 1)) \in Nat /\ Cardinality(Below(s, n + 1)) >= n
    <3>1. 1 .. n \subseteq Below(s, n + 1)
      BY <1>3 DEF Below
    <3>2. IsFiniteSet(Below(s, n + 1)) /\ Cardinality(Below(s, n + 1)) \in Nat
      BY <1>1, <2>1, BelowCounts
    <3>3. Cardinality(1 .. n) = n /\ IsFiniteSet(1 .. n)
      BY FS_Interval
    <3>4. Cardinality(1 .. n) <= Cardinality(Below(s, n + 1))
      BY <3>1, <3>2, FS_Subset
    <3> QED
      BY <3>2, <3>3, <3>4
  <2>3. n \in 1 .. Cardinality(s)
    <3>1. Below(s, n + 1) \subseteq s
      BY DEF Below
    <3>2. IsFiniteSet(s)
      BY <1>1, 0 \in Nat, BelowCounts
    <3>3. Cardinality(Below(s, n + 1)) <= Cardinality(s)
      BY <3>1, <3>2, FS_Subset
    <3> QED
      BY <1>1, <2>1, <2>2, <3>3
  <2> DEFINE p == Place(s, n)
  <2>4. p \in s /\ p >= n /\ Cardinality(Below(s, p)) = n - 1 /\ Removed(D, list)[n] = list[p]
    BY <1>2, <2>3
  <2> HIDE DEF p
  <2>5. p \in Nat
    BY <1>1, <2>4
  <2>6. ~(n + 1 <= p)
    <3> SUFFICES ASSUME n + 1 <= p PROVE FALSE
      OBVIOUS
    <3>1. Cardinality(Below(s, n + 1)) <= Cardinality(Below(s, p))
      BY <1>1, <2>1, <2>5, BelowGrows
    <3> QED
      BY <2>1, <2>2, <2>4, <3>1
  <2>7. p = n
    BY <2>1, <2>4, <2>5, <2>6
  <2> QED
    BY <1>2, <2>3, <2>4, <2>7
<1> QED
  BY <1>4

(* The constants: a list of hardware that never leaves. *)
LEMMA PermanentFacts ==
  /\ Permanent \in Seq(Hardware) /\ IsInjective(Permanent)
  /\ Len(Permanent) \in Nat /\ DOMAIN Permanent = 1 .. Len(Permanent)
  /\ \A n \in DOMAIN Permanent : Permanent[n] \notin Leavers \cup Timers
<1>1. Permanent \in Seq(Hardware) /\ IsInjective(Permanent)
  BY HardwareAssumption DEF HardwareAssumption
<1>2. \A n \in DOMAIN Permanent : Permanent[n] \in ToSet(Permanent)
  BY DEF ToSet
<1>3. \A n \in DOMAIN Permanent : Permanent[n] \notin Leavers \cup Timers
  BY <1>2, HardwareAssumption DEF HardwareAssumption
<1> QED
  BY <1>1, <1>3

(* Taking off hardware that does leave keeps the first places. *)
LEMMA RemovedKeepsPermanent ==
  ASSUME ListInv, NEW D, D \subseteq Leavers \cup Timers
  PROVE  \A n \in DOMAIN Permanent :
           /\ n \in DOMAIN Removed(D, hwCycleList)
           /\ Removed(D, hwCycleList)[n] = Permanent[n]
<1>1. hwCycleList \in Seq(Hardware)
  BY DEF ListInv, ListTypeOK
<1>2. \A n \in DOMAIN Permanent : n \in DOMAIN hwCycleList /\ hwCycleList[n] = Permanent[n]
  BY DEF ListInv, PermanentFirst
<1>3. \A n \in DOMAIN Permanent : n \in Stays(D, hwCycleList)
  BY <1>2, PermanentFacts DEF Stays
<1>4. PICK N \in Nat : N = Len(Permanent) /\ DOMAIN Permanent = 1 .. N
  BY PermanentFacts
<1>5. 1 .. N \subseteq Stays(D, hwCycleList)
  BY <1>3, <1>4
<1>6. \A n \in 1 .. N : /\ n \in DOMAIN Removed(D, hwCycleList)
                        /\ Removed(D, hwCycleList)[n] = hwCycleList[n]
  BY <1>1, <1>5, RemovedKeepsFirst
<1> QED
  BY <1>2, <1>4, <1>6

LEMMA InitListInv == ListInit => ListInv
<1> SUFFICES ASSUME ListInit PROVE ListInv
  OBVIOUS
<1>1. Cardinality(Hardware) \in Nat
  BY FS_CardinalityType, HardwareAssumption DEF HardwareAssumption
<1>2. IsInjective(<<>>) /\ IsInjective(Permanent)
  BY PermanentFacts DEF IsInjective
<1>3. ListTypeOK
  <2>1. 0 \in 0 .. Cardinality(Hardware) + 1 /\ <<>> \in Seq(Hardware)
    BY <1>1
  <2> QED
    BY <2>1, PermanentFacts DEF ListInit, ListTypeOK
<1>4. PermanentFirst
  <2>1. \A n \in DOMAIN Permanent : ~(n < 0)
    BY PermanentFacts
  <2> QED
    BY <2>1 DEF ListInit, PermanentFirst
<1> QED
  BY <1>2, <1>3, <1>4 DEF ListInit, ListInv, CalledOnce, WalkInv

(* A register write or a reset changes the list only outside of the walk. *)
LEMMA WriteKeepsInv ==
  ASSUME ListInv,
         \/ \E h \in Hardware : AddToCycleList(h)
         \/ \E h \in Timers : RemoveFromCycleList(h)
         \/ ResetOutside
  PROVE  ListInv'
<1>1. i' = 0 /\ hwCycleList \in Seq(Hardware) /\ IsInjective(hwCycleList)
  BY DEF ListInv, ListTypeOK, AddToCycleList, RemoveFromCycleList, ResetOutside
<1> DEFINE Kept(list) ==
             /\ list \in Seq(Hardware) /\ IsInjective(list)
             /\ \A n \in DOMAIN Permanent : n \in DOMAIN list /\ list[n] = Permanent[n]
<1>2. Kept(hwCycleList')
  <2>1. ASSUME NEW D, D \subseteq Leavers \cup Timers, hwCycleList' = Removed(D, hwCycleList)
        PROVE  Kept(hwCycleList')
    BY <1>1, <2>1, RemovedFacts, RemovedKeeps, RemovedKeepsPermanent
  <2>2. ASSUME NEW h \in Hardware, AddToCycleList(h) PROVE Kept(hwCycleList')
    <3>1. \A n \in DOMAIN Permanent : n \in DOMAIN hwCycleList /\ hwCycleList[n] = Permanent[n]
      BY DEF ListInv, PermanentFirst
    <3>2. CASE On(h, hwCycleList)
      BY <1>1, <2>2, <3>1, <3>2 DEF AddToCycleList, Added
    <3>3. CASE ~On(h, hwCycleList)
      <4>1. hwCycleList' = Append(hwCycleList, h)
        BY <2>2, <3>3 DEF AddToCycleList, Added
      <4>2. \A n \in DOMAIN hwCycleList : /\ n \in DOMAIN Append(hwCycleList, h)
                                          /\ Append(hwCycleList, h)[n] = hwCycleList[n]
        BY <1>1
      <4> QED
        BY <1>1, <3>1, <3>3, <4>1, <4>2, AppendKeeps DEF On
    <3> QED
      BY <3>2, <3>3
  <2>3. ASSUME NEW h \in Timers, RemoveFromCycleList(h) PROVE Kept(hwCycleList')
    BY <2>1, <2>3 DEF RemoveFromCycleList
  <2>4. CASE ResetOutside
    BY <2>1, <2>4 DEF ResetOutside
  <2> QED
    BY <2>2, <2>3, <2>4
<1>3. UNCHANGED <<i, hwWait, began, called>>
  BY DEF AddToCycleList, RemoveFromCycleList, ResetOutside
<1>4. PermanentFirst'
  <2>1. \A n \in DOMAIN Permanent : ~(n < 0)
    BY PermanentFacts
  <2> QED
    BY <1>1, <1>2, <2>1 DEF PermanentFirst
<1> QED
  BY <1>1, <1>2, <1>3, <1>4 DEF ListInv, ListTypeOK, CalledOnce, WalkInv

(* The walk begins with nothing skipped. *)
LEMMA WalkBeginsKeepsInv == ListInv /\ WalkBegins => ListInv'
<1> SUFFICES ASSUME ListInv, WalkBegins PROVE ListInv'
  OBVIOUS
<1>1. Cardinality(Hardware) \in Nat
  BY FS_CardinalityType, HardwareAssumption DEF HardwareAssumption
<1>2. 1 \in 0 .. Cardinality(Hardware) + 1
  BY <1>1
<1>3. ToSet(hwCycleList) \subseteq Hardware
  BY DEF ListInv, ListTypeOK, ToSet
<1>4. IsInjective(<<>>) /\ (\A h : h \notin ToSet(<<>>))
  <2>1. DOMAIN <<>> = {}
    OBVIOUS
  <2> QED
    BY <2>1 DEF IsInjective, ToSet
<1>5. ListTypeOK'
  <2>1. <<>> \in Seq(Hardware)
    OBVIOUS
  <2> QED
    BY <1>2, <1>3, <2>1 DEF ListInv, ListTypeOK, WalkBegins
<1>6. Skipped' = {}
  <2>1. \A k \in DOMAIN hwCycleList : ~(k < 1)
    BY DEF ListInv, ListTypeOK
  <2> QED
    BY <2>1 DEF Skipped, WalkBegins
<1>7. Cardinality(Skipped') <= Cardinality(began' \ ToSet(hwCycleList'))
  <2>1. began' \ ToSet(hwCycleList') = {}
    BY DEF WalkBegins
  <2> QED
    BY <1>6, <2>1, FS_EmptySet
<1>8. WalkInv'
  BY <1>4, <1>7 DEF WalkInv, WalkBegins
<1>9. PermanentFirst'
  <2>1. \A n \in DOMAIN Permanent : ~(n < 1)
    BY PermanentFacts
  <2> QED
    BY <2>1 DEF ListInv, PermanentFirst, WalkBegins
<1> QED
  BY <1>4, <1>5, <1>8, <1>9 DEF ListInv, CalledOnce, WalkBegins

(* Under the list that a call leaves without D, not more places behind     *)
(* the index are skipped than before, plus those that D made free.         *)
LEMMA GapsCount ==
  ASSUME ListInv, i \in 1 .. Len(hwCycleList), NEW D, NEW new, new = Removed(D, hwCycleList),
         NEW skip, NEW h, h = hwCycleList[i],
         skip = {n \in DOMAIN new : n < i + 1 /\ new[n] \notin ToSet(called) \cup {h}}
  PROVE  Cardinality(skip) <= Cardinality(began \ ToSet(new))
<1> DEFINE list == hwCycleList
<1> DEFINE s == Stays(D, list)
<1> DEFINE r == Cardinality(Below(s, i + 1))
<1> DEFINE gone == D \cap ToSet(list)
<1> DEFINE left == began \ ToSet(list)
<1> DEFINE G == {k \in 1 .. i : list[k] \in D}
<1> DEFINE X == {n \in skip : Place(s, n) < i}
<1> DEFINE Y == (r + 1) .. i
<1>1. /\ list \in Seq(Hardware) /\ IsInjective(list) /\ i \in Nat /\ i > 0 /\ i <= Len(list)
      /\ DOMAIN list = 1 .. Len(list) /\ Len(list) \in Nat
  BY DEF ListInv, ListTypeOK
<1>2. /\ ToSet(list) \subseteq began /\ IsFiniteSet(began)
      /\ Cardinality(Skipped) <= Cardinality(left)
  <2>1. IsFiniteSet(began)
    BY FS_Subset, HardwareAssumption DEF HardwareAssumption, ListInv, ListTypeOK
  <2> QED
    BY <1>1, <2>1 DEF ListInv, WalkInv
<1>3. /\ s \subseteq 1 .. Len(list) /\ IsFiniteSet(Below(s, i + 1)) /\ r \in Nat
  <2>1. s \subseteq 1 .. Len(list) /\ i + 1 \in Nat
    BY <1>1, StaysFacts
  <2> HIDE DEF s
  <2> QED
    BY <1>1, <2>1, BelowCounts
<1>4. \A n \in DOMAIN new : /\ Place(s, n) \in s /\ Place(s, n) \in DOMAIN list
                            /\ Cardinality(Below(s, Place(s, n))) = n - 1
                            /\ new[n] = list[Place(s, n)] /\ n \in Nat /\ n > 0
  <2>1. DOMAIN new = 1 .. Cardinality(s) /\ Cardinality(s) \in Nat
    BY <1>1, RemovedFacts, StaysFacts
  <2>2. \A n \in DOMAIN new : n \in Nat /\ n > 0
    BY <2>1
  <2> QED
    BY <1>1, <2>2, RemovedFacts
<1>5. IsInjective(new) /\ ToSet(new) \subseteq ToSet(list) \ D
  BY <1>1, RemovedKeeps
<1>6. Below(s, i + 1) \cup G = 1 .. i /\ Below(s, i + 1) \cap G = {}
  <2>1. \A k \in 1 .. i : k \in DOMAIN list /\ k < i + 1
    BY <1>1
  <2>2. \A k \in DOMAIN list : k < i + 1 => k \in 1 .. i
    BY <1>1
  <2> QED
    BY <2>1, <2>2 DEF Below, Stays
<1>7. IsFiniteSet(G) /\ Cardinality(G) \in Nat /\ r + Cardinality(G) = i
  <2>1. IsFiniteSet(1 .. i) /\ Cardinality(1 .. i) = i
    BY <1>1, FS_Interval
  <2>2. IsFiniteSet(G)
    BY <2>1, FS_Subset
  <2>3. Cardinality(G) \in Nat
    BY <2>2, FS_CardinalityType
  <2> HIDE DEF G, s
  <2>4. Cardinality(Below(s, i + 1) \cup G) =
          Cardinality(Below(s, i + 1)) + Cardinality(G) - Cardinality(Below(s, i + 1) \cap G)
    BY <1>3, <2>2, FS_Union
  <2>5. Cardinality(Below(s, i + 1) \cap G) = 0
    BY <1>6, FS_EmptySet
  <2>6. Cardinality(Below(s, i + 1) \cup G) = i
    BY <1>6, <2>1
  <2> HIDE DEF r
  <2>7. Cardinality(Below(s, i + 1)) = r
    BY DEF r
  <2> QED
    BY <1>1, <1>3, <2>2, <2>3, <2>4, <2>5, <2>6, <2>7
(* The places of skip: skipped before, or moved over the index. *)
<1>8. skip \subseteq X \cup Y
  <2> SUFFICES ASSUME NEW n \in skip, ~(Place(s, n) < i) PROVE n \in Y
    OBVIOUS
  <2>1. n \in DOMAIN new /\ n < i + 1 /\ new[n] \notin ToSet(called) \cup {h}
    OBVIOUS
  <2> DEFINE p == Place(s, n)
  <2>2. p \in DOMAIN list /\ p \in Nat /\ new[n] = list[p] /\ n \in Nat
        /\ Cardinality(Below(s, p)) = n - 1
    BY <1>1, <1>4, <2>1
  <2>3. p # i
    BY <2>1, <2>2
  <2> HIDE DEF p, s
  <2>4. i + 1 <= p
    BY <1>1, <2>2, <2>3 DEF p
  <2>5. r <= Cardinality(Below(s, p))
    BY <1>1, <1>3, <2>2, <2>4, i + 1 \in Nat, BelowGrows
  <2> HIDE DEF r
  <2> QED
    BY <1>1, <1>3, <2>1, <2>2, <2>5
<1>9. IsFiniteSet(X) /\ Cardinality(X) \in Nat /\ Cardinality(X) <= Cardinality(Skipped)
  <2> DEFINE f == [n \in X |-> Place(s, n)]
  <2>1. ASSUME NEW n \in X PROVE Place(s, n) \in Skipped
    BY <1>4 DEF Skipped
  <2>2. ASSUME NEW a \in X, NEW b \in X, Place(s, a) = Place(s, b) PROVE a = b
    <3>1. a - 1 = b - 1 /\ a \in Nat /\ b \in Nat
      BY <1>4, <2>2
    <3> QED
      BY <3>1
  <2>3. IsFiniteSet(Skipped)
    <3>1. IsFiniteSet(1 .. Len(list))
      BY <1>1, FS_Interval
    <3> QED
      BY <1>1, <3>1, FS_Subset DEF Skipped
  <2> HIDE DEF X, s
  <2>4. f \in Injection(X, Skipped)
    BY <2>1, <2>2 DEF Injection, IsInjective
  <2> HIDE DEF f
  <2>5. IsFiniteSet(X) /\ Cardinality(X) <= Cardinality(Skipped)
    BY <2>3, <2>4, FS_Injection
  <2> QED
    BY <2>5, FS_CardinalityType
<1>10. IsFiniteSet(Y) /\ Cardinality(Y) = Cardinality(G)
  <2> HIDE DEF r, G
  <2>1. i \in Int /\ r + 1 \in Int /\ Cardinality(G) = i - r /\ Cardinality(G) >= 0
    BY <1>1, <1>3, <1>7
  <2>2. IsFiniteSet((r + 1) .. i)
        /\ Cardinality((r + 1) .. i) = IF r + 1 > i THEN 0 ELSE i - (r + 1) + 1
    BY <2>1, FS_Interval
  <2> QED
    BY <1>3, <2>1, <2>2
(* D has one hardware on the list for every place that it made free. *)
<1>11. IsFiniteSet(gone) /\ Cardinality(gone) \in Nat /\ Cardinality(G) <= Cardinality(gone)
  <2> DEFINE f == [k \in G |-> list[k]]
  <2>1. \A k \in G : k \in DOMAIN list
    BY <1>1
  <2>2. \A k \in G : list[k] \in gone
    BY <2>1 DEF ToSet
  <2>3. \A a, b \in G : list[a] = list[b] => a = b
    BY <1>1, <2>1 DEF IsInjective
  <2>4. IsFiniteSet(gone)
    BY <1>2, FS_Subset
  <2> HIDE DEF G, gone, list
  <2>5. f \in Injection(G, gone)
    BY <2>2, <2>3 DEF Injection, IsInjective
  <2> HIDE DEF f
  <2> QED
    BY <2>4, <2>5, FS_Injection, FS_CardinalityType
<1>12. IsFiniteSet(left) /\ Cardinality(left) \in Nat
  BY <1>2, FS_Subset, FS_CardinalityType
<1>13. Cardinality(left) + Cardinality(gone) <= Cardinality(began \ ToSet(new))
  <2>1. left \cup gone \subseteq began \ ToSet(new) /\ left \cap gone = {}
    BY <1>2, <1>5
  <2>2. IsFiniteSet(began \ ToSet(new))
    BY <1>2, FS_Subset
  <2> HIDE DEF left, gone
  <2>3. Cardinality(left \cup gone) <= Cardinality(began \ ToSet(new))
    BY <2>1, <2>2, FS_Subset
  <2>4. Cardinality(left \cup gone) = Cardinality(left) + Cardinality(gone) - Cardinality(left \cap gone)
    BY <1>11, <1>12, FS_Union
  <2>5. Cardinality(left \cap gone) = 0
    BY <2>1, FS_EmptySet
  <2> QED
    BY <1>11, <1>12, <2>3, <2>4, <2>5
<1>14. Cardinality(skip) <= Cardinality(X) + Cardinality(Y)
  <2> HIDE DEF X, Y
  <2>1. IsFiniteSet(X \cup Y) /\ Cardinality(X \cup Y) = Cardinality(X) + Cardinality(Y) - Cardinality(X \cap Y)
    BY <1>9, <1>10, FS_Union
  <2>2. IsFiniteSet(X \cap Y)
    BY <1>9, FS_Intersection
  <2>3. Cardinality(X \cap Y) \in Nat /\ Cardinality(Y) \in Nat
    BY <1>10, <2>2, FS_CardinalityType
  <2>4. IsFiniteSet(skip) /\ Cardinality(skip) <= Cardinality(X \cup Y)
    BY <1>8, <2>1, FS_Subset
  <2>5. Cardinality(skip) \in Nat
    BY <2>4, FS_CardinalityType
  <2> QED
    BY <1>9, <2>1, <2>3, <2>4, <2>5
<1>15. /\ Cardinality(skip) \in Nat /\ Cardinality(Skipped) \in Nat
       /\ Cardinality(began \ ToSet(new)) \in Nat
  <2>1. IsFiniteSet(began \ ToSet(new)) /\ IsFiniteSet(1 .. Len(list))
    BY <1>1, <1>2, FS_Subset, FS_Interval
  <2>2. IsFiniteSet(Skipped)
    BY <1>1, <2>1, FS_Subset DEF Skipped
  <2>3. IsFiniteSet(X \cup Y)
    <3> HIDE DEF X, Y
    <3> QED
      BY <1>9, <1>10, FS_Union
  <2>4. IsFiniteSet(skip)
    <3> HIDE DEF X, Y
    <3> QED
      BY <1>8, <2>3, FS_Subset
  <2> QED
    BY <2>1, <2>2, <2>4, FS_CardinalityType
<1> HIDE DEF X, Y, G, gone, left
<1> QED
  BY <1>2, <1>7, <1>9, <1>10, <1>11, <1>12, <1>13, <1>14, <1>15

(* A call of the walk, which may take hardware off the list under it. *)
LEMMA WalkCallsKeepsInv ==
  ASSUME ListInv, NEW answer \in BOOLEAN, WalkCalls(answer)
  PROVE  ListInv'
<1> DEFINE h == hwCycleList[i]
<1>1. /\ hwCycleList \in Seq(Hardware) /\ IsInjective(hwCycleList) /\ i \in Nat /\ i > 0
      /\ i <= Len(hwCycleList) /\ i \in DOMAIN hwCycleList /\ Len(hwCycleList) \in Nat
      /\ h \in Hardware
  BY DEF ListInv, ListTypeOK, WalkCalls
<1>2. PICK D : /\ hwCycleList' = Removed(D, hwCycleList)
               /\ called' = Append(called, h) /\ i' = i + 1
               /\ D \subseteq Leavers \cup Timers
  BY DEF WalkCalls, Call, After, Drops
<1>3. /\ hwCycleList' \in Seq(Hardware) /\ IsInjective(hwCycleList')
      /\ ToSet(hwCycleList') \subseteq ToSet(hwCycleList) \ D
  BY <1>1, <1>2, RemovedFacts, RemovedKeeps
<1>4. called \in Seq(Hardware) /\ IsInjective(called) /\ h \notin ToSet(called)
  BY <1>1 DEF ListInv, ListTypeOK, CalledOnce, WalkInv
<1>5. called' \in Seq(Hardware) /\ IsInjective(called') /\ ToSet(called') = ToSet(called) \cup {h}
  BY <1>1, <1>2, <1>4, AppendKeeps
<1>6. i' \in 0 .. Cardinality(Hardware) + 1
  <2>1. Len(hwCycleList) <= Cardinality(Hardware)
    BY <1>1, ListIsShort
  <2>2. Cardinality(Hardware) \in Nat
    BY FS_CardinalityType, HardwareAssumption DEF HardwareAssumption
  <2> QED
    BY <1>1, <1>2, <2>1, <2>2
<1>7. hwWait' \in BOOLEAN /\ UNCHANGED began
  BY DEF ListInv, ListTypeOK, WalkCalls, Call, Held
<1>8. ListTypeOK'
  BY <1>3, <1>5, <1>6, <1>7 DEF ListInv, ListTypeOK
<1>9. ASSUME NEW n \in DOMAIN hwCycleList', n >= i'
      PROVE  hwCycleList'[n] \notin ToSet(called')
  <2> DEFINE p == Place(Stays(D, hwCycleList), n)
  <2>1. p \in DOMAIN hwCycleList /\ p >= n /\ hwCycleList'[n] = hwCycleList[p]
    BY <1>1, <1>2, <1>9, RemovedFacts
  <2>2. p \in Nat /\ n \in Nat
    BY <1>1, <1>3, <2>1
  <2> HIDE DEF p
  <2>3. p >= i /\ p # i
    BY <1>1, <1>2, <1>9, <2>1, <2>2
  <2>4. hwCycleList[p] # h
    BY <1>1, <2>1, <2>3 DEF IsInjective
  <2>5. hwCycleList[p] \notin ToSet(called)
    BY <1>1, <2>1, <2>3 DEF ListInv, WalkInv
  <2> QED
    BY <1>5, <2>1, <2>4, <2>5
<1>10. Cardinality(Skipped') <= Cardinality(began' \ ToSet(hwCycleList'))
  <2>1. Skipped' = {n \in DOMAIN hwCycleList' :
                      n < i + 1 /\ hwCycleList'[n] \notin ToSet(called) \cup {h}}
    BY <1>2, <1>5 DEF Skipped
  <2>2. i \in 1 .. Len(hwCycleList)
    BY <1>1
  <2>3. PICK new, skip : new = hwCycleList' /\ skip = Skipped'
    OBVIOUS
  <2>4. Cardinality(skip) <= Cardinality(began \ ToSet(new))
    BY <1>2, <2>1, <2>2, <2>3, GapsCount
  <2> QED
    BY <1>7, <2>3, <2>4
<1>11. ToSet(hwCycleList') \subseteq began'
  BY <1>1, <1>3, <1>7 DEF ListInv, WalkInv
<1>12. WalkInv'
  BY <1>9, <1>10, <1>11 DEF WalkInv
<1>13. PermanentFirst'
  <2> SUFFICES ASSUME NEW n \in DOMAIN Permanent
               PROVE  /\ n \in DOMAIN hwCycleList' /\ hwCycleList'[n] = Permanent[n]
                      /\ n < i' => Permanent[n] \in ToSet(called')
    BY DEF PermanentFirst
  <2>1. n \in DOMAIN hwCycleList' /\ hwCycleList'[n] = Permanent[n]
    BY <1>2, RemovedKeepsPermanent
  <2>2. /\ n < i => Permanent[n] \in ToSet(called)
        /\ hwCycleList[n] = Permanent[n] /\ n \in Nat
    BY PermanentFacts DEF ListInv, PermanentFirst
  <2>3. ASSUME n < i' PROVE n < i \/ n = i
    BY <1>1, <1>2, <2>2, <2>3
  <2> QED
    BY <1>5, <2>1, <2>2, <2>3
<1> QED
  BY <1>3, <1>5, <1>8, <1>12, <1>13 DEF ListInv, CalledOnce

(* Every step of the walk and of the program keeps the invariant. *)
LEMMA NextListInv == ListInv /\ [ListNext]_listVars => ListInv'
<1> SUFFICES ASSUME ListInv, [ListNext]_listVars PROVE ListInv'
  OBVIOUS
<1>1. CASE \/ \E h \in Hardware : AddToCycleList(h)
           \/ \E h \in Timers : RemoveFromCycleList(h)
           \/ ResetOutside
  BY <1>1, WriteKeepsInv
<1>2. CASE WalkBegins
  BY <1>2, WalkBeginsKeepsInv
<1>3. CASE \E answer \in BOOLEAN : WalkCalls(answer)
  BY <1>3, WalkCallsKeepsInv
<1>4. CASE WalkEnds
  <2>1. i' = 0 /\ called' = <<>> /\ began' = {} /\ UNCHANGED <<hwCycleList, hwWait>>
    BY <1>4 DEF WalkEnds
  <2>2. 0 \in 0 .. Cardinality(Hardware) + 1 /\ <<>> \in Seq(Hardware)
    BY FS_CardinalityType, HardwareAssumption DEF HardwareAssumption
  <2>3. IsInjective(<<>>)
    BY DEF IsInjective
  <2>4. \A n \in DOMAIN Permanent : ~(n < 0)
    BY PermanentFacts
  <2> QED
    BY <2>1, <2>2, <2>3, <2>4
       DEF ListInv, ListTypeOK, CalledOnce, WalkInv, PermanentFirst
<1>5. CASE UNCHANGED listVars
  BY <1>5 DEF listVars, ListInv, ListTypeOK, CalledOnce, WalkInv, Skipped, PermanentFirst
<1> QED
  BY <1>1, <1>2, <1>3, <1>4, <1>5 DEF ListNext

(* Behind the end of the list, what missed its call was skipped. *)
LEMMA InvGaps == ListInv => MissedOnlyByGaps
<1> SUFFICES ASSUME ListInv, i > Len(hwCycleList)
             PROVE  Cardinality((began \ (began \ ToSet(hwCycleList))) \ ToSet(called))
                      <= Cardinality(began \ ToSet(hwCycleList))
  BY DEF MissedOnlyByGaps, WalkIsOver
<1> DEFINE missed == (began \ (began \ ToSet(hwCycleList))) \ ToSet(called)
<1> DEFINE Where(h) == CHOOSE k \in DOMAIN hwCycleList : hwCycleList[k] = h
<1> DEFINE f == [h \in missed |-> Where(h)]
<1>1. /\ hwCycleList \in Seq(Hardware) /\ Len(hwCycleList) \in Nat /\ i \in Nat /\ i # 0
      /\ DOMAIN hwCycleList = 1 .. Len(hwCycleList)
  BY DEF ListInv, ListTypeOK
<1>2. \A k \in DOMAIN hwCycleList : k < i
  BY <1>1
<1>3. \A h \in missed : Where(h) \in DOMAIN hwCycleList /\ hwCycleList[Where(h)] = h
  BY DEF ToSet
<1>4. \A h \in missed : h \notin ToSet(called)
  OBVIOUS
<1> HIDE DEF missed, Where
<1>5. f \in Injection(missed, Skipped)
  <2>1. \A h \in missed : Where(h) \in Skipped
    BY <1>2, <1>3, <1>4 DEF Skipped
  <2>2. \A g, h \in missed : Where(g) = Where(h) => g = h
    BY <1>3
  <2> QED
    BY <2>1, <2>2 DEF Injection, IsInjective
<1>6. IsFiniteSet(Skipped)
  <2>1. IsFiniteSet(1 .. Len(hwCycleList))
    BY <1>1, FS_Interval
  <2> QED
    BY <1>1, <2>1, FS_Subset DEF Skipped
<1> HIDE DEF f
<1>7. IsFiniteSet(missed) /\ Cardinality(missed) <= Cardinality(Skipped)
  BY <1>5, <1>6, FS_Injection
<1>8. Cardinality(Skipped) <= Cardinality(began \ ToSet(hwCycleList))
  BY <1>1 DEF ListInv, WalkInv
<1>9. IsFiniteSet(began \ ToSet(hwCycleList))
  BY FS_Subset, HardwareAssumption DEF HardwareAssumption, ListInv, ListTypeOK
<1>10. /\ Cardinality(missed) \in Nat /\ Cardinality(Skipped) \in Nat
       /\ Cardinality(began \ ToSet(hwCycleList)) \in Nat
  BY <1>6, <1>7, <1>9, FS_CardinalityType
<1>11. Cardinality(missed) <= Cardinality(began \ ToSet(hwCycleList))
  BY <1>7, <1>8, <1>10
<1> QED
  BY <1>11 DEF missed

(* The list holds hardware of the device, and the index of the walk in     *)
(* Step stays in the list or one behind it.                                *)
THEOREM ListTypeCorrect == ListSpec => []ListTypeOK
<1>1. ListInv => ListTypeOK
  BY DEF ListInv
<1> QED
  BY InitListInv, NextListInv, <1>1, PTL DEF ListSpec

(* Whatever a CpuCycle takes off the list under the walk of Step, no       *)
(* hardware gets a second CpuCycle in it.                                  *)
THEOREM NoSecondCall == ListSpec => []CalledOnce
<1>1. ListInv => CalledOnce
  BY DEF ListInv
<1> QED
  BY InitListInv, NextListInv, <1>1, PTL DEF ListSpec

(* What registered when the device was built is called in every walk of    *)
(* Step, whatever other hardware comes and goes.                           *)
THEOREM PermanentNotMissed == ListSpec => []PermanentCalled
<1>1. ListInv => PermanentCalled
  <2> SUFFICES ASSUME ListInv, i > Len(hwCycleList), NEW n \in DOMAIN Permanent
               PROVE  Permanent[n] \in ToSet(called)
    BY DEF PermanentCalled, WalkIsOver, ToSet
  <2>1. hwCycleList \in Seq(Hardware) /\ i \in Nat
    BY DEF ListInv, ListTypeOK
  <2>2. n \in DOMAIN hwCycleList
    BY DEF ListInv, PermanentFirst
  <2>3. n < i
    BY <2>1, <2>2
  <2> QED
    BY <2>3 DEF ListInv, PermanentFirst
<1> QED
  BY InitListInv, NextListInv, <1>1, PTL DEF ListSpec

(* Hardware that stays on the list misses its CpuCycle in a walk of Step   *)
(* only by the gaps that others left: not more miss it than left.          *)
THEOREM GapsBound == ListSpec => []MissedOnlyByGaps
<1> QED
  BY InitListInv, NextListInv, InvGaps, PTL DEF ListSpec
-----------------------------------------------------------------------------
(* Every step of the device is one of the watchdog or none of its. *)
LEMMA StepOfWatchdog == [DeviceNext]_deviceVars => [Next]_vars
<1> SUFFICES ASSUME [DeviceNext]_deviceVars PROVE [Next]_vars
  OBVIOUS
<1>1. CASE WatchdogInstruction
  BY <1>1 DEF WatchdogInstruction, Next
<1>2. CASE ListInstruction
  BY <1>2 DEF ListInstruction, Next
<1>3. CASE Walk
  BY <1>3 DEF Walk, WatchdogCalled, OtherCalled, Next
<1>4. CASE DeviceReset
  BY <1>4 DEF DeviceReset, Next
<1>5. CASE UNCHANGED deviceVars
  BY <1>5 DEF deviceVars
<1> QED
  BY <1>1, <1>2, <1>3, <1>4, <1>5 DEF DeviceNext

(* Every step of the device is one of the cycle list or none of its. *)
LEMMA StepOfList == [DeviceNext]_deviceVars => [ListNext]_listVars
<1> SUFFICES ASSUME [DeviceNext]_deviceVars PROVE [ListNext]_listVars
  OBVIOUS
<1>1. CASE WatchdogInstruction
  BY <1>1 DEF WatchdogInstruction
<1>2. CASE ListInstruction
  BY <1>2 DEF ListInstruction, ListNext
<1>3. CASE WatchdogCalled
  <2>1. PICK D : Call(D, FALSE) /\ D \in {{}, Timers}
    BY <1>3 DEF WatchdogCalled
  <2>2. D \in Drops(hwCycleList[i])
    BY <1>3, <2>1, DeviceAssumption DEF WatchdogCalled, DeviceAssumption, Drops
  <2>3. WalkCalls(FALSE)
    BY <1>3, <2>1, <2>2 DEF WatchdogCalled, WalkCalls
  <2> QED
    BY <2>3 DEF ListNext
<1>4. CASE Walk /\ ~WatchdogCalled
  BY <1>4 DEF Walk, OtherCalled, ListNext
<1>5. CASE DeviceReset
  BY <1>5 DEF DeviceReset, ListNext
<1>6. CASE UNCHANGED deviceVars
  BY <1>6 DEF deviceVars
<1> QED
  BY <1>1, <1>2, <1>3, <1>4, <1>5, <1>6 DEF DeviceNext

(* The device, in which the walk of Step calls the watchdog and a time out *)
(* resets the device under the walk, implements both of its parts: what is *)
(* proved of the watchdog and of the list holds of the device.             *)
THEOREM DeviceImplements == DeviceSpec => Spec /\ ListSpec
<1>1. DeviceInit => Init /\ ListInit
  BY DEF DeviceInit
<1> QED
  BY <1>1, StepOfWatchdog, StepOfList, PTL DEF DeviceSpec, Spec, ListSpec
=============================================================================
