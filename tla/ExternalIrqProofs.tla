------------------------- MODULE ExternalIrqProofs -------------------------
(***************************************************************************)
(* Proofs about ExternalIrq for any set of lines and pins: the type        *)
(* invariant, that no flagged and enabled line is missing from the queue,  *)
(* that taking a level interrupt does not consume it, and that an edge is  *)
(* forgotten only for a reason.                                            *)
(***************************************************************************)
EXTENDS ExternalIrq, WellFoundedInduction, TLAPS

(* The first entry of a queue with an entry is one of its entries. *)
LEMMA LeastIsMember ==
  ASSUME NEW S, S \subseteq Nat, S # {}
  PROVE  Least(S) \in S /\ \A w \in S : Least(S) <= w
<1> DEFINE R == OpToRel(<, Nat)
<1>1. PICK x \in S : \A y \in S : <<y, x>> \notin R
  <2> HIDE DEF R
  <2>1. IsWellFoundedOn(R, Nat)
    BY NatLessThanWellFounded DEF R
  <2> QED
    BY <2>1, WFMin
<1>2. ASSUME NEW y \in S PROVE x <= y
  <2>1. x \in Nat /\ y \in Nat
    OBVIOUS
  <2>2. y < x => <<y, x>> \in R
    BY <2>1, <<y, x>>[1] = y, <<y, x>>[2] = x, <<y, x>> \in Nat \X Nat DEF OpToRel
  <2>3. ~(y < x)
    <3> HIDE DEF R
    <3> QED
      BY <1>1, <2>2
  <2> QED
    BY <2>1, <2>3
<1> QED
  BY <1>2 DEF Least

(* fireInterrupt only adds the line that fired, and queues it when its     *)
(* mask bit is set.                                                        *)
LEMMA FireKeepsQueue ==
  ASSUME TypeOK, FlaggedIsQueued, NEW l \in Lines, fireInterrupt(l)
  PROVE  /\ irq_flag' \subseteq Lines
         /\ irqPartnerList' \subseteq Lines
         /\ irq_flag' \cap irq_mask \subseteq irqPartnerList'
  BY DEF TypeOK, FlaggedIsQueued, fireInterrupt

(* TypeOK and FlaggedIsQueued together are inductive. *)
Inv == TypeOK /\ FlaggedIsQueued

LEMMA InitInv == Init => Inv
<1> SUFFICES ASSUME Init PROVE Inv
  OBVIOUS
<1>1. mode \in [Singles -> 0 .. 3] /\ pinMask \in [Ports -> SUBSET PortPins]
  BY DEF Init, MODE_LEVEL_LOW
<1>2. crashed \in BOOLEAN /\ state \in [Singles -> BOOLEAN]
  BY Zenon DEF Init
<1> QED
  BY <1>1, <1>2 DEF Init, Inv, TypeOK, FlaggedIsQueued

LEMMA NextInv == Inv /\ [Next]_vars => Inv'
<1> SUFFICES ASSUME Inv, [Next]_vars PROVE Inv'
  OBVIOUS
<1> USE DEF Inv
<1>1. ASSUME NEW l \in Singles, NEW s \in BOOLEAN, SinglePinChanged(l, s)
      PROVE  Inv'
  <2>1. CASE Fires(l, s)
    <3>1. fireInterrupt(l)
      BY <1>1, <2>1 DEF SinglePinChanged
    <3> QED
      BY <1>1, <3>1, FireKeepsQueue
         DEF SinglePinChanged, TypeOK, FlaggedIsQueued, Lines
  <2>2. CASE ~Fires(l, s)
    BY <1>1, <2>2 DEF SinglePinChanged, TypeOK, FlaggedIsQueued
  <2> QED
    BY <2>1, <2>2
<1>2. ASSUME NEW p \in Ports, NEW pin \in PortPins, PortPinChanged(p, pin)
      PROVE  Inv'
  <2>1. high' \in [Ports -> SUBSET PortPins]
    BY <1>2 DEF PortPinChanged, TypeOK
  <2>2. CASE pin \in pinMask[p]
    <3>1. fireInterrupt(p)
      BY <1>2, <2>2 DEF PortPinChanged
    <3> QED
      BY <1>2, <2>1, <3>1, FireKeepsQueue
         DEF PortPinChanged, TypeOK, FlaggedIsQueued, Lines
  <2>3. CASE pin \notin pinMask[p]
    BY <1>2, <2>1, <2>3 DEF PortPinChanged, TypeOK, FlaggedIsQueued
  <2> QED
    BY <2>2, <2>3
<1>3. ASSUME NEW nv \in SUBSET Lines, WriteMask(nv)
      PROVE  Inv'
  BY <1>3 DEF WriteMask, sources, TypeOK, FlaggedIsQueued
<1>4. ASSUME NEW nv \in SUBSET Lines, WriteFlag(nv)
      PROVE  Inv'
  BY <1>4 DEF WriteFlag, sources, TypeOK, FlaggedIsQueued
<1>5. ASSUME NEW l \in Singles, NEW m \in 0 .. 3, ChangeMode(l, m)
      PROVE  Inv'
  BY <1>5 DEF ChangeMode, handler, TypeOK, FlaggedIsQueued
<1>6. ASSUME NEW p \in Ports, NEW pins \in SUBSET PortPins, ChangePinMask(p, pins)
      PROVE  Inv'
  BY <1>6 DEF ChangePinMask, handler, TypeOK, FlaggedIsQueued
<1>7. ASSUME Reset
      PROVE  Inv'
  BY <1>7 DEF Reset, TypeOK, FlaggedIsQueued
<1>8. ASSUME GetNewPc
      PROVE  Inv'
  <2> DEFINE ready == {l \in irqPartnerList : Servable(l)}
             v == IF ready = {} THEN 0 ELSE Least(ready)
             seen == {l \in irqPartnerList : v = 0 \/ l <= v}
             stale == seen \ ready
  <2>1. irqPartnerList \subseteq Nat
    BY LinesAssumption DEF TypeOK, Lines
  <2>2. v \in Lines \cup {0}
    BY <2>1, LeastIsMember DEF TypeOK
  <2>3. CASE taken' = v /\ irq_flag' = irq_flag \ seen
             /\ irqPartnerList' = Cleared(seen) /\ UNCHANGED crashed
    BY <1>8, <2>2, <2>3 DEF GetNewPc, Cleared, sources, TypeOK, FlaggedIsQueued
  <2>4. CASE stale # {} /\ irq_flag' = irq_flag \ {Least(stale)}
             /\ irqPartnerList' = irqPartnerList \ {Least(stale)}
             /\ crashed' = TRUE /\ UNCHANGED taken
    BY <1>8, <2>4 DEF GetNewPc, sources, TypeOK, FlaggedIsQueued
  <2> QED
    BY <1>8, <2>3, <2>4 DEF GetNewPc
<1>9. CASE UNCHANGED vars
  BY <1>9 DEF vars, TypeOK, FlaggedIsQueued
<1> QED
  BY <1>1, <1>2, <1>3, <1>4, <1>5, <1>6, <1>7, <1>8, <1>9 DEF Next

(* Registers, modes and the queue only ever hold lines of this handler. *)
THEOREM TypeCorrect == Spec => []TypeOK
<1>1. Inv => TypeOK
  BY DEF Inv
<1> QED
  BY InitInv, NextInv, <1>1, PTL DEF Spec

(* No flagged and enabled line is ever missing from the queue of pending   *)
(* interrupts: ExternalIRQHandler never loses an edge.                     *)
THEOREM NoEventLost == Spec => []FlaggedIsQueued
<1>1. Inv => FlaggedIsQueued
  BY DEF Inv
<1> QED
  BY InitInv, NextInv, <1>1, PTL DEF Spec

(* Taking a level interrupt does not consume it: a queued line that keeps  *)
(* asking keeps its place in the queue.                                    *)
THEOREM LevelNotConsumed == Spec => LevelStaysQueued
<1>1. Inv /\ [Next]_vars =>
        [\A l \in irqPartnerList :
           LevelInterruptPending(l) /\ LevelInterruptPending(l)'
             => l \in irqPartnerList']_vars
  <2> SUFFICES ASSUME Inv, Next,
                      NEW l \in irqPartnerList, LevelInterruptPending(l)
               PROVE  l \in irqPartnerList'
    BY DEF vars
  <2>1. ASSUME GetNewPc PROVE l \in irqPartnerList'
    <3> DEFINE ready == {x \in irqPartnerList : Servable(x)}
               v == IF ready = {} THEN 0 ELSE Least(ready)
               seen == {x \in irqPartnerList : v = 0 \/ x <= v}
               stale == seen \ ready
    <3>1. l \in ready
      BY DEF Servable
    <3>2. CASE irqPartnerList' = Cleared(seen)
      BY <3>2 DEF Cleared
    <3>3. CASE stale # {} /\ irqPartnerList' = irqPartnerList \ {Least(stale)}
      <4>1. stale \subseteq Nat
        BY LinesAssumption DEF Inv, TypeOK, Lines
      <4>2. Least(stale) \in stale
        BY <3>3, <4>1, LeastIsMember
      <4> QED
        BY <3>1, <3>3, <4>2
    <3> QED
      BY <2>1, <3>2, <3>3 DEF GetNewPc
  <2>2. ASSUME ~GetNewPc PROVE irqPartnerList \subseteq irqPartnerList'
    BY <2>2 DEF Next, SinglePinChanged, PortPinChanged, WriteMask, WriteFlag,
                ChangeMode, ChangePinMask, Reset, fireInterrupt
  <2> QED
    BY <2>1, <2>2
<1> QED
  BY InitInv, NextInv, <1>1, PTL DEF Spec, LevelStaysQueued

(* The flag of an edge goes away only when its vector is taken, by a write *)
(* of the program or by a reset: the scan of GetNewPc, which clears what   *)
(* it passes over, passes over level lines alone.                          *)
THEOREM EdgeNotForgotten == Spec => EventNotForgotten
<1>1. Inv /\ [Next]_vars =>
        [\A l \in irq_flag \ irq_flag' :
           \/ taken' = l
           \/ \E nv \in SUBSET Lines : l \in nv /\ WriteFlag(nv)
           \/ Reset
           \/ IsLevelInterrupt(l)]_vars
  <2> SUFFICES ASSUME Inv, Next, NEW l \in irq_flag, l \notin irq_flag'
               PROVE  \/ taken' = l
                      \/ \E nv \in SUBSET Lines : l \in nv /\ WriteFlag(nv)
                      \/ Reset
                      \/ IsLevelInterrupt(l)
    BY DEF vars
  <2>1. ASSUME GetNewPc PROVE taken' = l \/ IsLevelInterrupt(l)
    <3> DEFINE ready == {x \in irqPartnerList : Servable(x)}
               v == IF ready = {} THEN 0 ELSE Least(ready)
               seen == {x \in irqPartnerList : v = 0 \/ x <= v}
               stale == seen \ ready
    <3>1. irqPartnerList \subseteq Nat
      BY LinesAssumption DEF Inv, TypeOK, Lines
    <3>2. ASSUME l \in stale PROVE IsLevelInterrupt(l)
      BY <3>2 DEF Servable
    <3>3. CASE taken' = v /\ irq_flag' = irq_flag \ seen
      <4>1. l \in seen
        BY <3>3
      <4>2. ASSUME l \in ready PROVE l = v
        <5>1. v = Least(ready) /\ v \in ready /\ v <= l
          BY <3>1, <4>2, LeastIsMember
        <5>2. v \in Nat /\ l \in Nat /\ v # 0
          BY <3>1, <5>1, LinesAssumption DEF Inv, TypeOK, Lines
        <5> QED
          BY <4>1, <5>1, <5>2
      <4> HIDE DEF ready, v, seen
      <4> QED
        BY <3>2, <3>3, <4>1, <4>2
    <3>4. CASE stale # {} /\ irq_flag' = irq_flag \ {Least(stale)}
      <4>1. stale \subseteq Nat
        BY <3>1
      <4>2. Least(stale) \in stale
        BY <3>4, <4>1, LeastIsMember
      <4> HIDE DEF stale
      <4> QED
        BY <3>2, <3>4, <4>2
    <3> QED
      BY <2>1, <3>3, <3>4 DEF GetNewPc
  <2>2. ASSUME NEW nv \in SUBSET Lines, WriteFlag(nv) PROVE l \in nv
    BY <2>2 DEF WriteFlag
  <2>3. ASSUME NEW nv \in SUBSET Lines, WriteMask(nv) PROVE FALSE
    BY <2>3 DEF WriteMask
  <2>4. ASSUME NEW k \in Singles, NEW b \in BOOLEAN, SinglePinChanged(k, b) PROVE FALSE
    BY <2>4 DEF SinglePinChanged, fireInterrupt
  <2>5. ASSUME NEW p \in Ports, NEW pin \in PortPins, PortPinChanged(p, pin) PROVE FALSE
    BY <2>5 DEF PortPinChanged, fireInterrupt
  <2>6. ASSUME NEW k \in Singles, NEW x \in 0 .. 3, ChangeMode(k, x) PROVE FALSE
    BY <2>6 DEF ChangeMode, handler
  <2>7. ASSUME NEW p \in Ports, NEW pins \in SUBSET PortPins, ChangePinMask(p, pins) PROVE FALSE
    BY <2>7 DEF ChangePinMask, handler
  <2> QED
    BY <2>1, <2>2, <2>3, <2>4, <2>5, <2>6, <2>7 DEF Next
<1> QED
  BY InitInv, NextInv, <1>1, PTL DEF Spec, EventNotForgotten
=============================================================================
