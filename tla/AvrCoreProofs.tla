--------------------------- MODULE AvrCoreProofs ---------------------------
(***************************************************************************)
(* Proofs about the core of a device.                                      *)
(*                                                                         *)
(* AvrCore, for any vectors, any stack size and any program: type          *)
(* correctness, that no acknowledged interrupt is dropped, that code runs  *)
(* on after a handler that left interrupts disabled, and that the end of   *)
(* every handler of a well behaved program will be noticed.                *)
(*                                                                         *)
(* Alu, for all operands: the flag formulas of decoder.cpp, which look at  *)
(* single bits of the operands and of the result, are carry, borrow, half  *)
(* carry, zero and sign of the sum or difference without wrapping, for all *)
(* bytes; and the flags of a chain of two instructions are those of the    *)
(* operation on words.                                                     *)
(***************************************************************************)
EXTENDS AvrCore, Alu, WellFoundedInduction, TLAPS

(* The stack pointer is reduced modulo stackCeil after every move. *)
LEMMA Wrap ==
  ASSUME NEW a \in Int
  PROVE  a % StackCeil \in 0 .. StackCeil - 1
  BY CoreAssumption

LEMMA Appended ==
  ASSUME NEW S, NEW s \in Seq(S), NEW e \in S
  PROVE  Append(s, e) \in Seq(S)
  OBVIOUS

LEMMA EmptyIsShort ==
  ASSUME NEW S, NEW s \in Seq(S)
  PROVE  s = <<>> <=> Len(s) = 0
  OBVIOUS

(* The first entry of a queue that is not empty is one of its entries.  *)
LEMMA FirstIsQueued ==
  ASSUME irqPartnerList \subseteq Vectors, irqPartnerList # {}
  PROVE  First \in irqPartnerList
<1> DEFINE R == OpToRel(<, Nat)
<1>1. irqPartnerList \subseteq Nat
  BY CoreAssumption
<1>2. PICK x \in irqPartnerList : \A y \in irqPartnerList : <<y, x>> \notin R
  <2> HIDE DEF R
  <2>1. IsWellFoundedOn(R, Nat)
    BY NatLessThanWellFounded DEF R
  <2> QED
    BY <1>1, <2>1, WFMin
<1>3. ASSUME NEW y \in irqPartnerList PROVE x <= y
  <2>1. x \in Nat /\ y \in Nat
    BY <1>1
  <2>2. y < x => <<y, x>> \in R
    BY <2>1, <<y, x>>[1] = y, <<y, x>>[2] = x, <<y, x>> \in Nat \X Nat DEF OpToRel
  <2>3. ~(y < x)
    <3> HIDE DEF R
    <3> QED
      BY <1>2, <2>2
  <2> QED
    BY <2>1, <2>3
<1> QED
  BY <1>3 DEF First

(* The types that the walks of the stack pointer keep. *)
StackTypeOK ==
  /\ sp \in 0 .. StackCeil - 1
  /\ returnPoints \subseteq (0 .. StackCeil - 1) \X Vectors
  /\ irqTrace \subseteq Vectors

LEMMA CheckKeepsTypes ==
  ASSUME NEW walk, NEW points, points \subseteq (0 .. StackCeil - 1) \X Vectors,
         NEW running, running \subseteq Vectors,
         CheckReturnPoints(walk, points, running)
  PROVE  /\ returnPoints' \subseteq (0 .. StackCeil - 1) \X Vectors
         /\ irqTrace' \subseteq Vectors
  BY DEF CheckReturnPoints

(* Every instruction leaves the stack well typed. *)
LEMMA ExecuteStack ==
  ASSUME StackTypeOK, NEW op \in Ops, Execute(op)
  PROVE  StackTypeOK'
<1>1. sp \in Int
  BY CoreAssumption DEF StackTypeOK
<1>2. ASSUME NEW n \in 1 .. 2, Push(n) PROVE StackTypeOK'
  <2>1. sp' \in 0 .. StackCeil - 1
    BY <1>1, <1>2, Wrap DEF Push
  <2> QED
    BY <1>2, <2>1, CheckKeepsTypes DEF Push, StackTypeOK
<1>3. ASSUME NEW n \in 1 .. 2, Pop(n) PROVE StackTypeOK'
  <2>1. sp' \in 0 .. StackCeil - 1
    BY <1>1, <1>3, Wrap DEF Pop
  <2> QED
    BY <1>3, <2>1, CheckKeepsTypes DEF Pop, StackTypeOK
<1>4. ASSUME NEW s \in 0 .. StackCeil - 1, SetStackPointer(s) PROVE StackTypeOK'
  BY <1>4, CheckKeepsTypes DEF SetStackPointer, StackTypeOK
<1>5. CASE op = "push"
  BY <1>2, <1>5 DEF Execute
<1>6. CASE op = "pop"
  BY <1>3, <1>6 DEF Execute
<1>7. CASE op = "call"
  BY <1>2, <1>7 DEF Execute, AddrBytes
<1>8. CASE op \in {"ret", "reti"}
  BY <1>3, <1>8 DEF Execute, AddrBytes
<1>9. CASE op = "setSP"
  <2>1. CASE WellBehaved
    BY <1>4, <1>9, <2>1, CoreAssumption DEF Execute
  <2>2. CASE ~WellBehaved
    BY <1>4, <1>9, <2>2 DEF Execute
  <2> QED
    BY <2>1, <2>2
<1>10. CASE op \in {"nop", "sei", "cli", "outSreg0", "stSreg0", "break"}
  BY <1>10 DEF Execute, stack, StackTypeOK
<1> QED
  BY <1>5, <1>6, <1>7, <1>8, <1>9, <1>10 DEF Ops

(* The inductive invariant.  A deferral always has a vector, and a RETI    *)
(* executed with I clear leaves none behind: with that, the two properties *)
(* of the deferral follow from the guards of StepInstruction and           *)
(* StepEnterIrq.                                                           *)
Inv ==
  /\ TypeOK
  /\ AcknowledgedIsDeferred
  /\ deferIrq => newIrqPc # NoVector
  /\ fresh => ~deferIrq

LEMMA InitInv == Init => Inv
<1> SUFFICES ASSUME Init PROVE Inv
  OBVIOUS
<1>1. /\ iflag \in BOOLEAN /\ deferIrq \in BOOLEAN /\ stopped \in BOOLEAN
      /\ fresh \in BOOLEAN /\ booting \in BOOLEAN
  BY DEF Init
<1>2. frames \in Seq([vec : Vectors, sp : 0 .. StackCeil - 1])
  BY DEF Init
<1>3. /\ cpuCycles \in -2 .. 3
      /\ sp \in 0 .. StackCeil - 1
  BY CoreAssumption DEF Init
<1>4. /\ newIrqPc \in Vectors \cup {NoVector}
      /\ irqPartnerList \subseteq Vectors
      /\ returnPoints \subseteq (0 .. StackCeil - 1) \X Vectors
      /\ irqTrace \subseteq Vectors
      /\ owed \subseteq Vectors
  BY DEF Init
<1>5. AcknowledgedIsDeferred /\ ~deferIrq
  BY DEF Init, AcknowledgedIsDeferred
<1> QED
  BY <1>1, <1>2, <1>3, <1>4, <1>5 DEF Inv, TypeOK

LEMMA InstructionKeepsInv ==
  ASSUME Inv, NEW op \in Ops, NEW c \in 1 .. 4, StepInstruction(op, c)
  PROVE  Inv'
<1> USE DEF Inv
<1>1. deferIrq = FALSE /\ owed = {}
  BY DEF StepInstruction, Deferred, AcknowledgedIsDeferred, TypeOK
<1>2. StackTypeOK'
  BY ExecuteStack DEF StepInstruction, TypeOK, StackTypeOK
<1>3. cpuCycles' \in -2 .. 3
  BY DEF StepInstruction, CyclesLeft
<1>4. iflag' \in BOOLEAN /\ fresh' \in BOOLEAN /\ booting' \in BOOLEAN
  BY DEF StepInstruction, Execute, TypeOK
<1>5. frames' \in Seq([vec : Vectors, sp : 0 .. StackCeil - 1])
  BY DEF StepInstruction, Execute, TypeOK
<1>6. /\ irqPartnerList' \subseteq Vectors
      /\ newIrqPc' \in Vectors \cup {NoVector}
      /\ deferIrq' \in BOOLEAN
      /\ owed' \subseteq Vectors
      /\ AcknowledgedIsDeferred'
      /\ deferIrq' => newIrqPc' # NoVector
      /\ deferIrq' => iflag
  <2>1. PrepareIrq(op)
    BY DEF StepInstruction
  <2>2. CASE ~iflag \/ opIsCli(op)
    BY <1>1, <2>1, <2>2 DEF PrepareIrq, TypeOK, AcknowledgedIsDeferred
  <2>3. CASE ~(~iflag \/ opIsCli(op)) /\ irqPartnerList = {}
    BY <1>1, <2>1, <2>3 DEF PrepareIrq, TypeOK, AcknowledgedIsDeferred
  <2>4. CASE ~(~iflag \/ opIsCli(op)) /\ irqPartnerList # {}
    <3>1. First \in Vectors /\ First # NoVector
      BY <2>4, FirstIsQueued, CoreAssumption DEF TypeOK, NoVector
    <3>2. /\ newIrqPc' = First /\ deferIrq' = TRUE
          /\ irqPartnerList' = irqPartnerList \ ({First} \ Sticky)
          /\ owed' = {First}
      BY <1>1, <2>1, <2>4 DEF PrepareIrq
    <3> QED
      BY <2>4, <3>1, <3>2 DEF TypeOK, AcknowledgedIsDeferred, Deferred
  <2> QED
    BY <2>2, <2>3, <2>4
<1>7. fresh' => ~deferIrq'
  BY <1>6 DEF StepInstruction, Execute
<1>8. stopped' \in BOOLEAN
  BY DEF StepInstruction, TypeOK
<1> QED
  BY <1>2, <1>3, <1>4, <1>5, <1>6, <1>7, <1>8 DEF TypeOK, StackTypeOK

LEMMA EnterIrqKeepsInv ==
  ASSUME Inv, StepEnterIrq
  PROVE  Inv'
<1> USE DEF Inv
<1>1. newIrqPc \in Vectors
  BY DEF StepEnterIrq, Deferred, TypeOK
<1>2. sp' \in 0 .. StackCeil - 1
  <2>1. sp \in Int
    BY CoreAssumption DEF TypeOK
  <2>2. sp - AddrBytes \in Int
    BY <2>1 DEF AddrBytes
  <2>3. sp' = (sp - AddrBytes) % StackCeil
    BY DEF StepEnterIrq
  <2> QED
    BY ONLY <2>2, <2>3, Wrap
<1>3. /\ returnPoints' \subseteq (0 .. StackCeil - 1) \X Vectors
      /\ irqTrace' \subseteq Vectors
  <2>1. returnPoints \cup {ReturnPoint} \subseteq (0 .. StackCeil - 1) \X Vectors
    BY <1>1 DEF TypeOK, ReturnPoint
  <2>2. irqTrace \cup {newIrqPc} \subseteq Vectors
    BY <1>1 DEF TypeOK
  <2> QED
    BY <2>1, <2>2, CheckKeepsTypes DEF StepEnterIrq
<1>4. frames' \in Seq([vec : Vectors, sp : 0 .. StackCeil - 1])
  <2>1. [vec |-> newIrqPc, sp |-> sp] \in [vec : Vectors, sp : 0 .. StackCeil - 1]
    BY <1>1 DEF TypeOK
  <2>2. frames \in Seq([vec : Vectors, sp : 0 .. StackCeil - 1])
    BY DEF TypeOK
  <2>3. frames' = frames \/ frames' = Append(frames, [vec |-> newIrqPc, sp |-> sp])
    BY DEF StepEnterIrq
  <2>4. Append(frames, [vec |-> newIrqPc, sp |-> sp])
           \in Seq([vec : Vectors, sp : 0 .. StackCeil - 1])
    BY ONLY <2>1, <2>2, Appended
  <2> QED
    BY ONLY <2>2, <2>3, <2>4
<1>5. owed' = {} /\ deferIrq' = FALSE
  BY DEF StepEnterIrq, AcknowledgedIsDeferred
<1>6. cpuCycles' \in -2 .. 3
  BY DEF StepEnterIrq
<1> QED
  BY <1>1, <1>2, <1>3, <1>4, <1>5, <1>6 DEF StepEnterIrq, TypeOK, AcknowledgedIsDeferred

LEMMA NextInv == Inv /\ [Next]_vars => Inv'
<1> SUFFICES ASSUME Inv, [Next]_vars PROVE Inv'
  OBVIOUS
<1> USE DEF Inv
<1>1. ASSUME NEW op \in Ops, NEW c \in 1 .. 4, StepInstruction(op, c)
      PROVE  Inv'
  BY <1>1, InstructionKeepsInv
<1>2. ASSUME StepEnterIrq PROVE Inv'
  BY <1>2, EnterIrqKeepsInv
<1>3. ASSUME StepWait PROVE Inv'
  BY <1>3 DEF StepWait, Clock, stack, history, TypeOK, AcknowledgedIsDeferred, Deferred
<1>4. ASSUME StepExit PROVE Inv'
  BY <1>4 DEF StepExit, device, stack, history, TypeOK, AcknowledgedIsDeferred, Deferred
<1>5. ASSUME Reset PROVE Inv'
  <2>1. iflag' \in BOOLEAN /\ fresh' \in BOOLEAN /\ booting' \in BOOLEAN
    BY <1>5 DEF Reset
  <2>2. frames' \in Seq([vec : Vectors, sp : 0 .. StackCeil - 1])
    BY <1>5 DEF Reset
  <2>3. cpuCycles' \in -2 .. 3
    BY <1>5 DEF Reset
  <2>4. owed' = {} /\ fresh' = FALSE
    BY <1>5 DEF Reset
  <2>5. UNCHANGED <<deferIrq, newIrqPc, irqPartnerList, sp, returnPoints, irqTrace, stopped>>
    BY <1>5 DEF Reset, stack
  <2> QED
    BY <2>1, <2>2, <2>3, <2>4, <2>5 DEF TypeOK, AcknowledgedIsDeferred
<1>6. ASSUME NEW v \in Vectors, SetIrqFlag(v) PROVE Inv'
  BY <1>6 DEF SetIrqFlag, device, stack, history, TypeOK, AcknowledgedIsDeferred, Deferred
<1>7. ASSUME NEW v \in Vectors, ClearIrqFlag(v) PROVE Inv'
  BY <1>7 DEF ClearIrqFlag, device, stack, history, TypeOK, AcknowledgedIsDeferred, Deferred
<1>8. CASE UNCHANGED vars
  BY <1>8 DEF vars, device, stack, history, TypeOK, AcknowledgedIsDeferred, Deferred
<1> QED
  BY <1>1, <1>2, <1>3, <1>4, <1>5, <1>6, <1>7, <1>8 DEF Next, Step

(* The core's state stays in its types; in particular the stack pointer    *)
(* stays below stackCeil whatever the program pushes and pops.             *)
THEOREM TypeCorrect == Spec => []TypeOK
<1>1. Inv => TypeOK
  BY DEF Inv
<1> QED
  BY InitInv, NextInv, <1>1, PTL DEF Spec

(* An interrupt that was acknowledged to its hardware is entered or still  *)
(* deferred: Step never drops or overwrites one.                           *)
THEOREM NothingDropped == Spec => []AcknowledgedIsDeferred
<1>1. Inv => AcknowledgedIsDeferred
  BY DEF Inv
<1> QED
  BY InitInv, NextInv, <1>1, PTL DEF Spec

(* Step, for any program: after a RETI with I clear before it an           *)
(* instruction of the code returned to runs before the next handler is     *)
(* entered.  A handler that enabled interrupts gives no such promise.      *)
THEOREM Progress == Spec => []ProgressAfterReti
<1>1. Inv => ProgressAfterReti
  BY DEF Inv, ProgressAfterReti, Deferred
<1> QED
  BY InitInv, NextInv, <1>1, PTL DEF Spec
-----------------------------------------------------------------------------
(* The bytes that n nested handlers take, and where the stack of the       *)
(* running program starts: at InitSP or, after a reset, where it was.      *)
Depth(n) == n * (AddrBytes + MaxPush)
Floor == IF booting THEN InitSP - Depth(MaxNesting) - MaxPush ELSE InitSP

(* Where the code started that the handler of a frame interrupted. *)
BaseOf(k) == IF k = 0 THEN InitSP ELSE frames[k].sp - AddrBytes

(* Each handler was entered within the part of the stack of the code that  *)
(* it interrupted; the first one, after a reset, anywhere above the floor. *)
Within ==
  \A k \in DOMAIN frames :
    IF booting /\ k = 1 THEN Floor <= frames[k].sp
    ELSE BaseOf(k - 1) - MaxPush <= frames[k].sp /\ frames[k].sp <= BaseOf(k - 1)

(* Handlers nest within bounds, each below the ones it interrupted. *)
Nested ==
  /\ Len(frames) <= MaxNesting
  /\ iflag \/ deferIrq => Len(frames) < MaxNesting
  /\ \A k \in DOMAIN frames : Floor - Depth(k) <= frames[k].sp - AddrBytes
  /\ \A j, k \in DOMAIN frames : j < k => frames[k].sp < frames[j].sp

(* The code that runs keeps to its own part of the stack. *)
Balanced ==
  IF booting /\ frames = <<>> THEN Floor <= sp ELSE Base - MaxPush <= sp /\ sp <= Base

(* With these the return points of the running handlers stay armed. *)
StackInv ==
  /\ ~WellBehaved => frames = <<>>
  /\ WellBehaved => Nested /\ Within /\ Balanced
  /\ ActiveHandlerArmed

Frames == [vec : Vectors, sp : 0 .. StackCeil - 1]

LEMMA Depths ==
  /\ Depth(0) = 0
  /\ \A n \in Nat : Depth(n) \in Nat /\ Depth(n + 1) = Depth(n) + AddrBytes + MaxPush
  /\ \A j, n \in Nat : j <= n => Depth(j) <= Depth(n)
<1>1. AddrBytes + MaxPush \in Nat
  BY CoreAssumption DEF AddrBytes
<1>2. \A a, j, n \in Nat : j <= n => j * a <= n * a
  OBVIOUS
<1>3. \A a, n \in Nat : n * a \in Nat /\ (n + 1) * a = n * a + a /\ 0 * a = 0
  OBVIOUS
<1> QED
  BY <1>1, <1>2, <1>3, CoreAssumption DEF Depth, AddrBytes

(* Within its part of the stack the code runs below the stack pointers of  *)
(* all handlers, and its stack does not wrap around.                       *)
LEMMA BaseFits ==
  ASSUME TypeOK, WellBehaved, Nested, ~(booting /\ frames = <<>>)
  PROVE  /\ Base \in Int /\ Base <= StackCeil - 1
         /\ Floor - Depth(Len(frames)) <= Base
         /\ 0 <= Base - MaxPush
         /\ \A k \in DOMAIN frames : Base + 1 < frames[k].sp
<1>1. /\ InitSP \in Nat /\ StackCeil \in Nat /\ InitSP <= StackCeil - 1
      /\ MaxPush \in Nat /\ MaxNesting \in Nat /\ Depth(MaxNesting) \in Nat
  <2>1. /\ InitSP \in Nat /\ StackCeil \in Nat /\ InitSP <= StackCeil - 1
        /\ MaxPush \in Nat /\ MaxNesting \in Nat
    BY CoreAssumption
  <2> QED
    BY <2>1, Depths
<1>2. InitSP >= 2 * (Depth(MaxNesting) + MaxPush)
  BY RoomAssumption DEF Depth
<1>3. frames \in Seq(Frames) /\ Len(frames) \in Nat
  BY DEF TypeOK, Frames
<1>4. Depth(Len(frames)) <= Depth(MaxNesting) /\ Depth(Len(frames)) \in Nat
  BY <1>1, <1>3, Depths DEF Nested
<1> HIDE DEF Depth
<1>5. Floor \in Int /\ Floor >= InitSP - Depth(MaxNesting) - MaxPush
  BY <1>1 DEF Floor
<1>6. CASE frames = <<>>
  <2>1. Base = InitSP /\ Floor = InitSP
    BY <1>6 DEF Base, Floor
  <2> QED
    BY <1>1, <1>2, <1>4, <1>6, <2>1
<1>7. CASE frames # <<>>
  <2> DEFINE n == Len(frames)
  <2>1. n \in DOMAIN frames /\ \A k \in DOMAIN frames : k \in Nat /\ k <= n
    BY <1>3, <1>7
  <2>2. Base = frames[n].sp - AddrBytes
    BY <1>7 DEF Base
  <2>3. \A k \in DOMAIN frames : frames[k].sp \in Nat /\ frames[k].sp <= StackCeil - 1
    <3>1. \A k \in DOMAIN frames : frames[k] \in Frames
      BY <1>3
    <3> QED
      BY <1>1, <3>1 DEF Frames
  <2>4. Floor - Depth(n) <= Base
    BY <2>1, <2>2 DEF Nested
  <2>5. ASSUME NEW k \in DOMAIN frames PROVE frames[n].sp <= frames[k].sp
    BY <2>1, <2>3 DEF Nested
  <2> HIDE DEF n
  <2>6. Base \in Int /\ Base <= StackCeil - 1 /\ \A k \in DOMAIN frames : Base + 1 < frames[k].sp
    BY <1>1, <2>1, <2>2, <2>3, <2>5 DEF AddrBytes
  <2>7. 0 <= Base - MaxPush
    BY <1>1, <1>2, <1>4, <1>5, <2>4, <2>6 DEF n
  <2> QED
    BY <2>4, <2>6, <2>7 DEF n
<1> QED
  BY <1>6, <1>7

(* A walk does not disarm the points that it does not touch. *)
LEMMA StayArmed ==
  ASSUME NEW walk, NEW points, NEW running, CheckReturnPoints(walk, points, running),
         NEW a, NEW v, <<a, v>> \in points, a \notin walk
  PROVE  <<a, v>> \in returnPoints'
  BY <<a, v>>[1] = a DEF CheckReturnPoints

LEMMA NoWrap ==
  ASSUME NEW a \in 0 .. StackCeil - 1
  PROVE  a % StackCeil = a
  BY CoreAssumption

LEMMA StackInit == Init => StackInv
<1> SUFFICES ASSUME Init PROVE StackInv
  OBVIOUS
<1>1. frames = <<>> /\ booting /\ ~iflag /\ ~deferIrq /\ sp = InitSP
  BY DEF Init
<1>2. Nested /\ Within /\ ActiveHandlerArmed
  BY <1>1, CoreAssumption DEF Nested, Within, ActiveHandlerArmed
<1>3. InitSP \in Nat /\ MaxPush \in Nat /\ Depth(MaxNesting) \in Nat
  BY CoreAssumption, Depths
<1>4. Balanced
  BY <1>1, <1>3 DEF Balanced, Floor
<1> QED
  BY <1>1, <1>2, <1>4 DEF StackInv

(* A walk of n bytes that fits in the stack passes n places. *)
LEMMA DownWalk ==
  ASSUME TypeOK, NEW n \in 1 .. 2, 0 <= sp - n
  PROVE  /\ (sp - n) % StackCeil = sp - n
         /\ Down(n) \subseteq Int
         /\ \A a \in Down(n) : a <= sp - 1
<1>1. sp \in Nat /\ StackCeil \in Nat /\ sp <= StackCeil - 1
  BY CoreAssumption DEF TypeOK
<1>2. ASSUME NEW k \in 1 .. n PROVE (sp - k) % StackCeil = sp - k
  <2>1. sp - k \in 0 .. StackCeil - 1
    BY <1>1
  <2> QED
    BY <2>1, NoWrap
<1>3. ASSUME NEW a \in Down(n) PROVE a \in Int /\ a <= sp - 1
  <2>1. PICK k \in 1 .. n : a = (sp - k) % StackCeil
    BY DEF Down
  <2> QED
    BY <1>1, <1>2, <2>1
<1> QED
  BY <1>2, <1>3

LEMMA UpWalk ==
  ASSUME TypeOK, NEW n \in 1 .. 2, sp + n <= StackCeil - 1
  PROVE  /\ (sp + n) % StackCeil = sp + n
         /\ Up(n) \subseteq Int
         /\ \A a \in Up(n) : a <= sp + n
<1>1. sp \in Nat /\ StackCeil \in Nat
  BY CoreAssumption DEF TypeOK
<1>2. ASSUME NEW k \in 1 .. n PROVE (sp + k) % StackCeil = sp + k
  <2>1. sp + k \in 0 .. StackCeil - 1
    BY <1>1
  <2> QED
    BY <2>1, NoWrap
<1>3. ASSUME NEW a \in Up(n) PROVE a \in Int /\ a <= sp + n
  <2>1. PICK k \in 1 .. n : a = (sp + k) % StackCeil
    BY DEF Up
  <2> QED
    BY <1>1, <1>2, <2>1
<1> QED
  BY <1>2, <1>3

(* Pushes and pops of the running code. *)
LEMMA CodeKeepsStack ==
  ASSUME TypeOK, WellBehaved, StackInv, ~(booting /\ frames = <<>>),
         NEW n \in 1 .. 2,
         \/ Push(n) /\ Base - MaxPush <= sp - n
         \/ Pop(n) /\ sp + n <= Base,
         frames' = frames, booting' = booting
  PROVE  Balanced' /\ ActiveHandlerArmed'
<1>1. Nested /\ Balanced /\ ActiveHandlerArmed
  BY DEF StackInv
<1>2. /\ Base \in Int /\ Base <= StackCeil - 1 /\ 0 <= Base - MaxPush
      /\ \A k \in DOMAIN frames : Base + 1 < frames[k].sp
  BY <1>1, BaseFits
<1>3. sp \in Nat /\ Base - MaxPush <= sp /\ sp <= Base /\ MaxPush \in Nat /\ StackCeil \in Nat
  BY <1>1, CoreAssumption DEF TypeOK, Balanced
<1>4. Base' = Base
  BY DEF Base
<1>5. ASSUME NEW walk, CheckReturnPoints(walk, returnPoints, irqTrace),
             Base - MaxPush <= sp', sp' <= Base, walk \subseteq Int, \A a \in walk : a <= Base
      PROVE  Balanced' /\ ActiveHandlerArmed'
  <2>1. Balanced'
    BY <1>4, <1>5 DEF Balanced
  <2>2. ASSUME NEW k \in DOMAIN frames PROVE <<frames[k].sp, frames[k].vec>> \in returnPoints'
    <3>1. ASSUME frames[k].sp \in walk PROVE FALSE
      <4>1. PICK a \in Int : a = frames[k].sp
        BY <1>5, <3>1
      <4>2. a <= Base /\ Base + 1 < a /\ Base \in Int
        BY <1>2, <1>5, <3>1, <4>1
      <4> QED
        BY <4>2
    <3>2. <<frames[k].sp, frames[k].vec>> \in returnPoints
      BY <1>1 DEF ActiveHandlerArmed
    <3>3. PICK a, v : a = frames[k].sp /\ v = frames[k].vec
      OBVIOUS
    <3>4. <<a, v>> \in returnPoints'
      BY <1>5, <3>1, <3>2, <3>3, StayArmed
    <3> QED
      BY <3>3, <3>4
  <2> QED
    BY <2>1, <2>2 DEF ActiveHandlerArmed
<1> HIDE DEF Base
<1>6. CASE Push(n) /\ Base - MaxPush <= sp - n
  <2>1. 0 <= sp - n
    BY <1>2, <1>3, <1>6
  <2>2. sp' = sp - n /\ Down(n) \subseteq Int /\ \A a \in Down(n) : a <= sp - 1
    BY <1>6, <2>1, DownWalk DEF Push
  <2>3. \A a \in Down(n) : a <= Base
    BY <1>2, <1>3, <2>2
  <2>4. Base - MaxPush <= sp' /\ sp' <= Base
    BY <1>2, <1>3, <1>6, <2>2
  <2>5. CheckReturnPoints(Down(n), returnPoints, irqTrace)
    BY <1>6 DEF Push
  <2> QED
    BY <1>5, <2>2, <2>3, <2>4, <2>5
<1>7. CASE Pop(n) /\ sp + n <= Base
  <2>1. sp + n <= StackCeil - 1
    BY <1>2, <1>3, <1>7
  <2>2. sp' = sp + n /\ Up(n) \subseteq Int /\ \A a \in Up(n) : a <= sp + n
    BY <1>7, <2>1, UpWalk DEF Pop
  <2>3. \A a \in Up(n) : a <= Base
    BY <1>2, <1>3, <1>7, <2>2
  <2>4. Base - MaxPush <= sp' /\ sp' <= Base
    BY <1>2, <1>3, <1>7, <2>2
  <2>5. CheckReturnPoints(Up(n), returnPoints, irqTrace)
    BY <1>7 DEF Pop
  <2> QED
    BY <1>5, <2>2, <2>3, <2>4, <2>5
<1> QED
  BY <1>6, <1>7

(* The frames keep their numbers when one is added or dropped at the end. *)
FramesOrdered ==
  /\ \A k \in DOMAIN frames : Floor - Depth(k) <= frames[k].sp - AddrBytes
  /\ \A j, k \in DOMAIN frames : j < k => frames[k].sp < frames[j].sp

(* RETI: the walk up disarms the handler that ends, and none above it. *)
LEMMA ReturnKeepsStack ==
  ASSUME TypeOK, WellBehaved, StackInv, frames # <<>>, sp = Base, Pop(AddrBytes),
         frames' = SubSeq(frames, 1, Len(frames) - 1), booting' = booting
  PROVE  FramesOrdered' /\ Within' /\ Balanced' /\ ActiveHandlerArmed'
<1>1. Nested /\ Within /\ ActiveHandlerArmed
  BY DEF StackInv
<1>2. PICK n : n = Len(frames)
  OBVIOUS
<1>3. frames \in Seq(Frames) /\ n \in Nat \ {0} /\ DOMAIN frames = 1 .. n
  BY <1>2 DEF TypeOK, Frames
<1>4. /\ DOMAIN frames' = 1 .. n - 1 /\ Len(frames') = n - 1
      /\ \A k \in 1 .. n - 1 : frames'[k] = frames[k]
  BY <1>2, <1>3
<1>5. \A k \in 1 .. n : frames[k].sp \in 0 .. StackCeil - 1
  <2>1. \A k \in 1 .. n : frames[k] \in Frames
    BY <1>3
  <2> QED
    BY <2>1 DEF Frames
<1>6. sp + 2 = frames[n].sp /\ sp \in Nat /\ StackCeil \in Nat
  <2>1. Base = frames[n].sp - 2
    BY <1>2 DEF Base, AddrBytes
  <2>2. sp \in Nat /\ StackCeil \in Nat
    BY CoreAssumption DEF TypeOK
  <2> QED
    BY <1>3, <1>5, <2>1, <2>2
<1>7. sp' = frames[n].sp /\ Up(2) \subseteq Int /\ \A a \in Up(2) : a <= frames[n].sp
  <2>1. sp + 2 <= StackCeil - 1
    BY <1>3, <1>5, <1>6
  <2> QED
    BY <1>6, <2>1, UpWalk DEF Pop, AddrBytes
<1>8. Floor' = Floor
  BY DEF Floor
<1>9. FramesOrdered'
  <2>1. ASSUME NEW k \in 1 .. n - 1 PROVE k \in 1 .. n
    BY <1>3
  <2> QED
    BY <1>1, <1>3, <1>4, <1>8, <2>1 DEF FramesOrdered, Nested
<1>10. \A k \in 0 .. n - 1 : BaseOf(k)' = BaseOf(k)
  BY <1>3, <1>4 DEF BaseOf
<1>11. Within'
  <2>1. ASSUME NEW k \in 1 .. n - 1
        PROVE  IF booting /\ k = 1 THEN Floor <= frames[k].sp
               ELSE BaseOf(k - 1) - MaxPush <= frames[k].sp /\ frames[k].sp <= BaseOf(k - 1)
    <3>1. k \in DOMAIN frames
      BY <1>3
    <3> QED
      BY <1>1, <3>1 DEF Within
  <2>2. ASSUME NEW k \in 1 .. n - 1 PROVE BaseOf(k - 1)' = BaseOf(k - 1)
    BY <1>3, <1>10
  <2> QED
    BY <1>4, <1>8, <2>1, <2>2 DEF Within
<1>12. Balanced'
  <2>1. IF booting /\ n = 1 THEN Floor <= frames[n].sp
        ELSE BaseOf(n - 1) - MaxPush <= frames[n].sp /\ frames[n].sp <= BaseOf(n - 1)
    BY <1>1, <1>3 DEF Within
  <2>2. frames' = <<>> <=> n = 1
    <3>1. frames' \in Seq(Frames)
      BY <1>2, <1>3
    <3>2. frames' = <<>> <=> Len(frames') = 0
      BY <3>1, EmptyIsShort
    <3> QED
      BY <1>3, <1>4, <3>2
  <2>3. Base' = BaseOf(n - 1)
    BY <1>3, <1>4, <2>2 DEF Base, BaseOf
  <2> QED
    BY <1>7, <1>8, <2>1, <2>2, <2>3 DEF Balanced
<1>13. ASSUME NEW k \in 1 .. n - 1 PROVE <<frames[k].sp, frames[k].vec>> \in returnPoints'
  <2>1. k \in 1 .. n /\ n \in 1 .. n /\ k < n
    BY <1>3
  <2>2. frames[n].sp < frames[k].sp
    BY <1>1, <1>3, <2>1 DEF Nested
  <2>3. PICK a, v : a = frames[k].sp /\ v = frames[k].vec
    OBVIOUS
  <2>4. a \notin Up(2)
    BY <1>5, <1>7, <2>1, <2>2, <2>3
  <2>5. <<a, v>> \in returnPoints
    BY <1>1, <1>3, <2>1, <2>3 DEF ActiveHandlerArmed
  <2>6. CheckReturnPoints(Up(2), returnPoints, irqTrace)
    BY DEF Pop, AddrBytes
  <2>7. <<a, v>> \in returnPoints'
    BY <2>4, <2>5, <2>6, StayArmed
  <2> QED
    BY <2>3, <2>7
<1> QED
  BY <1>4, <1>9, <1>11, <1>12, <1>13 DEF ActiveHandlerArmed

(* Entering a handler arms its return point above the place it walks to. *)
LEMMA EnterKeepsStack ==
  ASSUME Inv, WellBehaved, StackInv, StepEnterIrq
  PROVE  StackInv'
<1>1. TypeOK /\ Nested /\ Within /\ Balanced /\ ActiveHandlerArmed
  BY DEF StackInv, Inv
<1>2. PICK n : n = Len(frames)
  OBVIOUS
<1>3. frames \in Seq(Frames) /\ n \in Nat /\ DOMAIN frames = 1 .. n
  BY <1>1, <1>2 DEF TypeOK, Frames
<1>4. PICK f : f = [vec |-> newIrqPc, sp |-> sp]
  OBVIOUS
<1>5. f.vec = newIrqPc /\ f.sp = sp
  BY <1>4
<1>6. /\ frames' = Append(frames, f) /\ booting' = booting /\ iflag' = FALSE /\ deferIrq' = FALSE
      /\ deferIrq /\ sp' = (sp - AddrBytes) % StackCeil
      /\ CheckReturnPoints(Down(AddrBytes), returnPoints \cup {ReturnPoint}, irqTrace \cup {newIrqPc})
  BY <1>4 DEF StepEnterIrq, Deferred
<1>7. /\ DOMAIN frames' = 1 .. n + 1 /\ Len(frames') = n + 1 /\ frames'[n + 1] = f
      /\ \A k \in 1 .. n : frames'[k] = frames[k]
  BY <1>2, <1>3, <1>6
<1>8. n < MaxNesting /\ Len(frames') <= MaxNesting
  BY <1>1, <1>2, <1>3, <1>6, <1>7, CoreAssumption DEF Nested
<1>9. /\ InitSP \in Nat /\ MaxPush \in Nat /\ MaxNesting \in Nat /\ sp \in Nat
      /\ StackCeil \in Nat
  BY <1>1, CoreAssumption DEF TypeOK
<1>10. /\ Depth(n) \in Nat /\ Depth(n + 1) = Depth(n) + 2 + MaxPush /\ Depth(MaxNesting) \in Nat
       /\ Depth(n + 1) <= Depth(MaxNesting)
  <2>1. n + 1 \in Nat /\ n + 1 <= MaxNesting
    BY <1>3, <1>8, <1>9
  <2> QED
    BY <1>3, <1>9, <2>1, Depths DEF AddrBytes
<1> HIDE DEF Depth
<1>11. Floor' = Floor /\ Floor \in Int /\ Floor >= InitSP - Depth(MaxNesting) - MaxPush
  BY <1>6, <1>9, <1>10 DEF Floor
<1>12. /\ Floor - Depth(n + 1) <= sp - 2
       /\ \A k \in 1 .. n : sp < frames[k].sp
  <2>1. CASE booting /\ frames = <<>>
    <3>1. Floor <= sp /\ n = 0
      BY <1>1, <1>2, <2>1 DEF Balanced
    <3> QED
      BY <1>9, <1>10, <1>11, <3>1
  <2>2. CASE ~(booting /\ frames = <<>>)
    <3>1. /\ Base \in Int /\ Floor - Depth(n) <= Base
          /\ \A k \in 1 .. n : Base + 1 < frames[k].sp
      BY <1>1, <1>2, <1>3, <2>2, BaseFits
    <3>2. Base - MaxPush <= sp /\ sp <= Base
      BY <1>1, <2>2 DEF Balanced
    <3>3. \A k \in 1 .. n : frames[k].sp \in Int
      <4>1. \A k \in 1 .. n : frames[k] \in Frames
        BY <1>3
      <4> QED
        BY <4>1 DEF Frames
    <3> HIDE DEF Base
    <3> QED
      BY <1>9, <1>10, <1>11, <3>1, <3>2, <3>3
  <2> QED
    BY <2>1, <2>2
<1>13. 0 <= sp - 2
  <2>1. InitSP >= 2 * (Depth(MaxNesting) + MaxPush)
    BY RoomAssumption DEF Depth
  <2> QED
    BY <1>9, <1>10, <1>11, <1>12, <2>1
<1>14. sp' = sp - 2 /\ Down(2) \subseteq Int /\ \A a \in Down(2) : a <= sp - 1
  BY <1>1, <1>6, <1>13, DownWalk DEF AddrBytes
<1>15. Nested'
  <2>1. ASSUME NEW k \in 1 .. n + 1 PROVE Floor' - Depth(k) <= frames'[k].sp - AddrBytes
    <3>1. CASE k = n + 1
      BY <1>5, <1>7, <1>11, <1>12, <3>1 DEF AddrBytes
    <3>2. CASE k # n + 1
      <4>1. k \in 1 .. n
        BY <1>3, <3>2
      <4> QED
        BY <1>1, <1>3, <1>7, <1>11, <4>1 DEF Nested
    <3> QED
      BY <3>1, <3>2
  <2>2. ASSUME NEW j \in 1 .. n + 1, NEW k \in 1 .. n + 1, j < k PROVE frames'[k].sp < frames'[j].sp
    <3>1. j \in 1 .. n
      BY <1>3, <2>2
    <3>2. CASE k = n + 1
      BY <1>5, <1>7, <1>12, <3>1, <3>2
    <3>3. CASE k # n + 1
      <4>1. k \in 1 .. n
        BY <1>3, <3>3
      <4> QED
        BY <1>1, <1>3, <1>7, <2>2, <3>1, <4>1 DEF Nested
    <3> QED
      BY <3>2, <3>3
  <2>3. ~iflag' /\ ~deferIrq'
    BY <1>6
  <2> QED
    BY <1>7, <1>8, <2>1, <2>2, <2>3 DEF Nested
<1>16. \A k \in 0 .. n : BaseOf(k)' = BaseOf(k)
  BY <1>3, <1>7 DEF BaseOf
<1>17. Within'
  <2>1. ASSUME NEW k \in 1 .. n + 1
        PROVE  IF booting /\ k = 1 THEN Floor <= frames'[k].sp
               ELSE BaseOf(k - 1) - MaxPush <= frames'[k].sp /\ frames'[k].sp <= BaseOf(k - 1)
    <3>1. CASE k = n + 1
      <4>1. frames = <<>> <=> n = 0
        BY <1>2, <1>3
      <4>2. Base = BaseOf(n)
        BY <1>2, <4>1 DEF Base, BaseOf
      <4>3. k - 1 = n /\ (k = 1 <=> n = 0)
        BY <1>3, <3>1
      <4> QED
        BY <1>1, <1>5, <1>7, <3>1, <4>1, <4>2, <4>3 DEF Balanced
    <3>2. CASE k # n + 1
      <4>1. k \in 1 .. n
        BY <1>3, <3>2
      <4> QED
        BY <1>1, <1>3, <1>7, <4>1 DEF Within
    <3> QED
      BY <3>1, <3>2
  <2>2. ASSUME NEW k \in 1 .. n + 1 PROVE BaseOf(k - 1)' = BaseOf(k - 1)
    BY <1>3, <1>16
  <2> QED
    BY <1>6, <1>7, <1>11, <2>1, <2>2 DEF Within
<1>18. Balanced'
  <2>1. frames' # <<>> /\ Base' = sp - 2
    BY <1>3, <1>5, <1>7 DEF Base, AddrBytes
  <2> QED
    BY <1>9, <1>14, <2>1 DEF Balanced
<1>19. ActiveHandlerArmed'
  <2>1. ASSUME NEW a, NEW v, <<a, v>> \in returnPoints \cup {ReturnPoint}, a \in Int, sp <= a
        PROVE  <<a, v>> \in returnPoints'
    <3>1. a \notin Down(2)
      BY <1>9, <1>14, <2>1
    <3>2. CheckReturnPoints(Down(2), returnPoints \cup {ReturnPoint}, irqTrace \cup {newIrqPc})
      BY <1>6 DEF AddrBytes
    <3> QED
      BY <2>1, <3>1, <3>2, StayArmed
  <2>2. <<f.sp, f.vec>> \in returnPoints'
    <3>1. <<sp, newIrqPc>> \in returnPoints'
      BY <1>9, <2>1 DEF ReturnPoint
    <3> QED
      BY <1>5, <3>1
  <2>3. ASSUME NEW k \in 1 .. n PROVE <<frames[k].sp, frames[k].vec>> \in returnPoints'
    <3>1. PICK a, v : a = frames[k].sp /\ v = frames[k].vec
      OBVIOUS
    <3>2. <<a, v>> \in returnPoints
      BY <1>1, <1>3, <3>1 DEF ActiveHandlerArmed
    <3>3. frames[k] \in Frames
      BY <1>3
    <3>4. a \in Int /\ sp <= a
      BY <1>9, <1>12, <3>1, <3>3 DEF Frames
    <3> QED
      BY <2>1, <3>1, <3>2, <3>4
  <2>4. ASSUME NEW k \in 1 .. n + 1 PROVE <<frames'[k].sp, frames'[k].vec>> \in returnPoints'
    <3>1. k = n + 1 \/ k \in 1 .. n
      BY <1>3
    <3> QED
      BY <1>7, <2>2, <2>3, <3>1
  <2> QED
    BY <1>7, <2>4 DEF ActiveHandlerArmed
<1> QED
  BY <1>15, <1>17, <1>18, <1>19 DEF StackInv

LEMMA InstructionKeepsStack ==
  ASSUME Inv, StackInv, NEW op \in Ops, NEW c \in 1 .. 4, StepInstruction(op, c)
  PROVE  StackInv'
<1>1. TypeOK /\ ActiveHandlerArmed
  BY DEF Inv, StackInv
<1>2. PrepareIrq(op) /\ Execute(op) /\ (WellBehaved => Sensible(op))
  BY DEF StepInstruction
<1>3. CASE ~WellBehaved
  <2>1. frames' = <<>>
    BY <1>2, <1>3 DEF StackInv, Execute
  <2> QED
    BY <1>3, <2>1 DEF StackInv, ActiveHandlerArmed
<1>4. CASE WellBehaved
  <2>1. Nested /\ Within /\ Balanced /\ Sensible(op)
    BY <1>2, <1>4 DEF StackInv
  <2>2. frames \in Seq(Frames) /\ Len(frames) \in Nat /\ MaxNesting \in Nat
    BY <1>1, CoreAssumption DEF TypeOK, Frames
  <2>3. /\ frames' = IF op = "reti" THEN SubSeq(frames, 1, Len(frames) - 1) ELSE frames
        /\ op = "reti" => frames # <<>> /\ sp = Base
        /\ booting' = (booting /\ op # "setSP")
    BY <1>2, <2>1 DEF Execute, Sensible
  <2>4. Len(frames') <= Len(frames) /\ (op = "reti" => Len(frames') < Len(frames)) /\ Len(frames') \in Nat
    <3>1. CASE op = "reti"
      <4>1. Len(frames) # 0
        BY <2>2, <2>3, <3>1, EmptyIsShort
      <4>2. Len(frames') = Len(frames) - 1
        <5>1. frames' = SubSeq(frames, 1, Len(frames) - 1)
          BY <2>3, <3>1
        <5>2. PICK n \in Nat : n = Len(frames)
          BY <2>2
        <5> QED
          BY <2>2, <4>1, <5>1, <5>2
      <4> QED
        BY <2>2, <4>1, <4>2
    <3>2. CASE op # "reti"
      BY <2>2, <2>3, <3>2
    <3> QED
      BY <3>1, <3>2
  <2>5. /\ Len(frames') <= MaxNesting
        /\ iflag' \/ deferIrq' => Len(frames') < MaxNesting
    <3>1. deferIrq' => deferIrq \/ iflag
      BY <1>2 DEF PrepareIrq
    <3>2. iflag' => iflag \/ op = "sei" \/ op = "reti"
      BY <1>2 DEF Execute
    <3>3. op = "sei" => Len(frames) < MaxNesting
      BY <2>1 DEF Sensible
    <3>4. Len(frames) <= MaxNesting /\ (iflag \/ deferIrq => Len(frames) < MaxNesting)
      BY <2>1 DEF Nested
    <3> QED
      BY <2>2, <2>4, <3>1, <3>2, <3>3, <3>4
  <2>6. FramesOrdered' /\ Within' /\ Balanced' /\ ActiveHandlerArmed'
    <3>1. CASE op = "reti"
      <4>1. Pop(AddrBytes)
        BY <1>2, <3>1 DEF Execute
      <4>2. frames # <<>> /\ sp = Base /\ frames' = SubSeq(frames, 1, Len(frames) - 1)
        BY <2>3, <3>1
      <4>3. booting' = booting
        BY <1>1, <2>3, <3>1 DEF TypeOK
      <4> QED
        BY <1>1, <1>4, <4>1, <4>2, <4>3, ReturnKeepsStack
    <3>2. CASE op = "setSP"
      <4>1. booting /\ frames = <<>>
        BY <2>1, <3>2 DEF Sensible
      <4>2. sp' = InitSP
        BY <1>2, <1>4, <3>2 DEF Execute, SetStackPointer
      <4>3. frames' = <<>> /\ ~booting'
        BY <2>3, <3>2, <4>1
      <4>4. Base' = InitSP
        BY <4>3 DEF Base
      <4>5. Balanced'
        BY <4>2, <4>3, <4>4, CoreAssumption DEF Balanced
      <4> QED
        BY <4>3, <4>5 DEF FramesOrdered, Within, ActiveHandlerArmed
    <3>3. CASE op \notin {"reti", "setSP"}
      <4>1. frames' = frames /\ booting' = booting
        BY <1>1, <2>3, <3>3 DEF TypeOK
      <4>2. ~(booting /\ frames = <<>>)
        BY <2>1, <3>3 DEF Sensible
      <4>3. FramesOrdered' /\ Within'
        BY <2>1, <4>1 DEF FramesOrdered, Within, Nested, Floor, BaseOf
      <4>4. Base \in Int /\ sp \in Int /\ MaxPush \in Nat
        BY <1>1, <1>4, <2>1, <4>2, BaseFits, CoreAssumption DEF TypeOK
      <4>5. CASE op = "push"
        <5>1. Push(1)
          BY <1>2, <4>5 DEF Execute
        <5>2. sp > Base - MaxPush
          BY <2>1, <4>5 DEF Sensible
        <5>3. Base - MaxPush <= sp - 1
          BY <4>4, <5>2
        <5> QED
          BY <1>1, <1>4, <4>1, <4>2, <4>3, <5>1, <5>3, CodeKeepsStack
      <4>6. CASE op = "call"
        <5>1. Push(2)
          BY <1>2, <4>6 DEF Execute, AddrBytes
        <5>2. sp - 1 > Base - MaxPush
          BY <2>1, <4>6 DEF Sensible
        <5>3. Base - MaxPush <= sp - 2
          BY <4>4, <5>2
        <5> QED
          BY <1>1, <1>4, <4>1, <4>2, <4>3, <5>1, <5>3, CodeKeepsStack
      <4>7. CASE op = "pop"
        <5>1. Pop(1)
          BY <1>2, <4>7 DEF Execute
        <5>2. sp < Base
          BY <2>1, <4>7 DEF Sensible
        <5>3. sp + 1 <= Base
          BY <4>4, <5>2
        <5> QED
          BY <1>1, <1>4, <4>1, <4>2, <4>3, <5>1, <5>3, CodeKeepsStack
      <4>8. CASE op = "ret"
        <5>1. Pop(2)
          BY <1>2, <4>8 DEF Execute, AddrBytes
        <5>2. sp + 1 < Base
          BY <2>1, <4>8 DEF Sensible
        <5>3. sp + 2 <= Base
          BY <4>4, <5>2
        <5> QED
          BY <1>1, <1>4, <4>1, <4>2, <4>3, <5>1, <5>3, CodeKeepsStack
      <4>9. CASE op \notin {"push", "call", "pop", "ret"}
        <5>1. UNCHANGED stack
          BY <1>2, <3>3, <4>9 DEF Execute
        <5> QED
          BY <1>1, <2>1, <4>1, <4>3, <5>1 DEF Balanced, ActiveHandlerArmed, Base, Floor, stack
      <4> QED
        BY <4>5, <4>6, <4>7, <4>8, <4>9
    <3> QED
      BY <3>1, <3>2, <3>3
  <2>7. Nested'
    BY <2>5, <2>6 DEF Nested, FramesOrdered
  <2> QED
    BY <1>4, <2>6, <2>7 DEF StackInv
<1> QED
  BY <1>3, <1>4

(* A reset leaves the stack pointer where it was: not below the floor. *)
LEMMA ResetKeepsStack ==
  ASSUME Inv, StackInv, Reset
  PROVE  StackInv'
<1>1. /\ frames' = <<>> /\ booting' /\ ~iflag' /\ deferIrq' = deferIrq /\ sp' = sp
      /\ (WellBehaved => ~booting)
  BY DEF Reset, stack
<1>2. ASSUME WellBehaved PROVE Nested' /\ Within' /\ Balanced'
  <2>1. TypeOK /\ Nested /\ Balanced
    BY <1>2 DEF Inv, StackInv
  <2>2. Len(frames) \in Nat /\ Len(frames) <= MaxNesting /\ (deferIrq => Len(frames) < MaxNesting)
    BY <2>1 DEF Nested, TypeOK
  <2>3. MaxNesting \in Nat /\ InitSP \in Nat /\ MaxPush \in Nat
    BY CoreAssumption
  <2>4. Nested' /\ Within'
    BY <1>1, <2>2, <2>3 DEF Nested, Within
  <2>5. Depth(Len(frames)) <= Depth(MaxNesting) /\ Depth(Len(frames)) \in Nat /\ Depth(MaxNesting) \in Nat
    BY <2>2, <2>3, Depths
  <2>6. Base \in Int /\ InitSP - Depth(Len(frames)) <= Base
    BY <1>1, <1>2, <2>1, BaseFits DEF Floor
  <2>7. Base - MaxPush <= sp /\ sp \in Nat
    BY <1>1, <1>2, <2>1, CoreAssumption DEF Balanced, TypeOK
  <2> HIDE DEF Depth, Base
  <2>8. InitSP - Depth(MaxNesting) - MaxPush <= sp
    BY <2>3, <2>5, <2>6, <2>7
  <2> QED
    BY <1>1, <2>4, <2>8 DEF Balanced, Floor
<1> QED
  BY <1>1, <1>2 DEF StackInv, ActiveHandlerArmed

LEMMA StackNext == Inv /\ StackInv /\ [Next]_vars => StackInv'
<1> SUFFICES ASSUME Inv, StackInv, [Next]_vars PROVE StackInv'
  OBVIOUS
<1>1. ASSUME NEW op \in Ops, NEW c \in 1 .. 4, StepInstruction(op, c) PROVE StackInv'
  BY <1>1, InstructionKeepsStack
<1>2. CASE StepEnterIrq
  <2>1. CASE WellBehaved
    BY <1>2, <2>1, EnterKeepsStack
  <2>2. CASE ~WellBehaved
    <3>1. frames' = <<>>
      BY <1>2, <2>2 DEF StepEnterIrq, StackInv
    <3> QED
      BY <2>2, <3>1 DEF StackInv, ActiveHandlerArmed
  <2> QED
    BY <2>1, <2>2
<1>3. CASE Reset
  BY <1>3, ResetKeepsStack
<1>4. ASSUME UNCHANGED <<iflag, deferIrq, stack, history>> PROVE StackInv'
  BY <1>4 DEF StackInv, Nested, Within, Balanced, ActiveHandlerArmed, Base, BaseOf, Floor,
              stack, history
<1>5. CASE StepWait
  BY <1>4, <1>5 DEF StepWait
<1>6. CASE StepExit
  BY <1>4, <1>6 DEF StepExit, device
<1>7. ASSUME NEW v \in Vectors, SetIrqFlag(v) \/ ClearIrqFlag(v) PROVE StackInv'
  BY <1>4, <1>7 DEF SetIrqFlag, ClearIrqFlag, device
<1>8. CASE UNCHANGED vars
  BY <1>4, <1>8 DEF vars, device
<1> QED
  BY <1>1, <1>2, <1>3, <1>5, <1>6, <1>7, <1>8 DEF Next, Step

(* HWStackSram::CheckReturnPoints: for every handler that a well behaved   *)
(* program is in, with pushes, calls, nested handlers and a reset, its     *)
(* return point is still armed, so that its end will be noticed.           *)
THEOREM HandlersAreArmed == Spec => []ActiveHandlerArmed
<1>1. StackInv => ActiveHandlerArmed
  BY DEF StackInv
<1> QED
  BY InitInv, NextInv, StackInit, StackNext, <1>1, PTL DEF Spec
-----------------------------------------------------------------------------
(* Bit 7 of a byte. *)
LEMMA HighBit == \A x \in Byte : Bit(x, 128) <=> x >= 128
  BY DEF Bit, Byte

(* Bit 3 of a byte is the highest of its lower half. *)
LEMMA MiddleBit == \A x \in Byte : Bit(x, 8) <=> x % 16 >= 8
  BY DEF Bit, Byte

(* A flag as a number. *)
LEMMA NumIsBit == \A b \in BOOLEAN : Num(b) \in 0 .. 1
  BY DEF Num

(* The difference of two words wraps at most once. *)
LEMMA WordBorrow ==
  ASSUME NEW n \in Int, n + 65536 >= 0, n <= 65535
  PROVE  n % 65536 = IF n < 0 THEN n + 65536 ELSE n
  OBVIOUS

(* A number in reach of one wrap, modulo 256. *)
LEMMA OneWrap ==
  ASSUME NEW n \in -256 .. 511
  PROVE  /\ n % 256 \in Byte
         /\ n % 256 = IF n < 0 THEN n + 256 ELSE IF n > 255 THEN n - 256 ELSE n
  BY DEF Byte

(* The sum of two bytes and a carry wraps at most once. *)
LEMMA AddRange ==
  ASSUME NEW rd \in Byte, NEW rr \in Byte, NEW c \in BOOLEAN
  PROVE  /\ AddResult(rd, rr, c) \in Byte
         /\ AddResult(rd, rr, c) = IF rd + rr + Num(c) > 255 THEN rd + rr + Num(c) - 256
                                   ELSE rd + rr + Num(c)
  <1>1. rd + rr + Num(c) \in 0 .. 511
    BY NumIsBit DEF Byte
  <1> QED BY <1>1, OneWrap DEF AddResult

(* The difference of two bytes and a borrow wraps at most once. *)
LEMMA SubRange ==
  ASSUME NEW rd \in Byte, NEW rr \in Byte, NEW c \in BOOLEAN
  PROVE  /\ SubResult(rd, rr, c) \in Byte
         /\ SubResult(rd, rr, c) = IF rd - rr - Num(c) < 0 THEN rd - rr - Num(c) + 256
                                   ELSE rd - rr - Num(c)
  <1>1. rd - rr - Num(c) \in -256 .. 255
    <2>1. PICK k \in 0 .. 1 : k = Num(c)
      BY NumIsBit
    <2>2. rd - rr - k \in -256 .. 255
      BY DEF Byte
    <2> QED
      BY <2>1, <2>2
  <1> QED BY <1>1, OneWrap DEF SubResult

(* The fields of the flags that Status and the H of an addition leave. *)
LEMMA AddFields ==
  ASSUME NEW f \in Flags, NEW rd \in Byte, NEW rr \in Byte, NEW c \in BOOLEAN,
         NEW res, res = AddResult(rd, rr, c)
  PROVE  /\ AddFlags(f, rd, rr, c).C = get_add_carry(res, rd, rr, 128)
         /\ AddFlags(f, rd, rr, c).H = get_add_carry(res, rd, rr, 8)
         /\ AddFlags(f, rd, rr, c).Z = (res = 0)
         /\ AddFlags(f, rd, rr, c).S = (Bit(res, 128) # get_add_overflow(res, rd, rr))
  BY DEF AddFlags, Status, Flags

(* The same for a subtraction. *)
LEMMA SubFields ==
  ASSUME NEW f \in Flags, NEW rd \in Byte, NEW rr \in Byte, NEW c \in BOOLEAN,
         NEW res, res = SubResult(rd, rr, c)
  PROVE  /\ SubFlags(f, rd, rr, c).C = get_sub_carry(res, rd, rr, 128)
         /\ SubFlags(f, rd, rr, c).H = get_sub_carry(res, rd, rr, 8)
         /\ SubFlags(f, rd, rr, c).Z = (res = 0)
         /\ SubFlags(f, rd, rr, c).S = (Bit(res, 128) # get_sub_overflow(res, rd, rr))
  BY DEF SubFlags, Status, Flags

(* ADD and ADC: C is the carry out of bit 7, H that out of bit 3, Z says   *)
(* that the byte is 0 and S is the sign of the sum of the operands taken   *)
(* as signed, whether or not it overflows: get_add_carry and               *)
(* get_add_overflow are right for every operand and carry.                 *)
THEOREM AddFlagsRight ==
  ASSUME NEW f \in Flags, NEW rd \in Byte, NEW rr \in Byte, NEW c \in BOOLEAN
  PROVE  /\ AddFlags(f, rd, rr, c).C <=> rd + rr + Num(c) > 255
         /\ AddFlags(f, rd, rr, c).H <=> (rd % 16) + (rr % 16) + Num(c) > 15
         /\ AddFlags(f, rd, rr, c).S <=> Signed(rd) + Signed(rr) + Num(c) < 0
         /\ AddFlags(f, rd, rr, c).Z <=> AddResult(rd, rr, c) = 0
  <1> DEFINE k == Num(c)
             res == AddResult(rd, rr, c)
  <1>1. k \in 0 .. 1
    BY NumIsBit
  <1>2. res \in Byte /\ res = IF rd + rr + k > 255 THEN rd + rr + k - 256 ELSE rd + rr + k
    BY AddRange
  <1>3. /\ Bit(rd, 128) <=> rd >= 128
        /\ Bit(rr, 128) <=> rr >= 128
        /\ Bit(res, 128) <=> res >= 128
    BY <1>2, HighBit
  <1>4. /\ Bit(rd, 8) <=> rd % 16 >= 8
        /\ Bit(rr, 8) <=> rr % 16 >= 8
        /\ Bit(res, 8) <=> res % 16 >= 8
    BY <1>2, MiddleBit
  <1>5. /\ AddFlags(f, rd, rr, c).C = get_add_carry(res, rd, rr, 128)
        /\ AddFlags(f, rd, rr, c).H = get_add_carry(res, rd, rr, 8)
        /\ AddFlags(f, rd, rr, c).Z = (res = 0)
        /\ AddFlags(f, rd, rr, c).S = (Bit(res, 128) # get_add_overflow(res, rd, rr))
    BY AddFields
  <1> HIDE DEF k, res
  <1>6. get_add_carry(res, rd, rr, 128) <=> rd + rr + k > 255
    BY <1>1, <1>2, <1>3 DEF get_add_carry, Byte
  <1>7. get_add_carry(res, rd, rr, 8) <=> (rd % 16) + (rr % 16) + k > 15
    <2> DEFINE x == rd % 16
               y == rr % 16
    <2>1. x \in 0 .. 15 /\ y \in 0 .. 15
      BY DEF Byte
    <2>2. res % 16 = (x + y + k) % 16
      BY <1>1, <1>2 DEF Byte
    <2> HIDE DEF x, y
    <2>3. (x + y + k) % 16 = IF x + y + k > 15 THEN x + y + k - 16 ELSE x + y + k
      BY <1>1, <2>1
    <2>4. (Bit(rd, 8) <=> x >= 8) /\ (Bit(rr, 8) <=> y >= 8)
      BY <1>4 DEF x, y
    <2>5. get_add_carry(res, rd, rr, 8) <=> x + y + k > 15
      BY <1>1, <1>4, <2>1, <2>2, <2>3, <2>4 DEF get_add_carry
    <2> QED BY <2>5 DEF x, y
  <1>8. (Bit(res, 128) # get_add_overflow(res, rd, rr)) <=> Signed(rd) + Signed(rr) + k < 0
    <2>1. (Bit(res, 128) # get_add_overflow(res, rd, rr)) <=> ~(Bit(res, 128) <=> get_add_overflow(res, rd, rr))
      BY Zenon DEF get_add_overflow, Bit
    <2>2. ~(Bit(res, 128) <=> get_add_overflow(res, rd, rr)) <=> Signed(rd) + Signed(rr) + k < 0
      BY <1>1, <1>2, <1>3 DEF get_add_overflow, Signed, Byte
    <2> QED BY <2>1, <2>2
  <1> QED BY <1>5, <1>6, <1>7, <1>8 DEF k, res

(* SUB, SBC and the comparisons: C is the borrow, H that into bit 3, Z     *)
(* says that the byte is 0 and S that the difference of the operands taken *)
(* as signed is negative: get_sub_carry and get_sub_overflow are right for *)
(* every operand and borrow, unlike the formula for V that the comment on  *)
(* get_compare_overflow takes from the data sheet.                         *)
THEOREM SubFlagsRight ==
  ASSUME NEW f \in Flags, NEW rd \in Byte, NEW rr \in Byte, NEW c \in BOOLEAN
  PROVE  /\ SubFlags(f, rd, rr, c).C <=> rd - rr - Num(c) < 0
         /\ SubFlags(f, rd, rr, c).H <=> (rd % 16) - (rr % 16) - Num(c) < 0
         /\ SubFlags(f, rd, rr, c).S <=> Signed(rd) - Signed(rr) - Num(c) < 0
         /\ SubFlags(f, rd, rr, c).Z <=> SubResult(rd, rr, c) = 0
  <1> DEFINE k == Num(c)
             res == SubResult(rd, rr, c)
  <1>1. k \in 0 .. 1
    BY NumIsBit
  <1>2. res \in Byte /\ res = IF rd - rr - k < 0 THEN rd - rr - k + 256 ELSE rd - rr - k
    BY SubRange
  <1>3. /\ Bit(rd, 128) <=> rd >= 128
        /\ Bit(rr, 128) <=> rr >= 128
        /\ Bit(res, 128) <=> res >= 128
    BY <1>2, HighBit
  <1>4. /\ Bit(rd, 8) <=> rd % 16 >= 8
        /\ Bit(rr, 8) <=> rr % 16 >= 8
        /\ Bit(res, 8) <=> res % 16 >= 8
    BY <1>2, MiddleBit
  <1>5. /\ SubFlags(f, rd, rr, c).C = get_sub_carry(res, rd, rr, 128)
        /\ SubFlags(f, rd, rr, c).H = get_sub_carry(res, rd, rr, 8)
        /\ SubFlags(f, rd, rr, c).Z = (res = 0)
        /\ SubFlags(f, rd, rr, c).S = (Bit(res, 128) # get_sub_overflow(res, rd, rr))
    BY SubFields
  <1> HIDE DEF k, res
  <1>6. get_sub_carry(res, rd, rr, 128) <=> rd - rr - k < 0
    BY <1>1, <1>2, <1>3 DEF get_sub_carry, Byte
  <1>7. get_sub_carry(res, rd, rr, 8) <=> (rd % 16) - (rr % 16) - k < 0
    <2> DEFINE x == rd % 16
               y == rr % 16
    <2>1. x \in 0 .. 15 /\ y \in 0 .. 15
      BY DEF Byte
    <2>2. res % 16 = (x - y - k) % 16
      BY <1>1, <1>2 DEF Byte
    <2> HIDE DEF x, y
    <2>3. (x - y - k) % 16 = IF x - y - k < 0 THEN x - y - k + 16 ELSE x - y - k
      BY <1>1, <2>1
    <2>4. (Bit(rd, 8) <=> x >= 8) /\ (Bit(rr, 8) <=> y >= 8)
      BY <1>4 DEF x, y
    <2>5. get_sub_carry(res, rd, rr, 8) <=> x - y - k < 0
      BY <1>1, <1>4, <2>1, <2>2, <2>3, <2>4 DEF get_sub_carry
    <2> QED BY <2>5 DEF x, y
  <1>8. (Bit(res, 128) # get_sub_overflow(res, rd, rr)) <=> Signed(rd) - Signed(rr) - k < 0
    <2>1. (Bit(res, 128) # get_sub_overflow(res, rd, rr)) <=> ~(Bit(res, 128) <=> get_sub_overflow(res, rd, rr))
      BY Zenon DEF get_sub_overflow, Bit
    <2>2. ~(Bit(res, 128) <=> get_sub_overflow(res, rd, rr)) <=> Signed(rd) - Signed(rr) - k < 0
      BY <1>1, <1>2, <1>3 DEF get_sub_overflow, Signed, Byte
    <2> QED BY <2>1, <2>2
  <1> QED BY <1>5, <1>6, <1>7, <1>8 DEF k, res

(* The formulas are truth values. *)
LEMMA FormulasBoolean ==
  /\ \A x, p : Bit(x, p) \in BOOLEAN
  /\ \A r, d, s, p : get_add_carry(r, d, s, p) \in BOOLEAN /\ get_sub_carry(r, d, s, p) \in BOOLEAN
  /\ \A r, d, s : get_add_overflow(r, d, s) \in BOOLEAN /\ get_sub_overflow(r, d, s) \in BOOLEAN
  BY Zenon DEF Bit, get_add_carry, get_add_overflow, get_sub_carry, get_sub_overflow

(* The flags stay flags. *)
LEMMA StatusClosed ==
  ASSUME NEW f \in Flags, NEW res, NEW v \in BOOLEAN, NEW c \in BOOLEAN
  PROVE  Status(f, res, v, c) \in Flags
  <1>1. Bit(res, 128) \in BOOLEAN /\ (Bit(res, 128) # v) \in BOOLEAN /\ (res = 0) \in BOOLEAN
    BY FormulasBoolean, Zenon
  <1>2. \A n, s, z \in BOOLEAN : [f EXCEPT !.N = n, !.V = v, !.S = s, !.Z = z, !.C = c] \in Flags
    BY DEF Flags
  <1> QED BY <1>1, <1>2, Zenon DEF Status

(* So do the flags of a sum and of a difference.                           *)
LEMMA FlagsClosed ==
  ASSUME NEW f \in Flags, NEW rd \in Byte, NEW rr \in Byte, NEW c \in BOOLEAN
  PROVE  AddFlags(f, rd, rr, c) \in Flags /\ SubFlags(f, rd, rr, c) \in Flags
  <1>1. \A g \in Flags, h \in BOOLEAN : [g EXCEPT !.H = h] \in Flags
    BY DEF Flags
  <1>2. AddFlags(f, rd, rr, c) \in Flags
    BY <1>1, FormulasBoolean, StatusClosed, Zenon DEF AddFlags
  <1>3. SubFlags(f, rd, rr, c) \in Flags
    BY <1>1, FormulasBoolean, StatusClosed, Zenon DEF SubFlags
  <1> QED BY <1>2, <1>3

(* A word and its sign, from its bytes. *)
LEMMA SignedWord ==
  ASSUME NEW h \in Byte, NEW l \in Byte
  PROVE  Signed16(256 * h + l) = 256 * Signed(h) + l
  BY DEF Signed16, Signed, Byte

(* ADC of the low bytes and then of the high ones adds words: the result   *)
(* is the sum modulo 65536, C its carry and S its sign when the operands   *)
(* are taken as signed, for all operands, for both carries to start from   *)
(* (ADD is the one without) and whatever the other flags were.             *)
THEOREM WideAdd ==
  ASSUME NEW f \in Flags, NEW c \in BOOLEAN,
         NEW ah \in Byte, NEW al \in Byte, NEW bh \in Byte, NEW bl \in Byte
  PROVE  LET g == AddFlags(f, al, bl, c)
             a == 256 * ah + al
             b == 256 * bh + bl
         IN  /\ 256 * AddResult(ah, bh, g.C) + AddResult(al, bl, c) = (a + b + Num(c)) % 65536
             /\ AddFlags(g, ah, bh, g.C).C <=> a + b + Num(c) > 65535
             /\ AddFlags(g, ah, bh, g.C).S <=> Signed16(a) + Signed16(b) + Num(c) < 0
  <1> DEFINE g == AddFlags(f, al, bl, c)
             a == 256 * ah + al
             b == 256 * bh + bl
             k == Num(c)
             d == g.C
             e == Num(d)
             lo == AddResult(al, bl, c)
             hi == AddResult(ah, bh, d)
             h == AddFlags(g, ah, bh, d)
  <1>1. g \in Flags /\ d \in BOOLEAN
    BY FlagsClosed DEF Flags
  <1>2. k \in 0 .. 1 /\ (d <=> al + bl + k > 255)
    BY AddFlagsRight, NumIsBit
  <1>3. e = IF al + bl + k > 255 THEN 1 ELSE 0
    BY <1>2 DEF Num
  <1>4. lo = IF al + bl + k > 255 THEN al + bl + k - 256 ELSE al + bl + k
    BY AddRange
  <1> HIDE DEF g, d
  <1>5. hi = IF ah + bh + e > 255 THEN ah + bh + e - 256 ELSE ah + bh + e
    BY <1>1, AddRange
  <1>6. (h.C <=> ah + bh + e > 255) /\ (h.S <=> Signed(ah) + Signed(bh) + e < 0)
    BY <1>1, AddFlagsRight
  <1>7. Signed16(a) = 256 * Signed(ah) + al /\ Signed16(b) = 256 * Signed(bh) + bl
    BY SignedWord
  <1>8. Signed(ah) \in Int /\ Signed(bh) \in Int
    BY DEF Signed, Byte
  <1> HIDE DEF k, e, lo, hi, h
  <1>9. 256 * hi + lo = (a + b + k) % 65536
    BY <1>2, <1>3, <1>4, <1>5 DEF Byte
  <1>10. h.C <=> a + b + k > 65535
    BY <1>2, <1>3, <1>6 DEF Byte
  <1>11. h.S <=> Signed16(a) + Signed16(b) + k < 0
    <2> DEFINE sa == Signed(ah)
               sb == Signed(bh)
    <2>1. sa \in Int /\ sb \in Int /\ Signed16(a) = 256 * sa + al /\ Signed16(b) = 256 * sb + bl
      BY <1>7, <1>8
    <2>2. h.S <=> sa + sb + e < 0
      BY <1>6
    <2> HIDE DEF sa, sb, a, b
    <2> QED BY <2>1, <2>2, <1>2, <1>3 DEF Byte
  <1> QED BY <1>9, <1>10, <1>11 DEF g, d, k, e, lo, hi, h

(* SUB, or CP, of the low bytes and SBC, or CPC, of the high ones subtract *)
(* words: C says that the difference needs a borrow, S that it is negative *)
(* when the operands are taken as signed, and Z, which SBC and CPC only    *)
(* ever clear, that the whole word is 0.  Without a borrow to start from   *)
(* that is lower, less and equal, what the branches after a comparison of  *)
(* words rely on.                                                          *)
THEOREM WideCompare ==
  ASSUME NEW f \in Flags, NEW c \in BOOLEAN,
         NEW ah \in Byte, NEW al \in Byte, NEW bh \in Byte, NEW bl \in Byte
  PROVE  LET g == SubFlags(f, al, bl, c)
             a == 256 * ah + al
             b == 256 * bh + bl
         IN  /\ 256 * SubResult(ah, bh, g.C) + SubResult(al, bl, c) = (a - b - Num(c)) % 65536
             /\ SbcFlags(g, ah, bh).C <=> a - b - Num(c) < 0
             /\ SbcFlags(g, ah, bh).S <=> Signed16(a) - Signed16(b) - Num(c) < 0
             /\ SbcFlags(g, ah, bh).Z <=> (a - b - Num(c)) % 65536 = 0
  <1> DEFINE g == SubFlags(f, al, bl, c)
             a == 256 * ah + al
             b == 256 * bh + bl
             k == Num(c)
             d == g.C
             e == Num(d)
             lo == SubResult(al, bl, c)
             hi == SubResult(ah, bh, d)
             h == SubFlags(g, ah, bh, d)
             j == SbcFlags(g, ah, bh)
  <1>1. g \in Flags /\ d \in BOOLEAN
    BY FlagsClosed DEF Flags
  <1>2. k \in 0 .. 1 /\ (d <=> al - bl - k < 0) /\ (g.Z <=> lo = 0)
    BY SubFlagsRight, NumIsBit
  <1>3. e = IF al - bl - k < 0 THEN 1 ELSE 0
    BY <1>2 DEF Num
  <1>4. lo \in Byte /\ lo = IF al - bl - k < 0 THEN al - bl - k + 256 ELSE al - bl - k
    BY SubRange
  <1>5. j = [h EXCEPT !.Z = (g.Z /\ hi = 0)]
    BY DEF SbcFlags
  <1> HIDE DEF g, d
  <1>6. hi \in Byte /\ hi = IF ah - bh - e < 0 THEN ah - bh - e + 256 ELSE ah - bh - e
    BY <1>1, SubRange
  <1>7. (h.C <=> ah - bh - e < 0) /\ (h.S <=> Signed(ah) - Signed(bh) - e < 0)
    BY <1>1, SubFlagsRight
  <1>8. h \in Flags
    BY <1>1, FlagsClosed
  <1>9. Signed16(a) = 256 * Signed(ah) + al /\ Signed16(b) = 256 * Signed(bh) + bl
    BY SignedWord
  <1>10. Signed(ah) \in Int /\ Signed(bh) \in Int
    BY DEF Signed, Byte
  <1> HIDE DEF k, e, lo, hi, h, j
  <1>11. j.C = h.C /\ j.S = h.S /\ (j.Z <=> g.Z /\ hi = 0)
    BY <1>5, <1>8 DEF Flags
  <1>12. 256 * hi + lo = (a - b - k) % 65536
    <2>1. a - b - k \in Int /\ a - b - k + 65536 >= 0 /\ a - b - k <= 65535
      BY <1>2 DEF Byte
    <2>2. 256 * hi + lo = IF a - b - k < 0 THEN a - b - k + 65536 ELSE a - b - k
      BY <1>2, <1>3, <1>4, <1>6 DEF Byte
    <2> QED
      BY <2>1, <2>2, WordBorrow
  <1>13. j.C <=> a - b - k < 0
    <2>1. ah - bh - e < 0 <=> a - b - k < 0
      BY <1>2, <1>3 DEF Byte
    <2> QED
      BY <1>7, <1>11, <2>1
  <1>14. j.S <=> Signed16(a) - Signed16(b) - k < 0
    <2> DEFINE sa == Signed(ah)
               sb == Signed(bh)
    <2>1. sa \in Int /\ sb \in Int /\ Signed16(a) = 256 * sa + al /\ Signed16(b) = 256 * sb + bl
      BY <1>9, <1>10
    <2>2. j.S <=> sa - sb - e < 0
      BY <1>7, <1>11
    <2> HIDE DEF sa, sb, a, b
    <2> QED BY <2>1, <2>2, <1>2, <1>3 DEF Byte
  <1>15. j.Z <=> (a - b - k) % 65536 = 0
    <2>1. j.Z <=> lo = 0 /\ hi = 0
      BY <1>2, <1>11
    <2>2. (lo = 0 /\ hi = 0) <=> 256 * hi + lo = 0
      BY <1>4, <1>6 DEF Byte
    <2> QED BY <2>1, <2>2, <1>12
  <1> QED BY <1>12, <1>13, <1>14, <1>15 DEF g, d, k, e, lo, hi, h, j
=============================================================================
