---------------------------- MODULE TimerProofs ----------------------------
(***************************************************************************)
(* Proofs about the timer for every number of compare units, all widths    *)
(* and every program.  First the interrupt side: the flags are kept in     *)
(* step with the queue of the interrupt system; FlaggedIsQueued is         *)
(* inductive by itself.  Then the counting side: types, the duty cycle of  *)
(* fast PWM, the time to an overflow and the noise canceler, from one      *)
(* invariant on the counting state.                                        *)
(***************************************************************************)
EXTENDS Timer, TLAPS

(* fireInterrupt keeps flagged and enabled lines in the queue, whatever    *)
(* lines fire.                                                             *)
LEMMA FireQueues ==
  ASSUME FlaggedIsQueued, NEW lines, fireInterrupt(lines)
  PROVE  FlaggedIsQueued'
  BY DEF FlaggedIsQueued, fireInterrupt

(* So does a step that leaves the registers and the queue alone. *)
LEMMA QueueUnchanged ==
  ASSUME FlaggedIsQueued, UNCHANGED queue
  PROVE  FlaggedIsQueued'
  BY DEF FlaggedIsQueued, queue

(* A flagged and enabled timer interrupt is queued in every reachable      *)
(* state: between fireInterrupt, the writes to TIMSK and TIFR, the taking  *)
(* of vectors and resets no event of the timer is lost.                    *)
THEOREM NoEventLost == Spec => []FlaggedIsQueued
<1>1. Init => FlaggedIsQueued
  BY DEF Init, FlaggedIsQueued
<1>2. FlaggedIsQueued /\ [Next]_vars => FlaggedIsQueued'
  <2> SUFFICES ASSUME FlaggedIsQueued, [Next]_vars PROVE FlaggedIsQueued'
    OBVIOUS
  <2>1. ASSUME NEW clock \in BOOLEAN, CpuCycle(clock) PROVE FlaggedIsQueued'
    BY <2>1, FireQueues DEF CpuCycle
  <2>2. CASE MovePin
    BY <2>2, QueueUnchanged DEF MovePin
  <2>3. CASE Set_TCCRA \/ Set_TCCRB \/ Set_TCCRC
    BY <2>3, QueueUnchanged DEF Set_TCCRA, Set_TCCRB, Set_TCCRC
  <2>4. ASSUME NEW i \in Units, NEW val \in program.ocr, SetCompareRegister(i, val) PROVE FlaggedIsQueued'
    BY <2>4, QueueUnchanged DEF SetCompareRegister
  <2>5. CASE SetCounter \/ SetICR
    BY <2>5, QueueUnchanged DEF SetCounter, SetICR
  <2>6. ASSUME NEW mask \in program.mask, WriteTIMSK(mask) PROVE FlaggedIsQueued'
    BY <2>6 DEF WriteTIMSK, FlaggedIsQueued
  <2>7. ASSUME NEW bits \in SUBSET Lines, WriteTIFR(bits) PROVE FlaggedIsQueued'
    BY <2>7 DEF WriteTIFR, FlaggedIsQueued
  <2>8. ASSUME NEW l \in Lines, ClearIrqFlag(l) PROVE FlaggedIsQueued'
    BY <2>8 DEF ClearIrqFlag, FlaggedIsQueued
  <2>9. CASE Reset
    BY <2>9 DEF Reset, FlaggedIsQueued
  <2>10. CASE UNCHANGED vars
    BY <2>10, QueueUnchanged DEF vars
  <2> QED BY <2>1, <2>2, <2>3, <2>4, <2>5, <2>6, <2>7, <2>8, <2>9, <2>10 DEF Next
<1> QED BY <1>1, <1>2, PTL DEF Spec
-----------------------------------------------------------------------------
(* The types of the fields, under names that stay folded. *)
Longs == 0 .. LongMax
Modes == 0 .. 15

LEMMA TimersDef ==
  Timers = [vtcnt : Longs, top : Longs, updown : BOOLEAN, down : BOOLEAN, wgm : Modes,
            compare : [Units -> Counts], dbl : [Units -> Counts], com : [Units -> Coms],
            out : [Units -> BOOLEAN], fired : SUBSET Lines]
  BY DEF Timers, Longs, Modes

(* Masking keeps a count within its width. *)
LEMMA Masked ==
  ASSUME NEW n \in Nat, NEW w \in Nat
  PROVE  n % (w + 1) \in 0 .. w /\ (n <= w => n % (w + 1) = n) /\ (w + 1) % (w + 1) = 0
  OBVIOUS

LEMMA CountsAreLong == Counts \subseteq Longs /\ 0 \in Counts /\ MaxCount \in Counts
  BY TimerAssumption DEF Counts, Longs

(* A count of up to 2^64 wraps around to zero. *)
LEMMA LongType ==
  ASSUME NEW n \in Nat
  PROVE  /\ Long(n) \in Longs
         /\ n <= LongMax => Long(n) = n
         /\ Long(LongMax + 1) = 0
  BY Masked, TimerAssumption DEF Long, Longs

(* What an event function leaves as it is. *)
Kept(y, x) ==
  /\ y \in Timers
  /\ y.wgm = x.wgm /\ y.updown = x.updown /\ y.down = x.down /\ y.dbl = x.dbl /\ y.com = x.com

LEMMA FireType ==
  ASSUME NEW x \in Timers, NEW lines
  PROVE  /\ Kept(Fire(x, lines), x)
         /\ Fire(x, lines).fired = x.fired \cup (lines \cap Lines)
         /\ Fire(x, lines).vtcnt = x.vtcnt /\ Fire(x, lines).top = x.top
         /\ Fire(x, lines).compare = x.compare /\ Fire(x, lines).out = x.out
<1>1. PICK f \in SUBSET Lines : f = x.fired \cup (lines \cap Lines)
  BY TimersDef
<1>2. PICK y : y = [x EXCEPT !.fired = f]
  OBVIOUS
<1>3. Fire(x, lines) = y
  BY <1>1, <1>2, TimersDef DEF Fire
<1>4. /\ Kept(y, x) /\ y.fired = f /\ y.vtcnt = x.vtcnt /\ y.top = x.top
      /\ y.compare = x.compare /\ y.out = x.out
  BY <1>2, TimersDef DEF Kept
<1> QED
  BY <1>1, <1>3, <1>4

(* The width of a mode with a fixed top, or of the counter. *)
Width(m) ==
  CASE Source(m) = "8BIT" -> Top8 [] Source(m) = "9BIT" -> Top9
    [] Source(m) = "10BIT" -> Top10 [] OTHER -> MaxCount

LEMMA WidthType == ASSUME NEW m PROVE Width(m) \in Counts /\ Width(m) \in Nat
  BY TimerAssumption, CountsAreLong DEF Width, Counts

(* The double buffered values keep to the width of the mode; the top moves *)
(* only where OCRA sets it.                                                *)
LEMMA UpdateOCRType ==
  ASSUME NEW x \in Timers
  PROVE  LET y == UpdateOCR(x)
         IN  /\ Kept(y, x)
             /\ y.vtcnt = x.vtcnt /\ y.out = x.out /\ y.fired = x.fired
             /\ y.top = IF Source(x.wgm) = "OCRA" /\ 0 \in Units THEN x.dbl[0] ELSE x.top
<1> DEFINE value(i) == IF i # 0 THEN x.dbl[i]
                       ELSE IF Source(x.wgm) = "OCRA" THEN x.compare[0]
                       ELSE x.dbl[0] % (Width(x.wgm) + 1)
<1>1. x.dbl \in [Units -> Counts] /\ x.compare \in [Units -> Counts] /\ x.top \in Longs
  BY TimersDef
<1>2. PICK top \in Longs : top = IF Source(x.wgm) = "OCRA" /\ 0 \in Units THEN x.dbl[0] ELSE x.top
  BY <1>1, CountsAreLong
<1>3. PICK c \in [Units -> Counts] : c = [i \in Units |-> value(i)]
  <2>1. ASSUME NEW n \in Counts PROVE n % (Width(x.wgm) + 1) \in Counts
    <3>1. n \in Nat /\ Width(x.wgm) \in Nat /\ Width(x.wgm) <= MaxCount
      BY WidthType, TimerAssumption DEF Counts
    <3>2. n % (Width(x.wgm) + 1) \in 0 .. Width(x.wgm)
      BY <3>1, Masked
    <3> HIDE DEF Width
    <3> QED
      BY <3>1, <3>2, TimerAssumption DEF Counts
  <2>2. ASSUME NEW i \in Units PROVE value(i) \in Counts
    BY <1>1, <2>1
  <2> HIDE DEF value
  <2> QED
    BY <2>2
<1>4. PICK y : y = [x EXCEPT !.top = top, !.compare = c]
  OBVIOUS
<1>5. UpdateOCR(x) = y
  BY <1>2, <1>3, <1>4, TimersDef DEF UpdateOCR, Width
<1>6. /\ Kept(y, x) /\ y.vtcnt = x.vtcnt /\ y.out = x.out /\ y.fired = x.fired /\ y.top = top
  BY <1>4, TimersDef DEF Kept
<1> QED
  BY <1>2, <1>5, <1>6

(* Outputs are levels. *)
LEMMA OutputType ==
  ASSUME NEW com \in Coms, NEW old \in BOOLEAN, NEW b \in BOOLEAN
  PROVE  /\ SetCompareOutput(com, old) \in BOOLEAN
         /\ SetPWMCompareOutput(com, old, b) \in BOOLEAN
<1>1. com = "NOOP" \/ com = "TOGGLE" \/ com = "CLEAR" \/ com = "SET"
  BY DEF Coms
<1>2. CASE com = "NOOP"
  BY <1>2, Zenon DEF SetCompareOutput, SetPWMCompareOutput
<1>3. CASE com = "TOGGLE"
  BY <1>3 DEF SetCompareOutput, SetPWMCompareOutput
<1>4. CASE com = "CLEAR"
  BY <1>4 DEF SetCompareOutput, SetPWMCompareOutput
<1>5. CASE com = "SET"
  BY <1>5 DEF SetCompareOutput, SetPWMCompareOutput
<1> QED
  BY <1>1, <1>2, <1>3, <1>4, <1>5

LEMMA AtMaxType ==
  ASSUME NEW x \in Timers
  PROVE  LET y == AtMax(x)
         IN  /\ Kept(y, x) /\ x.fired \subseteq y.fired
             /\ y.vtcnt = x.vtcnt /\ y.top = x.top /\ y.compare = x.compare /\ y.out = x.out
             /\ Family(x.wgm) = "NORMAL" => TOV \in y.fired
<1>1. Kept(x, x)
  BY DEF Kept
<1> QED
  BY <1>1, FireType DEF AtMax, Lines

(* What the bottom event makes of x: the top may follow OCRA. *)
Bottomed(y, x) ==
  /\ Kept(y, x) /\ x.fired \subseteq y.fired
  /\ y.vtcnt = x.vtcnt /\ y.out = x.out
  /\ y.top = x.top \/ (Source(x.wgm) = "OCRA" /\ 0 \in Units /\ y.top = x.dbl[0])

LEMMA AtBottomType ==
  ASSUME NEW x \in Timers
  PROVE  Bottomed(AtBottom(x), x) /\ (Family(x.wgm) = "NORMAL" => AtBottom(x) = x)
<1>1. Kept(x, x)
  BY DEF Kept
<1>2. CASE Family(x.wgm) = "FASTPWM"
  <2>1. PICK y : y = UpdateOCR(x)
    OBVIOUS
  <2>2. Bottomed(y, x)
    BY <2>1, UpdateOCRType DEF Bottomed
  <2> QED
    BY <1>2, <2>1, <2>2 DEF AtBottom
<1>3. CASE Family(x.wgm) = "PCPWM"
  <2>1. PICK y : y = Fire(x, {TOV})
    OBVIOUS
  <2>2. Bottomed(y, x)
    BY <2>1, FireType DEF Bottomed
  <2> QED
    BY <1>3, <2>1, <2>2 DEF AtBottom
<1>4. CASE Family(x.wgm) = "PFCPWM"
  <2>1. PICK z : z = Fire(x, {TOV})
    OBVIOUS
  <2>2. /\ Kept(z, x) /\ z.fired = x.fired \cup ({TOV} \cap Lines)
        /\ z.vtcnt = x.vtcnt /\ z.top = x.top /\ z.out = x.out
    BY <2>1, FireType
  <2>3. PICK y : y = UpdateOCR(z)
    OBVIOUS
  <2>4. /\ Kept(y, z) /\ y.vtcnt = z.vtcnt /\ y.out = z.out /\ y.fired = z.fired
        /\ y.top = IF Source(z.wgm) = "OCRA" /\ 0 \in Units THEN z.dbl[0] ELSE z.top
    BY <2>2, <2>3, UpdateOCRType DEF Kept
  <2>5. Bottomed(y, x)
    BY <2>2, <2>4 DEF Bottomed, Kept
  <2> QED
    BY <1>4, <2>1, <2>3, <2>5 DEF AtBottom
<1>5. CASE Family(x.wgm) \notin {"FASTPWM", "PCPWM", "PFCPWM"}
  <2>1. AtBottom(x) = x
    BY <1>5 DEF AtBottom
  <2> QED
    BY <1>1, <2>1 DEF Bottomed
<1> QED
  BY <1>2, <1>3, <1>4, <1>5

(* At the top fast PWM starts over, raises its outputs and the overflow. *)
Topped(y, x) ==
  /\ Kept(y, x) /\ x.fired \subseteq y.fired
  /\ y.vtcnt \in {0, x.vtcnt}
  /\ y.top = x.top \/ (Source(x.wgm) = "OCRA" /\ 0 \in Units /\ y.top = x.dbl[0])

ToppedFast(y, x) ==
  /\ y.vtcnt = 0 /\ TOV \in y.fired /\ y.top = x.top /\ y.compare = x.compare
  /\ y.out = [i \in Units |-> SetPWMCompareOutput(x.com[i], x.out[i], TRUE)]

LEMMA AtTopType ==
  ASSUME NEW x \in Timers
  PROVE  /\ Topped(AtTop(x), x)
         /\ Family(x.wgm) = "FASTPWM" => ToppedFast(AtTop(x), x)
         /\ Family(x.wgm) = "NORMAL" => AtTop(x) = x
<1> DEFINE outA(o) == IF 0 \in Units /\ Source(x.wgm) = "OCRA"
                      THEN [o EXCEPT ![0] = SetPWMCompareOutput(x.com[0], @, FALSE)] ELSE o
<1>1. PICK y : y = Fire(x, TopLine(x.wgm))
  OBVIOUS
<1>2. /\ Kept(y, x) /\ x.fired \subseteq y.fired /\ y.vtcnt = x.vtcnt
      /\ y.top = x.top /\ y.compare = x.compare /\ y.out = x.out
  BY <1>1, FireType
<1>3. x.vtcnt \in Longs /\ x.com \in [Units -> Coms] /\ x.out \in [Units -> BOOLEAN] /\ 0 \in Longs
  BY TimersDef, TimerAssumption DEF Longs
<1>4. outA(x.out) \in [Units -> BOOLEAN]
  <2>1. CASE 0 \in Units /\ Source(x.wgm) = "OCRA"
    <3>1. SetPWMCompareOutput(x.com[0], x.out[0], FALSE) \in BOOLEAN
      BY <1>3, <2>1, OutputType
    <3> QED
      BY <1>3, <2>1, <3>1, Zenon
  <2>2. CASE ~(0 \in Units /\ Source(x.wgm) = "OCRA")
    BY <1>3, <2>2
  <2> QED
    BY <2>1, <2>2
<1>5. CASE Family(x.wgm) = "CTC"
  <2>1. PICK z : z = [x EXCEPT !.vtcnt = 0]
    OBVIOUS
  <2>2. Kept(z, x) /\ z.vtcnt = 0 /\ z.fired = x.fired /\ z.top = x.top
    BY <1>3, <2>1, TimersDef DEF Kept
  <2>3. AtTop(x) = z
    BY <1>5, <2>1 DEF AtTop
  <2> QED
    BY <1>5, <2>2, <2>3 DEF Topped
<1>6. CASE Family(x.wgm) = "FASTPWM"
  <2>1. PICK z : z = Fire(y, {TOV})
    OBVIOUS
  <2>2. /\ Kept(z, y) /\ y.fired \subseteq z.fired /\ TOV \in z.fired
        /\ z.top = y.top /\ z.compare = y.compare /\ z.out = y.out /\ z.vtcnt = y.vtcnt
    BY <1>2, <2>1, FireType DEF Kept, Lines
  <2>3. PICK o \in [Units -> BOOLEAN] :
          o = [i \in Units |-> SetPWMCompareOutput(x.com[i], x.out[i], TRUE)]
    BY <1>3, OutputType
  <2>4. PICK w : w = [z EXCEPT !.out = o, !.vtcnt = 0]
    OBVIOUS
  <2>5. AtTop(x) = w
    <3>1. AtTop(x) = [z EXCEPT !.out = [i \in Units |-> SetPWMCompareOutput(x.com[i], @[i], TRUE)],
                               !.vtcnt = 0]
      BY <1>1, <1>6, <2>1 DEF AtTop
    <3> QED
      BY <1>2, <2>2, <2>3, <2>4, <3>1
  <2>6. /\ Kept(w, z) /\ w.out = o /\ w.vtcnt = 0
        /\ w.top = z.top /\ w.compare = z.compare /\ w.fired = z.fired
    <3>1. z \in Timers
      BY <2>2 DEF Kept
    <3> QED
      BY <1>3, <2>4, <3>1, TimersDef DEF Kept
  <2>7. Topped(w, x) /\ ToppedFast(w, x)
    BY <1>2, <2>2, <2>3, <2>6 DEF Topped, ToppedFast, Kept
  <2> QED
    BY <1>6, <2>5, <2>7
<1>7. CASE Family(x.wgm) = "PCPWM"
  <2>1. PICK z : z = UpdateOCR(y)
    OBVIOUS
  <2>2. /\ Kept(z, y) /\ z.vtcnt = y.vtcnt /\ z.out = y.out /\ z.fired = y.fired
        /\ z.top = IF Source(y.wgm) = "OCRA" /\ 0 \in Units THEN y.dbl[0] ELSE y.top
    BY <1>2, <2>1, UpdateOCRType DEF Kept
  <2>3. PICK w : w = [z EXCEPT !.out = outA(x.out)]
    OBVIOUS
  <2>4. AtTop(x) = w
    <3>1. AtTop(x) = [z EXCEPT !.out = outA(@)]
      BY <1>1, <1>7, <2>1 DEF AtTop
    <3> QED
      BY <1>2, <2>2, <2>3, <3>1
  <2> HIDE DEF outA
  <2>5. /\ Kept(w, z) /\ w.vtcnt = z.vtcnt /\ w.top = z.top /\ w.fired = z.fired
    <3>1. z \in Timers
      BY <2>2 DEF Kept
    <3> QED
      BY <1>4, <2>3, <3>1, TimersDef DEF Kept
  <2>6. Topped(w, x)
    BY <1>2, <2>2, <2>5 DEF Topped, Kept
  <2> QED
    BY <1>7, <2>4, <2>6
<1>8. CASE Family(x.wgm) = "PFCPWM"
  <2>1. PICK w : w = [y EXCEPT !.out = outA(x.out)]
    OBVIOUS
  <2>2. AtTop(x) = w
    <3>1. AtTop(x) = [y EXCEPT !.out = outA(@)]
      BY <1>1, <1>8 DEF AtTop
    <3> QED
      BY <1>2, <2>1, <3>1
  <2> HIDE DEF outA
  <2>3. /\ Kept(w, y) /\ w.vtcnt = y.vtcnt /\ w.top = y.top /\ w.fired = y.fired
    <3>1. y \in Timers
      BY <1>2 DEF Kept
    <3> QED
      BY <1>4, <2>1, <3>1, TimersDef DEF Kept
  <2>4. Topped(w, x)
    BY <1>2, <2>3 DEF Topped, Kept
  <2> QED
    BY <1>8, <2>2, <2>4
<1>9. CASE Family(x.wgm) \notin {"CTC", "FASTPWM", "PCPWM", "PFCPWM"}
  <2>1. AtTop(x) = x
    BY <1>9 DEF AtTop
  <2> QED
    BY <1>9, <2>1 DEF Topped, Kept
<1> QED
  BY <1>5, <1>6, <1>7, <1>8, <1>9

(* Compare events change only outputs and flags. *)
LEMMA AtCompareType ==
  ASSUME NEW x \in Timers, NEW last
  PROVE  LET y == AtCompare(x, last)
         IN  /\ Kept(y, x) /\ x.fired \subseteq y.fired
             /\ y.vtcnt = x.vtcnt /\ y.top = x.top /\ y.compare = x.compare
             /\ Family(x.wgm) = "FASTPWM" /\ 0 \in Units /\ Source(x.wgm) # "OCRA" =>
                  y.out[0] = IF x.compare[0] = last
                             THEN SetPWMCompareOutput(x.com[0], x.out[0], FALSE) ELSE x.out[0]
<1> DEFINE output(i) ==
             CASE ~WGMisPWM(x.wgm) -> SetCompareOutput(x.com[i], x.out[i])
               [] Family(x.wgm) = "FASTPWM" -> SetPWMCompareOutput(x.com[i], x.out[i], FALSE)
               [] OTHER -> SetPWMCompareOutput(x.com[i], x.out[i], x.down)
           M == Matching(x, last)
<1>1. /\ x.vtcnt \in Longs /\ x.com \in [Units -> Coms] /\ x.out \in [Units -> BOOLEAN]
      /\ x.down \in BOOLEAN
  BY TimersDef
<1>2. PICK z : z = Fire(x, M)
  OBVIOUS
<1>3. /\ Kept(z, x) /\ x.fired \subseteq z.fired
      /\ z.vtcnt = x.vtcnt /\ z.top = x.top /\ z.compare = x.compare /\ z.out = x.out
  BY <1>2, FireType
<1>4. PICK o : o = [i \in Units |-> IF i \in M THEN output(i) ELSE x.out[i]]
  OBVIOUS
<1>5. o \in [Units -> BOOLEAN]
  <2>1. ASSUME NEW i \in Units PROVE output(i) \in BOOLEAN
    <3>1. x.com[i] \in Coms /\ x.out[i] \in BOOLEAN
      BY <1>1
    <3>2. /\ SetCompareOutput(x.com[i], x.out[i]) \in BOOLEAN
          /\ SetPWMCompareOutput(x.com[i], x.out[i], FALSE) \in BOOLEAN
          /\ SetPWMCompareOutput(x.com[i], x.out[i], x.down) \in BOOLEAN
      BY <1>1, <3>1, OutputType
    <3> QED
      BY <3>2
  <2> HIDE DEF output, M
  <2> QED
    BY <1>1, <1>4, <2>1
<1>6. PICK y : y = [z EXCEPT !.out = o]
  OBVIOUS
<1>7. AtCompare(x, last) = y
  BY <1>2, <1>3, <1>4, <1>6 DEF AtCompare
<1>8. Family(x.wgm) = "FASTPWM" /\ 0 \in Units /\ Source(x.wgm) # "OCRA" =>
        o[0] = IF x.compare[0] = last
               THEN SetPWMCompareOutput(x.com[0], x.out[0], FALSE) ELSE x.out[0]
  BY <1>4 DEF Matching, WGMisPWM
<1> HIDE DEF output, M
<1>9. /\ Kept(y, z) /\ y.out = o /\ y.vtcnt = z.vtcnt
      /\ y.top = z.top /\ y.compare = z.compare /\ y.fired = z.fired
  <2>1. z \in Timers
    BY <1>3 DEF Kept
  <2> QED
    BY <1>5, <1>6, <2>1, TimersDef DEF Kept
<1> QED
  BY <1>3, <1>7, <1>8, <1>9 DEF Kept
-----------------------------------------------------------------------------
(* The count before the events: one more, in the width of the variable and *)
(* then of the counter; a normal mode counter overflows.                   *)
Stepped(z, x) ==
  /\ Kept(z, x) /\ x.fired \subseteq z.fired
  /\ z.top = x.top /\ z.compare = x.compare /\ z.out = x.out
  /\ z.vtcnt \in Counts
  /\ x.vtcnt < MaxCount => z.vtcnt = x.vtcnt + 1
  /\ x.vtcnt = MaxCount \/ x.vtcnt = LongMax => z.vtcnt = 0
  /\ Family(x.wgm) = "NORMAL" /\ MaxCount <= x.vtcnt /\ x.vtcnt < LongMax => TOV \in z.fired

LEMMA SteppedType ==
  ASSUME NEW x \in Timers, NEW y, y = [x EXCEPT !.vtcnt = Long(x.vtcnt + 1)],
         NEW z, z = IF y.vtcnt > MaxCount THEN [AtMax(y) EXCEPT !.vtcnt = @ % (MaxCount + 1)] ELSE y
  PROVE  Stepped(z, x)
<1>1. x.vtcnt \in Longs /\ x.vtcnt \in Nat
  BY TimersDef, TimerAssumption DEF Longs
<1>2. PICK n \in Longs : n = Long(x.vtcnt + 1)
  BY <1>1, LongType
<1>3. /\ n \in Nat
      /\ x.vtcnt < LongMax => n = x.vtcnt + 1
      /\ x.vtcnt = LongMax => n = 0
  BY <1>1, <1>2, LongType, TimerAssumption DEF Longs
<1>4. /\ Kept(y, x) /\ y.vtcnt = n /\ y.fired = x.fired
      /\ y.top = x.top /\ y.compare = x.compare /\ y.out = x.out
  BY <1>2, TimersDef DEF Kept
<1>5. CASE n > MaxCount
  <2>1. PICK a : a = AtMax(y)
    OBVIOUS
  <2>2. /\ Kept(a, y) /\ y.fired \subseteq a.fired
        /\ a.vtcnt = n /\ a.top = y.top /\ a.compare = y.compare /\ a.out = y.out
        /\ Family(y.wgm) = "NORMAL" => TOV \in a.fired
    BY <1>4, <2>1, AtMaxType DEF Kept
  <2>3. PICK m \in Counts : m = n % (MaxCount + 1)
    BY <1>3, Masked, TimerAssumption DEF Counts
  <2>4. m \in Longs
    BY <2>3, CountsAreLong
  <2>5. z = [a EXCEPT !.vtcnt = m]
    BY <1>4, <1>5, <2>1, <2>2, <2>3
  <2>6. a \in Timers
    BY <2>2 DEF Kept
  <2>7. /\ Kept(z, a) /\ z.vtcnt = m /\ z.fired = a.fired
        /\ z.top = a.top /\ z.compare = a.compare /\ z.out = a.out
    BY <2>4, <2>5, <2>6, TimersDef DEF Kept
  <2>8. Kept(z, x)
    BY <1>4, <2>2, <2>7 DEF Kept
  <2>9. x.fired \subseteq z.fired /\ z.top = x.top /\ z.compare = x.compare /\ z.out = x.out
    BY <1>4, <2>2, <2>7
  <2>10. ~(x.vtcnt < MaxCount) /\ x.vtcnt # LongMax
    BY <1>1, <1>3, <1>5, TimerAssumption DEF Longs
  <2>11. x.vtcnt = MaxCount => m = 0
    BY <1>3, <2>3, <2>10, Masked, TimerAssumption
  <2>12. Family(x.wgm) = "NORMAL" => TOV \in z.fired
    BY <1>4, <2>2, <2>7 DEF Kept
  <2> QED
    BY <2>3, <2>7, <2>8, <2>9, <2>10, <2>11, <2>12 DEF Stepped
<1>6. CASE ~(n > MaxCount)
  <2>1. z = y
    BY <1>4, <1>6
  <2>2. n \in Counts
    BY <1>3, <1>6, TimerAssumption DEF Counts
  <2>3. /\ x.vtcnt < MaxCount => n = x.vtcnt + 1
        /\ x.vtcnt = MaxCount \/ x.vtcnt = LongMax => n = 0
        /\ ~(MaxCount <= x.vtcnt /\ x.vtcnt < LongMax)
    BY <1>1, <1>3, <1>6, TimerAssumption DEF Longs
  <2> QED
    BY <1>4, <2>1, <2>2, <2>3 DEF Stepped
<1> QED
  BY <1>5, <1>6

(* What counting up makes of the state. *)
TopFollows(w, x) ==
  w.top = x.top \/ (x.vtcnt = 0 /\ Source(x.wgm) = "OCRA" /\ 0 \in Units /\ w.top = x.dbl[0])

CountedNormal(w, x) ==
  /\ w.top = x.top /\ w.vtcnt \in Counts
  /\ x.vtcnt < MaxCount => w.vtcnt = x.vtcnt + 1
  /\ x.vtcnt = LongMax => w.vtcnt = 0
  /\ MaxCount <= x.vtcnt /\ x.vtcnt < LongMax => TOV \in w.fired

CountedFast(w, x) ==
  /\ TopFollows(w, x) /\ w.vtcnt \in Counts
  /\ x.vtcnt = w.top => w.vtcnt = 0 /\ TOV \in w.fired
  /\ x.vtcnt # w.top /\ x.vtcnt < MaxCount => w.vtcnt = x.vtcnt + 1
  /\ x.vtcnt # w.top /\ x.vtcnt = MaxCount => w.vtcnt = 0

CountedDuty(w, x) ==
  /\ x.vtcnt # 0 => w.compare = x.compare
  /\ x.com[0] = "CLEAR" =>
       w.out[0] = IF w.compare[0] = x.vtcnt THEN FALSE
                  ELSE IF x.vtcnt = w.top THEN TRUE ELSE x.out[0]

LEMMA CountUpType ==
  ASSUME NEW x \in Timers
  PROVE  /\ Kept(CountUp(x), x)
         /\ Family(x.wgm) = "NORMAL" => CountedNormal(CountUp(x), x)
         /\ Family(x.wgm) = "FASTPWM" => CountedFast(CountUp(x), x)
         /\ Family(x.wgm) = "FASTPWM" /\ 0 \in Units /\ Source(x.wgm) # "OCRA" =>
              CountedDuty(CountUp(x), x)
<1>1. PICK y : y = [x EXCEPT !.vtcnt = Long(x.vtcnt + 1)]
  OBVIOUS
<1>2. PICK z : z = IF y.vtcnt > MaxCount THEN [AtMax(y) EXCEPT !.vtcnt = @ % (MaxCount + 1)] ELSE y
  OBVIOUS
<1>3. Stepped(z, x)
  BY <1>1, <1>2, SteppedType
<1>4. PICK b : b = IF x.vtcnt = 0 THEN AtBottom(z) ELSE z
  OBVIOUS
<1>5. PICK c : c = IF x.vtcnt = b.top THEN AtTop(b) ELSE b
  OBVIOUS
<1>6. PICK w : w = AtCompare(c, x.vtcnt)
  OBVIOUS
<1>7. CountUp(x) = w
  BY <1>1, <1>2, <1>4, <1>5, <1>6 DEF CountUp
<1>8. z \in Timers /\ Kept(z, x)
  BY <1>3 DEF Stepped, Kept
<1>9. Bottomed(b, z) /\ b \in Timers /\ Kept(b, z)
  <2>1. Bottomed(z, z)
    BY <1>8 DEF Bottomed, Kept
  <2>2. Bottomed(b, z)
    BY <1>4, <1>8, <2>1, AtBottomType
  <2> QED
    BY <2>2 DEF Bottomed, Kept
<1>10. c \in Timers /\ Kept(c, b)
  <2>1. Kept(b, b)
    BY <1>9 DEF Kept
  <2>2. Kept(c, b)
    BY <1>5, <1>9, <2>1, AtTopType DEF Topped
  <2> QED
    BY <2>2 DEF Kept
<1>11. /\ Kept(w, c) /\ c.fired \subseteq w.fired
       /\ w.vtcnt = c.vtcnt /\ w.top = c.top /\ w.compare = c.compare
       /\ Family(c.wgm) = "FASTPWM" /\ 0 \in Units /\ Source(c.wgm) # "OCRA" =>
            w.out[0] = IF c.compare[0] = x.vtcnt
                       THEN SetPWMCompareOutput(c.com[0], c.out[0], FALSE) ELSE c.out[0]
  BY <1>6, <1>10, AtCompareType
<1>12. /\ Kept(w, x) /\ c.wgm = x.wgm /\ b.wgm = x.wgm /\ z.wgm = x.wgm
       /\ c.com = x.com /\ b.com = x.com /\ z.com = x.com /\ z.dbl = x.dbl
  BY <1>8, <1>9, <1>10, <1>11 DEF Kept
<1>13. ASSUME Family(x.wgm) = "NORMAL" PROVE CountedNormal(w, x)
  <2>1. b = z
    BY <1>4, <1>8, <1>12, <1>13, AtBottomType
  <2>2. c = b
    BY <1>5, <1>9, <1>12, <1>13, AtTopType
  <2> QED
    BY <1>3, <1>11, <1>13, <2>1, <2>2 DEF Stepped, CountedNormal
<1>14. ASSUME Family(x.wgm) = "FASTPWM" PROVE c.top = b.top /\ c.compare = b.compare
  BY <1>5, <1>9, <1>12, <1>14, AtTopType DEF ToppedFast
<1>15. ASSUME Family(x.wgm) = "FASTPWM" PROVE CountedFast(w, x)
  <2>1. b.vtcnt = z.vtcnt /\ TopFollows(b, x)
    BY <1>3, <1>4, <1>9, <1>12 DEF Bottomed, Stepped, TopFollows
  <2>2. TopFollows(w, x) /\ w.top = b.top
    BY <1>11, <1>14, <1>15, <2>1 DEF TopFollows
  <2>3. CASE x.vtcnt = b.top
    <3>1. c.vtcnt = 0 /\ TOV \in c.fired
      BY <1>5, <1>9, <1>12, <1>15, <2>3, AtTopType DEF ToppedFast
    <3> QED
      BY <1>11, <2>2, <2>3, <3>1, CountsAreLong DEF CountedFast
  <2>4. CASE x.vtcnt # b.top
    <3>1. w.vtcnt = z.vtcnt
      BY <1>5, <1>11, <2>1, <2>4
    <3> QED
      BY <1>3, <2>2, <2>4, <3>1 DEF CountedFast, Stepped
  <2> QED
    BY <2>3, <2>4
<1>16. ASSUME Family(x.wgm) = "FASTPWM", 0 \in Units, Source(x.wgm) # "OCRA"
       PROVE  CountedDuty(w, x)
  <2>1. ASSUME x.vtcnt # 0 PROVE w.compare = x.compare
    BY <1>3, <1>4, <1>11, <1>14, <1>16, <2>1 DEF Stepped
  <2>2. ASSUME x.com[0] = "CLEAR"
        PROVE  w.out[0] = IF w.compare[0] = x.vtcnt THEN FALSE
                          ELSE IF x.vtcnt = w.top THEN TRUE ELSE x.out[0]
    <3>1. \A old : /\ SetPWMCompareOutput("CLEAR", old, FALSE) = FALSE
                   /\ SetPWMCompareOutput("CLEAR", old, TRUE) = TRUE
      BY DEF SetPWMCompareOutput
    <3>2. b.out = x.out
      BY <1>3, <1>9 DEF Stepped, Bottomed
    <3>3. c.out[0] = IF x.vtcnt = b.top THEN TRUE ELSE x.out[0]
      <4>1. CASE x.vtcnt = b.top
        <5>1. c.out = [i \in Units |-> SetPWMCompareOutput(b.com[i], b.out[i], TRUE)]
          BY <1>5, <1>9, <1>12, <1>16, <4>1, AtTopType DEF ToppedFast
        <5>2. c.out[0] = SetPWMCompareOutput(b.com[0], b.out[0], TRUE)
          BY <1>16, <5>1, Zenon
        <5>3. c.out[0] = TRUE
          BY <1>12, <2>2, <3>1, <5>2, Zenon
        <5> QED
          BY <4>1, <5>3, Zenon
      <4>2. CASE x.vtcnt # b.top
        BY <1>5, <3>2, <4>2
      <4> QED
        BY <4>1, <4>2
    <3>4. w.out[0] = IF w.compare[0] = x.vtcnt THEN FALSE ELSE c.out[0]
      BY <1>11, <1>12, <1>16, <2>2, <3>1
    <3> QED
      BY <1>11, <1>14, <1>16, <3>3, <3>4
  <2> QED
    BY <2>1, <2>2 DEF CountedDuty
<1> QED
  BY <1>7, <1>12, <1>13, <1>15, <1>16

(* Up and down counting stays within the width of the variable. *)
LEMMA CountUpDownType ==
  ASSUME NEW x \in Timers
  PROVE  CountUpDown(x) \in Timers /\ CountUpDown(x).wgm = x.wgm
<1>1. x.vtcnt \in Longs /\ x.vtcnt \in Nat
  BY TimersDef, TimerAssumption DEF Longs
<1>2. PICK y : y = AtCompare(x, x.vtcnt)
  OBVIOUS
<1>3. y \in Timers /\ y.wgm = x.wgm
  <2>1. Kept(y, x)
    BY <1>2, AtCompareType
  <2> QED
    BY <2>1 DEF Kept
<1>4. PICK z : z = IF x.vtcnt = 0 THEN AtBottom(y) ELSE IF x.vtcnt = y.top THEN AtTop(y) ELSE y
  OBVIOUS
<1>5. z \in Timers /\ z.wgm = x.wgm
  BY <1>3, <1>4, AtBottomType, AtTopType DEF Bottomed, Topped, Kept
<1>6. PICK n \in Longs : n = Long(IF z.down THEN x.vtcnt + LongMax ELSE x.vtcnt + 1)
  <2>1. (IF z.down THEN x.vtcnt + LongMax ELSE x.vtcnt + 1) \in Nat
    BY <1>1, TimerAssumption
  <2> QED
    BY <2>1, LongType
<1>7. PICK d \in BOOLEAN : d = IF z.down THEN n # 0 ELSE n = z.top
  BY Zenon
<1>8. PICK w : w = [z EXCEPT !.vtcnt = n, !.down = d]
  OBVIOUS
<1>9. CountUpDown(x) = w
  BY <1>2, <1>4, <1>6, <1>7, <1>8 DEF CountUpDown
<1>10. w \in Timers /\ w.wgm = z.wgm
  BY <1>5, <1>8, TimersDef
<1> QED
  BY <1>5, <1>9, <1>10

LEMMA CountTimerType ==
  ASSUME NEW x \in Timers
  PROVE  CountTimer(x) \in Timers /\ CountTimer(x).wgm = x.wgm
<1>1. Kept(CountUp(x), x)
  BY CountUpType
<1> QED
  BY <1>1, CountUpDownType DEF CountTimer, Kept
-----------------------------------------------------------------------------
(* A fast PWM mode counts up, to a top that OCRA or a fixed width sets     *)
(* within the width of the counter.                                        *)
InRange(x) ==
  Family(x.wgm) = "FASTPWM" =>
    /\ ~x.updown
    /\ Source(x.wgm) = "OCRA" => x.top <= MaxCount
    /\ Source(x.wgm) \in {"8BIT", "9BIT", "10BIT"} => x.top = Width(x.wgm)

TopInRange == InRange(t)

(* The counts since the last overflow are bounded by the counter: it runs  *)
(* at most once from above the top to the maximum before it counts from    *)
(* zero to the top.                                                        *)
IdleIsCounted ==
  UpCounting /\ t.top <= MaxCount =>
    /\ t.vtcnt > MaxCount => idle = 0
    /\ t.vtcnt <= MaxCount /\ Family(t.wgm) = "NORMAL" => idle <= MaxCount + 1 + t.vtcnt
    /\ t.vtcnt <= t.top /\ Family(t.wgm) = "FASTPWM" => idle <= MaxCount + 1 + t.vtcnt
    /\ t.top < t.vtcnt /\ t.vtcnt <= MaxCount /\ Family(t.wgm) = "FASTPWM" => idle <= t.vtcnt

(* In a known period of fast PWM the counter is not above its top. *)
SteadyCounts == FixedFast /\ period # "unknown" => 0 \in Units /\ t.vtcnt <= t.top

(* The noise canceler follows the pin since it took its first sample, and  *)
(* since the input changed it has counted less equal samples than there    *)
(* were; before that its counter is what it was left with.                 *)
CancelerCounts ==
  Capture /\ icap.noise =>
    /\ same > 0 => icap.ncstate = seen
    /\ changed => same > 0 /\ icap.nc + 1 <= same

Inv == TypeOK /\ TopInRange /\ IdleIsCounted /\ SteadyCounts /\ DutyCycle /\ CancelerCounts

LEMMA InitInv == Init => Inv
<1> SUFFICES ASSUME Init PROVE Inv
  OBVIOUS
<1>1. 0 \in Longs /\ MaxCount \in Longs /\ 0 \in Modes
  BY CountsAreLong DEF Modes
<1>2. ResetTimer \in Timers
  BY <1>1, CountsAreLong, TimersDef DEF ResetTimer, Coms
<1>3. icap \in Captures
  BY <1>1 DEF Init, Captures, Longs
<1>4. TypeOK
  <2>1. running \in BOOLEAN /\ seen \in BOOLEAN /\ changed \in BOOLEAN
    BY DEF Init
  <2>2. idle \in Nat /\ same \in 0 .. 6 /\ period \in {"unknown", "below", "top"}
    BY DEF Init
  <2>3. irqmask \subseteq Lines /\ irqflags \subseteq Lines /\ irqPartnerList \subseteq Lines
    BY DEF Init
  <2> QED
    BY <1>2, <1>3, <2>1, <2>2, <2>3 DEF Init, TypeOK
<1>5. t.wgm = 0 /\ Family(0) = "NORMAL" /\ t.vtcnt = 0
  BY DEF Init, ResetTimer, Family, WGM
<1>6. TopInRange /\ IdleIsCounted /\ SteadyCounts /\ DutyCycle /\ CancelerCounts
  BY <1>5, TimerAssumption
     DEF Init, TopInRange, InRange, IdleIsCounted, SteadyCounts, DutyCycle, CancelerCounts, FixedFast
<1> QED
  BY <1>4, <1>6 DEF Inv

(* A change of the mode takes over the limits of the new one. *)
LEMMA ChangeWGMType ==
  ASSUME NEW x \in Timers, InRange(x), icap \in Captures, NEW m \in Modes
  PROVE  ChangeWGM(x, m) \in Timers /\ InRange(ChangeWGM(x, m))
<1>1. icap.reg \in Longs /\ x.top \in Longs
  BY TimersDef DEF Captures, Longs
<1>2. x.compare \in [Units -> Counts] /\ x.down \in BOOLEAN
  BY TimersDef
<1> DEFINE Top == CASE Source(m) = "MAX" -> MaxCount [] Source(m) = "8BIT" -> Top8
                    [] Source(m) = "9BIT" -> Top9 [] Source(m) = "10BIT" -> Top10
                    [] Source(m) = "OCRA" -> IF 0 \in Units THEN x.compare[0] ELSE 0
                    [] Source(m) = "ICR" -> icap.reg
                    [] OTHER -> x.top
<1>3. Top \in Longs
  <2>1. Top8 \in Longs /\ Top9 \in Longs /\ Top10 \in Longs /\ 0 \in Longs /\ MaxCount \in Longs
    BY CountsAreLong, TimerAssumption
  <2>2. 0 \in Units => x.compare[0] \in Longs
    BY <1>2, CountsAreLong
  <2> QED
    BY <1>1, <2>1, <2>2
<1>4. Source(m) = "OCRA" => Top \in Counts
  BY <1>2, CountsAreLong
<1>5. Source(m) \in {"8BIT", "9BIT", "10BIT"} => Top = Width(m)
  BY DEF Width
<1>6. PICK top \in Longs : top = Top
  BY <1>3
<1>7. PICK updown \in BOOLEAN : updown = (Family(m) \in {"PCPWM", "PFCPWM"})
  <2>1. (Family(m) \in {"PCPWM", "PFCPWM"}) \in BOOLEAN
    OBVIOUS
  <2> QED
    BY <2>1, Zenon
<1>8. PICK down \in BOOLEAN : down = IF updown THEN FALSE ELSE x.down
  <2>1. (IF updown THEN FALSE ELSE x.down) \in BOOLEAN
    BY <1>2
  <2> QED
    BY <2>1, Zenon
<1>9. PICK y : y = [x EXCEPT !.wgm = m, !.top = top, !.updown = updown, !.down = down]
  OBVIOUS
<1>10. PICK r : r = [x EXCEPT !.wgm = m]
  OBVIOUS
<1>11. ChangeWGM(x, m) = IF m = x.wgm THEN x ELSE IF Family(m) = "RESERVED" THEN r ELSE y
  BY <1>6, <1>7, <1>8, <1>9, <1>10 DEF ChangeWGM
<1> HIDE DEF Top
<1>12. y \in Timers /\ y.wgm = m /\ y.top = top /\ y.updown = updown
  BY <1>9, TimersDef
<1>13. r \in Timers /\ r.wgm = m
  BY <1>10, TimersDef
<1>14. InRange(y)
  <2>1. Family(m) = "FASTPWM" => ~updown
    BY <1>7
  <2>2. Source(m) = "OCRA" => top <= MaxCount
    BY <1>4, <1>6, TimerAssumption DEF Counts
  <2> QED
    BY <1>5, <1>6, <1>12, <2>1, <2>2 DEF InRange
<1>15. Family(m) = "RESERVED" => InRange(r)
  BY <1>13 DEF InRange
<1> QED
  BY <1>11, <1>12, <1>13, <1>14, <1>15

(* A write after which the history starts anew needs no more than types,   *)
(* limits and a canceler that still counts.                                *)
LEMMA Restarted ==
  ASSUME TypeOK', InRange(t'), period' = "unknown", idle' = 0, CancelerCounts'
  PROVE  Inv'
<1>1. TopInRange' /\ SteadyCounts' /\ DutyCycle'
  BY DEF TopInRange, SteadyCounts, DutyCycle
<1>2. IdleIsCounted'
  <2>1. t'.vtcnt \in Nat
    BY TimersDef, TimerAssumption DEF TypeOK, Longs
  <2> QED
    BY <2>1, TimerAssumption DEF IdleIsCounted
<1> QED
  BY <1>1, <1>2 DEF Inv

(* A step that leaves counter, capture and history alone changes nothing   *)
(* but types.                                                              *)
LEMMA Untouched ==
  ASSUME Inv, TypeOK', UNCHANGED <<t, running, icap, history>>
  PROVE  Inv'
  BY DEF Inv, TopInRange, IdleIsCounted, SteadyCounts, DutyCycle, CancelerCounts, history,
         samples, FixedFast, UpCounting
-----------------------------------------------------------------------------
(* One sample of the input capture: the noise canceler keeps counting and, *)
(* once its input has changed, lets a new level through after five equal   *)
(* samples only.                                                           *)
LEMMA SampleInv ==
  ASSUME TypeOK, CancelerCounts, NEW x \in Timers, x.wgm = t.wgm, InputCapture(x),
         IF Sampled
         THEN /\ seen' = icap.pin
              /\ same' = IF same = 0 \/ icap.pin # seen THEN 1
                         ELSE IF same < 6 THEN same + 1 ELSE same
              /\ changed' = (changed \/ (same > 0 /\ icap.pin # seen))
         ELSE UNCHANGED samples
  PROVE  /\ icap' \in Captures /\ seen' \in BOOLEAN /\ same' \in 0 .. 6 /\ changed' \in BOOLEAN
         /\ CancelerCounts'
         /\ icap.noise /\ icap'.state # icap.state => same >= 5 \/ ~changed
<1>1. /\ icap \in [reg : Longs, pin : BOOLEAN, state : BOOLEAN, ncstate : BOOLEAN,
                   nc : 0 .. 4, rising : BOOLEAN, noise : BOOLEAN]
      /\ seen \in BOOLEAN /\ same \in 0 .. 6 /\ changed \in BOOLEAN /\ Capture \in BOOLEAN
  BY TimerAssumption DEF TypeOK, Captures, Longs
<1>2. CASE ~Capture \/ WGMuseICR(t.wgm)
  <2>1. icap' = icap /\ UNCHANGED samples
    BY <1>2 DEF InputCapture, Sampled
  <2> QED
    BY <1>1, <2>1 DEF CancelerCounts, Captures, Longs, samples
<1>3. CASE ~(~Capture \/ WGMuseICR(t.wgm))
  <2>1. PICK f : f = Filtered(icap)
    OBVIOUS
  <2>2. /\ f = IF ~icap.noise THEN <<icap.pin, icap.nc, icap.ncstate>>
               ELSE IF icap.pin # icap.ncstate THEN <<icap.state, 0, icap.pin>>
               ELSE IF icap.nc < 4 THEN <<icap.state, icap.nc + 1, icap.ncstate>>
               ELSE <<icap.pin, icap.nc, icap.ncstate>>
    BY <2>1 DEF Filtered
  <2>3. PICK state \in BOOLEAN : state = f[1]
    <3>1. f[1] \in {icap.pin, icap.state}
      BY <2>2
    <3> QED
      BY <1>1, <3>1, Zenon
  <2>4. PICK ncstate \in BOOLEAN : ncstate = f[3]
    <3>1. f[3] \in {icap.pin, icap.ncstate}
      BY <2>2
    <3> QED
      BY <1>1, <3>1, Zenon
  <2>5. PICK nc \in 0 .. 4 : nc = f[2]
    <3>1. icap.nc \in 0 .. 4
      BY <1>1
    <3>2. f[2] = icap.nc \/ f[2] = 0 \/ (icap.nc < 4 /\ f[2] = icap.nc + 1)
      BY <2>2
    <3> QED
      BY <3>1, <3>2
  <2>6. PICK reg \in Longs : reg = IF Edge(icap) THEN x.vtcnt ELSE icap.reg
    BY <1>1, TimersDef
  <2>7. icap' = [icap EXCEPT !.state = state, !.nc = nc, !.ncstate = ncstate, !.reg = reg]
    BY <1>3, <2>1, <2>3, <2>4, <2>5, <2>6 DEF InputCapture
  <2>8. /\ icap' \in [reg : Longs, pin : BOOLEAN, state : BOOLEAN, ncstate : BOOLEAN,
                      nc : 0 .. 4, rising : BOOLEAN, noise : BOOLEAN]
        /\ icap'.noise = icap.noise /\ icap'.state = state
        /\ icap'.ncstate = ncstate /\ icap'.nc = nc
    BY <1>1, <2>7
  <2>9. CASE ~icap.noise
    <3>1. UNCHANGED samples
      BY <2>9 DEF Sampled
    <3> QED
      BY <1>1, <2>8, <2>9, <3>1 DEF CancelerCounts, Captures, Longs, samples
  <2>10. CASE icap.noise
    <3>1. /\ seen' = icap.pin
          /\ same' = IF same = 0 \/ icap.pin # seen THEN 1
                     ELSE IF same < 6 THEN same + 1 ELSE same
          /\ changed' = (changed \/ (same > 0 /\ icap.pin # seen))
      BY <1>3, <2>10 DEF Sampled
    <3>2. seen' \in BOOLEAN /\ changed' \in BOOLEAN
      BY <1>1, <3>1, Zenon
    <3>3. same' \in 0 .. 6 /\ same' > 0
      BY <1>1, <3>1
    <3>4. /\ same > 0 => icap.ncstate = seen
          /\ changed => same > 0 /\ icap.nc + 1 <= same
      BY <1>3, <2>10 DEF CancelerCounts
    <3>5. ncstate = icap.pin
      BY <2>2, <2>4, <2>10
    <3>6. ASSUME changed' PROVE nc + 1 <= same'
      <4>1. changed \/ (same > 0 /\ icap.pin # seen)
        BY <3>1, <3>6, Zenon
      <4>2. CASE same > 0 /\ icap.pin # seen
        <5>1. icap.pin # icap.ncstate
          BY <3>4, <4>2, Zenon
        <5>2. nc = 0
          BY <2>2, <2>5, <2>10, <5>1
        <5> QED
          BY <3>3, <5>2
      <4>3. CASE changed /\ icap.pin = seen
        <5>1. same > 0 /\ icap.nc + 1 <= same /\ icap.pin = icap.ncstate
          BY <3>4, <4>3, Zenon
        <5>2. nc = icap.nc + 1 \/ (nc = icap.nc /\ nc = 4)
          BY <1>1, <2>2, <2>5, <2>10, <5>1
        <5>3. same' = IF same < 6 THEN same + 1 ELSE same
          BY <1>1, <3>1, <4>3, <5>1
        <5> QED
          BY <1>1, <5>1, <5>2, <5>3
      <4> QED
        BY <3>4, <4>1, <4>2, <4>3, Zenon
    <3>7. CancelerCounts'
      BY <2>8, <3>1, <3>3, <3>5, <3>6 DEF CancelerCounts
    <3>8. ASSUME state # icap.state, changed PROVE same >= 5
      <4>1. icap.nc = 4
        BY <1>1, <2>2, <2>3, <2>10, <3>8
      <4> QED
        BY <1>1, <3>4, <3>8, <4>1
    <3> QED
      BY <2>8, <3>2, <3>3, <3>7, <3>8 DEF Captures, Longs
  <2> QED
    BY <2>9, <2>10
<1> QED
  BY <1>2, <1>3

(* One count of a counter that counts up keeps the bound on the time since *)
(* the last overflow.                                                      *)
LEMMA IdleInv ==
  ASSUME TypeOK, TopInRange, IdleIsCounted, NEW x \in Timers, x = CountUp(t), UpCounting,
         idle' = IF TOV \in x.fired THEN 0 ELSE idle + 1,
         t'.vtcnt = x.vtcnt, t'.top = x.top, t'.wgm = t.wgm
  PROVE  IdleIsCounted'
<1>1. /\ t \in Timers /\ t.vtcnt \in Nat /\ t.vtcnt <= LongMax /\ t.top \in Nat
      /\ t.dbl \in [Units -> Counts]
      /\ idle \in Nat /\ MaxCount \in Nat /\ LongMax \in Nat /\ MaxCount < LongMax
  BY TimersDef, TimerAssumption DEF TypeOK, Longs
<1>2. ASSUME Family(t.wgm) = "NORMAL" PROVE IdleIsCounted'
  <2>1. CountedNormal(x, t)
    BY <1>1, <1>2, CountUpType
  <2>2. x.vtcnt \in Nat /\ x.vtcnt <= MaxCount /\ x.top = t.top
    BY <1>1, <2>1 DEF CountedNormal, Counts
  <2> SUFFICES ASSUME t.top <= MaxCount PROVE idle' <= MaxCount + 1 + x.vtcnt
    BY <1>1, <1>2, <2>2 DEF IdleIsCounted
  <2>3. CASE t.vtcnt < MaxCount
    BY <1>1, <1>2, <2>1, <2>3 DEF CountedNormal, IdleIsCounted
  <2>4. CASE MaxCount <= t.vtcnt /\ t.vtcnt < LongMax
    BY <1>1, <2>1, <2>2, <2>4 DEF CountedNormal
  <2>5. CASE t.vtcnt = LongMax
    BY <1>1, <1>2, <2>2, <2>5 DEF IdleIsCounted
  <2> QED
    BY <1>1, <2>3, <2>4, <2>5
<1>3. ASSUME Family(t.wgm) = "FASTPWM" PROVE IdleIsCounted'
  <2>1. CountedFast(x, t)
    BY <1>1, <1>3, CountUpType
  <2>2. /\ x.vtcnt \in Nat /\ x.vtcnt <= MaxCount
        /\ x.top = t.top \/ (t.vtcnt = 0 /\ Source(t.wgm) = "OCRA" /\ x.top \in Counts)
    BY <1>1, <2>1 DEF CountedFast, TopFollows, Counts
  <2>3. x.top \in Nat /\ (x.top <= MaxCount => t.top <= MaxCount)
    BY <1>1, <1>3, <2>2 DEF TopInRange, InRange, Counts
  <2> SUFFICES ASSUME x.top <= MaxCount
               PROVE  /\ x.vtcnt <= x.top => idle' <= MaxCount + 1 + x.vtcnt
                      /\ x.top < x.vtcnt => idle' <= x.vtcnt
    BY <1>1, <1>3, <2>2 DEF IdleIsCounted
  <2>4. /\ t.vtcnt > MaxCount => idle = 0
        /\ t.vtcnt <= t.top => idle <= MaxCount + 1 + t.vtcnt
        /\ t.top < t.vtcnt /\ t.vtcnt <= MaxCount => idle <= t.vtcnt
    BY <1>3, <2>3 DEF IdleIsCounted
  <2>5. CASE t.vtcnt = x.top
    BY <1>1, <2>1, <2>2, <2>5 DEF CountedFast
  <2>6. CASE t.vtcnt # x.top /\ t.vtcnt < MaxCount
    <3>1. x.vtcnt = t.vtcnt + 1
      BY <2>1, <2>6 DEF CountedFast
    <3>2. CASE t.vtcnt = 0
      BY <1>1, <2>3, <2>4, <2>6, <3>1, <3>2
    <3>3. CASE t.vtcnt # 0
      BY <1>1, <2>2, <2>3, <2>4, <2>6, <3>1, <3>3
    <3> QED
      BY <3>2, <3>3
  <2>7. CASE t.vtcnt # x.top /\ t.vtcnt = MaxCount
    <3>1. x.vtcnt = 0
      BY <2>1, <2>7 DEF CountedFast
    <3>2. MaxCount # 0
      BY TimerAssumption DEF Counts
    <3>3. t.top < t.vtcnt
      BY <1>1, <2>2, <2>3, <2>7, <3>2
    <3> QED
      BY <1>1, <2>3, <2>4, <2>7, <3>1, <3>3
  <2>8. CASE t.vtcnt > MaxCount
    BY <1>1, <2>2, <2>3, <2>4, <2>8
  <2> QED
    BY <1>1, <2>5, <2>6, <2>7, <2>8
<1> QED
  BY <1>2, <1>3 DEF UpCounting

(* What a count does to the history of the period. *)
Begun(old) ==
  IF t.vtcnt # t.top THEN old
  ELSE IF 0 \notin Units THEN "unknown"
  ELSE IF t.compare[0] = t.top THEN "top" ELSE "below"

(* One count of fast PWM with a fixed top: the output stays what the       *)
(* counter and the compare value in effect say, or low.                    *)
LEMMA DutyInv ==
  ASSUME TypeOK, TopInRange, SteadyCounts, DutyCycle, FixedFast, NEW x \in Timers, x = CountUp(t),
         period' = Begun(period),
         t'.vtcnt = x.vtcnt, t'.top = x.top, t'.wgm = t.wgm, t'.com = x.com, t'.out = x.out,
         t'.compare = x.compare
  PROVE  SteadyCounts' /\ DutyCycle'
<1>1. t \in Timers /\ t.vtcnt \in Nat /\ t.top \in Counts \ {0} /\ t.top = Width(t.wgm)
  <2>1. Width(t.wgm) \in Counts \ {0}
    BY TimerAssumption DEF Width, FixedFast
  <2>2. t.top = Width(t.wgm)
    BY DEF FixedFast, TopInRange, InRange
  <2>3. t \in Timers /\ t.vtcnt \in Nat
    BY TimersDef, TimerAssumption DEF TypeOK, Longs
  <2> QED
    BY <2>1, <2>2, <2>3
<1>2. t.top \in Nat /\ 0 < t.top /\ t.top <= MaxCount /\ MaxCount \in Nat
  BY <1>1, TimerAssumption DEF Counts
<1>3. Family(t.wgm) = "FASTPWM" /\ Source(t.wgm) # "OCRA"
  BY DEF FixedFast
<1>4. Kept(x, t) /\ CountedFast(x, t) /\ x.top = t.top
  <2>1. Kept(x, t) /\ CountedFast(x, t)
    BY <1>1, <1>3, CountUpType
  <2> QED
    BY <1>3, <2>1 DEF CountedFast, TopFollows
<1> SUFFICES ASSUME period' # "unknown"
             PROVE  /\ 0 \in Units /\ x.vtcnt <= x.top
                    /\ x.com[0] = "CLEAR" =>
                         /\ period' = "below" => x.out[0] = (x.vtcnt <= x.compare[0])
                         /\ period' = "top" => ~x.out[0]
  <2>1. DutyCycle' = (FixedFast' /\ x.com[0] = "CLEAR" =>
                        /\ period' = "below" => x.out[0] = (x.vtcnt <= x.compare[0])
                        /\ period' = "top" => ~x.out[0])
    BY Zenon DEF DutyCycle
  <2>2. SteadyCounts' = (FixedFast' /\ period' # "unknown" => 0 \in Units /\ x.vtcnt <= x.top)
    BY Zenon DEF SteadyCounts
  <2>3. "unknown" # "below" /\ "unknown" # "top"
    OBVIOUS
  <2> QED
    BY <2>1, <2>2, <2>3, Zenon
<1>5. /\ t.vtcnt = t.top => period' = IF t.compare[0] = t.top THEN "top" ELSE "below"
      /\ 0 \in Units
      /\ t.vtcnt # t.top => period' = period /\ period # "unknown" /\ t.vtcnt < t.top
  <2>1. CASE t.vtcnt = t.top
    BY <2>1, Zenon DEF Begun
  <2>2. CASE t.vtcnt # t.top
    <3>1. period' = period
      BY <2>2, Zenon DEF Begun
    <3> QED
      BY <1>1, <1>2, <2>2, <3>1 DEF SteadyCounts
  <2> QED
    BY <2>1, <2>2
<1>6. CountedDuty(x, t)
  BY <1>1, <1>3, <1>5, CountUpType
<1>7. x.com = t.com /\ x.compare[0] \in Nat /\ t.compare[0] \in Nat
  <2>1. x.com = t.com
    BY <1>4 DEF Kept
  <2>2. x.compare \in [Units -> Counts] /\ t.compare \in [Units -> Counts]
    BY <1>1, TimersDef
  <2>3. Counts \subseteq Nat
    BY TimerAssumption DEF Counts
  <2> QED
    BY <1>5, <2>1, <2>2, <2>3
<1>8. ASSUME x.com[0] = "CLEAR"
      PROVE  x.out[0] = IF x.compare[0] = t.vtcnt THEN FALSE
                        ELSE IF t.vtcnt = x.top THEN TRUE ELSE t.out[0]
  BY <1>6, <1>7, <1>8, Zenon DEF CountedDuty
<1>9. CASE t.vtcnt = t.top
  <2>1. x.vtcnt = 0
    BY <1>4, <1>9 DEF CountedFast
  <2>2. x.compare[0] = t.compare[0]
    BY <1>2, <1>5, <1>6, <1>9 DEF CountedDuty
  <2>3. ASSUME x.com[0] = "CLEAR", period' = "below" PROVE x.out[0] = TRUE
    <3>1. t.compare[0] # t.top
      BY <1>5, <1>9, <2>3
    <3> QED
      BY <1>4, <1>8, <1>9, <2>2, <2>3, <3>1, Zenon
  <2>4. ASSUME x.com[0] = "CLEAR", period' = "top" PROVE ~x.out[0]
    <3>1. t.compare[0] = t.top
      BY <1>5, <1>9, <2>4
    <3> QED
      BY <1>8, <1>9, <2>2, <2>4, <3>1, Zenon
  <2>5. (x.vtcnt <= x.compare[0]) = TRUE
    BY <1>7, <2>1
  <2>6. x.vtcnt <= x.top
    BY <1>2, <1>4, <2>1
  <2> QED
    BY <1>5, <2>3, <2>4, <2>5, <2>6, Zenon
<1>10. CASE t.vtcnt # t.top
  <2>1. x.vtcnt = t.vtcnt + 1 /\ x.vtcnt <= x.top
    BY <1>1, <1>2, <1>4, <1>5, <1>10 DEF CountedFast
  <2>2. ASSUME x.com[0] = "CLEAR", period' = "below"
        PROVE  x.out[0] = (x.vtcnt <= x.compare[0])
    <3>1. t.out[0] = (t.vtcnt <= t.compare[0])
      BY <1>5, <1>7, <1>10, <2>2, Zenon DEF DutyCycle
    <3>2. CASE x.compare[0] = t.vtcnt
      <4>1. x.out[0] = FALSE
        BY <1>8, <2>2, <3>2, Zenon
      <4>2. (x.vtcnt <= x.compare[0]) = FALSE
        BY <1>1, <1>7, <2>1, <3>2
      <4> QED
        BY <4>1, <4>2, Zenon
    <3>3. CASE x.compare[0] # t.vtcnt
      <4>1. x.out[0] = (t.vtcnt <= t.compare[0])
        BY <1>4, <1>8, <1>10, <2>2, <3>1, <3>3, Zenon
      <4>2. (t.vtcnt <= t.compare[0]) = (x.vtcnt <= x.compare[0])
        BY <1>1, <1>6, <1>7, <2>1, <3>3 DEF CountedDuty
      <4> QED
        BY <4>1, <4>2, Zenon
    <3> QED
      BY <3>2, <3>3
  <2>3. ASSUME x.com[0] = "CLEAR", period' = "top" PROVE ~x.out[0]
    <3>1. ~t.out[0]
      BY <1>5, <1>7, <1>10, <2>3, Zenon DEF DutyCycle
    <3> QED
      BY <1>4, <1>8, <1>10, <2>3, <3>1, Zenon
  <2> QED
    BY <1>5, <2>1, <2>2, <2>3, Zenon
<1> QED
  BY <1>9, <1>10
-----------------------------------------------------------------------------
LEMMA CpuCycleType ==
  ASSUME Inv, NEW clock \in BOOLEAN, CpuCycle(clock)
  PROVE  TypeOK' /\ CancelerCounts' /\ (icap.noise /\ icap'.state # icap.state => same >= 5 \/ ~changed)
<1>1. TypeOK /\ CancelerCounts /\ t \in Timers
  BY DEF Inv, TypeOK
<1>2. PICK x : x = IF clock THEN CountTimer(t) ELSE t
  OBVIOUS
<1>3. x \in Timers /\ x.wgm = t.wgm
  BY <1>1, <1>2, CountTimerType
<1>4. /\ t' = [x EXCEPT !.fired = {}]
      /\ InputCapture(x) /\ fireInterrupt(x.fired \cup Captured(x))
      /\ period' = IF ~(clock /\ ~t.updown) THEN period ELSE Begun(period)
      /\ idle' = IF TOV \in x.fired \/ ~UpCounting THEN 0 ELSE IF clock THEN idle + 1 ELSE idle
      /\ UNCHANGED <<running, program>>
  BY <1>2, Zenon DEF CpuCycle, Begun
<1>5. t' \in Timers
  BY <1>3, <1>4, TimersDef
<1>6. /\ icap' \in Captures /\ seen' \in BOOLEAN /\ same' \in 0 .. 6 /\ changed' \in BOOLEAN
      /\ CancelerCounts' /\ (icap.noise /\ icap'.state # icap.state => same >= 5 \/ ~changed)
  <2>1. IF Sampled
        THEN /\ seen' = icap.pin
             /\ same' = IF same = 0 \/ icap.pin # seen THEN 1
                        ELSE IF same < 6 THEN same + 1 ELSE same
             /\ changed' = (changed \/ (same > 0 /\ icap.pin # seen))
        ELSE UNCHANGED samples
    BY Zenon DEF CpuCycle
  <2> QED
    BY <1>1, <1>3, <1>4, <2>1, SampleInv
<1>7. irqmask' \subseteq Lines /\ irqflags' \subseteq Lines /\ irqPartnerList' \subseteq Lines
  <2>1. x.fired \cup Captured(x) \subseteq Lines
    BY <1>3, TimersDef DEF Captured, Lines
  <2> QED
    BY <1>1, <1>4, <2>1 DEF TypeOK, fireInterrupt
<1>8. period' \in {"unknown", "below", "top"}
  BY <1>1, <1>4 DEF TypeOK, Begun
<1>9. idle' \in Nat
  BY <1>1, <1>4 DEF TypeOK
<1>10. running' \in BOOLEAN /\ program' \in Programs
  BY <1>1, <1>4 DEF TypeOK
<1> QED
  BY <1>5, <1>6, <1>7, <1>8, <1>9, <1>10 DEF TypeOK

LEMMA CpuCycleInv ==
  ASSUME Inv, NEW clock \in BOOLEAN, CpuCycle(clock)
  PROVE  Inv'
<1>1. TypeOK /\ TopInRange /\ IdleIsCounted /\ SteadyCounts /\ DutyCycle /\ t \in Timers
  BY DEF Inv, TypeOK
<1>2. TypeOK' /\ CancelerCounts'
  BY CpuCycleType
<1>3. PICK x : x = IF clock THEN CountTimer(t) ELSE t
  OBVIOUS
<1>4. x \in Timers /\ x.wgm = t.wgm
  BY <1>1, <1>3, CountTimerType
<1>5. /\ t' = [x EXCEPT !.fired = {}]
      /\ period' = IF ~(clock /\ ~t.updown) THEN period ELSE Begun(period)
      /\ idle' = IF TOV \in x.fired \/ ~UpCounting THEN 0 ELSE IF clock THEN idle + 1 ELSE idle
      /\ running' = running /\ running
  BY <1>3, Zenon DEF CpuCycle, Begun
<1>6. /\ t'.vtcnt = x.vtcnt /\ t'.top = x.top /\ t'.updown = x.updown /\ t'.wgm = t.wgm
      /\ t'.com = x.com /\ t'.out = x.out /\ t'.compare = x.compare
  BY <1>4, <1>5, TimersDef
<1>7. t'.vtcnt \in Nat /\ t'.top \in Nat /\ MaxCount \in Nat /\ idle \in Nat
  BY <1>1, <1>2, TimersDef, TimerAssumption DEF TypeOK, Longs
<1>8. ASSUME idle' = 0 PROVE IdleIsCounted'
  BY <1>7, <1>8 DEF IdleIsCounted
<1>9. CASE ~clock
  <2>1. x = t
    BY <1>3, <1>9
  <2>2. idle' = 0 \/ (UpCounting /\ idle' = idle)
    BY <1>5, <1>9
  <2>3. IdleIsCounted'
    BY <1>1, <1>6, <1>8, <2>1, <2>2 DEF IdleIsCounted
  <2>4. period' = period
    BY <1>5, <1>9, Zenon
  <2>5. TopInRange' /\ SteadyCounts'
    BY <1>1, <1>6, <2>1, <2>4 DEF TopInRange, InRange, SteadyCounts, FixedFast
  <2>6. DutyCycle'
    BY <1>1, <1>6, <2>1, <2>4, Zenon DEF DutyCycle, FixedFast
  <2> QED
    BY <1>2, <2>3, <2>5, <2>6 DEF Inv
<1>10. CASE clock /\ t.updown
  <2>1. Family(t.wgm) # "FASTPWM"
    BY <1>1, <1>10 DEF TopInRange, InRange
  <2>2. idle' = 0
    BY <1>5, <1>10 DEF UpCounting
  <2>3. TopInRange' /\ SteadyCounts' /\ DutyCycle'
    BY <1>6, <2>1 DEF TopInRange, InRange, SteadyCounts, DutyCycle, FixedFast
  <2> QED
    BY <1>2, <1>8, <2>2, <2>3 DEF Inv
<1>11. CASE clock /\ ~t.updown
  <2>1. x = CountUp(t)
    BY <1>3, <1>11 DEF CountTimer
  <2>2. Kept(x, t)
    BY <1>1, <2>1, CountUpType
  <2>3. TopInRange'
    <3>1. ASSUME Family(t.wgm) = "FASTPWM" PROVE InRange(t')
      <4>1. CountedFast(x, t)
        BY <1>1, <2>1, <3>1, CountUpType
      <4>2. x.top = t.top \/ (Source(t.wgm) = "OCRA" /\ x.top \in Counts)
        BY <1>1, <4>1, TimersDef DEF CountedFast, TopFollows
      <4>3. x.top \in Counts => x.top <= MaxCount
        BY TimerAssumption DEF Counts
      <4> QED
        BY <1>1, <1>6, <2>2, <3>1, <4>2, <4>3 DEF TopInRange, InRange, Kept
    <3>2. ASSUME Family(t.wgm) # "FASTPWM" PROVE InRange(t')
      BY <1>6, <3>2 DEF InRange
    <3> QED
      BY <3>1, <3>2 DEF TopInRange
  <2>4. IdleIsCounted'
    <3>1. CASE UpCounting
      <4>1. idle' = IF TOV \in x.fired THEN 0 ELSE idle + 1
        BY <1>5, <1>11, <3>1
      <4> QED
        BY <1>1, <1>4, <1>6, <2>1, <3>1, <4>1, IdleInv
    <3>2. CASE ~UpCounting
      BY <1>5, <1>8, <3>2
    <3> QED
      BY <3>1, <3>2
  <2>5. SteadyCounts' /\ DutyCycle'
    <3>1. CASE FixedFast
      <4>1. period' = Begun(period)
        BY <1>5, <1>11, Zenon
      <4> QED
        BY <1>1, <1>4, <1>6, <2>1, <3>1, <4>1, DutyInv
    <3>2. CASE ~FixedFast
      BY <1>6, <3>2 DEF SteadyCounts, DutyCycle, FixedFast
    <3> QED
      BY <3>1, <3>2
  <2> QED
    BY <1>2, <2>3, <2>4, <2>5 DEF Inv
<1> QED
  BY <1>9, <1>10, <1>11

(* The values that a program writes have the types of the registers. *)
LEMMA ProgramType ==
  ASSUME TypeOK
  PROVE  /\ program.low \subseteq 0 .. 3 /\ program.high \subseteq 0 .. 3
         /\ program.com \subseteq Coms /\ program.ocr \subseteq Counts
         /\ program.tcnt \subseteq Counts /\ program.icr \subseteq Counts
         /\ program.mask \subseteq SUBSET Lines
<1>1. program \in Program
  BY TimerAssumption DEF TypeOK
<1> QED
  BY <1>1 DEF Program

(* OCR may be written in a known period: in a PWM   mode it only reaches   *)
(* the buffer.                                                             *)
LEMMA SetCompareInv ==
  ASSUME Inv, NEW i \in Units, NEW val \in program.ocr, SetCompareRegister(i, val)
  PROVE  Inv'
<1>1. TypeOK /\ TopInRange /\ IdleIsCounted /\ SteadyCounts /\ DutyCycle /\ t \in Timers
  BY DEF Inv, TypeOK
<1>2. val \in Counts /\ val \in Longs
  BY <1>1, ProgramType, CountsAreLong
<1>3. t.dbl \in [Units -> Counts] /\ t.compare \in [Units -> Counts] /\ t.top \in Longs
  BY <1>1, TimersDef
<1>4. PICK d \in [Units -> Counts] : d = [t.dbl EXCEPT ![i] = val]
  BY <1>2, <1>3
<1>5. PICK c \in [Units -> Counts] : c = IF WGMisPWM(t.wgm) THEN t.compare
                                         ELSE [t.compare EXCEPT ![i] = val]
  BY <1>2, <1>3
<1>6. PICK top \in Longs : top = IF ~WGMisPWM(t.wgm) /\ WGM[t.wgm] = <<"CTC", "OCRA">> /\ i = 0
                                 THEN val ELSE t.top
  BY <1>2, <1>3
<1>7. t' = [t EXCEPT !.dbl = d, !.compare = c, !.top = top]
  <2>1. CASE WGMisPWM(t.wgm)
    BY <1>1, <1>4, <1>5, <1>6, <2>1, TimersDef DEF SetCompareRegister
  <2>2. CASE ~WGMisPWM(t.wgm)
    BY <1>1, <1>4, <1>5, <1>6, <2>2, TimersDef DEF SetCompareRegister
  <2> QED
    BY <2>1, <2>2
<1>8. /\ t' \in Timers /\ t'.vtcnt = t.vtcnt /\ t'.top = top /\ t'.updown = t.updown
      /\ t'.wgm = t.wgm /\ t'.com = t.com /\ t'.out = t.out /\ t'.compare = c
  BY <1>1, <1>7, TimersDef
<1>9. UNCHANGED <<running, icap, queue, program, history>>
  BY DEF SetCompareRegister
<1>10. TypeOK'
  BY <1>1, <1>8, <1>9 DEF TypeOK, queue, history, samples
<1>11. ASSUME Family(t.wgm) \in {"NORMAL", "FASTPWM"} PROVE top = t.top
  BY <1>6, <1>11 DEF Family
<1>12. Family(t.wgm) = "FASTPWM" => c = t.compare
  BY <1>5 DEF WGMisPWM
<1>13. TopInRange' /\ IdleIsCounted' /\ SteadyCounts'
  BY <1>1, <1>8, <1>9, <1>11 DEF TopInRange, InRange, IdleIsCounted, SteadyCounts, FixedFast,
                                  UpCounting, history
<1>14. DutyCycle'
  <2>1. period' = period /\ FixedFast' = FixedFast
    BY <1>8, <1>9, Zenon DEF history, FixedFast
  <2> QED
    BY <1>1, <1>8, <1>12, <2>1, Zenon DEF DutyCycle, FixedFast
<1>15. CancelerCounts'
  BY <1>9 DEF Inv, CancelerCounts, history, samples
<1> QED
  BY <1>10, <1>13, <1>14, <1>15 DEF Inv

LEMMA ModeBits ==
  ASSUME NEW m \in Modes, NEW b \in 0 .. 3
  PROVE  4 * (m \div 4) + b \in Modes /\ 4 * b + (m % 4) \in Modes
  BY DEF Modes

(* The writes to the control registers, the counter and ICR start the      *)
(* history anew.                                                           *)
LEMMA WritesInv ==
  ASSUME Inv, Set_TCCRA \/ Set_TCCRB \/ Set_TCCRC \/ SetCounter \/ SetICR
  PROVE  Inv' /\ icap'.state = icap.state
<1>1. TypeOK /\ InRange(t) /\ CancelerCounts /\ t \in Timers /\ icap \in Captures
  BY DEF Inv, TypeOK, TopInRange
<1>2. t.wgm \in Modes
  BY <1>1, TimersDef
<1>3. period' = "unknown" /\ idle' = 0 /\ UNCHANGED <<queue, program, seen>>
  BY DEF Set_TCCRA, Set_TCCRB, Set_TCCRC, SetCounter, SetICR, samples
<1>4. ASSUME t' \in Timers, icap' \in Captures, running' \in BOOLEAN,
             same' \in 0 .. 6, changed' \in BOOLEAN
      PROVE  TypeOK'
  <2>1. period' \in {"unknown", "below", "top"} /\ idle' \in Nat
    BY <1>3
  <2> QED
    BY <1>1, <1>3, <1>4, <2>1 DEF TypeOK, queue
<1>5. ASSUME UNCHANGED <<running, icap, samples>>
      PROVE  /\ running' \in BOOLEAN /\ same' \in 0 .. 6 /\ changed' \in BOOLEAN
             /\ icap' \in Captures /\ CancelerCounts'
  BY <1>1, <1>5 DEF TypeOK, CancelerCounts, samples
<1>6. CASE Set_TCCRA
  <2>1. PICK low \in program.low, com \in [Units -> program.com] :
          t' = [ChangeWGM(t, (4 * (t.wgm \div 4)) + low) EXCEPT !.com = com]
    BY <1>6 DEF Set_TCCRA
  <2>2. low \in 0 .. 3 /\ com \in [Units -> Coms]
    BY <1>1, ProgramType
  <2>3. PICK y : y = ChangeWGM(t, (4 * (t.wgm \div 4)) + low)
    OBVIOUS
  <2>4. y \in Timers /\ InRange(y)
    BY <1>1, <1>2, <2>2, <2>3, ModeBits, ChangeWGMType
  <2>5. t' \in Timers /\ t'.wgm = y.wgm /\ t'.top = y.top /\ t'.updown = y.updown
    BY <2>1, <2>2, <2>3, <2>4, TimersDef
  <2>6. InRange(t')
    BY <2>4, <2>5 DEF InRange
  <2>7. UNCHANGED <<running, icap, samples>>
    BY <1>6 DEF Set_TCCRA
  <2> QED
    BY <1>3, <1>4, <1>5, <2>5, <2>6, <2>7, Restarted
<1>7. CASE Set_TCCRB
  <2>1. PICK high \in program.high : t' = ChangeWGM(t, 4 * high + (t.wgm % 4))
    BY <1>7 DEF Set_TCCRB
  <2>2. high \in 0 .. 3
    BY <1>1, ProgramType
  <2>3. t' \in Timers /\ InRange(t')
    BY <1>1, <1>2, <2>1, <2>2, ModeBits, ChangeWGMType
  <2>4. running' \in BOOLEAN
    BY <1>7 DEF Set_TCCRB
  <2>5. /\ icap' \in Captures /\ icap'.state = icap.state /\ CancelerCounts'
        /\ same' \in 0 .. 6 /\ changed' \in BOOLEAN
    <3>1. CASE program.pin
      <4>1. PICK rising \in BOOLEAN, noise \in BOOLEAN :
              /\ icap' = [icap EXCEPT !.rising = rising, !.noise = noise]
              /\ IF noise /\ ~icap.noise
                 THEN same' = 0 /\ changed' = FALSE /\ UNCHANGED seen
                 ELSE UNCHANGED samples
        BY <1>7, <3>1 DEF Set_TCCRB
      <4>2. /\ icap' \in Captures /\ icap'.state = icap.state /\ icap'.noise = noise
            /\ icap'.ncstate = icap.ncstate /\ icap'.nc = icap.nc
        BY <1>1, <4>1 DEF Captures
      <4>3. CASE noise /\ ~icap.noise
        <5>1. same' = 0 /\ changed' = FALSE
          BY <4>1, <4>3, Zenon
        <5>2. same' \in 0 .. 6 /\ ~(same' > 0)
          BY <5>1
        <5>3. changed' \in BOOLEAN /\ ~changed'
          BY <5>1, Zenon
        <5> QED
          BY <4>2, <5>2, <5>3 DEF CancelerCounts
      <4>4. CASE ~(noise /\ ~icap.noise)
        BY <1>1, <4>1, <4>2, <4>4 DEF TypeOK, CancelerCounts, samples
      <4> QED
        BY <4>2, <4>3, <4>4
    <3>2. CASE ~program.pin
      <4>1. UNCHANGED <<icap, samples>>
        BY <1>7, <3>2 DEF Set_TCCRB
      <4> QED
        BY <1>1, <4>1 DEF TypeOK, CancelerCounts, samples
    <3> QED
      BY <3>1, <3>2
  <2> QED
    BY <1>3, <1>4, <2>3, <2>4, <2>5, Restarted
<1>8. CASE Set_TCCRC
  <2>1. PICK force \in SUBSET Units :
          t' = [t EXCEPT !.out = [i \in Units |-> IF WGMisPWM(t.wgm) \/ i \notin force THEN @[i]
                                                  ELSE SetCompareOutput(t.com[i], @[i])]]
    BY <1>8 DEF Set_TCCRC
  <2>2. PICK o : o = [i \in Units |-> IF WGMisPWM(t.wgm) \/ i \notin force THEN t.out[i]
                                      ELSE SetCompareOutput(t.com[i], t.out[i])]
    OBVIOUS
  <2>3. o \in [Units -> BOOLEAN]
    <3>1. ASSUME NEW i \in Units
          PROVE  t.out[i] \in BOOLEAN /\ SetCompareOutput(t.com[i], t.out[i]) \in BOOLEAN
      BY <1>1, TimersDef, OutputType
    <3> QED
      BY <2>2, <3>1
  <2>4. t' = [t EXCEPT !.out = o]
    BY <1>1, <2>1, <2>2, TimersDef
  <2>5. t' \in Timers /\ t'.wgm = t.wgm /\ t'.top = t.top /\ t'.updown = t.updown
    BY <1>1, <2>3, <2>4, TimersDef
  <2>6. InRange(t')
    BY <1>1, <2>5 DEF InRange
  <2>7. UNCHANGED <<running, icap, samples>>
    BY <1>8 DEF Set_TCCRC
  <2> QED
    BY <1>3, <1>4, <1>5, <2>5, <2>6, <2>7, Restarted
<1>9. CASE SetCounter
  <2>1. PICK val \in program.tcnt : t' = [t EXCEPT !.vtcnt = val]
    BY <1>9 DEF SetCounter
  <2>2. val \in Longs
    BY <1>1, ProgramType, CountsAreLong
  <2>3. t' \in Timers /\ t'.wgm = t.wgm /\ t'.top = t.top /\ t'.updown = t.updown
    BY <1>1, <2>1, <2>2, TimersDef
  <2>4. InRange(t')
    BY <1>1, <2>3 DEF InRange
  <2>5. UNCHANGED <<running, icap, samples>>
    BY <1>9 DEF SetCounter
  <2> QED
    BY <1>3, <1>4, <1>5, <2>3, <2>4, <2>5, Restarted
<1>10. CASE SetICR
  <2>1. PICK val \in program.icr :
          /\ icap' = [icap EXCEPT !.reg = val]
          /\ t' = [t EXCEPT !.top = IF Family(t.wgm) = "FASTPWM" THEN val ELSE @]
    BY <1>10 DEF SetICR
  <2>2. val \in Longs
    BY <1>1, ProgramType, CountsAreLong
  <2>3. /\ icap' \in Captures /\ icap'.state = icap.state /\ icap'.noise = icap.noise
        /\ icap'.ncstate = icap.ncstate /\ icap'.nc = icap.nc
    BY <1>1, <2>1, <2>2 DEF Captures, Longs
  <2>4. PICK top \in Longs : top = IF Family(t.wgm) = "FASTPWM" THEN val ELSE t.top
    BY <1>1, <2>2, TimersDef
  <2>5. t' = [t EXCEPT !.top = top]
    BY <1>1, <2>1, <2>4, TimersDef
  <2>6. t' \in Timers /\ t'.wgm = t.wgm /\ t'.top = top /\ t'.updown = t.updown
    BY <1>1, <2>5, TimersDef
  <2>7. Source(t.wgm) = "ICR"
    BY <1>10 DEF SetICR, WGMuseICR
  <2>8. InRange(t')
    BY <1>1, <2>6, <2>7 DEF InRange
  <2>9. running' = running /\ UNCHANGED samples
    BY <1>10 DEF SetICR
  <2>10. CancelerCounts'
    BY <1>1, <2>3, <2>9 DEF CancelerCounts, samples
  <2>11. running' \in BOOLEAN /\ same' \in 0 .. 6 /\ changed' \in BOOLEAN
    BY <1>1, <2>9 DEF TypeOK, samples
  <2> QED
    BY <1>3, <1>4, <2>3, <2>6, <2>8, <2>10, <2>11, Restarted
<1> QED
  BY <1>6, <1>7, <1>8, <1>9, <1>10

(* The pin, a reset and the interrupt registers leave counting alone. *)
LEMMA OthersInv ==
  ASSUME Inv,
         \/ MovePin \/ Reset \/ UNCHANGED vars
         \/ \E mask \in program.mask : WriteTIMSK(mask)
         \/ \E bits \in SUBSET Lines : WriteTIFR(bits)
         \/ \E l \in Lines : ClearIrqFlag(l)
  PROVE  Inv' /\ icap'.state = icap.state
<1>1. TypeOK /\ InRange(t) /\ CancelerCounts /\ t \in Timers /\ icap \in Captures
  BY DEF Inv, TypeOK, TopInRange
<1>2. CASE MovePin
  <2>1. /\ icap' = [icap EXCEPT !.pin = ~@] /\ UNCHANGED <<t, running, queue, program, history>>
    BY <1>2 DEF MovePin
  <2>2. /\ icap' \in Captures /\ icap'.state = icap.state /\ icap'.noise = icap.noise
        /\ icap'.ncstate = icap.ncstate /\ icap'.nc = icap.nc
    BY <1>1, <2>1 DEF Captures
  <2>3. TypeOK'
    BY <1>1, <2>1, <2>2 DEF TypeOK, queue, history, samples
  <2>4. CancelerCounts'
    BY <1>1, <2>1, <2>2 DEF CancelerCounts, history, samples
  <2>5. TopInRange' /\ IdleIsCounted' /\ SteadyCounts' /\ DutyCycle'
    BY <2>1 DEF Inv, TopInRange, IdleIsCounted, SteadyCounts, DutyCycle, history, FixedFast,
                UpCounting
  <2> QED
    BY <2>2, <2>3, <2>4, <2>5 DEF Inv
<1>3. CASE Reset
  <2>1. /\ t' = ResetTimer /\ running' = FALSE
        /\ icap' = [icap EXCEPT !.rising = FALSE, !.noise = FALSE]
        /\ irqmask' = {} /\ irqflags' = {} /\ period' = "unknown" /\ idle' = 0
        /\ UNCHANGED <<irqPartnerList, program, samples>>
    BY <1>3 DEF Reset
  <2>2. ResetTimer \in Timers
    <3>1. 0 \in Longs /\ MaxCount \in Longs /\ 0 \in Modes
      BY CountsAreLong DEF Modes
    <3> QED
      BY <3>1, CountsAreLong, TimersDef DEF ResetTimer, Coms
  <2>3. icap' \in Captures /\ icap'.state = icap.state /\ icap'.noise = FALSE
    BY <1>1, <2>1 DEF Captures
  <2>4. TypeOK'
    <3>1. running' \in BOOLEAN /\ period' \in {"unknown", "below", "top"} /\ idle' \in Nat
      BY <2>1
    <3> QED
      BY <1>1, <2>1, <2>2, <2>3, <3>1 DEF TypeOK, samples
  <2>5. InRange(t')
    BY <2>1 DEF InRange, ResetTimer, Family, WGM
  <2>6. CancelerCounts'
    BY <2>3 DEF CancelerCounts
  <2> QED
    BY <2>1, <2>3, <2>4, <2>5, <2>6, Restarted
<1>4. CASE UNCHANGED vars
  <2>1. TypeOK'
    BY <1>1, <1>4 DEF TypeOK, vars, queue, history, samples
  <2> QED
    BY <1>4, <2>1, Untouched DEF vars
<1>5. ASSUME NEW mask \in program.mask, WriteTIMSK(mask) PROVE Inv' /\ icap'.state = icap.state
  <2>1. mask \subseteq Lines
    BY <1>1, ProgramType
  <2>2. TypeOK'
    BY <1>1, <1>5, <2>1 DEF WriteTIMSK, TypeOK, history, samples
  <2> QED
    BY <1>5, <2>2, Untouched DEF WriteTIMSK
<1>6. ASSUME NEW bits \in SUBSET Lines, WriteTIFR(bits) PROVE Inv' /\ icap'.state = icap.state
  <2>1. TypeOK'
    BY <1>1, <1>6 DEF WriteTIFR, TypeOK, history, samples
  <2> QED
    BY <1>6, <2>1, Untouched DEF WriteTIFR
<1>7. ASSUME NEW l \in Lines, ClearIrqFlag(l) PROVE Inv' /\ icap'.state = icap.state
  <2>1. TypeOK'
    BY <1>1, <1>7 DEF ClearIrqFlag, TypeOK, history, samples
  <2> QED
    BY <1>7, <2>1, Untouched DEF ClearIrqFlag
<1> QED
  BY <1>2, <1>3, <1>4, <1>5, <1>6, <1>7

(* Every step keeps the invariant, and lets no short pulse through. *)
LEMMA StepInv ==
  ASSUME Inv, [Next]_vars
  PROVE  Inv' /\ (icap.noise /\ icap'.state # icap.state => same >= 5 \/ ~changed)
<1>1. ASSUME NEW clock \in BOOLEAN, CpuCycle(clock)
      PROVE  Inv' /\ (icap.noise /\ icap'.state # icap.state => same >= 5 \/ ~changed)
  BY <1>1, CpuCycleInv, CpuCycleType
<1>2. CASE Set_TCCRA \/ Set_TCCRB \/ Set_TCCRC \/ SetCounter \/ SetICR
  BY <1>2, WritesInv
<1>3. ASSUME NEW i \in Units, NEW val \in program.ocr, SetCompareRegister(i, val)
      PROVE  Inv' /\ icap'.state = icap.state
  BY <1>3, SetCompareInv DEF SetCompareRegister
<1>4. CASE \/ MovePin \/ Reset \/ UNCHANGED vars
           \/ \E mask \in program.mask : WriteTIMSK(mask)
           \/ \E bits \in SUBSET Lines : WriteTIFR(bits)
           \/ \E l \in Lines : ClearIrqFlag(l)
  BY <1>4, OthersInv
<1> QED
  BY <1>1, <1>2, <1>3, <1>4 DEF Next

LEMMA InvHolds == Spec => []Inv
<1>1. Inv /\ [Next]_vars => Inv'
  BY StepInv
<1> QED
  BY InitInv, <1>1, PTL DEF Spec

(* The counter stays within an unsigned long, the compare registers within *)
(* the width of the counter and every field within its type, whatever the  *)
(* order of counts, mode changes and writes.                               *)
THEOREM TypeCorrect == Spec => []TypeOK
<1>1. Inv => TypeOK
  BY DEF Inv
<1> QED
  BY InvHolds, <1>1, PTL

(* HWTimer16 in fast PWM with a fixed top, for all widths and whenever OCR *)
(* is written: from a top that the counter passed with a compare value     *)
(* below it, the output of unit A is high exactly while the counter has    *)
(* not passed the compare value in effect; from a top that is the compare  *)
(* value itself, it is low up to the next top.                             *)
THEOREM DutyCycleKept == Spec => []DutyCycle
<1>1. Inv => DutyCycle
  BY DEF Inv
<1> QED
  BY InvHolds, <1>1, PTL

(* CountTimer in normal and fast PWM modes: between two overflows there    *)
(* are at most two full ranges of counts, wherever a mode change or a      *)
(* write left the counter.                                                 *)
THEOREM OverflowComes == Spec => []OverflowInTime
<1>1. Inv => OverflowInTime
  <2> SUFFICES ASSUME Inv, UpCounting, t.top <= MaxCount PROVE idle <= 2 * (MaxCount + 1)
    BY DEF OverflowInTime
  <2>1. /\ t.vtcnt \in Nat /\ t.top \in Nat /\ idle \in Nat /\ MaxCount \in Nat
    BY TimersDef, TimerAssumption DEF Inv, TypeOK, Longs
  <2> QED
    BY <2>1 DEF Inv, IdleIsCounted, UpCounting
<1> QED
  BY InvHolds, <1>1, PTL

(* InputCapture with the noise canceler on, once it has seen its input     *)
(* change since it was switched on: a level that the pin has held for less *)
(* than five samples does not become the state of the capture, so it       *)
(* neither stores the counter nor raises ICP.  Up to that change nothing   *)
(* is claimed, as what the canceler was left with decides.                 *)
THEOREM PulsesAreFiltered == Spec => CaptureIsFiltered
<1>1. Inv /\ [Next]_vars => [icap.noise /\ icap'.state # icap.state => same >= 5 \/ ~changed]_vars
  BY StepInv
<1> QED
  BY InvHolds, <1>1, PTL DEF Spec, CaptureIsFiltered
=============================================================================
