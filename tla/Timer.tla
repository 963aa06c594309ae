------------------------------- MODULE Timer -------------------------------
(***************************************************************************)
(* A timer/counter: BasicTimerUnit and HWTimer16 (hwtimer/hwtimer.cpp)     *)
(* with the TIMSK and TIFR registers of TimerIRQRegister                   *)
(* (hwtimer/timerirq.cpp) and the queue of HWIrqSystem behind them.        *)
(*                                                                         *)
(* The counting state is one record, so that the events of a count are    *)
(* functions on it, applied in the order of CountTimer.  vlast_tcnt is     *)
(* overwritten before every use and is a parameter here; the high byte     *)
(* latch of the 16 bit registers is left out (values are written whole).   *)
(* An HWTimer8 is the instance with Top8 = MaxCount, modes 0, 1, 4 and 5.  *)
(***************************************************************************)
EXTENDS Naturals

CONSTANTS MaxCount,            \* limit_max
          LongMax,             \* the largest unsigned long
          Top8, Top9, Top10,   \* tops of the modes with a fixed width
          Units,               \* the output compare units that exist
          Capture,             \* the timer has an input capture source
          Programs             \* bound: what the program writes, see Program

TOV == 3                       \* interrupt lines: 0 .. 2 are the compare units
ICP == 4
Lines == Units \cup {TOV} \cup (IF Capture THEN {ICP} ELSE {})

Counts == 0 .. MaxCount

Coms == {"NOOP", "TOGGLE", "CLEAR", "SET"}

(* The values a program uses: low and high bits of the waveform mode,      *)
(* compare output modes, compare and counter values, interrupt masks; and  *)
(* whether its input pin moves.                                            *)
Program == [low : SUBSET (0 .. 3), high : SUBSET (0 .. 3), com : SUBSET Coms,
            ocr : SUBSET Counts, tcnt : SUBSET Counts, icr : SUBSET Counts,
            mask : SUBSET SUBSET Lines, pin : BOOLEAN]

ASSUME TimerAssumption ==
  /\ MaxCount \in Nat /\ LongMax \in Nat /\ LongMax > MaxCount
  /\ {Top8, Top9, Top10} \subseteq Counts \ {0}
  /\ \E n \in 0 .. 3 : Units = {i \in 0 .. 2 : i < n}
  /\ Capture \in BOOLEAN
  /\ Programs \subseteq Program

(* WGMtype: the family of a mode and where its top value comes from. *)
WGM ==
  [m \in 0 .. 15 |->
     CASE m = 0  -> <<"NORMAL", "MAX">>    [] m = 1  -> <<"PCPWM", "8BIT">>
       [] m = 2  -> <<"PCPWM", "9BIT">>    [] m = 3  -> <<"PCPWM", "10BIT">>
       [] m = 4  -> <<"CTC", "OCRA">>      [] m = 5  -> <<"FASTPWM", "8BIT">>
       [] m = 6  -> <<"FASTPWM", "9BIT">>  [] m = 7  -> <<"FASTPWM", "10BIT">>
       [] m = 8  -> <<"PFCPWM", "ICR">>    [] m = 9  -> <<"PFCPWM", "OCRA">>
       [] m = 10 -> <<"PCPWM", "ICR">>     [] m = 11 -> <<"PCPWM", "OCRA">>
       [] m = 12 -> <<"CTC", "ICR">>       [] m = 13 -> <<"RESERVED", "NONE">>
       [] m = 14 -> <<"FASTPWM", "ICR">>   [] m = 15 -> <<"FASTPWM", "OCRA">>]

Family(m) == WGM[m][1]
Source(m) == WGM[m][2]
WGMisPWM(m) == Family(m) \notin {"NORMAL", "CTC"}
WGMuseICR(m) == Source(m) = "ICR"

VARIABLES t,                  \* the counting state, a Timers record
          running,            \* cs # 0 and in the cycle list
          icap,               \* the input capture, a Captures record
          irqmask, irqflags,  \* TIMSK and TIFR, as sets of lines
          irqPartnerList,     \* vectors queued in the interrupt system
          (* what the program is, and history *)
          program,
          period,             \* how the period began, of which only OCR was written
          idle,               \* counts since the last overflow or other write
          seen,               \* the last sample that the canceler took
          same,               \* how many of its samples equal it, since it is on
          changed             \* its samples changed since it is on

Timers == [vtcnt : 0 .. LongMax, top : 0 .. LongMax, updown : BOOLEAN, down : BOOLEAN,
           wgm : 0 .. 15, compare : [Units -> Counts], dbl : [Units -> Counts],
           com : [Units -> Coms], out : [Units -> BOOLEAN], fired : SUBSET Lines]

Captures == [reg : 0 .. LongMax, pin : BOOLEAN, state : BOOLEAN, ncstate : BOOLEAN,
             nc : 0 .. 4, rising : BOOLEAN, noise : BOOLEAN]

queue == <<irqmask, irqflags, irqPartnerList>>
samples == <<seen, same, changed>>
history == <<period, idle, samples>>
vars == <<t, running, icap, queue, program, history>>

TypeOK ==
  /\ t \in Timers
  /\ running \in BOOLEAN
  /\ icap \in Captures
  /\ irqmask \subseteq Lines /\ irqflags \subseteq Lines /\ irqPartnerList \subseteq Lines
  /\ program \in Programs
  /\ period \in {"unknown", "below", "top"} /\ idle \in Nat
  /\ seen \in BOOLEAN /\ same \in 0 .. 6 /\ changed \in BOOLEAN

ResetTimer ==
  [vtcnt |-> 0, top |-> MaxCount, updown |-> FALSE, down |-> FALSE, wgm |-> 0,
   compare |-> [i \in Units |-> 0], dbl |-> [i \in Units |-> 0],
   com |-> [i \in Units |-> "NOOP"], out |-> [i \in Units |-> FALSE], fired |-> {}]

Init ==
  /\ t = ResetTimer
  /\ running = FALSE
  /\ icap = [reg |-> 0, pin |-> FALSE, state |-> FALSE, ncstate |-> FALSE,
             nc |-> 0, rising |-> FALSE, noise |-> FALSE]
  /\ irqmask = {} /\ irqflags = {} /\ irqPartnerList = {}
  /\ program \in Programs
  /\ period = "unknown" /\ idle = 0
  /\ seen = FALSE /\ same = 0 /\ changed = FALSE
-----------------------------------------------------------------------------
(* Outputs.  In a PWM mode COM_TOGGLE ends with the output low: toggling   *)
(* in the OCRA modes is overwritten by new_state, and it is reserved in    *)
(* the others.                                                             *)
SetCompareOutput(com, old) ==
  CASE com = "NOOP" -> old [] com = "TOGGLE" -> ~old
    [] com = "CLEAR" -> FALSE [] com = "SET" -> TRUE

SetPWMCompareOutput(com, old, topOrDown) ==
  CASE com = "NOOP" -> old [] com = "TOGGLE" -> FALSE
    [] com = "CLEAR" -> topOrDown [] com = "SET" -> ~topOrDown

Fire(x, lines) == [x EXCEPT !.fired = @ \cup (lines \cap Lines)]

(* The interrupt that a PWM mode raises at a top set by OCRA or ICR. *)
TopLine(m) == CASE Source(m) = "OCRA" -> {0} [] Source(m) = "ICR" -> {ICP} [] OTHER -> {}

(* The double buffered compare values take effect. *)
UpdateOCR(x) ==
  LET width == CASE Source(x.wgm) = "8BIT" -> Top8 [] Source(x.wgm) = "9BIT" -> Top9
                 [] Source(x.wgm) = "10BIT" -> Top10 [] OTHER -> MaxCount
      value(i) == IF i # 0 THEN x.dbl[i]
                  ELSE IF Source(x.wgm) = "OCRA" THEN x.compare[0]
                  ELSE x.dbl[0] % (width + 1)
  IN  [x EXCEPT !.top = IF Source(x.wgm) = "OCRA" /\ 0 \in Units THEN x.dbl[0] ELSE @,
                !.compare = [i \in Units |-> value(i)]]

(* HandleEvent: what the waveform functions do at MAX, TOP and BOTTOM. *)
AtMax(x) == IF Family(x.wgm) \in {"NORMAL", "CTC"} THEN Fire(x, {TOV}) ELSE x

(* Mutant of AtTop: fast PWM raises the line of its top register alone. *)
AtTopNoOverflow(x) ==
  CASE Family(x.wgm) = "CTC" -> [x EXCEPT !.vtcnt = 0]
    [] Family(x.wgm) = "FASTPWM" ->
         [Fire(x, TopLine(x.wgm)) EXCEPT
            !.out = [i \in Units |-> SetPWMCompareOutput(x.com[i], @[i], TRUE)],
            !.vtcnt = 0]
    [] Family(x.wgm) = "PCPWM" -> UpdateOCR(x)
    [] OTHER -> x

AtTop(x) ==
  LET y == Fire(x, TopLine(x.wgm))
      outA(o) == IF 0 \in Units /\ Source(x.wgm) = "OCRA"
                 THEN [o EXCEPT ![0] = SetPWMCompareOutput(x.com[0], @, FALSE)] ELSE o
  IN  CASE Family(x.wgm) = "CTC" -> [x EXCEPT !.vtcnt = 0]
        [] Family(x.wgm) = "FASTPWM" ->
             [Fire(y, {TOV}) EXCEPT
                !.out = [i \in Units |-> SetPWMCompareOutput(x.com[i], @[i], TRUE)],
                !.vtcnt = 0]
        [] Family(x.wgm) = "PCPWM" -> [UpdateOCR(y) EXCEPT !.out = outA(@)]
        [] Family(x.wgm) = "PFCPWM" -> [y EXCEPT !.out = outA(@)]
        [] OTHER -> x

AtBottom(x) ==
  CASE Family(x.wgm) = "FASTPWM" -> UpdateOCR(x)
    [] Family(x.wgm) = "PCPWM" -> Fire(x, {TOV})
    [] Family(x.wgm) = "PFCPWM" -> UpdateOCR(Fire(x, {TOV}))
    [] OTHER -> x

(* The units with a compare event at the value last that act on it. *)
Matching(x, last) ==
  {i \in Units : /\ x.compare[i] = last
                 /\ Family(x.wgm) # "RESERVED"
                 /\ ~(i = 0 /\ WGMisPWM(x.wgm) /\ Source(x.wgm) = "OCRA")}

AtCompare(x, last) ==
  LET output(i) == CASE ~WGMisPWM(x.wgm) -> SetCompareOutput(x.com[i], x.out[i])
                     [] Family(x.wgm) = "FASTPWM" -> SetPWMCompareOutput(x.com[i], x.out[i], FALSE)
                     [] OTHER -> SetPWMCompareOutput(x.com[i], x.out[i], x.down)
  IN  [Fire(x, Matching(x, last)) EXCEPT
         !.out = [i \in Units |-> IF i \in Matching(x, last) THEN output(i) ELSE @[i]]]
-----------------------------------------------------------------------------
Long(n) == n % (LongMax + 1)

(* Up and down counting: compare events, bottom or top, then the count. *)
CountUpDown(x) ==
  LET last == x.vtcnt
      y == AtCompare(x, last)
      z == IF last = 0 THEN AtBottom(y) ELSE IF last = y.top THEN AtTop(y) ELSE y
      n == Long(IF z.down THEN last + LongMax ELSE last + 1)
  IN  [z EXCEPT !.vtcnt = n, !.down = IF z.down THEN n # 0 ELSE n = z.top]

(* Counting up: overflow, bottom, top, then the compare events. *)
CountUp(x) ==
  LET last == x.vtcnt
      y == [x EXCEPT !.vtcnt = Long(last + 1)]
      z == IF y.vtcnt > MaxCount THEN [AtMax(y) EXCEPT !.vtcnt = @ % (MaxCount + 1)] ELSE y
      b == IF last = 0 THEN AtBottom(z) ELSE z
      c == IF last = b.top THEN AtTop(b) ELSE b
  IN  AtCompare(c, last)

CountTimer(x) == IF x.updown THEN CountUpDown(x) ELSE CountUp(x)

(* Mutant of Filtered: the counter of the noise canceler is not restarted. *)
FilteredOnce(c) ==
  IF ~c.noise THEN <<c.pin, c.nc, c.ncstate>>
  ELSE IF c.pin = c.ncstate /\ c.nc < 4 THEN <<c.state, c.nc + 1, c.ncstate>>
  ELSE <<c.pin, c.nc, c.pin>>

(* The input after the noise canceler, and the state of the latter. *)
Filtered(c) ==
  IF ~c.noise THEN <<c.pin, c.nc, c.ncstate>>
  ELSE IF c.pin # c.ncstate THEN <<c.state, 0, c.pin>>
  ELSE IF c.nc < 4 THEN <<c.state, c.nc + 1, c.ncstate>>
  ELSE <<c.pin, c.nc, c.ncstate>>

Edge(c) == Filtered(c)[1] # c.state /\ Filtered(c)[1] = c.rising

(* InputCapture, after the count: an edge of the right kind stores the     *)
(* counter and fires; in the modes that use ICR as top nothing is looked   *)
(* at.                                                                     *)
InputCapture(x) ==
  IF ~Capture \/ WGMuseICR(x.wgm) THEN UNCHANGED icap
  ELSE icap' = [icap EXCEPT !.state = Filtered(icap)[1], !.nc = Filtered(icap)[2],
                            !.ncstate = Filtered(icap)[3],
                            !.reg = IF Edge(icap) THEN x.vtcnt ELSE @]

Captured(x) == IF Capture /\ ~WGMuseICR(x.wgm) /\ Edge(icap) THEN {ICP} ELSE {}
-----------------------------------------------------------------------------
(* TimerIRQRegister: fireInterrupt for each line that was fired. *)
fireInterrupt(lines) ==
  /\ irqflags' = irqflags \cup lines
  /\ irqPartnerList' = irqPartnerList \cup (lines \cap irqmask)
  /\ UNCHANGED irqmask

(* A mode in which unit A is compared and the top is fixed. *)
FixedFast == Family(t.wgm) = "FASTPWM" /\ Source(t.wgm) \in {"8BIT", "9BIT", "10BIT"}

UpCounting == running /\ Family(t.wgm) \in {"NORMAL", "FASTPWM"} /\ ~t.updown

(* InputCapture hands the pin to the noise canceler. *)
Sampled == Capture /\ ~WGMuseICR(t.wgm) /\ icap.noise

(* CpuCycle in a cycle in which the prescaler gives a clock, or not. *)
CpuCycle(clock) ==
  /\ running
  /\ LET x == IF clock THEN CountTimer(t) ELSE t
         wraps == clock /\ ~t.updown /\ t.vtcnt = t.top
     IN  /\ t' = [x EXCEPT !.fired = {}]
         /\ InputCapture(x)
         /\ fireInterrupt(x.fired \cup Captured(x))
         /\ period' = IF ~wraps THEN period
                      ELSE IF 0 \notin Units THEN "unknown"
                      ELSE IF t.compare[0] = t.top THEN "top" ELSE "below"
         /\ idle' = IF TOV \in x.fired \/ ~UpCounting THEN 0 ELSE IF clock THEN idle + 1 ELSE idle
  /\ IF Sampled
     THEN /\ seen' = icap.pin
          /\ same' = IF same = 0 \/ icap.pin # seen THEN 1 ELSE IF same < 6 THEN same + 1 ELSE same
          /\ changed' = (changed \/ (same > 0 /\ icap.pin # seen))
     ELSE UNCHANGED samples
  /\ UNCHANGED <<running, program>>

(* The pin of the input capture source changes between two cycles. *)
MovePin ==
  /\ Capture /\ program.pin
  /\ icap' = [icap EXCEPT !.pin = ~@]
  /\ UNCHANGED <<t, running, queue, program, history>>
-----------------------------------------------------------------------------
(* ChangeWGM: new limits, the counter keeps its value. *)
ChangeWGM(x, m) ==
  LET top == CASE Source(m) = "MAX" -> MaxCount [] Source(m) = "8BIT" -> Top8
               [] Source(m) = "9BIT" -> Top9 [] Source(m) = "10BIT" -> Top10
               [] Source(m) = "OCRA" -> IF 0 \in Units THEN x.compare[0] ELSE 0
               [] Source(m) = "ICR" -> icap.reg
               [] OTHER -> x.top
      updown == Family(m) \in {"PCPWM", "PFCPWM"}
  IN  IF m = x.wgm THEN x
      ELSE IF Family(m) = "RESERVED" THEN [x EXCEPT !.wgm = m]
      ELSE [x EXCEPT !.wgm = m, !.top = top, !.updown = updown,
                     !.down = IF updown THEN FALSE ELSE @]

(* Set_TCCRA: the two low bits of the mode, and the compare output modes. *)
Set_TCCRA ==
  /\ \E low \in program.low, com \in [Units -> program.com] :
       t' = [ChangeWGM(t, (4 * (t.wgm \div 4)) + low) EXCEPT !.com = com]
  /\ period' = "unknown" /\ idle' = 0
  /\ UNCHANGED <<running, icap, queue, program, samples>>

(* Set_TCCRB: the two high bits, the clock, edge and noise canceler. *)
Set_TCCRB ==
  /\ \E high \in program.high :
       t' = ChangeWGM(t, 4 * high + (t.wgm % 4))
  /\ running' \in BOOLEAN
  /\ IF program.pin
     THEN \E rising, noise \in BOOLEAN :
            /\ icap' = [icap EXCEPT !.rising = rising, !.noise = noise]
            /\ IF noise /\ ~icap.noise
               THEN same' = 0 /\ changed' = FALSE /\ UNCHANGED seen
               ELSE UNCHANGED samples
     ELSE UNCHANGED <<icap, samples>>
  /\ period' = "unknown" /\ idle' = 0
  /\ UNCHANGED <<queue, program>>

(* Set_TCCRC: force compare, in the modes without PWM. *)
Set_TCCRC ==
  /\ \E force \in SUBSET Units :
       t' = [t EXCEPT !.out = [i \in Units |-> IF WGMisPWM(t.wgm) \/ i \notin force THEN @[i]
                                              ELSE SetCompareOutput(t.com[i], @[i])]]
  /\ period' = "unknown" /\ idle' = 0
  /\ UNCHANGED <<running, icap, queue, program, samples>>

(* Mutant of SetCompareRegister: a value takes effect at once. *)
SetCompareUnbuffered(i, val) ==
  /\ t' = [t EXCEPT !.dbl[i] = val, !.compare[i] = val]
  /\ UNCHANGED <<running, icap, queue, program, history>>

(* SetCompareRegister: buffered in the PWM modes. *)
SetCompareRegister(i, val) ==
  /\ t' = IF WGMisPWM(t.wgm) THEN [t EXCEPT !.dbl[i] = val]
          ELSE [t EXCEPT !.dbl[i] = val, !.compare[i] = val,
                         !.top = IF WGM[t.wgm] = <<"CTC", "OCRA">> /\ i = 0 THEN val ELSE @]
  /\ UNCHANGED <<running, icap, queue, program, history>>

SetCounter ==
  /\ \E val \in program.tcnt : t' = [t EXCEPT !.vtcnt = val]
  /\ period' = "unknown" /\ idle' = 0
  /\ UNCHANGED <<running, icap, queue, program, samples>>

(* A write to ICR, which only a mode that uses ICR as top accepts; the top *)
(* itself follows in fast PWM alone.                                       *)
SetICR ==
  /\ WGMuseICR(t.wgm)
  /\ \E val \in program.icr :
       /\ icap' = [icap EXCEPT !.reg = val]
       /\ t' = [t EXCEPT !.top = IF Family(t.wgm) = "FASTPWM" THEN val ELSE @]
  /\ period' = "unknown" /\ idle' = 0
  /\ UNCHANGED <<running, queue, program, samples>>

(* Mutant of WriteTIMSK: a flag that is already set is forgotten. *)
WriteTIMSKPlain(mask) ==
  /\ irqmask' = mask
  /\ UNCHANGED <<t, running, icap, irqflags, irqPartnerList, program, history>>

(* set_from_reg: a newly enabled line whose flag is set is queued; a       *)
(* disabled one stays in the queue.                                        *)
WriteTIMSK(mask) ==
  /\ irqmask' = mask
  /\ irqPartnerList' = irqPartnerList \cup ((mask \ irqmask) \cap irqflags)
  /\ UNCHANGED <<t, running, icap, irqflags, program, history>>

(* A one written to a set flag clears it and takes the vector back. *)
WriteTIFR(bits) ==
  /\ irqflags' = irqflags \ bits
  /\ irqPartnerList' = irqPartnerList \ (bits \cap irqflags)
  /\ UNCHANGED <<t, running, icap, irqmask, program, history>>

(* The core takes a vector: ClearIrqFlag. *)
ClearIrqFlag(v) ==
  /\ v \in irqPartnerList
  /\ irqflags' = irqflags \ {v}
  /\ irqPartnerList' = irqPartnerList \ {v}
  /\ UNCHANGED <<t, running, icap, irqmask, program, history>>

(* Reset of the timer and of its registers; the queue and what the input   *)
(* capture has seen are not reset.                                         *)
Reset ==
  /\ t' = ResetTimer
  /\ running' = FALSE
  /\ icap' = [icap EXCEPT !.rising = FALSE, !.noise = FALSE]
  /\ irqmask' = {} /\ irqflags' = {}
  /\ period' = "unknown" /\ idle' = 0
  /\ UNCHANGED <<irqPartnerList, program, samples>>

Next ==
  \/ \E clock \in BOOLEAN : CpuCycle(clock)
  \/ MovePin
  \/ Set_TCCRA \/ Set_TCCRB \/ Set_TCCRC
  \/ \E i \in Units, val \in program.ocr : SetCompareRegister(i, val)
  \/ SetCounter \/ SetICR
  \/ \E mask \in program.mask : WriteTIMSK(mask)
  \/ \E bits \in SUBSET Lines : WriteTIFR(bits)
  \/ \E l \in Lines : ClearIrqFlag(l)
  \/ Reset

Spec == Init /\ [][Next]_vars
-----------------------------------------------------------------------------
(* No timer event is lost between TIFR, TIMSK and the interrupt system: a  *)
(* flagged and enabled line is queued.                                     *)
FlaggedIsQueued == irqflags \cap irqmask \subseteq irqPartnerList

(* Fast PWM generates the duty cycle that was asked for, whenever the      *)
(* program writes OCR: in a period that began with a compare value below   *)
(* the top the output of unit A (COM_CLEAR) is high exactly up to the      *)
(* compare value in effect, and from its next period on a new value is.    *)
(* At the boundary it does not: a period that began with the compare value *)
(* at the top is low throughout, as the compare event of the count follows *)
(* its top event and clears what that has set.                             *)
DutyCycle ==
  FixedFast /\ t.com[0] = "CLEAR" =>
    /\ period = "below" => t.out[0] = (t.vtcnt <= t.compare[0])
    /\ period = "top" => ~t.out[0]

(* Since the noise canceler is on and has seen the input change, a new     *)
(* level reaches the input capture only after five samples of it: a        *)
(* shorter pulse is not seen.  Before that a shorter one may be, as        *)
(* switching the canceler on clears neither icapNCstate nor icapNCcounter: *)
(* an input at the level that the canceler was left with passes as if the  *)
(* samples of the time before had just been taken.                         *)
CaptureIsFiltered ==
  [][icap.noise /\ icap'.state # icap.state => same >= 5 \/ ~changed]_vars

(* A timer that counts up in normal or fast PWM mode overflows in time,    *)
(* wherever a mode change caught its counter and however OCR is written:   *)
(* after one run to the maximum and one to the top at the latest.  The top *)
(* has to be a value that the counter takes: ICR may hold a greater one,   *)
(* captured from a counter that an up and down mode let run past its       *)
(* maximum.                                                                *)
OverflowInTime == UpCounting /\ t.top <= MaxCount => idle <= 2 * (MaxCount + 1)

=============================================================================
