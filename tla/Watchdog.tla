------------------------------ MODULE Watchdog ------------------------------
(***************************************************************************)
(* The watchdog with interrupt (WatchDog, watchdog.cpp).  The program sets *)
(* its mode and period through WDTCSR, for which it has to open a gate of  *)
(* four cycles first, and has to execute WDR before the period is over.    *)
(*                                                                         *)
(* WDTCSR is the set of its mode bits wdtcsr and the prescaler wdp.  Time  *)
(* is counted in CPU cycles: timeOutAt is the distance to the time out.    *)
(***************************************************************************)
EXTENDS Integers

CONSTANTS Periods,       \* a period for each prescaler that Wdr knows
          Prescalers,    \* every value of the prescaler bits
          MaxSince       \* bound: cycles counted since the last WDR

NoTimeOut == -1          \* timeOutAt = 0

ASSUME WatchdogAssumption ==
  /\ Prescalers \subseteq Nat
  /\ DOMAIN Periods \subseteq Prescalers
  /\ 0 \in DOMAIN Periods
  /\ MaxSince \in Nat
  /\ \A p \in DOMAIN Periods : Periods[p] \in 1 .. MaxSince

VARIABLES wdtcsr,         \* subset of {"WDRE", "WDIE", "WDCE"}
          wdp,            \* the prescaler bits of WDTCSR
          counter,        \* cycles until WDCE falls
          timeoutCount,   \* time outs since the last Wdr()
          timeOutAt,      \* cycles until the time out
          irq,            \* vector 6 is queued in the interrupt system
          canRun,         \* the core may execute an instruction now
          (* history of the program and of the watchdog's answers *)
          resets,         \* the last step was a watchdog reset
          window,         \* cycles left of the gate that was opened
          since,          \* cycles since the last WDR or change of period
          warned          \* interrupt raised since then

control == <<wdtcsr, wdp, counter>>
history == <<window, since, warned>>
vars == <<control, timeoutCount, timeOutAt, irq, canRun, resets, history>>

TypeOK ==
  /\ wdtcsr \subseteq {"WDRE", "WDIE", "WDCE"}
  /\ wdp \in Prescalers
  /\ counter \in 0 .. 4
  /\ timeoutCount \in 0 .. 1
  /\ timeOutAt = NoTimeOut \/ \E p \in DOMAIN Periods : timeOutAt \in 0 .. Periods[p]
  /\ irq \in BOOLEAN /\ canRun \in BOOLEAN /\ resets \in BOOLEAN
  /\ window \in 0 .. 4 /\ since \in 0 .. MaxSince /\ warned \in BOOLEAN

(* The constructor leaves counter as it finds it; a value above 4 only     *)
(* takes longer to run down while WDCE is clear.                           *)
Init ==
  /\ wdtcsr = {} /\ wdp = 0 /\ counter \in 0 .. 4
  /\ timeoutCount = 0 /\ timeOutAt = NoTimeOut
  /\ irq = FALSE /\ canRun = TRUE /\ resets = FALSE
  /\ window = 0 /\ since = 0 /\ warned = FALSE

(* Wdr() with prescaler p: a prescaler it does not know leaves the time    *)
(* out where it was.                                                       *)
TimeOutFor(p) == IF p \in DOMAIN Periods THEN Periods[p] ELSE timeOutAt

Wdr(p) == timeoutCount' = 0 /\ timeOutAt' = TimeOutFor(p)

(* The WDR instruction. *)
WdrInstruction ==
  /\ canRun /\ canRun' = FALSE
  /\ Wdr(wdp)
  /\ since' = 0 /\ warned' = FALSE /\ resets' = FALSE
  /\ UNCHANGED <<control, irq, window>>

(* An instruction that leaves the watchdog alone. *)
OtherInstruction ==
  /\ canRun /\ canRun' = FALSE
  /\ resets' = FALSE
  /\ UNCHANGED <<control, timeoutCount, timeOutAt, irq, history>>

(* setWdtcsr: bits are set, none is ever cleared; WDRE and the prescaler   *)
(* need the gate, and a new prescaler restarts the watchdog.               *)
setWdtcsr(bits, p) ==
  LET open == "WDCE" \in wdtcsr
      prescale == open /\ p # 0
  IN  /\ canRun /\ canRun' = FALSE
      /\ wdtcsr' = wdtcsr \cup (bits \cap {"WDCE", "WDIE"})
                          \cup (IF open THEN bits \cap {"WDRE"} ELSE {})
      /\ wdp' = IF prescale THEN p ELSE wdp
      /\ IF prescale
         THEN Wdr(p) /\ since' = 0 /\ warned' = FALSE
         ELSE UNCHANGED <<timeoutCount, timeOutAt, since, warned>>
      /\ counter' = IF "WDCE" \in bits THEN 4 ELSE counter
      /\ window' = IF "WDCE" \in bits THEN 4 ELSE window
      /\ resets' = FALSE
      /\ UNCHANGED irq

(* The core takes vector 6: ClearIrqFlag. *)
ClearIrqFlag ==
  /\ irq /\ irq' = FALSE
  /\ resets' = FALSE
  /\ UNCHANGED <<control, timeoutCount, timeOutAt, canRun, history>>

Decremented(n) == IF n > 0 THEN n - 1 ELSE n

(* Mutant of Gate: the gate stays open. *)
GateStays == wdtcsr

(* WDTCSR after its gate was counted down. *)
Gate == IF Decremented(counter) = 0 THEN wdtcsr \ {"WDCE"} ELSE wdtcsr

(* core->Reset() as far as the watchdog goes: Reset() leaves counter. *)
Cleared ==
  /\ wdtcsr' = {} /\ wdp' = 0
  /\ timeoutCount' = 0 /\ timeOutAt' = NoTimeOut
  /\ window' = 0 /\ since' = 0 /\ warned' = FALSE

(* Mutant of WarnThenRestart: the time out is counted before Wdr(). *)
CountThenRestart(left) ==
  /\ timeOutAt' = IF wdp \in DOMAIN Periods THEN Periods[wdp] ELSE left
  /\ timeoutCount' = 0

(* Interrupt and reset mode, first time out: restart and count it. *)
WarnThenRestart(left) ==
  /\ timeOutAt' = IF wdp \in DOMAIN Periods THEN Periods[wdp] ELSE left
  /\ timeoutCount' = 1

(* Mutant of Due: the time out is taken one cycle early. *)
DueEarly(left) == left \in 0 .. 1

Due(left) == left = 0

(* Mutant of ResetsNow: the interrupt is not waited for. *)
ResetsAtOnce(on) == "WDRE" \in on

(* The time out resets the device: in reset mode, and on the second time   *)
(* out in interrupt and reset mode.                                        *)
ResetsNow(on) == "WDRE" \in on /\ ("WDIE" \in on => timeoutCount = 1)

(* A cycle passes that is no reset. *)
Passed ==
  /\ window' = Decremented(window)
  /\ since' = IF since < MaxSince THEN since + 1 ELSE since
  /\ resets' = FALSE

(* CpuCycle at the time out. *)
TimeOut(on, left) ==
  \/ /\ ResetsNow(on)
     /\ Cleared
     /\ resets' = TRUE
     /\ UNCHANGED irq
  \/ /\ ~ResetsNow(on) /\ {"WDRE", "WDIE"} \subseteq on
     /\ irq' = TRUE
     /\ WarnThenRestart(left)
     /\ wdtcsr' = on
     /\ warned' = TRUE /\ Passed
     /\ UNCHANGED wdp
  \/ /\ "WDRE" \notin on /\ "WDIE" \in on
     /\ irq' = TRUE
     /\ timeOutAt' = NoTimeOut
     /\ wdtcsr' = on
     /\ warned' = TRUE /\ Passed
     /\ UNCHANGED <<wdp, timeoutCount>>

(* CpuCycle: count the gate down and act on a time out. *)
CpuCycle ==
  LET left == Decremented(timeOutAt)
  IN  /\ canRun' = TRUE
      /\ counter' = Decremented(counter)
      /\ IF Due(left) /\ Gate \cap {"WDRE", "WDIE"} # {}
         THEN TimeOut(Gate, left)
         ELSE /\ wdtcsr' = Gate
              /\ timeOutAt' = left
              /\ Passed
              /\ UNCHANGED <<wdp, timeoutCount, irq, warned>>

(* Another reset of the device. *)
Reset ==
  /\ Cleared
  /\ resets' = FALSE
  /\ UNCHANGED <<counter, irq, canRun>>

Next ==
  \/ WdrInstruction
  \/ OtherInstruction
  \/ \E bits \in SUBSET {"WDRE", "WDIE", "WDCE"}, p \in Prescalers : setWdtcsr(bits, p)
  \/ ClearIrqFlag
  \/ CpuCycle
  \/ Reset

Spec == Init /\ [][Next]_vars
-----------------------------------------------------------------------------
(* Enabling the reset or choosing a prescaler needs a change enable that   *)
(* the program wrote less than four cycles ago; only a reset of the device *)
(* goes back to prescaler 0.                                               *)
ProtectedByGate ==
  [][("WDRE" \in wdtcsr' \ wdtcsr) \/ (wdp' \notin {wdp, 0}) => window > 0]_vars

(* A program that executes WDR in time is not reset by the watchdog.       *)
NoEarlyReset ==
  [][resets' /\ wdp \in DOMAIN Periods => since + 1 >= Periods[wdp]]_vars

(* In interrupt and reset mode the program is warned by an interrupt after *)
(* its last WDR before the watchdog resets it.                             *)
WarnedBeforeReset == [][resets' /\ "WDIE" \in wdtcsr => warned]_vars

(* A program that hangs is reset: with WDRE set and the watchdog started,  *)
(* it is reset unless it gives a sign of life.                             *)
HangIsReset == "WDRE" \in wdtcsr /\ timeOutAt # NoTimeOut /\ since > 0 ~> since = 0
=============================================================================
