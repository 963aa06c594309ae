---------------------------- MODULE ExternalIrq ----------------------------
(***************************************************************************)
(* External interrupts (externalirq.cpp) and the queue of pending          *)
(* interrupts they feed (HWIrqSystem, irqsystem.cpp).  An                  *)
(* ExternalIRQHandler owns one mask and one flag register; each of its     *)
(* lines is a single pin with a mode (ExternalIRQSingle: INT0, INT1, ...)  *)
(* or a port with a pin mask (ExternalIRQPort: PCINT).  The core takes     *)
(* interrupts with GetNewPc.  A register is the set of its lines whose bit *)
(* is set; a line is named by its vector, so a smaller line has priority.  *)
(***************************************************************************)
EXTENDS Naturals

CONSTANTS Singles,   \* vectors of ExternalIRQSingle lines
          Ports,     \* vectors of ExternalIRQPort lines
          PortPins   \* the pins of a port

Lines == Singles \cup Ports

ASSUME LinesAssumption ==
  /\ Singles \subseteq Nat \ {0}
  /\ Ports \subseteq Nat \ {0}
  /\ Singles \cap Ports = {}

VARIABLES irq_mask,        \* ExternalIRQHandler::irq_mask
          irq_flag,        \* ExternalIRQHandler::irq_flag
          mode,            \* ExternalIRQSingle::mode of each single line
          state,           \* ExternalIRQSingle::state, the saved pin level
          pinMask,         \* ExternalIRQPort::mode, the enabled pins
          high,            \* ExternalIRQPort::state, the pins saved as high
          irqPartnerList,  \* HWIrqSystem: vectors waiting to be processed
          taken,           \* answer of the last GetNewPc, 0 for none
          crashed          \* the simulator died on an invalid iterator

handler == <<irq_mask, irq_flag>>
sources == <<mode, state, pinMask, high>>
vars == <<irq_mask, irq_flag, mode, state, pinMask, high, irqPartnerList, taken, crashed>>

MODE_LEVEL_LOW == 0
MODE_EDGE_ALL  == 1
MODE_EDGE_FALL == 2
MODE_EDGE_RISE == 3

TypeOK ==
  /\ irq_mask \subseteq Lines
  /\ irq_flag \subseteq Lines
  /\ mode \in [Singles -> 0 .. 3]
  /\ state \in [Singles -> BOOLEAN]
  /\ pinMask \in [Ports -> SUBSET PortPins]
  /\ high \in [Ports -> SUBSET PortPins]
  /\ irqPartnerList \subseteq Lines
  /\ taken \in Lines \cup {0}
  /\ crashed \in BOOLEAN

(* mustSetFlagOnFire() is false for a single line in low level mode only. *)
IsLevelInterrupt(l) == l \in Singles /\ mode[l] = MODE_LEVEL_LOW

fireAgain(l) == IsLevelInterrupt(l) /\ ~state[l]

LevelInterruptPending(l) == fireAgain(l) /\ l \in irq_mask

Init ==
  /\ irq_mask = {} /\ irq_flag = {}
  /\ mode = [l \in Singles |-> MODE_LEVEL_LOW]
  /\ state \in [Singles -> BOOLEAN]
  /\ pinMask = [p \in Ports |-> {}]
  /\ high \in [Ports -> SUBSET PortPins]
  /\ irqPartnerList = {}
  /\ taken = 0
  /\ crashed = FALSE

(* fireInterrupt: an event of line l sets the flag unless the line is a    *)
(* level interrupt, and queues the vector if the mask enables it.          *)
fireInterrupt(l) ==
  /\ irq_flag' = IF IsLevelInterrupt(l) THEN irq_flag ELSE irq_flag \cup {l}
  /\ irqPartnerList' = IF l \in irq_mask THEN irqPartnerList \cup {l} ELSE irqPartnerList

(* Does a change of the pin of l from its saved state to s fire? *)
Fires(l, s) ==
  \/ mode[l] = MODE_LEVEL_LOW /\ ~s
  \/ mode[l] = MODE_EDGE_ALL /\ s # state[l]
  \/ mode[l] = MODE_EDGE_FALL /\ ~s /\ state[l]
  \/ mode[l] = MODE_EDGE_RISE /\ s /\ ~state[l]

(* ExternalIRQSingle::PinStateHasChanged. *)
SinglePinChanged(l, s) ==
  /\ ~crashed
  /\ IF Fires(l, s) THEN fireInterrupt(l) ELSE UNCHANGED <<irq_flag, irqPartnerList>>
  /\ state' = [state EXCEPT ![l] = s]
  /\ UNCHANGED <<irq_mask, mode, pinMask, high, taken, crashed>>

(* ExternalIRQPort::PinStateHasChanged: a pin of the port toggles. *)
PortPinChanged(p, pin) ==
  /\ ~crashed
  /\ IF pin \in pinMask[p] THEN fireInterrupt(p) ELSE UNCHANGED <<irq_flag, irqPartnerList>>
  /\ high' = [high EXCEPT ![p] = IF pin \in @ THEN @ \ {pin} ELSE @ \cup {pin}]
  /\ UNCHANGED <<irq_mask, mode, state, pinMask, taken, crashed>>

(* Mutant of WriteMask: a flag that is already set is not looked at. *)
WriteMaskOnly(nv) ==
  /\ ~crashed
  /\ irq_mask' = nv
  /\ irqPartnerList' = irqPartnerList \cup {l \in nv \ irq_mask : fireAgain(l)}
  /\ UNCHANGED <<irq_flag, sources, taken, crashed>>

(* Mutant of WriteMask: control falls through to the flag register's case. *)
WriteMaskFallsThrough(nv) ==
  /\ ~crashed
  /\ irq_mask' = nv
  /\ irqPartnerList' =
       irqPartnerList \cup {l \in nv \ irq_mask : l \in irq_flag \/ fireAgain(l)}
  /\ irq_flag' = irq_flag \ nv
  /\ UNCHANGED <<sources, taken, crashed>>

(* set_from_reg, mask register: a newly enabled line whose flag is set, or *)
(* whose level still asks, is queued.  Nothing is taken out of the queue.  *)
WriteMask(nv) ==
  /\ ~crashed
  /\ irq_mask' = nv
  /\ irqPartnerList' =
       irqPartnerList \cup {l \in nv \ irq_mask : l \in irq_flag \/ fireAgain(l)}
  /\ UNCHANGED <<irq_flag, sources, taken, crashed>>

(* set_from_reg, flag register: ones written clear flags; again nothing is *)
(* taken out of the queue.                                                 *)
WriteFlag(nv) ==
  /\ ~crashed
  /\ irq_flag' = irq_flag \ nv
  /\ UNCHANGED <<irq_mask, sources, irqPartnerList, taken, crashed>>

(* Mutant of ChangeMode: the offset of one-bit lines on a two-bit line. *)
ChangeModeOffset(l, m) ==
  /\ ~crashed
  /\ mode' = [mode EXCEPT ![l] = m + MODE_EDGE_FALL]
  /\ UNCHANGED <<handler, state, pinMask, high, irqPartnerList, taken, crashed>>

(* ExternalIRQ::set_from_reg, ExternalIRQSingle::ChangeMode. *)
ChangeMode(l, m) ==
  /\ ~crashed
  /\ mode' = [mode EXCEPT ![l] = m]
  /\ UNCHANGED <<handler, state, pinMask, high, irqPartnerList, taken, crashed>>

ChangePinMask(p, pins) ==
  /\ ~crashed
  /\ pinMask' = [pinMask EXCEPT ![p] = pins]
  /\ UNCHANGED <<handler, mode, state, high, irqPartnerList, taken, crashed>>

(* ExternalIRQHandler::Reset; the saved pin states and the queue of the    *)
(* interrupt system, which is no Hardware, survive a reset of the device.  *)
Reset ==
  /\ ~crashed
  /\ irq_mask' = {} /\ irq_flag' = {}
  /\ mode' = [l \in Singles |-> 0]
  /\ pinMask' = [p \in Ports |-> {}]
  /\ UNCHANGED <<state, high, irqPartnerList, taken, crashed>>

Least(S) == CHOOSE v \in S : \A w \in S : v <= w

Servable(l) == IsLevelInterrupt(l) => LevelInterruptPending(l)

(* Mutant of Cleared: a level interrupt is not triggered again. *)
ClearedForGood(C) == irqPartnerList \ C

(* The queue after ClearIrqFlag was called for every line of C: a level    *)
(* line that asks again is put back.                                       *)
Cleared(C) == irqPartnerList \ {l \in C : ~LevelInterruptPending(l)}

(* GetNewPc takes the first entry of the queue.  An entry of a level line  *)
(* that no longer asks is erased instead, by the same ClearIrqFlag, while  *)
(* the loop's iterator stands on it: advancing it is undefined, and the    *)
(* scan goes on to the first servable entry or the process dies.           *)
GetNewPc ==
  /\ ~crashed
  /\ LET ready == {l \in irqPartnerList : Servable(l)}
         v == IF ready = {} THEN 0 ELSE Least(ready)
         seen == {l \in irqPartnerList : v = 0 \/ l <= v}
         stale == seen \ ready
     IN  \/ /\ taken' = v
            /\ irq_flag' = irq_flag \ seen
            /\ irqPartnerList' = Cleared(seen)
            /\ UNCHANGED crashed
         \/ /\ stale # {}
            /\ irq_flag' = irq_flag \ {Least(stale)}
            /\ irqPartnerList' = irqPartnerList \ {Least(stale)}
            /\ crashed' = TRUE
            /\ UNCHANGED taken
  /\ UNCHANGED <<irq_mask, sources>>

Next ==
  \/ \E l \in Singles, s \in BOOLEAN : SinglePinChanged(l, s)
  \/ \E p \in Ports, pin \in PortPins : PortPinChanged(p, pin)
  \/ \E nv \in SUBSET Lines : WriteMask(nv) \/ WriteFlag(nv)
  \/ \E l \in Singles, m \in 0 .. 3 : ChangeMode(l, m)
  \/ \E p \in Ports, pins \in SUBSET PortPins : ChangePinMask(p, pins)
  \/ Reset
  \/ GetNewPc

Spec == Init /\ [][Next]_vars
-----------------------------------------------------------------------------
(* No event is lost: a line whose flag is set and whose mask bit is set is *)
(* in the queue, however events, mask writes, flag writes, mode changes    *)
(* and takings were interleaved.                                           *)
FlaggedIsQueued == irq_flag \cap irq_mask \subseteq irqPartnerList

(* A level interrupt that is queued stays queued for as long as its pin    *)
(* asks for it and its mask bit is set: taking it does not consume it.     *)
LevelStaysQueued ==
  [][\A l \in irqPartnerList :
       LevelInterruptPending(l) /\ LevelInterruptPending(l)'
         => l \in irqPartnerList']_vars

(* An edge that the core did not take yet is not forgotten: the flag of a  *)
(* line goes away only when its vector is taken, when software writes a    *)
(* one to it, on reset, or when it is a level line by then.                *)
EventNotForgotten ==
  [][\A l \in irq_flag \ irq_flag' :
       \/ taken' = l
       \/ \E nv \in SUBSET Lines : l \in nv /\ WriteFlag(nv)
       \/ Reset
       \/ IsLevelInterrupt(l)]_vars

=============================================================================
