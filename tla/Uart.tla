-------------------------------- MODULE Uart --------------------------------
(***************************************************************************)
(* The UART (hwuart.cpp): register accesses, the transmitter that shifts   *)
(* a bit every 16 baud ticks, the receiver that samples its pin in every   *)
(* tick, and the three interrupts.  RX is wired to TX, with a pull-up, so  *)
(* that what is received can be compared with what was sent.               *)
(*                                                                         *)
(* A word is the set of the positions of its one bits.  A register is the  *)
(* set of the names of its bits; an interrupt enable bit has the position, *)
(* and here the name, of its flag.  Fields of the receiver and transmitter *)
(* that are overwritten before their next use are set to zero at once.     *)
(* The UCSRC/UBRRH read sequence of the devices that share an address is   *)
(* left out.                                                               *)
(***************************************************************************)
EXTENDS Naturals, Sequences

CONSTANTS Programs   \* bound: what the program writes, see Program

Irqs == {"RXC", "TXC", "UDRE"}
StatusBits == Irqs \cup {"FE", "OR", "UPE"}
ControlBits == Irqs \cup {"RXEN", "TXEN", "CHR9", "RXB8", "TXB8"}
Format == [size : 5 .. 8, UPM1 : BOOLEAN, UPM0 : BOOLEAN, USBS : BOOLEAN]

(* A program: the values it writes to its registers, a bound on its writes *)
(* up to a reset once it has disturbed the line, and the values that the   *)
(* parity bits, which nothing initialises, may have.                       *)
ASSUME UartAssumption ==
  \A p \in Programs :
    /\ p.words \subseteq SUBSET (0 .. 7)
    /\ p.controls \subseteq SUBSET ControlBits
    /\ p.statuses \subseteq SUBSET StatusBits
    /\ p.formats \subseteq Format
    /\ p.rates \subseteq Nat /\ p.wild \in Nat
    /\ p.parities \subseteq BOOLEAN

VARIABLES u,                   \* registers, receiver, transmitter and queue
          baudCnt, baudCnt16,  \* prescalers of the two clocks
          (* the program, and history *)
          program,
          inflight,            \* words written to UDR and not yet received
          age,                 \* bit times since the last word arrived, or was sent to an idle line
          wild                 \* writes since the line was disturbed

RxStates == {"WAIT_FOR_HIGH", "WAIT_FOR_LOWEDGE", "READ_STARTBIT", "READ_DATABIT",
             "READ_PARITY", "READ_STOPBIT", "READ_STOPBIT2"}
TxStates == {"SEND_STARTBIT", "SEND_DATABIT", "SEND_PARITY", "SEND_STOPBIT",
             "SEND_STOPBIT2", "AFTER_STOPBIT", "FIRST_RUN", "FINISH"}

Receivers == [state : RxStates, cnt : 0 .. 17, low : 0 .. 3, high : 0 .. 3,
              data : SUBSET (0 .. 8), bit : 0 .. 9, parity : BOOLEAN]
Transmitters == [state : TxStates, data : SUBSET (0 .. 7), bit : 0 .. 9,
                 parity : BOOLEAN, pin : 0 .. 1]
Uarts == [udrWrite : SUBSET (0 .. 7), udrRead : SUBSET (0 .. 7),
          usr : SUBSET StatusBits, ucr : SUBSET ControlBits, ucsrc : Format, ubrr : Nat,
          rx : Receivers, tx : Transmitters, queue : SUBSET Irqs]

vars == <<u, baudCnt, baudCnt16, program, inflight, age, wild>>

TypeOK ==
  /\ u \in Uarts
  /\ baudCnt \in Nat /\ baudCnt16 \in 0 .. 15
  /\ program \in Programs
  /\ inflight \in Seq(SUBSET (0 .. 7)) /\ Len(inflight) <= 3
  /\ age \in Nat
  /\ wild \in 0 .. program.wild

ResetFormat == [size |-> 8, UPM1 |-> FALSE, UPM0 |-> FALSE, USBS |-> FALSE]

IdleReceiver(readParity) ==
  [state |-> "WAIT_FOR_LOWEDGE", cnt |-> 0, low |-> 0, high |-> 0, data |-> {}, bit |-> 0,
   parity |-> readParity]
IdleTransmitter(writeParity) ==
  [state |-> "FIRST_RUN", data |-> {}, bit |-> 0, parity |-> writeParity, pin |-> 1]

Init ==
  /\ program \in Programs
  /\ \E readParity, writeParity \in program.parities :
       u = [udrWrite |-> {}, udrRead |-> {}, usr |-> {"UDRE"}, ucr |-> {},
            ucsrc |-> ResetFormat, ubrr |-> 0, queue |-> {},
            rx |-> IdleReceiver(readParity), tx |-> IdleTransmitter(writeParity)]
  /\ baudCnt = 0 /\ baudCnt16 = 0
  /\ inflight = <<>> /\ age = 0 /\ wild = 0
-----------------------------------------------------------------------------
FrameLength(x) == IF "CHR9" \in x.ucr THEN 9 ELSE x.ucsrc.size

(* Mutant of CheckForNewIrq: an enabled flag is only noticed when it was   *)
(* clear before.                                                           *)
CheckForNewIrqOfFlag(x, old) ==
  [x EXCEPT !.queue = (@ \cup (Irqs \cap ((x.usr \ old.usr) \cap x.ucr)))
                         \ ((old.usr \ x.usr) \cap old.ucr)]

(* CheckForNewSetIrq and CheckForNewClearIrq: flags that became enabled    *)
(* and set since old are queued, those that ceased to be are removed.      *)
CheckForNewIrq(x, old) ==
  LET irqold == old.ucr \cap old.usr
      irqnew == x.ucr \cap x.usr
  IN  [x EXCEPT !.queue = (@ \cup (Irqs \cap (irqnew \ irqold))) \ (irqold \ irqnew)]
-----------------------------------------------------------------------------
(* One sample; samples 8 to 10 of a bit are counted. *)
Sampled(r, v) ==
  LET n == r.cnt + 1
      counts == n \in 8 .. 10
  IN  [r EXCEPT !.cnt = n, !.low = IF counts /\ v = 0 THEN @ + 1 ELSE @,
                           !.high = IF counts /\ v = 1 THEN @ + 1 ELSE @]

(* Mutant of High: one low sample makes a bit low. *)
HighIfAll(r) == r.low = 0

High(r) == r.low < r.high

(* The receiver turns to state and counts from zero. *)
Restarted(r, state) == [r EXCEPT !.state = state, !.cnt = 0, !.low = 0, !.high = 0]

(* It has not read a bit. *)
Emptied(r, state) == [Restarted(r, state) EXCEPT !.data = {}, !.bit = 0]

(* The last stop bit was sampled: a frame is only looked for after a high  *)
(* line.                                                                   *)
AfterStop(r) == Emptied(r, IF High(r) THEN "WAIT_FOR_LOWEDGE" ELSE "WAIT_FOR_HIGH")

Framing(usr, r) == IF High(r) THEN usr \ {"FE"} ELSE usr \cup {"FE"}

ReadStartbit(x, s) ==
  [x EXCEPT !.rx = IF s.cnt <= 15 THEN s
                   ELSE IF s.low > s.high
                   THEN Emptied(s, "READ_DATABIT") ELSE Emptied(s, "WAIT_FOR_HIGH")]

(* The bit count is compared by >, so a frame that is made shorter while   *)
(* it is received ends with its next bit.                                  *)
ReadDatabit(x, s) ==
  LET r == [Restarted(s, s.state) EXCEPT
              !.bit = @ + 1,
              !.data = IF High(s) THEN @ \cup {s.bit} ELSE @,
              !.parity = IF High(s) THEN ~@ ELSE @]
  IN  [x EXCEPT !.rx = IF s.cnt <= 15 THEN s
                       ELSE IF r.bit < FrameLength(x) THEN r
                       ELSE [r EXCEPT !.state = IF x.ucsrc.UPM1 THEN "READ_PARITY"
                                                                ELSE "READ_STOPBIT"]]

(* The parity is compared in every tick from the 16th on, and the state    *)
(* never changes; the count is kept at 16 here.                            *)
ReadParity(x, s) ==
  [x EXCEPT !.rx = [s EXCEPT !.cnt = IF @ > 16 THEN 16 ELSE @],
            !.usr = IF s.cnt <= 15 THEN @
                    ELSE IF s.parity = (High(s) # x.ucsrc.UPM0) THEN @ \ {"UPE"} ELSE @ \cup {"UPE"}]

ReadStopbit(x, s) ==
  LET two == x.ucsrc.USBS
      usr == Framing(x.usr, s)
  IN  IF s.cnt <= (IF two THEN 16 ELSE 10) THEN [x EXCEPT !.rx = s]
      ELSE [x EXCEPT
              !.udrRead = s.data \cap (0 .. 7),
              !.ucr = IF High(s) /\ "CHR9" \in @
                      THEN IF 8 \in s.data THEN @ \cup {"RXB8"} ELSE @ \ {"RXB8"} ELSE @,
              !.usr = IF two THEN usr
                      ELSE usr \cup {"RXC"} \cup (IF "RXC" \in usr THEN {"OR"} ELSE {}),
              !.rx = IF two THEN Restarted(s, "READ_STOPBIT2") ELSE AfterStop(s)]

ReadStopbit2(x, s) ==
  IF s.cnt <= 10 THEN [x EXCEPT !.rx = s]
  ELSE [x EXCEPT !.usr = Framing(@, s) \cup {"RXC"}, !.rx = AfterStop(s)]

(* CpuCycleRx, with v at the pin. *)
CpuCycleRx(x, v) ==
  LET r == x.rx
      s == Sampled(r, v)
      y == CASE r.state = "WAIT_FOR_HIGH" ->
                  [x EXCEPT !.rx.state = IF v = 1 THEN "WAIT_FOR_LOWEDGE" ELSE @]
             [] r.state = "WAIT_FOR_LOWEDGE" ->
                  [x EXCEPT !.rx = Restarted(r, IF v = 0 THEN "READ_STARTBIT" ELSE r.state)]
             [] r.state = "READ_STARTBIT" -> ReadStartbit(x, s)
             [] r.state = "READ_DATABIT" -> ReadDatabit(x, s)
             [] r.state = "READ_PARITY" -> ReadParity(x, s)
             [] r.state = "READ_STOPBIT" -> ReadStopbit(x, s)
             [] r.state = "READ_STOPBIT2" -> ReadStopbit2(x, s)
  IN  IF "RXEN" \in x.ucr THEN CheckForNewIrq(y, x) ELSE x
-----------------------------------------------------------------------------
(* UDR moves to the shift register.  The latter has 8 bits, so the ninth   *)
(* one, TXB8, is lost.                                                     *)
Shifted(x) == [x EXCEPT !.tx.data = x.udrWrite, !.tx.state = "SEND_STARTBIT",
                        !.usr = @ \cup {"UDRE"}]

(* Mutant of Load: only TXC tells that the transmitter is empty. *)
LoadWhenComplete(x) ==
  IF "UDRE" \notin x.usr /\ "TXC" \in x.usr
  THEN [Shifted(x) EXCEPT !.usr = @ \ {"TXC"}] ELSE x

(* New data and an empty transmitter. *)
Load(x) ==
  IF "UDRE" \notin x.usr /\ ("TXC" \in x.usr \/ x.tx.state \in {"FIRST_RUN", "FINISH"})
  THEN [Shifted(x) EXCEPT !.usr = @ \ {"TXC"}] ELSE x

(* After the last stop bit. *)
NextWord(x) ==
  IF "UDRE" \notin x.usr THEN Shifted(x) ELSE [x EXCEPT !.tx.state = "AFTER_STOPBIT", !.tx.data = {}]

SendDatabit(x) ==
  LET t == x.tx
      one == t.bit \in t.data
      parity == x.ucsrc.UPM0 \/ x.ucsrc.UPM1
      more == t.bit + 1 < FrameLength(x)
  IN  [x EXCEPT !.tx = [t EXCEPT !.pin = IF one THEN 1 ELSE 0,
                                 !.parity = IF one THEN ~@ ELSE @,
                                 !.bit = IF more THEN @ + 1 ELSE 0,
                                 !.state = IF more THEN @ ELSE
                                           IF parity THEN "SEND_PARITY" ELSE "SEND_STOPBIT"]]

(* CpuCycleTx, in the tick that ends a bit. *)
CpuCycleTx(x) ==
  LET l == Load(x)
      high == [l EXCEPT !.tx.pin = 1]
      y == CASE l.tx.state = "SEND_STARTBIT" ->
                  [l EXCEPT !.tx = [@ EXCEPT !.pin = 0, !.state = "SEND_DATABIT", !.bit = 0]]
             [] l.tx.state = "SEND_DATABIT" -> SendDatabit(l)
             [] l.tx.state = "SEND_PARITY" ->
                  [l EXCEPT !.tx = [@ EXCEPT !.pin = IF l.tx.parity = l.ucsrc.UPM0 THEN 1 ELSE 0,
                                             !.state = "SEND_STOPBIT"]]
             [] l.tx.state = "SEND_STOPBIT" ->
                  IF l.ucsrc.USBS THEN [high EXCEPT !.tx.state = "SEND_STOPBIT2"] ELSE NextWord(high)
             [] l.tx.state = "SEND_STOPBIT2" -> NextWord(high)
             [] l.tx.state = "AFTER_STOPBIT" ->
                  [l EXCEPT !.usr = @ \cup {"TXC"}, !.tx.state = "FINISH"]
             [] OTHER -> l
  IN  IF "TXEN" \in x.ucr THEN CheckForNewIrq(y, x) ELSE x

(* The wire: TX drives it when enabled, the pull-up otherwise. *)
Line == IF "TXEN" \in u.ucr THEN u.tx.pin ELSE 1

(* One of the three samples that count may be disturbed. *)
Disturbed(v) ==
  {v} \cup (IF u.rx.cnt + 1 \in 8 .. 10 /\ (IF v = 0 THEN u.rx.high = 0 ELSE u.rx.low = 0)
            THEN {1 - v} ELSE {})

Completes(x, y) ==
  /\ x.rx.state \in {"READ_STOPBIT", "READ_STOPBIT2"}
  /\ y.rx.state \notin {"READ_STOPBIT", "READ_STOPBIT2"}

(* CpuCycle: a baud tick when the prescaler has counted to UBRR; the       *)
(* receiver samples before the transmitter moves.                          *)
CpuCycle ==
  /\ IF baudCnt + 1 < u.ubrr + 1
     THEN baudCnt' = baudCnt + 1 /\ UNCHANGED <<u, baudCnt16, inflight, age>>
     ELSE /\ baudCnt' = 0
          /\ baudCnt16' = (baudCnt16 + 1) % 16
          /\ \E v \in Disturbed(Line) :
               LET x == CpuCycleRx(u, v) IN
               /\ u' = IF baudCnt16 = 15 THEN CpuCycleTx(x) ELSE x
               /\ inflight' = IF Completes(u, x) /\ inflight # <<>> THEN Tail(inflight) ELSE inflight
               /\ age' = IF Completes(u, x) \/ inflight = <<>> \/ wild > 0 THEN 0
                         ELSE IF baudCnt16 = 15 THEN age + 1 ELSE age
  /\ UNCHANGED <<program, wild>>
-----------------------------------------------------------------------------
(* Nothing is on its way. *)
Quiet == inflight = <<>>
Linked(ucr) == {"RXEN", "TXEN"} \subseteq ucr

(* A write that the program should make (ok), or one that it should not;   *)
(* after one of these all writes up to the next reset are counted.         *)
Access(ok) ==
  /\ wild' = IF ok /\ wild = 0 THEN 0 ELSE wild + 1
  /\ wild' <= program.wild
  /\ UNCHANGED <<baudCnt, baudCnt16, program, age>>

SetUdr(w) ==
  /\ u' = [u EXCEPT !.udrWrite = w, !.usr = @ \ {"UDRE"},
                    !.queue = IF "UDRE" \in u.usr \cap u.ucr THEN @ \ {"UDRE"} ELSE @]
  /\ inflight' = IF Len(inflight) < 3 THEN Append(inflight, w) ELSE inflight
  /\ Access("UDRE" \in u.usr /\ Linked(u.ucr))

(* SetUsr: all bits are taken from the value; TXC is cleared after the     *)
(* interrupts have been compared.                                          *)
SetUsr(val) ==
  /\ u' = [CheckForNewIrq([u EXCEPT !.usr = val], u) EXCEPT !.usr = @ \ {"TXC"}]
  /\ UNCHANGED inflight
  /\ Access(FALSE)

SetUcr(val) ==
  /\ u' = CheckForNewIrq(
            [u EXCEPT !.ucr = val,
                      !.tx.pin = IF "TXEN" \in val /\ u.tx.state \in {"FIRST_RUN", "SEND_STARTBIT"}
                                 THEN 1 ELSE @], u)
  /\ UNCHANGED inflight
  /\ Access(Linked(val) /\ (Quiet \/ val \ Irqs = u.ucr \ Irqs))

(* SetUcsrc, of the USART; parity makes the receiver hang. *)
SetUcsrc(val) ==
  /\ u' = [u EXCEPT !.ucsrc = val]
  /\ UNCHANGED inflight
  /\ Access(Quiet /\ ~val.UPM1 /\ ~val.UPM0)

SetUbrr(val) ==
  /\ u' = [u EXCEPT !.ubrr = val]
  /\ UNCHANGED inflight
  /\ Access(TRUE)

GetUdr ==
  /\ u' = [u EXCEPT !.usr = @ \ {"RXC"},
                    !.queue = IF "RXC" \in u.usr \cap u.ucr THEN @ \ {"RXC"} ELSE @]
  /\ UNCHANGED <<baudCnt, baudCnt16, program, inflight, age, wild>>

(* The core takes a vector: only the one of TXC is cleared by that. *)
ClearIrqFlag(v) ==
  /\ v \in u.queue
  /\ u' = IF v = "TXC" THEN [u EXCEPT !.usr = @ \ {v}, !.queue = @ \ {v}] ELSE u
  /\ UNCHANGED <<baudCnt, baudCnt16, program, inflight, age, wild>>

(* Reset: parity, samples and queued vectors survive. *)
Reset ==
  /\ u' = [u EXCEPT !.udrWrite = {}, !.udrRead = {}, !.usr = {"UDRE"}, !.ucr = {},
                    !.ucsrc = ResetFormat, !.ubrr = 0,
                    !.rx = IdleReceiver(@.parity), !.tx = IdleTransmitter(@.parity)]
  /\ baudCnt' = 0 /\ baudCnt16' = 0
  /\ inflight' = <<>> /\ age' = 0 /\ wild' = 0 /\ UNCHANGED program

Next ==
  \/ CpuCycle
  \/ \E w \in program.words : SetUdr(w)
  \/ \E val \in program.statuses : SetUsr(val)
  \/ \E val \in program.controls : SetUcr(val)
  \/ \E val \in program.formats : SetUcsrc(val)
  \/ \E val \in program.rates : SetUbrr(val)
  \/ GetUdr
  \/ \E v \in Irqs : ClearIrqFlag(v)
  \/ Reset

Spec == Init /\ [][Next]_vars
-----------------------------------------------------------------------------
(* No event is lost between the status register, the enable bits and the   *)
(* interrupt system, whatever the program writes: an enabled flag is       *)
(* queued.                                                                 *)
FlaggedIsQueued == (u.usr \cap u.ucr) \cap Irqs \subseteq u.queue

(* Framing: while the program keeps the rules since the last reset, every  *)
(* frame that the receiver completes is the next word that was sent, cut   *)
(* to the frame length, without a framing error, although one of the three *)
(* samples of each bit may be wrong.                                       *)
ReceivesWhatWasSent ==
  [][wild = 0 /\ wild' = 0 /\ Completes(u, u') /\ u'.ucr # {} =>
       /\ inflight # <<>>
       /\ u'.udrRead = Head(inflight) \cap (0 .. FrameLength(u) - 1)
       /\ {"RXC"} = u'.usr \cap {"RXC", "FE"}]_vars

(* Every word that was sent arrives, and in time: as long as the program   *)
(* keeps the rules the next one comes within the bit times of its frame,   *)
(* the one in which UDR was written and the idle one after a frame.        *)
ArrivesInTime ==
  wild = 0 => age <= FrameLength(u) + (IF u.ucsrc.USBS THEN 4 ELSE 3)

=============================================================================
