----------------------------- MODULE UartProofs -----------------------------
(***************************************************************************)
(* Proofs about the UART for every program.  The first part: registers,    *)
(* receiver and transmitter keep their types, the counters of the receiver *)
(* included, and the flags are kept in step with the queue of the          *)
(* interrupt system.  The second part: while the program keeps the rules,  *)
(* receiver and transmitter are in phase (Framed), so that every word that *)
(* was sent is received, and in time.                                      *)
(***************************************************************************)
EXTENDS Uart, TLAPS

(* Flags, enables and queue of a UART are in step. *)
Queued(x) == (x.usr \cap x.ucr) \cap Irqs \subseteq x.queue

(* The receiver's counters: it has counted a sample for each of ticks 8 to *)
(* 10 of the bit, none ahead, and while it reads data there is room for    *)
(* the next bit.                                                           *)
Counted(r) ==
  /\ r.cnt <= 16
  /\ r.low + r.high <= IF r.cnt < 8 THEN 0 ELSE IF r.cnt > 10 THEN 3 ELSE r.cnt - 7
  /\ r.state = "READ_DATABIT" => r.bit <= 8

(* The same for a receiver that has just taken a sample. *)
Sample(s) ==
  /\ s \in Receivers /\ s.cnt \in 1 .. 17
  /\ s.low + s.high <= IF s.cnt < 8 THEN 0 ELSE IF s.cnt > 10 THEN 3 ELSE s.cnt - 7
  /\ s.state = "READ_DATABIT" => s.bit <= 8

Inv == TypeOK /\ Counted(u.rx) /\ Queued(u)
-----------------------------------------------------------------------------
(* CheckForNewSetIrq and CheckForNewClearIrq after an access that left the *)
(* queue to them bring it in step again.                                   *)
LEMMA CheckQueues ==
  ASSUME NEW x \in Uarts, NEW y \in Uarts, Queued(x), y.queue = x.queue
  PROVE  /\ CheckForNewIrq(y, x) \in Uarts
         /\ Queued(CheckForNewIrq(y, x))
         /\ CheckForNewIrq(y, x).rx = y.rx
<1> DEFINE q == (y.queue \cup (Irqs \cap ((y.ucr \cap y.usr) \ (x.ucr \cap x.usr))))
                 \ ((x.ucr \cap x.usr) \ (y.ucr \cap y.usr))
           z == [y EXCEPT !.queue = q]
<1>1. CheckForNewIrq(y, x) = z
  BY DEF CheckForNewIrq
<1>2. q \in SUBSET Irqs
  BY DEF Uarts
<1>3. z \in Uarts /\ z.queue = q /\ z.usr = y.usr /\ z.ucr = y.ucr /\ z.rx = y.rx
  <2> HIDE DEF q
  <2> QED
    BY <1>2 DEF Uarts
<1>4. Queued(z)
  <2> HIDE DEF z
  <2> QED
    BY <1>3 DEF Queued
<1> QED
  BY <1>1, <1>3, <1>4

(* The types of the receiver's fields, under names that stay folded. *)
Ticks == 0 .. 17
Votes == 0 .. 3
Places == 0 .. 9
Received == SUBSET (0 .. 8)

LEMMA ReceiversDef ==
  Receivers = [state : RxStates, cnt : Ticks, low : Votes, high : Votes, data : Received,
               bit : Places, parity : BOOLEAN]
  BY DEF Receivers, Ticks, Votes, Places, Received

(* A sample is counted once, and only in the ticks that count. *)
LEMMA SampledType ==
  ASSUME NEW r \in Receivers, Counted(r), NEW v \in {0, 1}
  PROVE  Sample(Sampled(r, v)) /\ Sampled(r, v).state = r.state
<1> DEFINE n == r.cnt + 1
           lo == IF n \in 8 .. 10 /\ v = 0 THEN r.low + 1 ELSE r.low
           hi == IF n \in 8 .. 10 /\ v = 1 THEN r.high + 1 ELSE r.high
           s == [r EXCEPT !.cnt = n, !.low = lo, !.high = hi]
<1>1. Sampled(r, v) = s
  BY ReceiversDef DEF Sampled
<1>2. /\ n \in Ticks /\ lo \in Votes /\ hi \in Votes /\ n \in 1 .. 17
      /\ lo + hi <= IF n < 8 THEN 0 ELSE IF n > 10 THEN 3 ELSE n - 7
  BY DEF Receivers, Counted, Ticks, Votes
<1>3. /\ s \in Receivers
      /\ s.cnt = n /\ s.low = lo /\ s.high = hi /\ s.state = r.state /\ s.bit = r.bit
  <2> HIDE DEF n, lo, hi
  <2> QED
    BY <1>2, ReceiversDef
<1> QED
  <2> HIDE DEF n, lo, hi, s
  <2> QED
    BY <1>1, <1>2, <1>3 DEF Counted, Sample

(* A receiver that starts to count again has its counters in order. *)
LEMMA RestartedType ==
  ASSUME NEW r \in Receivers, NEW st \in RxStates
  PROVE  /\ Restarted(r, st) \in Receivers
         /\ Restarted(r, st).bit = r.bit /\ Restarted(r, st).state = st
         /\ Restarted(r, st).data = r.data
         /\ Restarted(r, st).cnt = 0 /\ Restarted(r, st).low = 0 /\ Restarted(r, st).high = 0
         /\ (st = "READ_DATABIT" => r.bit <= 8) => Counted(Restarted(r, st))
<1>1. PICK z : z = 0 /\ z \in Ticks /\ z \in Votes
  BY DEF Ticks, Votes
<1>2. Restarted(r, st) = [r EXCEPT !.state = st, !.cnt = z, !.low = z, !.high = z]
  BY <1>1 DEF Restarted
<1>3. [r EXCEPT !.state = st, !.cnt = z, !.low = z, !.high = z] \in Receivers
  BY <1>1, ReceiversDef
<1> DEFINE t == Restarted(r, st)
<1>4. /\ t.state = st /\ t.cnt = 0 /\ t.low = 0 /\ t.high = 0
      /\ t.bit = r.bit /\ t.data = r.data
  BY DEF Restarted, Receivers
<1> HIDE DEF t
<1>5. (st = "READ_DATABIT" => r.bit <= 8) => Counted(t)
  BY <1>4 DEF Counted
<1> QED
  BY <1>2, <1>3, <1>4, <1>5 DEF t

LEMMA EmptiedType ==
  ASSUME NEW r \in Receivers, NEW st \in RxStates
  PROVE  Emptied(r, st) \in Receivers /\ Counted(Emptied(r, st))
<1> DEFINE t == Restarted(r, st)
<1>1. t \in Receivers /\ t.state = st /\ t.cnt = 0 /\ t.low = 0 /\ t.high = 0
  BY RestartedType
<1>2. PICK z : z = 0 /\ z \in Places
  BY DEF Places
<1>3. {} \in Received
  BY DEF Received
<1>4. Emptied(r, st) = [t EXCEPT !.data = {}, !.bit = z]
  BY <1>2 DEF Emptied
<1> HIDE DEF t
<1>5. [t EXCEPT !.data = {}, !.bit = z] \in Receivers
  BY <1>1, <1>2, <1>3, ReceiversDef
<1> QED
  BY <1>1, <1>2, <1>4, <1>5 DEF Receivers, Counted

(* The types of the UART's fields, under names that stay folded. *)
Words == SUBSET (0 .. 7)
Statuses == SUBSET StatusBits
Controls == SUBSET ControlBits

LEMMA UartsDef ==
  Uarts = [udrWrite : Words, udrRead : Words, usr : Statuses, ucr : Controls, ucsrc : Format,
           ubrr : Nat, rx : Receivers, tx : Transmitters, queue : SUBSET Irqs]
  BY DEF Uarts, Words, Statuses, Controls

(* A frame has between 5 and 9 data bits. *)
LEMMA FrameLengthType == ASSUME NEW x \in Uarts PROVE FrameLength(x) \in 5 .. 9
  BY DEF FrameLength, Uarts, Format

(* What a step of the receiver leaves behind before the interrupts are     *)
(* looked at: a UART with its counters in order and the old queue.         *)
Moved(y, x) == y \in Uarts /\ Counted(y.rx) /\ y.queue = x.queue

(* A step of the receiver that changes only the receiver. *)
LEMMA ReceiverMoved ==
  ASSUME NEW x \in Uarts, NEW r \in Receivers, Counted(r)
  PROVE  Moved([x EXCEPT !.rx = r], x)
  BY UartsDef DEF Moved

LEMMA ReadStartbitMoved ==
  ASSUME NEW x \in Uarts, NEW s, Sample(s), s.state = "READ_STARTBIT"
  PROVE  Moved(ReadStartbit(x, s), x)
<1>1. s.cnt <= 15 => Counted(s)
  BY DEF Counted, Sample, Receivers
<1>2. /\ Emptied(s, "READ_DATABIT") \in Receivers /\ Counted(Emptied(s, "READ_DATABIT"))
      /\ Emptied(s, "WAIT_FOR_HIGH") \in Receivers /\ Counted(Emptied(s, "WAIT_FOR_HIGH"))
  BY EmptiedType DEF RxStates, Sample
<1>3. PICK r \in Receivers : Counted(r) /\ ReadStartbit(x, s) = [x EXCEPT !.rx = r]
  <2>1. CASE s.cnt <= 15
    BY <1>1, <2>1 DEF ReadStartbit, Sample
  <2>2. CASE ~(s.cnt <= 15) /\ s.low > s.high
    BY <1>2, <2>2 DEF ReadStartbit
  <2>3. CASE ~(s.cnt <= 15) /\ ~(s.low > s.high)
    BY <1>2, <2>3 DEF ReadStartbit
  <2> QED
    BY <2>1, <2>2, <2>3
<1> QED
  BY <1>3, ReceiverMoved

(* The bit count stays within the frame: a data bit is only read where     *)
(* there is room for it, also when the frame was made shorter meanwhile.   *)
LEMMA ReadDatabitMoved ==
  ASSUME NEW x \in Uarts, NEW s, Sample(s), s.state = "READ_DATABIT"
  PROVE  Moved(ReadDatabit(x, s), x)
<1>1. PICK t \in Receivers : /\ t = Restarted(s, s.state) /\ Counted(t)
                              /\ t.bit = s.bit /\ t.state = s.state /\ t.data = s.data
                              /\ t.cnt = 0 /\ t.low = 0 /\ t.high = 0
  BY RestartedType DEF RxStates, Sample
<1> DEFINE d == IF High(s) THEN t.data \cup {s.bit} ELSE t.data
           p == IF High(s) THEN ~t.parity ELSE t.parity
           r == [t EXCEPT !.bit = @ + 1, !.data = d, !.parity = p]
           l == IF x.ucsrc.UPM1 THEN "READ_PARITY" ELSE "READ_STOPBIT"
<1>2. ReadDatabit(x, s) = [x EXCEPT !.rx = IF s.cnt <= 15 THEN s
                             ELSE IF r.bit < FrameLength(x) THEN r ELSE [r EXCEPT !.state = l]]
  <2>1. r = [t EXCEPT !.bit = @ + 1,
                      !.data = IF High(s) THEN @ \cup {s.bit} ELSE @,
                      !.parity = IF High(s) THEN ~@ ELSE @]
    BY ReceiversDef
  <2> QED
    BY <1>1, <2>1 DEF ReadDatabit
<1>3. PICK n \in Places : n = t.bit + 1
  BY <1>1 DEF Places, Sample, Receivers
<1>4. d \in Received
  BY <1>1 DEF Received, Sample, Receivers
<1>5. p \in BOOLEAN
  <2>1. t.parity \in BOOLEAN
    BY ReceiversDef
  <2> QED
    BY <2>1, Zenon
<1>6. /\ r \in Receivers /\ r.bit = n /\ r.state = "READ_DATABIT"
      /\ r.cnt = 0 /\ r.low = 0 /\ r.high = 0
  <2>1. r = [t EXCEPT !.bit = n, !.data = d, !.parity = p]
    BY <1>3
  <2> HIDE DEF d, p
  <2>2. [t EXCEPT !.bit = n, !.data = d, !.parity = p] \in Receivers
    BY <1>4, <1>5, ReceiversDef
  <2> QED
    BY <1>1, <2>1, <2>2, ReceiversDef
<1>7. l \in RxStates \ {"READ_DATABIT"}
  BY DEF RxStates
<1> HIDE DEF d, p, r, l
<1>8. r.bit < FrameLength(x) => Counted(r)
  BY <1>6, FrameLengthType DEF Counted, Places
<1>9. [r EXCEPT !.state = l] \in Receivers /\ Counted([r EXCEPT !.state = l])
  <2>1. [r EXCEPT !.state = l] \in Receivers
    BY <1>6, <1>7, ReceiversDef
  <2> QED
    BY <1>6, <1>7, <2>1 DEF Counted, Receivers
<1>10. s.cnt <= 15 => Counted(s)
  BY DEF Counted, Sample, Receivers
<1>11. PICK w \in Receivers : Counted(w) /\ ReadDatabit(x, s) = [x EXCEPT !.rx = w]
  <2>1. CASE s.cnt <= 15
    BY <1>2, <1>10, <2>1 DEF Sample
  <2>2. CASE ~(s.cnt <= 15) /\ r.bit < FrameLength(x)
    BY <1>2, <1>6, <1>8, <2>2
  <2>3. CASE ~(s.cnt <= 15) /\ ~(r.bit < FrameLength(x))
    BY <1>2, <1>9, <2>3
  <2> QED
    BY <2>1, <2>2, <2>3
<1> QED
  BY <1>11, ReceiverMoved

(* A step of the receiver that also writes status bits. *)
LEMMA StatusMoved ==
  ASSUME NEW x \in Uarts, NEW r \in Receivers, Counted(r), NEW st \in Statuses, NEW y,
         y = [x EXCEPT !.usr = st, !.rx = r] \/ y = [x EXCEPT !.rx = r, !.usr = st]
  PROVE  Moved(y, x)
  BY UartsDef DEF Moved

LEMMA ReadParityMoved ==
  ASSUME NEW x \in Uarts, NEW s, Sample(s), s.state = "READ_PARITY"
  PROVE  Moved(ReadParity(x, s), x)
<1>1. PICK c \in Ticks : c = IF s.cnt > 16 THEN 16 ELSE s.cnt
  BY DEF Ticks, Sample
<1>2. PICK st \in Statuses :
        st = IF s.cnt <= 15 THEN x.usr
             ELSE IF s.parity = (High(s) # x.ucsrc.UPM0) THEN x.usr \ {"UPE"} ELSE x.usr \cup {"UPE"}
  <2>1. x.usr \in Statuses /\ x.usr \ {"UPE"} \in Statuses /\ x.usr \cup {"UPE"} \in Statuses
    BY DEF Uarts, Statuses, StatusBits
  <2> QED
    BY <2>1
<1>3. PICK r \in Receivers : r = [s EXCEPT !.cnt = c] /\ Counted(r)
  <2>1. [s EXCEPT !.cnt = c] \in Receivers
    BY ReceiversDef DEF Sample
  <2> QED
    BY <1>1, <2>1 DEF Counted, Sample, Receivers, Ticks
<1>4. ReadParity(x, s) = [x EXCEPT !.rx = r, !.usr = st]
  <2>1. r = [s EXCEPT !.cnt = IF @ > 16 THEN 16 ELSE @]
    BY <1>1, <1>3, ReceiversDef DEF Sample
  <2> QED
    BY <1>2, <2>1, UartsDef DEF ReadParity
<1> QED
  BY <1>3, <1>4, StatusMoved

(* What the stop bits leave behind has no count left over. *)
LEMMA AfterStopType ==
  ASSUME NEW s, Sample(s)
  PROVE  AfterStop(s) \in Receivers /\ Counted(AfterStop(s))
  BY EmptiedType DEF AfterStop, Sample, RxStates

LEMMA FramingType ==
  ASSUME NEW st \in Statuses, NEW s
  PROVE  Framing(st, s) \in Statuses
  BY DEF Framing, Statuses, StatusBits

LEMMA ReadStopbitMoved ==
  ASSUME NEW x \in Uarts, NEW s, Sample(s), s.state = "READ_STOPBIT"
  PROVE  Moved(ReadStopbit(x, s), x)
<1> DEFINE two == x.ucsrc.USBS
           usr == Framing(x.usr, s)
<1>1. CASE s.cnt <= (IF two THEN 16 ELSE 10)
  <2>1. s \in Receivers /\ Counted(s)
    BY <1>1 DEF Counted, Sample, Receivers
  <2>2. ReadStopbit(x, s) = [x EXCEPT !.rx = s]
    BY <1>1 DEF ReadStopbit
  <2> QED
    BY <2>1, <2>2, ReceiverMoved
<1>2. CASE ~(s.cnt <= (IF two THEN 16 ELSE 10))
  <2>1. PICK w \in Words : w = s.data \cap (0 .. 7)
    BY DEF Words
  <2>2. PICK c \in Controls : c = IF High(s) /\ "CHR9" \in x.ucr
                                 THEN IF 8 \in s.data THEN x.ucr \cup {"RXB8"} ELSE x.ucr \ {"RXB8"}
                                 ELSE x.ucr
    <3>1. x.ucr \in Controls /\ x.ucr \cup {"RXB8"} \in Controls /\ x.ucr \ {"RXB8"} \in Controls
      BY DEF Uarts, Controls, ControlBits
    <3> QED
      BY <3>1
  <2>3. PICK st \in Statuses : st = IF two THEN usr
                                   ELSE usr \cup {"RXC"} \cup (IF "RXC" \in usr THEN {"OR"} ELSE {})
    <3>1. usr \in Statuses
      BY UartsDef, FramingType
    <3> HIDE DEF usr
    <3>2. usr \cup {"RXC"} \cup {"OR"} \in Statuses /\ usr \cup {"RXC"} \cup {} \in Statuses
      BY <3>1 DEF Statuses, StatusBits, Irqs
    <3> QED
      BY <3>1, <3>2
  <2>4. PICK r \in Receivers : Counted(r) /\ r = IF two THEN Restarted(s, "READ_STOPBIT2") ELSE AfterStop(s)
    BY AfterStopType, RestartedType DEF Sample, RxStates
  <2>5. ReadStopbit(x, s) = [x EXCEPT !.udrRead = w, !.ucr = c, !.usr = st, !.rx = r]
    BY <1>2, <2>1, <2>2, <2>3, <2>4, UartsDef DEF ReadStopbit
  <2>6. ASSUME NEW y, y = [x EXCEPT !.udrRead = w, !.ucr = c, !.usr = st, !.rx = r]
        PROVE  Moved(y, x)
    BY <2>4, <2>6, UartsDef DEF Moved
  <2> QED
    BY <2>5, <2>6
<1> QED
  BY <1>1, <1>2

LEMMA ReadStopbit2Moved ==
  ASSUME NEW x \in Uarts, NEW s, Sample(s), s.state = "READ_STOPBIT2"
  PROVE  Moved(ReadStopbit2(x, s), x)
<1>1. CASE s.cnt <= 10
  <2>1. s \in Receivers /\ Counted(s)
    BY <1>1 DEF Counted, Sample, Receivers
  <2>2. ReadStopbit2(x, s) = [x EXCEPT !.rx = s]
    BY <1>1 DEF ReadStopbit2
  <2> QED
    BY <2>1, <2>2, ReceiverMoved
<1>2. CASE ~(s.cnt <= 10)
  <2>1. PICK st \in Statuses : st = Framing(x.usr, s) \cup {"RXC"}
    <3>1. Framing(x.usr, s) \in Statuses
      BY UartsDef, FramingType
    <3> QED
      BY <3>1 DEF Statuses, StatusBits, Irqs
  <2>2. ReadStopbit2(x, s) = [x EXCEPT !.usr = st, !.rx = AfterStop(s)]
    BY <1>2, <2>1, UartsDef DEF ReadStopbit2
  <2> QED
    BY <2>2, AfterStopType, StatusMoved
<1> QED
  BY <1>1, <1>2

(* CpuCycleRx keeps the receiver's counters in order and the queue in step *)
(* with what it flags.                                                     *)
LEMMA ReceiveStep ==
  ASSUME NEW x \in Uarts, Counted(x.rx), Queued(x), NEW v \in {0, 1}
  PROVE  LET z == CpuCycleRx(x, v) IN z \in Uarts /\ Counted(z.rx) /\ Queued(z)
<1> DEFINE r == x.rx
           s == Sampled(r, v)
           y == CASE r.state = "WAIT_FOR_HIGH" ->
                       [x EXCEPT !.rx.state = IF v = 1 THEN "WAIT_FOR_LOWEDGE" ELSE @]
                  [] r.state = "WAIT_FOR_LOWEDGE" ->
                       [x EXCEPT !.rx = Restarted(r, IF v = 0 THEN "READ_STARTBIT" ELSE r.state)]
                  [] r.state = "READ_STARTBIT" -> ReadStartbit(x, s)
                  [] r.state = "READ_DATABIT" -> ReadDatabit(x, s)
                  [] r.state = "READ_PARITY" -> ReadParity(x, s)
                  [] r.state = "READ_STOPBIT" -> ReadStopbit(x, s)
                  [] r.state = "READ_STOPBIT2" -> ReadStopbit2(x, s)
<1>1. r \in Receivers
  BY UartsDef
<1>2. Sample(s) /\ s.state = r.state
  BY <1>1, SampledType
<1>3. Moved(y, x)
  <2>1. CASE r.state = "WAIT_FOR_HIGH"
    <3>1. PICK t \in Receivers : Counted(t) /\ t = [r EXCEPT !.state = IF v = 1 THEN "WAIT_FOR_LOWEDGE" ELSE @]
      <4>1. [r EXCEPT !.state = "WAIT_FOR_LOWEDGE"] \in Receivers
        BY <1>1, ReceiversDef, "WAIT_FOR_LOWEDGE" \in RxStates DEF RxStates
      <4>2. Counted([r EXCEPT !.state = "WAIT_FOR_LOWEDGE"])
        BY <1>1 DEF Counted, Receivers
      <4>3. CASE v = 1
        BY <4>1, <4>2, <4>3
      <4>4. CASE v # 1
        BY <1>1, <4>4, ReceiversDef
      <4> QED
        BY <4>3, <4>4
    <3>2. y = [x EXCEPT !.rx = t]
      BY <2>1, <3>1
    <3> QED
      BY <3>1, <3>2, ReceiverMoved
  <2>2. CASE r.state = "WAIT_FOR_LOWEDGE"
    <3>1. PICK t \in Receivers : Counted(t) /\ t = Restarted(r, IF v = 0 THEN "READ_STARTBIT" ELSE r.state)
      BY <1>1, <2>2, RestartedType DEF RxStates
    <3>2. y = [x EXCEPT !.rx = t]
      BY <2>2, <3>1
    <3> QED
      BY <3>1, <3>2, ReceiverMoved
  <2>3. CASE r.state = "READ_STARTBIT"
    BY <1>2, <2>3, ReadStartbitMoved
  <2>4. CASE r.state = "READ_DATABIT"
    BY <1>2, <2>4, ReadDatabitMoved
  <2>5. CASE r.state = "READ_PARITY"
    BY <1>2, <2>5, ReadParityMoved
  <2>6. CASE r.state = "READ_STOPBIT"
    BY <1>2, <2>6, ReadStopbitMoved
  <2>7. CASE r.state = "READ_STOPBIT2"
    BY <1>2, <2>7, ReadStopbit2Moved
  <2> QED
    BY <1>1, <2>1, <2>2, <2>3, <2>4, <2>5, <2>6, <2>7 DEF Receivers, RxStates
<1>4. CpuCycleRx(x, v) = IF "RXEN" \in x.ucr THEN CheckForNewIrq(y, x) ELSE x
  BY DEF CpuCycleRx
<1> HIDE DEF y
<1> QED
  BY <1>3, <1>4, CheckQueues DEF Moved
-----------------------------------------------------------------------------
(* The types of the transmitter's fields, under names that stay folded. *)
Levels == 0 .. 1

LEMMA TransmittersDef ==
  Transmitters = [state : TxStates, data : Words, bit : Places, parity : BOOLEAN, pin : Levels]
  BY DEF Transmitters, Words, Places, Levels

(* A step of the transmitter leaves the receiver and the queue alone. *)
Sent(y, x) == y \in Uarts /\ y.rx = x.rx /\ y.queue = x.queue

LEMMA TransmitterSent ==
  ASSUME NEW x \in Uarts, NEW t \in Transmitters, NEW st \in Statuses, NEW y,
         \/ y = [x EXCEPT !.tx = t]
         \/ y = [x EXCEPT !.tx = t, !.usr = st]
         \/ y = [x EXCEPT !.usr = st, !.tx = t]
  PROVE  Sent(y, x)
  BY UartsDef DEF Sent

(* A new state of the transmitter, and new data. *)
LEMMA TransmitterSet ==
  ASSUME NEW t \in Transmitters, NEW st \in TxStates, NEW w \in Words, NEW n \in Levels
  PROVE  /\ [t EXCEPT !.state = st] \in Transmitters
         /\ [t EXCEPT !.pin = n] \in Transmitters
         /\ [t EXCEPT !.data = w, !.state = st] \in Transmitters
         /\ [t EXCEPT !.state = st, !.data = w] \in Transmitters
         /\ [t EXCEPT !.pin = n, !.state = st] \in Transmitters
  BY TransmittersDef

LEMMA ShiftedSent ==
  ASSUME NEW x \in Uarts
  PROVE  /\ Sent(Shifted(x), x)
         /\ Sent([Shifted(x) EXCEPT !.usr = @ \ {"TXC"}], x)
<1>1. x.tx \in Transmitters /\ x.usr \in Statuses /\ x.udrWrite \in Words
  BY UartsDef
<1>2. PICK t \in Transmitters : t = [x.tx EXCEPT !.data = x.udrWrite, !.state = "SEND_STARTBIT"]
  BY <1>1, TransmittersDef, "SEND_STARTBIT" \in TxStates DEF TxStates
<1>3. PICK st \in Statuses : st = x.usr \cup {"UDRE"}
  BY <1>1 DEF Statuses, StatusBits, Irqs
<1>4. Shifted(x) = [x EXCEPT !.tx = t, !.usr = st]
  BY <1>1, <1>2, <1>3, UartsDef DEF Shifted
<1>5. Sent(Shifted(x), x)
  BY <1>1, <1>4, TransmitterSent
<1>6. ASSUME NEW z \in Uarts PROVE Sent([z EXCEPT !.usr = @ \ {"TXC"}], z)
  <2>1. z.usr \ {"TXC"} \in Statuses
    BY UartsDef DEF Statuses
  <2> QED
    BY <2>1, UartsDef DEF Sent
<1> QED
  BY <1>5, <1>6 DEF Sent

LEMMA LoadSent == ASSUME NEW x \in Uarts PROVE Sent(Load(x), x)
<1>1. Sent(x, x)
  BY DEF Sent
<1> QED
  BY <1>1, ShiftedSent, Zenon DEF Load

LEMMA NextWordSent == ASSUME NEW x \in Uarts PROVE Sent(NextWord(x), x)
<1>1. x.tx \in Transmitters
  BY UartsDef
<1>2. {} \in Words /\ "AFTER_STOPBIT" \in TxStates
  BY DEF Words, TxStates
<1>3. PICK t \in Transmitters : t = [x.tx EXCEPT !.state = "AFTER_STOPBIT", !.data = {}]
  BY <1>1, <1>2, TransmittersDef
<1>4. CASE "UDRE" \in x.usr
  <2>1. NextWord(x) = [x EXCEPT !.tx = t]
    BY <1>3, <1>4, UartsDef DEF NextWord
  <2> QED
    BY <2>1, UartsDef DEF Sent
<1>5. CASE "UDRE" \notin x.usr
  BY <1>5, ShiftedSent DEF NextWord
<1> QED
  BY <1>4, <1>5

LEMMA SendDatabitSent == ASSUME NEW x \in Uarts PROVE Sent(SendDatabit(x), x)
<1> DEFINE one == x.tx.bit \in x.tx.data
           parity == x.ucsrc.UPM0 \/ x.ucsrc.UPM1
           more == x.tx.bit + 1 < FrameLength(x)
<1>1. x.tx \in Transmitters
  BY UartsDef
<1>2. PICK n \in Levels : n = IF one THEN 1 ELSE 0
  BY DEF Levels
<1>3. PICK p \in BOOLEAN : p = IF one THEN ~x.tx.parity ELSE x.tx.parity
  <2>1. x.tx.parity \in BOOLEAN
    BY <1>1, TransmittersDef
  <2> QED
    BY <2>1, Zenon
<1>4. PICK b \in Places : b = IF more THEN x.tx.bit + 1 ELSE 0
  BY <1>1, FrameLengthType DEF Places, Transmitters
<1>5. PICK st \in TxStates : st = IF more THEN x.tx.state
                                 ELSE IF parity THEN "SEND_PARITY" ELSE "SEND_STOPBIT"
  <2>1. x.tx.state \in TxStates
    BY <1>1, TransmittersDef
  <2> QED
    BY <2>1 DEF TxStates
<1>6. [x.tx EXCEPT !.pin = n, !.parity = p, !.bit = b, !.state = st] \in Transmitters
  BY <1>1, TransmittersDef
<1>7. SendDatabit(x) = [x EXCEPT !.tx = [x.tx EXCEPT !.pin = n, !.parity = p, !.bit = b, !.state = st]]
  <2>1. [x.tx EXCEPT !.pin = n, !.parity = p, !.bit = b, !.state = st] =
        [x.tx EXCEPT !.pin = IF one THEN 1 ELSE 0, !.parity = IF one THEN ~@ ELSE @,
                     !.bit = IF more THEN @ + 1 ELSE 0,
                     !.state = IF more THEN @ ELSE
                               IF parity THEN "SEND_PARITY" ELSE "SEND_STOPBIT"]
    BY <1>1, <1>2, <1>3, <1>4, <1>5, TransmittersDef
  <2> QED
    BY <2>1 DEF SendDatabit
<1> QED
  BY <1>6, <1>7, UartsDef DEF Sent

(* CpuCycleTx keeps the receiver as it is and the queue in step with what  *)
(* it flags.                                                               *)
LEMMA TransmitStep ==
  ASSUME NEW x \in Uarts, Queued(x)
  PROVE  LET z == CpuCycleTx(x) IN z \in Uarts /\ z.rx = x.rx /\ Queued(z)
<1> DEFINE l == Load(x)
           high == [l EXCEPT !.tx.pin = 1]
           y == CASE l.tx.state = "SEND_STARTBIT" ->
                       [l EXCEPT !.tx = [@ EXCEPT !.pin = 0, !.state = "SEND_DATABIT", !.bit = 0]]
                  [] l.tx.state = "SEND_DATABIT" -> SendDatabit(l)
                  [] l.tx.state = "SEND_PARITY" ->
                       [l EXCEPT !.tx = [@ EXCEPT !.pin = IF l.tx.parity = l.ucsrc.UPM0 THEN 1 ELSE 0,
                                                  !.state = "SEND_STOPBIT"]]
                  [] l.tx.state = "SEND_STOPBIT" ->
                       IF l.ucsrc.USBS THEN [high EXCEPT !.tx.state = "SEND_STOPBIT2"] ELSE NextWord(high)
                  [] l.tx.state = "SEND_STOPBIT2" -> NextWord(high)
                  [] l.tx.state = "AFTER_STOPBIT" ->
                       [l EXCEPT !.usr = @ \cup {"TXC"}, !.tx.state = "FINISH"]
                  [] OTHER -> l
<1>1. CpuCycleTx(x) = IF "TXEN" \in x.ucr THEN CheckForNewIrq(y, x) ELSE x
  BY DEF CpuCycleTx
<1>2. Sent(l, x)
  BY LoadSent
<1> HIDE DEF l
<1>3. l \in Uarts /\ l.tx \in Transmitters /\ l.usr \in Statuses
  BY <1>2, UartsDef DEF Sent
<1>4. Sent(high, l)
  <2>1. PICK t \in Transmitters : t = [l.tx EXCEPT !.pin = 1]
    BY <1>3, TransmittersDef, 1 \in Levels DEF Levels
  <2>2. high = [l EXCEPT !.tx = t]
    BY <2>1
  <2> QED
    BY <1>3, <2>2, TransmitterSent
<1>5. Sent(NextWord(high), l)
  <2> HIDE DEF high
  <2> QED
    BY <1>4, NextWordSent DEF Sent
<1>6. Sent([high EXCEPT !.tx.state = "SEND_STOPBIT2"], l)
  <2> HIDE DEF high
  <2>1. high \in Uarts /\ high.tx \in Transmitters
    BY <1>4, UartsDef DEF Sent
  <2>2. PICK t \in Transmitters : t = [high.tx EXCEPT !.state = "SEND_STOPBIT2"]
    BY <2>1, TransmittersDef, "SEND_STOPBIT2" \in TxStates DEF TxStates
  <2>3. Sent([high EXCEPT !.tx = t], high)
    BY <2>1, UartsDef DEF Sent
  <2> QED
    BY <1>4, <2>2, <2>3 DEF Sent
<1>7. Sent(y, l)
  <2>1. CASE l.tx.state = "SEND_STARTBIT"
    <3>1. 0 \in Levels /\ 0 \in Places /\ "SEND_DATABIT" \in TxStates
      BY DEF Levels, Places, TxStates
    <3>2. PICK t \in Transmitters : t = [l.tx EXCEPT !.pin = 0, !.state = "SEND_DATABIT", !.bit = 0]
      BY <1>3, <3>1, TransmittersDef
    <3>3. y = [l EXCEPT !.tx = t]
      BY <2>1, <3>2
    <3> QED
      BY <1>3, <3>3, TransmitterSent
  <2>2. CASE l.tx.state = "SEND_DATABIT"
    BY <1>3, <2>2, SendDatabitSent
  <2>3. CASE l.tx.state = "SEND_PARITY"
    <3>1. PICK n \in Levels : n = IF l.tx.parity = l.ucsrc.UPM0 THEN 1 ELSE 0
      BY DEF Levels
    <3>2. PICK t \in Transmitters : t = [l.tx EXCEPT !.pin = n, !.state = "SEND_STOPBIT"]
      BY <1>3, TransmittersDef, "SEND_STOPBIT" \in TxStates DEF TxStates
    <3>3. y = [l EXCEPT !.tx = t]
      BY <2>3, <3>1, <3>2
    <3> QED
      BY <1>3, <3>3, TransmitterSent
  <2>4. CASE l.tx.state = "SEND_STOPBIT"
    <3> HIDE DEF high
    <3> QED
      BY <1>5, <1>6, <2>4
  <2>5. CASE l.tx.state = "SEND_STOPBIT2"
    <3> HIDE DEF high
    <3> QED
      BY <1>5, <2>5
  <2>6. CASE l.tx.state = "AFTER_STOPBIT"
    <3>1. PICK t \in Transmitters : t = [l.tx EXCEPT !.state = "FINISH"]
      BY <1>3, TransmittersDef, "FINISH" \in TxStates DEF TxStates
    <3>2. PICK st \in Statuses : st = l.usr \cup {"TXC"}
      BY <1>3 DEF Statuses, StatusBits, Irqs
    <3>3. y = [l EXCEPT !.usr = st, !.tx = t]
      BY <1>3, <2>6, <3>1, <3>2, UartsDef
    <3> QED
      BY <1>3, <3>3, TransmitterSent
  <2>7. CASE l.tx.state \in {"FIRST_RUN", "FINISH"}
    BY <1>3, <2>7 DEF Sent
  <2> QED
    BY <1>3, <2>1, <2>2, <2>3, <2>4, <2>5, <2>6, <2>7 DEF Transmitters, TxStates
<1> HIDE DEF y
<1>8. Sent(y, x)
  BY <1>2, <1>7 DEF Sent
<1> QED
  BY <1>1, <1>8, CheckQueues DEF Sent
-----------------------------------------------------------------------------
(* The UART part of the invariant, for a value of the variable u. *)
Good(x) == x \in Uarts /\ Counted(x.rx) /\ Queued(x)

(* The reset values of the receiver and of the transmitter. *)
LEMMA IdleType ==
  ASSUME NEW p \in BOOLEAN
  PROVE  /\ IdleReceiver(p) \in Receivers /\ Counted(IdleReceiver(p))
         /\ IdleTransmitter(p) \in Transmitters
         /\ ResetFormat \in Format
<1>1. IdleReceiver(p) \in Receivers
  <2>1. PICK z : z = 0 /\ z \in Ticks /\ z \in Votes /\ z \in Places
    BY DEF Ticks, Votes, Places
  <2>2. {} \in Received /\ "WAIT_FOR_LOWEDGE" \in RxStates
    BY DEF Received, RxStates
  <2> QED
    BY <2>1, <2>2, ReceiversDef DEF IdleReceiver
<1>2. Counted(IdleReceiver(p))
  BY DEF IdleReceiver, Counted
<1>3. IdleTransmitter(p) \in Transmitters
  <2>1. 0 \in Places /\ 1 \in Levels /\ {} \in Words /\ "FIRST_RUN" \in TxStates
    BY DEF Places, Levels, Words, TxStates
  <2> QED
    BY <2>1, TransmittersDef DEF IdleTransmitter
<1>4. ResetFormat \in Format
  <2>1. PICK S : S = 5 .. 8
    OBVIOUS
  <2>2. 8 \in S /\ Format = [size : S, UPM1 : BOOLEAN, UPM0 : BOOLEAN, USBS : BOOLEAN]
    BY <2>1 DEF Format
  <2> QED
    BY <2>2 DEF ResetFormat
<1> QED
  BY <1>1, <1>2, <1>3, <1>4

LEMMA InitInv == Init => Inv
<1> SUFFICES ASSUME Init PROVE Inv
  OBVIOUS
<1>1. PICK rp, wp \in program.parities :
        u = [udrWrite |-> {}, udrRead |-> {}, usr |-> {"UDRE"}, ucr |-> {},
             ucsrc |-> ResetFormat, ubrr |-> 0, queue |-> {},
             rx |-> IdleReceiver(rp), tx |-> IdleTransmitter(wp)]
  BY DEF Init
<1>2. rp \in BOOLEAN /\ wp \in BOOLEAN
  BY UartAssumption DEF Init
<1>3. {} \in Words /\ {"UDRE"} \in Statuses /\ {} \in Controls
  BY DEF Words, Statuses, Controls, StatusBits, Irqs
<1>4. u \in Uarts
  BY <1>1, <1>2, <1>3, IdleType, UartsDef
<1>5. Counted(u.rx) /\ Queued(u)
  BY <1>1, <1>2, IdleType DEF Queued
<1>6. program \in Programs /\ program.wild \in Nat
  BY UartAssumption DEF Init
<1> QED
  BY <1>4, <1>5, <1>6 DEF Init, Inv, TypeOK

(* A cycle, with and without a baud tick. *)
LEMMA CycleGood ==
  ASSUME Inv, CpuCycle
  PROVE  Inv'
<1> USE DEF Inv
<1>1. CASE UNCHANGED <<u, baudCnt16, inflight, age>> /\ baudCnt' = baudCnt + 1
  BY <1>1 DEF CpuCycle, TypeOK
<1>2. CASE ~(baudCnt + 1 < u.ubrr + 1)
  <2>1. Line \in {0, 1}
    <3>1. u.tx \in Transmitters
      BY UartsDef DEF TypeOK
    <3> QED
      BY <3>1 DEF Line, Transmitters
  <2>2. Disturbed(Line) \subseteq {0, 1}
    BY <2>1 DEF Disturbed
  <2>3. PICK v \in {0, 1} :
          LET x == CpuCycleRx(u, v) IN
          /\ u' = IF baudCnt16 = 15 THEN CpuCycleTx(x) ELSE x
          /\ inflight' = IF Completes(u, x) /\ inflight # <<>> THEN Tail(inflight) ELSE inflight
          /\ age' = IF Completes(u, x) \/ inflight = <<>> \/ wild > 0 THEN 0
                    ELSE IF baudCnt16 = 15 THEN age + 1 ELSE age
    BY <1>2, <2>2 DEF CpuCycle
  <2>4. PICK x \in Uarts : x = CpuCycleRx(u, v) /\ Counted(x.rx) /\ Queued(x)
    BY ReceiveStep DEF TypeOK
  <2>5. Good(u')
    BY <2>3, <2>4, TransmitStep DEF Good
  <2>6. inflight' \in Seq(SUBSET (0 .. 7)) /\ Len(inflight') <= 3
    <3>1. PICK W : W = SUBSET (0 .. 7)
      OBVIOUS
    <3>2. inflight \in Seq(W) /\ Len(inflight) <= 3
      BY <3>1 DEF TypeOK
    <3>3. inflight # <<>> => Tail(inflight) \in Seq(W) /\ Len(Tail(inflight)) <= 3
      BY <3>2
    <3> QED
      BY <2>3, <3>1, <3>2, <3>3
  <2>7. age' \in Nat
    BY <2>3 DEF TypeOK
  <2>8. baudCnt' = 0 /\ baudCnt16' = (baudCnt16 + 1) % 16 /\ UNCHANGED <<program, wild>>
    BY <1>2 DEF CpuCycle
  <2>9. baudCnt16' \in 0 .. 15
    BY <2>8 DEF TypeOK
  <2> QED
    BY <2>5, <2>6, <2>7, <2>8, <2>9 DEF Good, TypeOK
<1> QED
  BY <1>1, <1>2 DEF CpuCycle

(* An access of the program, but for the value it gives the UART. *)
LEMMA AccessGood ==
  ASSUME Inv, NEW ok \in BOOLEAN, Access(ok), Good(u'),
         inflight' \in Seq(SUBSET (0 .. 7)), Len(inflight') <= 3
  PROVE  Inv'
<1>1. program \in Programs /\ program.wild \in Nat
  BY UartAssumption DEF Inv, TypeOK
<1>2. wild' \in 0 .. program.wild
  BY <1>1 DEF Access, Inv, TypeOK
<1> QED
  BY <1>2 DEF Access, Good, Inv, TypeOK

LEMMA NextInv == Inv /\ [Next]_vars => Inv'
<1> SUFFICES ASSUME Inv, [Next]_vars PROVE Inv'
  OBVIOUS
<1>1. CASE CpuCycle
  BY <1>1, CycleGood
<1>2. u \in Uarts /\ Queued(u) /\ Counted(u.rx) /\ Good(u)
  BY DEF Inv, TypeOK, Good
<1>3. /\ program.words \subseteq Words /\ program.statuses \subseteq Statuses
      /\ program.controls \subseteq Controls /\ program.formats \subseteq Format
      /\ program.rates \subseteq Nat
  BY UartAssumption DEF Inv, TypeOK, Words, Statuses, Controls
<1>4. inflight \in Seq(SUBSET (0 .. 7)) /\ Len(inflight) <= 3
  BY DEF Inv, TypeOK
<1>5. ASSUME NEW w \in program.words, SetUdr(w) PROVE Inv'
  <2>1. PICK q \in SUBSET Irqs :
          q = IF "UDRE" \in u.usr \cap u.ucr THEN u.queue \ {"UDRE"} ELSE u.queue
    BY <1>2 DEF Uarts
  <2>2. PICK st \in Statuses : st = u.usr \ {"UDRE"}
    BY <1>2 DEF Uarts, Statuses
  <2>3. u' = [u EXCEPT !.udrWrite = w, !.usr = st, !.queue = q]
    BY <1>5, <1>2, <2>1, <2>2, UartsDef DEF SetUdr
  <2>4. u' \in Uarts
    BY <1>2, <1>3, <2>3, UartsDef
  <2>5. u'.usr = st /\ u'.queue = q /\ u'.ucr = u.ucr /\ u'.rx = u.rx
    BY <1>2, <2>3, UartsDef
  <2>6. Good(u')
    BY <1>2, <2>1, <2>2, <2>4, <2>5 DEF Good, Queued, Uarts
  <2>7. inflight' \in Seq(SUBSET (0 .. 7)) /\ Len(inflight') <= 3
    <3>1. PICK W : W = SUBSET (0 .. 7)
      OBVIOUS
    <3>2. w \in W /\ inflight \in Seq(W)
      BY <1>4, <1>3, <3>1 DEF Words
    <3>3. Len(inflight) < 3 => Append(inflight, w) \in Seq(W) /\ Len(Append(inflight, w)) <= 3
      BY <3>2
    <3> QED
      BY <1>5, <1>4, <3>1, <3>3 DEF SetUdr
  <2> QED
    BY <1>5, <2>6, <2>7, AccessGood DEF SetUdr
<1>6. ASSUME NEW val \in program.statuses, SetUsr(val) PROVE Inv'
  <2>1. PICK y : y = [u EXCEPT !.usr = val]
    OBVIOUS
  <2>2. y \in Uarts /\ y.queue = u.queue /\ y.rx = u.rx
    BY <1>2, <1>3, <2>1, UartsDef
  <2>3. PICK z \in Uarts : z = CheckForNewIrq(y, u) /\ Queued(z) /\ z.rx = u.rx
    BY <1>2, <2>2, CheckQueues
  <2>4. PICK st \in Statuses : st = z.usr \ {"TXC"}
    BY DEF Uarts, Statuses
  <2>5. u' = [z EXCEPT !.usr = st]
    BY <1>6, <2>1, <2>3, <2>4, UartsDef DEF SetUsr
  <2>6. u' \in Uarts /\ u'.usr = st /\ u'.ucr = z.ucr /\ u'.queue = z.queue /\ u'.rx = u.rx
    BY <2>3, <2>5, UartsDef
  <2>7. Good(u')
    BY <1>2, <2>3, <2>4, <2>6 DEF Good, Queued
  <2> QED
    BY <1>6, <1>4, <2>7, AccessGood DEF SetUsr
<1>7. ASSUME NEW val \in program.controls, SetUcr(val) PROVE Inv'
  <2>1. PICK n \in Levels :
          n = IF "TXEN" \in val /\ u.tx.state \in {"FIRST_RUN", "SEND_STARTBIT"} THEN 1 ELSE u.tx.pin
    BY <1>2, UartsDef, TransmittersDef, 1 \in Levels DEF Levels
  <2>2. PICK t \in Transmitters : t = [u.tx EXCEPT !.pin = n]
    BY <1>2, UartsDef, TransmittersDef
  <2>3. PICK y : y = [u EXCEPT !.ucr = val, !.tx = t]
    OBVIOUS
  <2>4. y \in Uarts /\ y.queue = u.queue /\ y.rx = u.rx
    BY <1>2, <1>3, <2>3, UartsDef
  <2>5. u' = CheckForNewIrq(y, u)
    <3>1. y = [u EXCEPT !.ucr = val,
                        !.tx.pin = IF "TXEN" \in val /\ u.tx.state \in {"FIRST_RUN", "SEND_STARTBIT"}
                                   THEN 1 ELSE @]
      BY <1>2, <2>1, <2>2, <2>3, UartsDef
    <3> QED
      BY <1>7, <3>1 DEF SetUcr
  <2>6. Good(u')
    BY <1>2, <2>4, <2>5, CheckQueues DEF Good
  <2> QED
    BY <1>7, <1>4, <2>6, AccessGood DEF SetUcr
<1>8. ASSUME NEW val \in program.formats, SetUcsrc(val) PROVE Inv'
  <2>1. Good(u')
    BY <1>8, <1>2, <1>3, UartsDef DEF SetUcsrc, Good, Queued
  <2>2. PICK ok \in BOOLEAN : ok = (Quiet /\ ~val.UPM1 /\ ~val.UPM0)
    BY Zenon
  <2> QED
    BY <1>8, <1>4, <2>1, <2>2, AccessGood DEF SetUcsrc
<1>9. ASSUME NEW val \in program.rates, SetUbrr(val) PROVE Inv'
  <2>1. Good(u')
    BY <1>9, <1>2, <1>3, UartsDef DEF SetUbrr, Good, Queued
  <2> QED
    BY <1>9, <1>4, <2>1, AccessGood DEF SetUbrr
<1>10. CASE GetUdr
  <2>1. PICK q \in SUBSET Irqs :
          q = IF "RXC" \in u.usr \cap u.ucr THEN u.queue \ {"RXC"} ELSE u.queue
    BY <1>2 DEF Uarts
  <2>2. PICK st \in Statuses : st = u.usr \ {"RXC"}
    BY <1>2 DEF Uarts, Statuses
  <2>3. u' = [u EXCEPT !.usr = st, !.queue = q]
    BY <1>10, <1>2, <2>1, <2>2, UartsDef DEF GetUdr
  <2>4. u' \in Uarts /\ u'.usr = st /\ u'.queue = q /\ u'.ucr = u.ucr /\ u'.rx = u.rx
    BY <1>2, <2>3, UartsDef
  <2>5. Good(u')
    BY <1>2, <2>1, <2>2, <2>4 DEF Good, Queued, Uarts
  <2> QED
    BY <1>10, <2>5 DEF GetUdr, Good, Inv, TypeOK
<1>11. ASSUME NEW v \in Irqs, ClearIrqFlag(v) PROVE Inv'
  <2>1. CASE v = "TXC"
    <3>1. u.usr \ {v} \in Statuses /\ u.queue \ {v} \in SUBSET Irqs
      BY <1>2 DEF Uarts, Statuses
    <3>2. u' = [u EXCEPT !.usr = u.usr \ {v}, !.queue = u.queue \ {v}]
      BY <1>11, <1>2, <2>1, UartsDef DEF ClearIrqFlag
    <3>3. /\ u' \in Uarts /\ u'.usr = u.usr \ {v} /\ u'.queue = u.queue \ {v}
          /\ u'.ucr = u.ucr /\ u'.rx = u.rx
      BY <1>2, <3>1, <3>2, UartsDef
    <3>4. Good(u')
      BY <1>2, <3>3 DEF Good, Queued
    <3> QED
      BY <1>11, <3>4 DEF ClearIrqFlag, Good, Inv, TypeOK
  <2>2. CASE v # "TXC"
    BY <1>11, <2>2 DEF ClearIrqFlag, Inv, TypeOK
  <2> QED
    BY <2>1, <2>2
<1>12. CASE Reset
  <2>1. u.rx.parity \in BOOLEAN /\ u.tx.parity \in BOOLEAN
    BY <1>2, UartsDef, ReceiversDef, TransmittersDef
  <2>2. {} \in Words /\ {"UDRE"} \in Statuses /\ {} \in Controls
    BY DEF Words, Statuses, Controls, StatusBits, Irqs
  <2>3. PICK r \in Receivers, t \in Transmitters :
          Counted(r) /\ r = IdleReceiver(u.rx.parity) /\ t = IdleTransmitter(u.tx.parity)
    BY <2>1, IdleType
  <2>4. u' = [u EXCEPT !.udrWrite = {}, !.udrRead = {}, !.usr = {"UDRE"}, !.ucr = {},
                       !.ucsrc = ResetFormat, !.ubrr = 0, !.rx = r, !.tx = t]
    BY <1>12, <1>2, <2>3, UartsDef DEF Reset
  <2>5. ResetFormat \in Format
    BY <2>1, IdleType
  <2>6. u' \in Uarts
    BY <1>2, <2>2, <2>4, <2>5, UartsDef
  <2>7. u'.rx = r /\ u'.ucr = {}
    BY <1>2, <2>4, UartsDef
  <2>8. Good(u')
    BY <2>3, <2>6, <2>7 DEF Good, Queued
  <2>9. program.wild \in Nat
    BY UartAssumption DEF Inv, TypeOK
  <2> QED
    BY <1>12, <2>8, <2>9 DEF Reset, Good, Inv, TypeOK
<1>13. CASE UNCHANGED vars
  BY <1>13 DEF vars, Inv, TypeOK
<1> QED
  BY <1>1, <1>5, <1>6, <1>7, <1>8, <1>9, <1>10, <1>11, <1>12, <1>13 DEF Next

LEMMA Invariance == Spec => []Inv
  BY InitInv, NextInv, PTL DEF Spec

(* Registers, receiver, transmitter and history of HWUart keep their types *)
(* for every program: no counter of the receiver leaves its range, even    *)
(* if the frame format is changed while a frame is received.               *)
THEOREM TypeCorrect == Spec => []TypeOK
<1>1. Inv => TypeOK
  BY DEF Inv
<1> QED
  BY <1>1, Invariance, PTL

(* An enabled flag of the UART is queued in every reachable state: between *)
(* CheckForNewSetIrq, CheckForNewClearIrq, the register accesses and the   *)
(* taking of vectors no event is lost.                                     *)
THEOREM NoEventLost == Spec => []FlaggedIsQueued
<1>1. Inv => FlaggedIsQueued
  BY DEF Inv, Queued, FlaggedIsQueued
<1> QED
  BY <1>1, Invariance, PTL
-----------------------------------------------------------------------------
(* Fields of a receiver that has taken a sample. *)
LEMMA SampledFields ==
  ASSUME NEW r \in Receivers, NEW v \in {0, 1}, NEW s, s = Sampled(r, v)
  PROVE  /\ s.cnt = r.cnt + 1 /\ s.state = r.state /\ s.bit = r.bit /\ s.data = r.data
         /\ s.low = IF r.cnt + 1 \in 8 .. 10 /\ v = 0 THEN r.low + 1 ELSE r.low
         /\ s.high = IF r.cnt + 1 \in 8 .. 10 /\ v = 1 THEN r.high + 1 ELSE r.high
<1> DEFINE n == r.cnt + 1
           lo == IF n \in 8 .. 10 /\ v = 0 THEN r.low + 1 ELSE r.low
           hi == IF n \in 8 .. 10 /\ v = 1 THEN r.high + 1 ELSE r.high
<1>1. s = [r EXCEPT !.cnt = n, !.low = lo, !.high = hi]
  BY ReceiversDef DEF Sampled
<1>2. /\ s.cnt = n /\ s.low = lo /\ s.high = hi /\ s.state = r.state /\ s.bit = r.bit
      /\ s.data = r.data
  <2> HIDE DEF n, lo, hi
  <2> QED
    BY <1>1, ReceiversDef
<1> QED
  BY <1>2

LEMMA EmptiedFields ==
  ASSUME NEW r \in Receivers, NEW st \in RxStates, NEW e, e = Emptied(r, st)
  PROVE  /\ e.state = st /\ e.cnt = 0 /\ e.low = 0 /\ e.high = 0
         /\ e.data = {} /\ e.bit = 0
<1>1. PICK t \in Receivers : /\ t = Restarted(r, st)
                             /\ t.state = st /\ t.cnt = 0 /\ t.low = 0 /\ t.high = 0
  BY RestartedType
<1>2. e = [t EXCEPT !.data = {}, !.bit = 0]
  BY <1>1 DEF Emptied
<1> QED
  BY <1>1, <1>2, ReceiversDef

(* What the receiver leaves alone, and what CheckForNewIrq does. *)
RxRest(y, x) ==
  /\ y.tx = x.tx /\ y.ucsrc = x.ucsrc /\ y.udrWrite = x.udrWrite
  /\ "TXC" \in y.usr <=> "TXC" \in x.usr
  /\ "UDRE" \in y.usr <=> "UDRE" \in x.usr
  /\ "RXEN" \in y.ucr <=> "RXEN" \in x.ucr
  /\ "TXEN" \in y.ucr <=> "TXEN" \in x.ucr
  /\ "CHR9" \in y.ucr <=> "CHR9" \in x.ucr

LEMMA CheckFields ==
  ASSUME NEW x \in Uarts, NEW y \in Uarts, NEW z, z = CheckForNewIrq(y, x)
  PROVE  /\ z.rx = y.rx /\ z.tx = y.tx /\ z.usr = y.usr /\ z.ucr = y.ucr /\ z.ucsrc = y.ucsrc
         /\ z.udrWrite = y.udrWrite /\ z.udrRead = y.udrRead
  BY UartsDef DEF CheckForNewIrq

(* Only the receiver moves. *)
LEMMA OnlyReceiver ==
  ASSUME NEW x \in Uarts, NEW r, NEW y, y = [x EXCEPT !.rx = r]
  PROVE  y.rx = r /\ y.udrRead = x.udrRead /\ y.usr = x.usr /\ RxRest(y, x)
  BY UartsDef DEF RxRest

(* A tick of the receiver that is not enabled to complete anything. *)
LEMMA TickWait ==
  ASSUME NEW x \in Uarts, x.rx.state = "WAIT_FOR_LOWEDGE", "RXEN" \in x.ucr, NEW v \in {0, 1},
         NEW z, z = CpuCycleRx(x, v)
  PROVE  /\ RxRest(z, x) /\ z.udrRead = x.udrRead
         /\ z.rx.cnt = 0 /\ z.rx.low = 0 /\ z.rx.high = 0
         /\ z.rx.state = IF v = 0 THEN "READ_STARTBIT" ELSE "WAIT_FOR_LOWEDGE"
<1>1. PICK st \in RxStates : st = IF v = 0 THEN "READ_STARTBIT" ELSE "WAIT_FOR_LOWEDGE"
  BY DEF RxStates
<1>2. x.rx \in Receivers
  BY UartsDef
<1>3. PICK r : r = Restarted(x.rx, st)
  OBVIOUS
<1>4. r.state = st /\ r.cnt = 0 /\ r.low = 0 /\ r.high = 0 /\ r \in Receivers
  BY <1>2, <1>3, RestartedType
<1>5. PICK y : y = [x EXCEPT !.rx = r]
  OBVIOUS
<1>6. z = CheckForNewIrq(y, x)
  BY <1>1, <1>3, <1>5 DEF CpuCycleRx
<1>7. y \in Uarts /\ y.rx = r /\ y.udrRead = x.udrRead /\ RxRest(y, x)
  BY <1>4, <1>5, OnlyReceiver, UartsDef
<1>8. z.rx = r /\ z.udrRead = x.udrRead /\ RxRest(z, x)
  BY <1>6, <1>7, CheckFields DEF RxRest
<1> QED
  BY <1>1, <1>4, <1>8

LEMMA TickStart ==
  ASSUME NEW x \in Uarts, Counted(x.rx), x.rx.state = "READ_STARTBIT", "RXEN" \in x.ucr,
         NEW v \in {0, 1}, NEW s, s = Sampled(x.rx, v), NEW z, z = CpuCycleRx(x, v)
  PROVE  /\ RxRest(z, x) /\ z.udrRead = x.udrRead
         /\ s.cnt <= 15 => z.rx = s
         /\ s.cnt > 15 /\ s.low > s.high => z.rx = Emptied(s, "READ_DATABIT")
<1>1. x.rx \in Receivers
  BY UartsDef
<1>2. Sample(s) /\ s.state = "READ_STARTBIT"
  BY <1>1, SampledType
<1>3. PICK y : y = ReadStartbit(x, s)
  OBVIOUS
<1>4. z = CheckForNewIrq(y, x)
  BY <1>3 DEF CpuCycleRx
<1>5. y \in Uarts
  BY <1>2, <1>3, ReadStartbitMoved DEF Moved
<1>6. PICK r : r = IF s.cnt <= 15 THEN s
                   ELSE IF s.low > s.high
                   THEN Emptied(s, "READ_DATABIT") ELSE Emptied(s, "WAIT_FOR_HIGH")
  OBVIOUS
<1>7. y = [x EXCEPT !.rx = r]
  BY <1>3, <1>6 DEF ReadStartbit
<1>8. y.rx = r /\ y.udrRead = x.udrRead /\ RxRest(y, x)
  BY <1>7, OnlyReceiver
<1>9. z.rx = r /\ z.udrRead = x.udrRead /\ RxRest(z, x)
  BY <1>4, <1>5, <1>8, CheckFields DEF RxRest
<1>10. s.cnt \in Nat
  BY <1>2 DEF Sample
<1> QED
  BY <1>6, <1>9, <1>10

(* A data bit is read with its last sample. *)
DataTick(z, x, s) ==
  /\ s.cnt <= 15 => z.rx = s
  /\ s.cnt > 15 =>
       /\ z.rx.cnt = 0 /\ z.rx.low = 0 /\ z.rx.high = 0 /\ z.rx.bit = s.bit + 1
       /\ z.rx.data = IF High(s) THEN s.data \cup {s.bit} ELSE s.data
       /\ z.rx.state = IF s.bit + 1 < FrameLength(x) THEN "READ_DATABIT" ELSE "READ_STOPBIT"

LEMMA TickData ==
  ASSUME NEW x \in Uarts, Counted(x.rx), x.rx.state = "READ_DATABIT", "RXEN" \in x.ucr,
         ~x.ucsrc.UPM1,
         NEW v \in {0, 1}, NEW s, s = Sampled(x.rx, v), NEW z, z = CpuCycleRx(x, v)
  PROVE  /\ RxRest(z, x) /\ z.udrRead = x.udrRead
         /\ DataTick(z, x, s)
<1>1. x.rx \in Receivers
  BY UartsDef
<1>2. Sample(s) /\ s.state = "READ_DATABIT"
  BY <1>1, SampledType
<1>3. PICK y : y = ReadDatabit(x, s)
  OBVIOUS
<1>4. z = CheckForNewIrq(y, x)
  BY <1>3 DEF CpuCycleRx
<1>5. y \in Uarts
  BY <1>2, <1>3, ReadDatabitMoved DEF Moved
<1>6. PICK t \in Receivers : /\ t = Restarted(s, s.state)
                             /\ t.bit = s.bit /\ t.state = s.state /\ t.data = s.data
                             /\ t.cnt = 0 /\ t.low = 0 /\ t.high = 0
  BY <1>2, RestartedType DEF RxStates, Sample
<1>7. PICK n : n = s.bit + 1
  OBVIOUS
<1>8. PICK d : d = IF High(s) THEN s.data \cup {s.bit} ELSE s.data
  OBVIOUS
<1>9. PICK p : p = IF High(s) THEN ~t.parity ELSE t.parity
  OBVIOUS
<1>10. PICK g : g = [t EXCEPT !.bit = n, !.data = d, !.parity = p]
  OBVIOUS
<1>11. /\ g.bit = n /\ g.data = d /\ g.state = "READ_DATABIT"
       /\ g.cnt = 0 /\ g.low = 0 /\ g.high = 0
  BY <1>2, <1>6, <1>10, ReceiversDef
<1>12. PICK h : h = [g EXCEPT !.state = "READ_STOPBIT"]
  OBVIOUS
<1>13. /\ h.bit = n /\ h.data = d /\ h.state = "READ_STOPBIT"
       /\ h.cnt = 0 /\ h.low = 0 /\ h.high = 0
  <2>1. h = [t EXCEPT !.bit = n, !.data = d, !.parity = p, !.state = "READ_STOPBIT"]
    BY <1>10, <1>12
  <2> QED
    BY <1>6, <2>1, ReceiversDef
<1>14. PICK r : r = IF s.cnt <= 15 THEN s ELSE IF n < FrameLength(x) THEN g ELSE h
  OBVIOUS
<1>15. y = [x EXCEPT !.rx = r]
  <2>1. g = [Restarted(s, s.state) EXCEPT
               !.bit = @ + 1,
               !.data = IF High(s) THEN @ \cup {s.bit} ELSE @,
               !.parity = IF High(s) THEN ~@ ELSE @]
    BY <1>6, <1>7, <1>8, <1>9, <1>10, ReceiversDef
  <2> QED
    BY <1>3, <1>11, <1>12, <1>14, <2>1 DEF ReadDatabit
<1>16. y.rx = r /\ y.udrRead = x.udrRead /\ RxRest(y, x)
  BY <1>15, OnlyReceiver
<1>17. z.rx = r /\ z.udrRead = x.udrRead /\ RxRest(z, x)
  BY <1>4, <1>5, <1>16, CheckFields DEF RxRest
<1>18. s.cnt \in Nat
  BY <1>2 DEF Sample
<1>19. CASE s.cnt <= 15
  BY <1>14, <1>17, <1>18, <1>19 DEF DataTick
<1>20. CASE s.cnt > 15 /\ n < FrameLength(x)
  BY <1>7, <1>8, <1>11, <1>14, <1>17, <1>18, <1>20 DEF DataTick
<1>21. CASE s.cnt > 15 /\ ~(n < FrameLength(x))
  BY <1>7, <1>8, <1>13, <1>14, <1>17, <1>18, <1>21 DEF DataTick
<1> QED
  BY <1>18, <1>19, <1>20, <1>21

(* The last stop bit: the word is complete, and without a framing error    *)
(* when the stop bit was high.                                             *)
LEMMA TickStop ==
  ASSUME NEW x \in Uarts, Counted(x.rx), x.rx.state = "READ_STOPBIT", "RXEN" \in x.ucr,
         NEW v \in {0, 1}, NEW s, s = Sampled(x.rx, v), NEW z, z = CpuCycleRx(x, v)
  PROVE  /\ RxRest(z, x)
         /\ s.cnt <= (IF x.ucsrc.USBS THEN 16 ELSE 10) => z.rx = s /\ z.udrRead = x.udrRead
         /\ s.cnt > 16 /\ x.ucsrc.USBS =>
              /\ z.rx.cnt = 0 /\ z.rx.low = 0 /\ z.rx.high = 0 /\ z.rx.data = s.data
              /\ z.rx.state = "READ_STOPBIT2" /\ z.udrRead = s.data \cap (0 .. 7)
         /\ s.cnt > 10 /\ ~x.ucsrc.USBS /\ High(s) =>
              /\ z.rx = Emptied(s, "WAIT_FOR_LOWEDGE") /\ z.udrRead = s.data \cap (0 .. 7)
              /\ "RXC" \in z.usr /\ "FE" \notin z.usr
<1> DEFINE two == x.ucsrc.USBS
           lim == IF two THEN 16 ELSE 10
<1>1. x.rx \in Receivers
  BY UartsDef
<1>2. Sample(s) /\ s.state = "READ_STOPBIT" /\ s.cnt \in Nat /\ s \in Receivers
  BY <1>1, SampledType DEF Sample
<1>3. PICK y : y = ReadStopbit(x, s)
  OBVIOUS
<1>4. z = CheckForNewIrq(y, x)
  BY <1>3 DEF CpuCycleRx
<1>5. y \in Uarts
  BY <1>2, <1>3, ReadStopbitMoved DEF Moved
<1>6. CASE s.cnt <= lim
  <2>1. y = [x EXCEPT !.rx = s]
    BY <1>3, <1>6 DEF ReadStopbit
  <2>2. y.rx = s /\ y.udrRead = x.udrRead /\ RxRest(y, x)
    BY <2>1, OnlyReceiver
  <2>3. z.rx = s /\ z.udrRead = x.udrRead /\ RxRest(z, x)
    BY <1>4, <1>5, <2>2, CheckFields DEF RxRest
  <2> QED
    BY <1>2, <1>6, <2>3
<1>7. CASE ~(s.cnt <= lim)
  <2>1. PICK w : w = s.data \cap (0 .. 7)
    OBVIOUS
  <2>2. PICK c : c = IF High(s) /\ "CHR9" \in x.ucr
                     THEN IF 8 \in s.data THEN x.ucr \cup {"RXB8"} ELSE x.ucr \ {"RXB8"} ELSE x.ucr
    OBVIOUS
  <2>3. PICK f : f = Framing(x.usr, s)
    OBVIOUS
  <2>4. PICK st : st = IF two THEN f ELSE f \cup {"RXC"} \cup (IF "RXC" \in f THEN {"OR"} ELSE {})
    OBVIOUS
  <2>5. PICK r : r = IF two THEN Restarted(s, "READ_STOPBIT2") ELSE AfterStop(s)
    OBVIOUS
  <2>6. y = [x EXCEPT !.udrRead = w, !.ucr = c, !.usr = st, !.rx = r]
    BY <1>3, <1>7, <2>1, <2>2, <2>3, <2>4, <2>5, UartsDef DEF ReadStopbit
  <2>7. /\ y.udrRead = w /\ y.ucr = c /\ y.usr = st /\ y.rx = r
        /\ y.tx = x.tx /\ y.ucsrc = x.ucsrc /\ y.udrWrite = x.udrWrite
    BY <2>6, UartsDef
  <2>8. /\ "RXEN" \in c <=> "RXEN" \in x.ucr
        /\ "TXEN" \in c <=> "TXEN" \in x.ucr
        /\ "CHR9" \in c <=> "CHR9" \in x.ucr
    BY <2>2
  <2>9. /\ "TXC" \in f <=> "TXC" \in x.usr
        /\ "UDRE" \in f <=> "UDRE" \in x.usr
        /\ High(s) => "FE" \notin f
    BY <2>3 DEF Framing
  <2>10. /\ "TXC" \in st <=> "TXC" \in x.usr
         /\ "UDRE" \in st <=> "UDRE" \in x.usr
         /\ High(s) => "FE" \notin st
         /\ ~two => "RXC" \in st
    BY <2>4, <2>9
  <2>11. RxRest(y, x)
    BY <2>7, <2>8, <2>10 DEF RxRest
  <2>12. z.rx = r /\ z.udrRead = w /\ z.usr = st /\ RxRest(z, x)
    BY <1>4, <1>5, <2>7, <2>11, CheckFields DEF RxRest
  <2>13. /\ two => r.cnt = 0 /\ r.low = 0 /\ r.high = 0 /\ r.data = s.data /\ r.state = "READ_STOPBIT2"
         /\ ~two /\ High(s) => r = Emptied(s, "WAIT_FOR_LOWEDGE")
    BY <1>2, <2>5, RestartedType DEF AfterStop, RxStates
  <2> QED
    BY <1>2, <1>7, <2>1, <2>10, <2>12, <2>13
<1> QED
  BY <1>6, <1>7

LEMMA TickStop2 ==
  ASSUME NEW x \in Uarts, Counted(x.rx), x.rx.state = "READ_STOPBIT2", "RXEN" \in x.ucr,
         NEW v \in {0, 1}, NEW s, s = Sampled(x.rx, v), NEW z, z = CpuCycleRx(x, v)
  PROVE  /\ RxRest(z, x) /\ z.udrRead = x.udrRead
         /\ s.cnt <= 10 => z.rx = s
         /\ s.cnt > 10 /\ High(s) =>
              /\ z.rx = Emptied(s, "WAIT_FOR_LOWEDGE")
              /\ "RXC" \in z.usr /\ "FE" \notin z.usr
<1>1. x.rx \in Receivers
  BY UartsDef
<1>2. Sample(s) /\ s.state = "READ_STOPBIT2" /\ s.cnt \in Nat
  BY <1>1, SampledType DEF Sample
<1>3. PICK y : y = ReadStopbit2(x, s)
  OBVIOUS
<1>4. z = CheckForNewIrq(y, x)
  BY <1>3 DEF CpuCycleRx
<1>5. y \in Uarts
  BY <1>2, <1>3, ReadStopbit2Moved DEF Moved
<1>6. CASE s.cnt <= 10
  <2>1. y = [x EXCEPT !.rx = s]
    BY <1>3, <1>6 DEF ReadStopbit2
  <2>2. y.rx = s /\ y.udrRead = x.udrRead /\ RxRest(y, x)
    BY <2>1, OnlyReceiver
  <2>3. z.rx = s /\ z.udrRead = x.udrRead /\ RxRest(z, x)
    BY <1>4, <1>5, <2>2, CheckFields DEF RxRest
  <2> QED
    BY <1>2, <1>6, <2>3
<1>7. CASE ~(s.cnt <= 10)
  <2>1. PICK st : st = Framing(x.usr, s) \cup {"RXC"}
    OBVIOUS
  <2>2. PICK r : r = AfterStop(s)
    OBVIOUS
  <2>3. y = [x EXCEPT !.usr = st, !.rx = r]
    BY <1>3, <1>7, <2>1, <2>2, UartsDef DEF ReadStopbit2
  <2>4. /\ y.udrRead = x.udrRead /\ y.ucr = x.ucr /\ y.usr = st /\ y.rx = r
        /\ y.tx = x.tx /\ y.ucsrc = x.ucsrc /\ y.udrWrite = x.udrWrite
    BY <2>3, UartsDef
  <2>5. /\ "TXC" \in st <=> "TXC" \in x.usr
        /\ "UDRE" \in st <=> "UDRE" \in x.usr
        /\ High(s) => "FE" \notin st
        /\ "RXC" \in st
    BY <2>1 DEF Framing
  <2>6. RxRest(y, x)
    BY <2>4, <2>5 DEF RxRest
  <2>7. z.rx = r /\ z.udrRead = x.udrRead /\ z.usr = st /\ RxRest(z, x)
    BY <1>4, <1>5, <2>4, <2>6, CheckFields DEF RxRest
  <2> QED
    BY <1>7, <2>2, <2>5, <2>7 DEF AfterStop
<1> QED
  BY <1>6, <1>7
-----------------------------------------------------------------------------
(* The receiver is in a frame. *)
Reading(r) == r.state \in {"READ_STARTBIT", "READ_DATABIT", "READ_STOPBIT", "READ_STOPBIT2"}

(* Ticks since the low edge, by the receiver's state and counter. *)
Clock(r, n) ==
  IF r.state = "READ_STARTBIT" THEN r.cnt + 1
  ELSE IF r.state = "READ_DATABIT" THEN 17 + 16 * r.bit + r.cnt
  ELSE IF r.state = "READ_STOPBIT" THEN 17 + 16 * n + r.cnt
  ELSE 34 + 16 * n + r.cnt

(* The bit of the frame that is on the line, 0 for the start bit, by the   *)
(* transmitter's state, which is one ahead.                                *)
Slot(t, n, two) ==
  IF t.state = "SEND_DATABIT" THEN t.bit
  ELSE IF t.state = "SEND_STOPBIT" THEN n
  ELSE IF t.state = "SEND_STOPBIT2" THEN n + 1
  ELSE IF two THEN n + 2 ELSE n + 1

(* Receiver and transmitter have the same idea of where in the frame they  *)
(* are; bc is the transmitter's tick within the bit.                       *)
InPhase(r, t, n, two, bc) ==
  IF Reading(r)
  THEN t.state \notin {"FIRST_RUN", "FINISH"} /\ Clock(r, n) = 16 * Slot(t, n, two) + bc
  ELSE /\ r.state = "WAIT_FOR_LOWEDGE" /\ r.cnt = 0
       /\ \/ t.state \in {"FIRST_RUN", "FINISH", "AFTER_STOPBIT", "SEND_STARTBIT"}
          \/ t.state = "SEND_DATABIT" /\ t.bit = 0 /\ bc = 0

OneIf(b) == IF b THEN 1 ELSE 0

(* The level that the transmitter keeps on the line. *)
Level(t, n) ==
  IF t.state = "SEND_DATABIT" THEN OneIf(t.bit > 0 /\ t.bit - 1 \in t.data)
  ELSE IF t.state = "SEND_STOPBIT" THEN OneIf(n - 1 \in t.data) ELSE 1

(* The pin is as it should be, and TXC is only set when the line is idle.  *)
SendsWell(t, n, two, complete) ==
  /\ t.state # "SEND_PARITY" /\ t.pin = Level(t, n)
  /\ t.state = "SEND_DATABIT" => t.bit < n
  /\ t.state = "SEND_STOPBIT2" => two
  /\ complete => t.state = "FINISH"

(* Level that the receiver should see. *)
Wanted(r, word) ==
  IF r.state = "READ_STARTBIT" THEN 0
  ELSE IF r.state = "READ_DATABIT" THEN OneIf(r.bit \in word) ELSE 1

(* At most one sample is wrong, and none is missing. *)
VotesRight(r, v) ==
  /\ r.low + r.high = IF r.cnt < 8 THEN 0 ELSE IF r.cnt > 10 THEN 3 ELSE r.cnt - 7
  /\ v = 0 => r.high <= 1
  /\ v = 1 => r.low <= 1

(* What the receiver has of the frame so far are the bits of the word. *)
ReadsWell(r, n, two, word, read) ==
  Reading(r) =>
    /\ VotesRight(r, Wanted(r, word))
    /\ r.cnt <= (IF r.state = "READ_STOPBIT2" THEN 10
                 ELSE IF r.state # "READ_STOPBIT" THEN 15 ELSE IF two THEN 16 ELSE 10)
    /\ r.state = "READ_DATABIT" => r.bit < n /\ r.data = word \cap (0 .. r.bit - 1)
    /\ r.state \in {"READ_STOPBIT", "READ_STOPBIT2"} => r.data = word \cap (0 .. n - 1)
    /\ r.state = "READ_STOPBIT2" => two /\ read = r.data \cap (0 .. 7)

(* The words on their way: one that the transmitter has sent and the       *)
(* receiver not completed, the one in the shift register, the one in UDR.  *)
Shifting(t) == t.state \in {"SEND_STARTBIT", "SEND_DATABIT", "SEND_STOPBIT", "SEND_STOPBIT2"}
Before(r, t) == OneIf(Reading(r) /\ t.state \in {"SEND_STARTBIT", "AFTER_STOPBIT"})
QueueRight(q, r, t, full, w) ==
  /\ Len(q) = Before(r, t) + OneIf(Shifting(t)) + OneIf(full)
  /\ Shifting(t) => q[Before(r, t) + 1] = t.data
  /\ full => q[Len(q)] = w

(* The age of the oldest one follows the bits of its frame. *)
AgeRight(a, q, r, t, n, two) ==
  /\ q = <<>> => a = 0
  /\ a <= IF Reading(r) \/ t.state = "SEND_DATABIT" THEN Slot(t, n, two) + 2
          ELSE IF t.state = "FINISH" THEN 1 ELSE 0

(* All of it, for the UART x.  After a reset nothing is enabled. *)
Framed(x, bc, q, a) ==
  LET n == FrameLength(x)
      two == x.ucsrc.USBS
  IN  /\ InPhase(x.rx, x.tx, n, two, bc)
      /\ SendsWell(x.tx, n, two, "TXC" \in x.usr)
      /\ ReadsWell(x.rx, n, two, q[1], x.udrRead)
      /\ QueueRight(q, x.rx, x.tx, "UDRE" \notin x.usr, x.udrWrite)
      /\ AgeRight(a, q, x.rx, x.tx, n, two)
      /\ ~x.ucsrc.UPM1 /\ ~x.ucsrc.UPM0
      /\ Linked(x.ucr) \/ (x.ucr = {} /\ x.tx.state = "FIRST_RUN" /\ q = <<>>)

(* One more sample, of which one in three may be disturbed. *)
LEMMA VoteStep ==
  ASSUME NEW r \in Receivers, r.cnt <= 16, NEW e \in {0, 1}, VotesRight(r, e),
         NEW l \in {0, 1}, r.cnt + 1 \in 8 .. 10 => l = e, NEW v \in {0, 1},
         v = l \/ (r.cnt + 1 \in 8 .. 10 /\ (IF l = 0 THEN r.high = 0 ELSE r.low = 0)),
         NEW s, s = Sampled(r, v)
  PROVE  VotesRight(s, e)
<1>1. /\ s.cnt = r.cnt + 1
      /\ s.low = IF r.cnt + 1 \in 8 .. 10 /\ v = 0 THEN r.low + 1 ELSE r.low
      /\ s.high = IF r.cnt + 1 \in 8 .. 10 /\ v = 1 THEN r.high + 1 ELSE r.high
  BY SampledFields
<1>2. r.cnt \in Nat /\ r.low \in Nat /\ r.high \in Nat
  BY DEF Receivers
<1>3. CASE r.cnt + 1 \in 8 .. 10
  BY <1>1, <1>2, <1>3 DEF VotesRight
<1>4. CASE r.cnt + 1 \notin 8 .. 10
  BY <1>1, <1>2, <1>4 DEF VotesRight
<1> QED
  BY <1>3, <1>4

(* Three votes decide for the level that was on the line. *)
LEMMA VoteWins ==
  ASSUME NEW s \in Receivers, s.cnt > 10, NEW e \in {0, 1}, VotesRight(s, e)
  PROVE  /\ e = 1 <=> High(s)
         /\ e = 0 <=> s.low > s.high
<1>1. s.cnt \in Nat /\ s.low \in Nat /\ s.high \in Nat
  BY DEF Receivers
<1>2. s.low + s.high = 3
  BY <1>1 DEF VotesRight
<1> QED
  BY <1>1, <1>2 DEF VotesRight, High

(* In the ticks that count, the transmitter has the bit on the line that   *)
(* the receiver reads.                                                     *)
LEMMA SameBit ==
  ASSUME NEW r \in Receivers, NEW t \in Transmitters, NEW n \in 5 .. 9, NEW two \in BOOLEAN,
         NEW bc \in 0 .. 15, NEW q, NEW full, NEW w, NEW word, word = q[1], NEW read,
         NEW complete,
         InPhase(r, t, n, two, bc), SendsWell(t, n, two, complete),
         ReadsWell(r, n, two, word, read), QueueRight(q, r, t, full, w),
         Reading(r), r.cnt + 1 \in 8 .. 10
  PROVE  t.pin = Wanted(r, word)
<1>1. r.cnt \in Nat /\ r.bit \in Nat /\ t.bit \in Nat
  BY DEF Receivers, Transmitters
<1>2. /\ t.state \in TxStates \ {"FIRST_RUN", "FINISH", "SEND_PARITY"}
      /\ Clock(r, n) = 16 * Slot(t, n, two) + bc
  BY DEF InPhase, Transmitters, SendsWell
<1>3. t.state \in {"SEND_DATABIT", "SEND_STOPBIT"} => t.data = word
  BY DEF QueueRight, Shifting, Before, OneIf
<1>4. /\ t.pin = Level(t, n)
      /\ t.state = "SEND_DATABIT" => t.bit < n
      /\ t.state = "SEND_STOPBIT2" => two
  BY DEF SendsWell
<1>5. CASE r.state = "READ_STARTBIT"
  <2>1. r.cnt + 1 = 16 * Slot(t, n, two) + bc
    BY <1>2, <1>5 DEF Clock
  <2>2. t.state = "SEND_DATABIT" /\ t.bit = 0
    BY <1>1, <1>2, <2>1 DEF Slot, TxStates
  <2> QED
    BY <1>4, <1>5, <2>2 DEF Level, OneIf, Wanted
<1>6. CASE r.state = "READ_DATABIT"
  <2>1. 17 + 16 * r.bit + r.cnt = 16 * Slot(t, n, two) + bc
    BY <1>2, <1>6 DEF Clock
  <2>2. r.bit < n
    BY <1>6 DEF ReadsWell
  <2>3. \/ t.state = "SEND_DATABIT" /\ t.bit = r.bit + 1
        \/ t.state = "SEND_STOPBIT" /\ n = r.bit + 1
    BY <1>1, <1>2, <2>1, <2>2 DEF Slot, TxStates
  <2>4. CASE t.state = "SEND_DATABIT" /\ t.bit = r.bit + 1
    <3>1. t.bit - 1 = r.bit /\ t.bit > 0
      BY <1>1, <2>4
    <3> QED
      BY <1>3, <1>4, <1>6, <2>4, <3>1 DEF Level, OneIf, Wanted
  <2>5. CASE t.state = "SEND_STOPBIT" /\ n = r.bit + 1
    <3>1. n - 1 = r.bit
      BY <1>1, <2>5
    <3> QED
      BY <1>3, <1>4, <1>6, <2>5, <3>1 DEF Level, OneIf, Wanted
  <2> QED
    BY <2>3, <2>4, <2>5
<1>7. CASE r.state \in {"READ_STOPBIT", "READ_STOPBIT2"}
  <2>1. Clock(r, n) = IF r.state = "READ_STOPBIT" THEN 17 + 16 * n + r.cnt ELSE 34 + 16 * n + r.cnt
    BY <1>7 DEF Clock
  <2>2. t.state \notin {"SEND_DATABIT", "SEND_STOPBIT"}
    BY <1>1, <1>2, <1>4, <2>1 DEF Slot, TxStates
  <2> QED
    BY <1>4, <1>7, <2>2 DEF Level, Wanted
<1> QED
  BY <1>5, <1>6, <1>7 DEF Reading

(* A linked UART whose frame is in order, and a sample of the line. *)
Ready(x, bc, q, a, v) ==
  /\ x \in Uarts /\ Counted(x.rx) /\ bc \in 0 .. 15 /\ Linked(x.ucr) /\ v \in {0, 1}
  /\ q \in Seq(Words) /\ a \in Nat /\ Framed(x, bc, q, a)
  /\ \/ v = x.tx.pin
     \/ /\ x.rx.cnt + 1 \in 8 .. 10
        /\ IF x.tx.pin = 0 THEN x.rx.high = 0 ELSE x.rx.low = 0

(* Last count of a bit, before the next one begins. *)
LastCount(r, two) ==
  IF r.state = "READ_STOPBIT2" THEN 10
  ELSE IF r.state # "READ_STOPBIT" THEN 15 ELSE IF two THEN 16 ELSE 10

(* The receiver goes on with the frame, or on waiting for one. *)
GoesOn(z, x, bc, q) ==
  /\ InPhase(z.rx, x.tx, FrameLength(x), x.ucsrc.USBS, bc + 1)
  /\ ReadsWell(z.rx, FrameLength(x), x.ucsrc.USBS, q[1], z.udrRead)
  /\ Reading(x.rx) => Reading(z.rx)
  /\ Reading(z.rx) /\ ~Reading(x.rx) => x.tx.state = "SEND_DATABIT"
  /\ ~Completes(x, z)

(* It completes a frame, and the word is the oldest one on its way. *)
Ends(z, x, q) ==
  /\ Reading(x.rx) /\ x.tx.state \in {"SEND_STARTBIT", "AFTER_STOPBIT"}
  /\ z.rx.state = "WAIT_FOR_LOWEDGE" /\ z.rx.cnt = 0 /\ Completes(x, z)
  /\ z.udrRead = q[1] \cap (0 .. FrameLength(x) - 1)
  /\ "RXC" \in z.usr /\ "FE" \notin z.usr

(* The votes of a frame stay right. *)
LEMMA ReadyVotes ==
  ASSUME NEW x, NEW bc, NEW q, NEW a, NEW v, Ready(x, bc, q, a, v), Reading(x.rx),
         NEW s, s = Sampled(x.rx, v)
  PROVE  /\ s \in Receivers /\ s.cnt = x.rx.cnt + 1 /\ s.cnt \in 1 .. 17
         /\ s.state = x.rx.state /\ s.bit = x.rx.bit /\ s.data = x.rx.data
         /\ Wanted(s, q[1]) = Wanted(x.rx, q[1]) /\ Wanted(s, q[1]) \in {0, 1}
         /\ VotesRight(s, Wanted(s, q[1]))
<1> DEFINE r == x.rx
           t == x.tx
           n == FrameLength(x)
           two == x.ucsrc.USBS
           word == q[1]
<1>1. r \in Receivers /\ t \in Transmitters /\ n \in 5 .. 9 /\ two \in BOOLEAN /\ t.pin \in {0, 1}
  BY FrameLengthType DEF Ready, Uarts, Format, Transmitters
<1>2. /\ InPhase(r, t, n, two, bc) /\ SendsWell(t, n, two, "TXC" \in x.usr)
      /\ ReadsWell(r, n, two, word, x.udrRead)
      /\ QueueRight(q, r, t, "UDRE" \notin x.usr, x.udrWrite)
      /\ v \in {0, 1} /\ bc \in 0 .. 15 /\ r.cnt <= 16
      /\ \/ v = t.pin
         \/ r.cnt + 1 \in 8 .. 10 /\ (IF t.pin = 0 THEN r.high = 0 ELSE r.low = 0)
  BY DEF Ready, Framed, Counted
<1>3. s.cnt = r.cnt + 1 /\ s.state = r.state /\ s.bit = r.bit /\ s.data = r.data
  BY <1>1, <1>2, SampledFields
<1>4. s \in Receivers /\ s.cnt \in 1 .. 17
  BY <1>1, <1>2, SampledType DEF Ready, Sample
<1>5. Wanted(s, word) = Wanted(r, word) /\ Wanted(r, word) \in {0, 1}
  BY <1>3 DEF Wanted, OneIf
<1>6. Reading(r) /\ VotesRight(r, Wanted(r, word))
  BY <1>2 DEF ReadsWell
<1> HIDE DEF r, t, n, two, word
<1>7. r.cnt + 1 \in 8 .. 10 => t.pin = Wanted(r, word)
  <2>1. PICK full : full = ("UDRE" \notin x.usr)
    OBVIOUS
  <2>2. PICK complete : complete = ("TXC" \in x.usr)
    OBVIOUS
  <2> QED
    BY <1>1, <1>2, <1>6, <2>1, <2>2, SameBit DEF word
<1>8. VotesRight(s, Wanted(r, word))
  BY <1>1, <1>2, <1>5, <1>6, <1>7, VoteStep DEF r
<1> QED
  BY <1>3, <1>4, <1>5, <1>8 DEF r, word

(* A tick within a bit. *)
LEMMA WithinBit ==
  ASSUME NEW x, NEW bc, NEW q, NEW a, NEW v, Ready(x, bc, q, a, v), Reading(x.rx),
         NEW s, s = Sampled(x.rx, v), s.cnt <= LastCount(s, x.ucsrc.USBS),
         NEW z, z.rx = s, z.udrRead = x.udrRead
  PROVE  GoesOn(z, x, bc, q)
<1> DEFINE r == x.rx
           t == x.tx
           n == FrameLength(x)
           two == x.ucsrc.USBS
           word == q[1]
<1>1. r \in Receivers /\ n \in 5 .. 9 /\ two \in BOOLEAN
  BY FrameLengthType DEF Ready, Uarts, Format
<1>2. InPhase(r, t, n, two, bc) /\ ReadsWell(r, n, two, word, x.udrRead) /\ bc \in 0 .. 15
  BY DEF Ready, Framed
<1>3. /\ s.cnt = r.cnt + 1 /\ s.state = r.state /\ s.bit = r.bit /\ s.data = r.data
      /\ VotesRight(s, Wanted(s, word))
  BY ReadyVotes
<1>4. Reading(r) /\ Reading(s) /\ r.cnt \in Nat /\ r.bit \in Nat
  BY <1>1, <1>3 DEF Reading, Receivers
<1>5. Clock(s, n) = Clock(r, n) + 1
  BY <1>1, <1>3, <1>4 DEF Clock
<1> HIDE DEF r, t, n, two, word
<1>6. InPhase(s, t, n, two, bc + 1)
  <2>1. t.state \notin {"FIRST_RUN", "FINISH"} /\ Clock(r, n) = 16 * Slot(t, n, two) + bc
    BY <1>2, <1>4 DEF InPhase
  <2>2. PICK k : k = 16 * Slot(t, n, two)
    OBVIOUS
  <2>3. k \in Nat
    <3>1. t.bit \in Nat
      BY DEF Ready, Uarts, Transmitters, t
    <3> QED
      BY <1>1, <2>2, <3>1 DEF Slot
  <2>4. Clock(s, n) = k + (bc + 1)
    BY <1>2, <1>5, <2>1, <2>2, <2>3
  <2> QED
    BY <1>4, <2>1, <2>2, <2>4 DEF InPhase
<1>7. ReadsWell(s, n, two, word, x.udrRead)
  BY <1>2, <1>3, <1>4 DEF ReadsWell, LastCount, two
<1>8. ~Completes(x, z)
  BY <1>3 DEF Completes, r
<1> QED
  BY <1>4, <1>6, <1>7, <1>8 DEF GoesOn, r, t, n, two, word

(* Types of the parts, for the lemmas that follow. *)
LEMMA ReadyParts ==
  ASSUME NEW x, NEW bc, NEW q, NEW a, NEW v, Ready(x, bc, q, a, v)
  PROVE  /\ x \in Uarts /\ Counted(x.rx) /\ v \in {0, 1} /\ bc \in 0 .. 15
         /\ "RXEN" \in x.ucr /\ "TXEN" \in x.ucr /\ ~x.ucsrc.UPM1 /\ ~x.ucsrc.UPM0
         /\ x.rx \in Receivers /\ x.rx.cnt \in Nat /\ x.rx.bit \in Nat
         /\ x.tx \in Transmitters /\ x.tx.bit \in Nat /\ x.tx.pin \in {0, 1}
         /\ x.tx.state \in TxStates
         /\ FrameLength(x) \in 5 .. 9 /\ x.ucsrc.USBS \in BOOLEAN
         /\ InPhase(x.rx, x.tx, FrameLength(x), x.ucsrc.USBS, bc)
         /\ SendsWell(x.tx, FrameLength(x), x.ucsrc.USBS, "TXC" \in x.usr)
         /\ ReadsWell(x.rx, FrameLength(x), x.ucsrc.USBS, q[1], x.udrRead)
         /\ QueueRight(q, x.rx, x.tx, "UDRE" \notin x.usr, x.udrWrite)
         /\ AgeRight(a, q, x.rx, x.tx, FrameLength(x), x.ucsrc.USBS)
<1>1. x \in Uarts
  BY DEF Ready
<1>2. /\ x.rx \in Receivers /\ x.rx.cnt \in Nat /\ x.rx.bit \in Nat
      /\ x.tx \in Transmitters /\ x.tx.bit \in Nat /\ x.tx.pin \in {0, 1}
      /\ x.tx.state \in TxStates
      /\ FrameLength(x) \in 5 .. 9 /\ x.ucsrc.USBS \in BOOLEAN
  BY <1>1, FrameLengthType DEF Uarts, Format, Receivers, Transmitters
<1> QED
  BY <1>1, <1>2 DEF Ready, Framed, Linked

(* The receiver sees the low edge in the first tick of the start bit. *)
LEMMA RxWaits ==
  ASSUME NEW x, NEW bc, NEW q, NEW a, NEW v, Ready(x, bc, q, a, v), ~Reading(x.rx),
         NEW z, z = CpuCycleRx(x, v)
  PROVE  RxRest(z, x) /\ GoesOn(z, x, bc, q)
<1> DEFINE r == x.rx
           t == x.tx
           n == FrameLength(x)
           two == x.ucsrc.USBS
<1>1. /\ x \in Uarts /\ v \in {0, 1} /\ bc \in 0 .. 15 /\ "RXEN" \in x.ucr
      /\ r \in Receivers /\ t \in Transmitters /\ n \in 5 .. 9 /\ two \in BOOLEAN
      /\ InPhase(r, t, n, two, bc) /\ SendsWell(t, n, two, "TXC" \in x.usr)
  BY ReadyParts
<1>2. /\ r.state = "WAIT_FOR_LOWEDGE" /\ r.cnt = 0
      /\ \/ t.state \in {"FIRST_RUN", "FINISH", "AFTER_STOPBIT", "SEND_STARTBIT"}
         \/ t.state = "SEND_DATABIT" /\ t.bit = 0 /\ bc = 0
  BY <1>1 DEF InPhase
<1>3. v = t.pin
  BY <1>2 DEF Ready
<1>4. /\ RxRest(z, x) /\ z.udrRead = x.udrRead
      /\ z.rx.cnt = 0 /\ z.rx.low = 0 /\ z.rx.high = 0
      /\ z.rx.state = IF v = 0 THEN "READ_STARTBIT" ELSE "WAIT_FOR_LOWEDGE"
  BY <1>1, <1>2, TickWait
<1>5. CASE t.state = "SEND_DATABIT" /\ t.bit = 0 /\ bc = 0
  <2>1. v = 0
    BY <1>1, <1>3, <1>5 DEF SendsWell, Level, OneIf
  <2>2. z.rx.state = "READ_STARTBIT" /\ Reading(z.rx)
    BY <1>4, <2>1 DEF Reading
  <2>3. Clock(z.rx, n) = 1 /\ Slot(t, n, two) = 0
    BY <1>4, <1>5, <2>2 DEF Clock, Slot
  <2>4. InPhase(z.rx, t, n, two, bc + 1)
    BY <1>5, <2>2, <2>3 DEF InPhase
  <2>5. ReadsWell(z.rx, n, two, q[1], z.udrRead)
    BY <1>4, <2>2 DEF ReadsWell, VotesRight, Wanted
  <2> QED
    BY <1>2, <1>4, <1>5, <2>2, <2>4, <2>5 DEF GoesOn, Completes
<1>6. CASE t.state \in {"FIRST_RUN", "FINISH", "AFTER_STOPBIT", "SEND_STARTBIT"}
  <2>1. v = 1
    BY <1>1, <1>3, <1>6 DEF SendsWell, Level, OneIf
  <2>2. z.rx.state = "WAIT_FOR_LOWEDGE" /\ ~Reading(z.rx)
    BY <1>4, <2>1 DEF Reading
  <2>3. InPhase(z.rx, t, n, two, bc + 1)
    BY <1>4, <1>6, <2>2 DEF InPhase
  <2>4. ReadsWell(z.rx, n, two, q[1], z.udrRead)
    BY <2>2 DEF ReadsWell
  <2> QED
    BY <1>2, <1>4, <2>2, <2>3, <2>4 DEF GoesOn, Completes
<1> QED
  BY <1>2, <1>5, <1>6

LEMMA RxStarts ==
  ASSUME NEW x, NEW bc, NEW q, NEW a, NEW v, Ready(x, bc, q, a, v), x.rx.state = "READ_STARTBIT",
         NEW z, z = CpuCycleRx(x, v)
  PROVE  RxRest(z, x) /\ GoesOn(z, x, bc, q)
<1> DEFINE r == x.rx
           t == x.tx
           n == FrameLength(x)
           two == x.ucsrc.USBS
<1>1. /\ x \in Uarts /\ Counted(x.rx) /\ v \in {0, 1} /\ bc \in 0 .. 15 /\ "RXEN" \in x.ucr
      /\ r \in Receivers /\ t.bit \in Nat /\ n \in 5 .. 9 /\ two \in BOOLEAN /\ r.cnt \in Nat
      /\ InPhase(r, t, n, two, bc) /\ ReadsWell(r, n, two, q[1], x.udrRead)
  BY ReadyParts
<1>2. Reading(r)
  BY DEF Reading
<1>3. PICK s : s = Sampled(r, v)
  OBVIOUS
<1>4. /\ s \in Receivers /\ s.cnt = r.cnt + 1 /\ s.cnt \in 1 .. 17 /\ s.state = "READ_STARTBIT"
      /\ Wanted(s, q[1]) = 0 /\ VotesRight(s, 0)
  <2>1. /\ s \in Receivers /\ s.cnt = r.cnt + 1 /\ s.cnt \in 1 .. 17 /\ s.state = r.state
        /\ VotesRight(s, Wanted(s, q[1]))
    BY <1>2, <1>3, ReadyVotes
  <2>2. Wanted(s, q[1]) = 0
    BY <2>1 DEF Wanted
  <2> QED
    BY <2>1, <2>2
<1>5. /\ RxRest(z, x) /\ z.udrRead = x.udrRead
      /\ s.cnt <= 15 => z.rx = s
      /\ s.cnt > 15 /\ s.low > s.high => z.rx = Emptied(s, "READ_DATABIT")
  BY <1>1, <1>3, TickStart
<1>6. CASE s.cnt <= 15
  <2>1. s.cnt <= LastCount(s, two)
    BY <1>4, <1>6 DEF LastCount
  <2> QED
    BY <1>2, <1>3, <1>5, <1>6, <2>1, WithinBit
<1>7. CASE s.cnt > 15
  <2>1. r.cnt = 15 /\ s.cnt = 16
    BY <1>1, <1>2, <1>4, <1>7 DEF ReadsWell
  <2>2. s.low > s.high
    BY <1>4, <2>1, VoteWins
  <2>3. z.rx = Emptied(s, "READ_DATABIT")
    BY <1>5, <1>7, <2>2
  <2>4. /\ z.rx.state = "READ_DATABIT" /\ z.rx.cnt = 0 /\ z.rx.low = 0 /\ z.rx.high = 0
        /\ z.rx.data = {} /\ z.rx.bit = 0
    BY <1>4, <2>3, EmptiedFields DEF RxStates
  <2>5. Reading(z.rx)
    BY <2>4 DEF Reading
  <2>6. InPhase(z.rx, t, n, two, bc + 1)
    <3>1. t.state \notin {"FIRST_RUN", "FINISH"} /\ 16 = 16 * Slot(t, n, two) + bc
      BY <1>1, <1>2, <2>1 DEF InPhase, Clock
    <3>2. Slot(t, n, two) \in Nat
      BY <1>1 DEF Slot
    <3>3. Clock(z.rx, n) = 17
      BY <2>4 DEF Clock
    <3>4. 17 = 16 * Slot(t, n, two) + (bc + 1)
      BY <1>1, <3>1, <3>2
    <3> QED
      BY <2>5, <3>1, <3>3, <3>4 DEF InPhase
  <2>7. ReadsWell(z.rx, n, two, q[1], z.udrRead)
    <3>1. VotesRight(z.rx, Wanted(z.rx, q[1]))
      BY <2>4 DEF VotesRight
    <3>2. {} = q[1] \cap (0 .. 0 - 1)
      OBVIOUS
    <3> QED
      BY <1>1, <2>4, <3>1, <3>2 DEF ReadsWell
  <2> QED
    BY <1>2, <1>5, <2>4, <2>5, <2>6, <2>7 DEF GoesOn, Completes
<1> QED
  BY <1>4, <1>6, <1>7

(* A data bit: the next one, or the stop bit after the last. *)
LEMMA RxReads ==
  ASSUME NEW x, NEW bc, NEW q, NEW a, NEW v, Ready(x, bc, q, a, v), x.rx.state = "READ_DATABIT",
         NEW z, z = CpuCycleRx(x, v)
  PROVE  RxRest(z, x) /\ GoesOn(z, x, bc, q)
<1> DEFINE r == x.rx
           t == x.tx
           n == FrameLength(x)
           two == x.ucsrc.USBS
           word == q[1]
<1>1. /\ x \in Uarts /\ Counted(x.rx) /\ v \in {0, 1} /\ bc \in 0 .. 15 /\ "RXEN" \in x.ucr
      /\ ~x.ucsrc.UPM1
      /\ r \in Receivers /\ t.bit \in Nat /\ n \in 5 .. 9 /\ two \in BOOLEAN
      /\ r.cnt \in Nat /\ r.bit \in Nat
      /\ InPhase(r, t, n, two, bc) /\ ReadsWell(r, n, two, word, x.udrRead)
  BY ReadyParts
<1>2. Reading(r)
  BY DEF Reading
<1>3. PICK s : s = Sampled(r, v)
  OBVIOUS
<1>4. /\ s \in Receivers /\ s.cnt = r.cnt + 1 /\ s.cnt \in 1 .. 17 /\ s.state = "READ_DATABIT"
      /\ s.bit = r.bit /\ s.data = r.data
      /\ Wanted(s, word) \in {0, 1} /\ VotesRight(s, Wanted(s, word))
  BY <1>2, <1>3, ReadyVotes
<1>5. /\ RxRest(z, x) /\ z.udrRead = x.udrRead
      /\ s.cnt <= 15 => z.rx = s
      /\ s.cnt > 15 =>
           /\ z.rx.cnt = 0 /\ z.rx.low = 0 /\ z.rx.high = 0 /\ z.rx.bit = s.bit + 1
           /\ z.rx.data = IF High(s) THEN s.data \cup {s.bit} ELSE s.data
           /\ z.rx.state = IF s.bit + 1 < FrameLength(x) THEN "READ_DATABIT" ELSE "READ_STOPBIT"
  <2>1. RxRest(z, x) /\ z.udrRead = x.udrRead /\ DataTick(z, x, s)
    BY <1>1, <1>3, TickData
  <2> QED
    BY <2>1 DEF DataTick
<1>6. CASE s.cnt <= 15
  <2>1. s.cnt <= LastCount(s, two)
    BY <1>4, <1>6 DEF LastCount
  <2> QED
    BY <1>2, <1>3, <1>5, <1>6, <2>1, WithinBit
<1>7. CASE s.cnt > 15
  <2>1. r.cnt = 15 /\ s.cnt = 16 /\ r.bit < n /\ r.data = word \cap (0 .. r.bit - 1)
    BY <1>1, <1>2, <1>4, <1>7 DEF ReadsWell
  <2>2. r.bit \in word <=> High(s)
    <3>1. Wanted(s, word) = 1 <=> High(s)
      BY <1>4, <2>1, VoteWins
    <3>2. Wanted(s, word) = OneIf(r.bit \in word)
      BY <1>4 DEF Wanted
    <3> QED
      BY <3>1, <3>2 DEF OneIf
  <2>3. z.rx.data = word \cap (0 .. r.bit)
    <3>1. z.rx.data = IF High(s) THEN r.data \cup {r.bit} ELSE r.data
      BY <1>4, <1>5, <1>7
    <3>2. ASSUME NEW i PROVE i \in z.rx.data <=> i \in word \cap (0 .. r.bit)
      <4>1. i \in 0 .. r.bit <=> i \in 0 .. r.bit - 1 \/ i = r.bit
        BY <1>1
      <4> QED
        BY <2>1, <2>2, <3>1, <4>1
    <3> QED
      BY <3>2
  <2>4. /\ z.rx.cnt = 0 /\ z.rx.low = 0 /\ z.rx.high = 0 /\ z.rx.bit = r.bit + 1
        /\ z.rx.state = IF r.bit + 1 < n THEN "READ_DATABIT" ELSE "READ_STOPBIT"
    BY <1>4, <1>5, <1>7
  <2>5. Reading(z.rx) /\ z.rx.state \in {"READ_DATABIT", "READ_STOPBIT"}
    BY <2>4 DEF Reading
  <2>6. InPhase(z.rx, t, n, two, bc + 1)
    <3>1. t.state \notin {"FIRST_RUN", "FINISH"} /\ Clock(r, n) = 16 * Slot(t, n, two) + bc
      BY <1>1, <1>2 DEF InPhase
    <3>2. Clock(r, n) = 32 + 16 * r.bit
      BY <1>1, <2>1 DEF Clock
    <3>3. PICK k \in Nat : k = Slot(t, n, two)
      BY <1>1 DEF Slot
    <3>4. Clock(z.rx, n) = 33 + 16 * r.bit
      BY <1>1, <2>1, <2>4 DEF Clock
    <3>5. Clock(z.rx, n) = 16 * k + (bc + 1)
      BY <1>1, <3>1, <3>2, <3>3, <3>4
    <3> QED
      BY <2>5, <3>1, <3>3, <3>5 DEF InPhase
  <2>7. ReadsWell(z.rx, n, two, word, z.udrRead)
    <3>1. VotesRight(z.rx, Wanted(z.rx, word))
      BY <2>4 DEF VotesRight
    <3>2. z.rx.bit - 1 = r.bit /\ (~(r.bit + 1 < n) => n - 1 = r.bit)
      BY <1>1, <2>1, <2>4
    <3>3. CASE r.bit + 1 < n
      BY <1>1, <2>3, <2>4, <3>1, <3>2, <3>3 DEF ReadsWell
    <3>4. CASE ~(r.bit + 1 < n)
      BY <1>1, <2>3, <2>4, <3>1, <3>2, <3>4 DEF ReadsWell
    <3> QED
      BY <3>3, <3>4
  <2> QED
    BY <1>2, <1>5, <2>5, <2>6, <2>7 DEF GoesOn, Completes
<1> QED
  BY <1>4, <1>6, <1>7

(* While a frame is received there is a word on its way. *)
LEMMA OldestWord ==
  ASSUME NEW q \in Seq(Words), NEW r, NEW t, NEW full, NEW w, QueueRight(q, r, t, full, w),
         Reading(r), t.state \in {"SEND_STARTBIT", "AFTER_STOPBIT"}
  PROVE  Len(q) >= 1 /\ q # <<>> /\ q[1] \in Words
<1>1. Len(q) = Before(r, t) + OneIf(Shifting(t)) + OneIf(full)
  BY DEF QueueRight
<1>2. Before(r, t) = 1
  BY DEF Before, OneIf
<1>3. OneIf(Shifting(t)) \in Nat /\ OneIf(full) \in Nat
  BY DEF OneIf
<1>4. Len(q) >= 1
  BY <1>1, <1>2, <1>3
<1> QED
  BY <1>4

(* The stop bit, or the first of two. *)
LEMMA RxStops ==
  ASSUME NEW x, NEW bc, NEW q, NEW a, NEW v, Ready(x, bc, q, a, v), x.rx.state = "READ_STOPBIT",
         NEW z, z = CpuCycleRx(x, v)
  PROVE  RxRest(z, x) /\ (GoesOn(z, x, bc, q) \/ Ends(z, x, q))
<1> DEFINE r == x.rx
           t == x.tx
           n == FrameLength(x)
           two == x.ucsrc.USBS
           word == q[1]
<1>1. /\ x \in Uarts /\ Counted(x.rx) /\ v \in {0, 1} /\ bc \in 0 .. 15 /\ "RXEN" \in x.ucr
      /\ r \in Receivers /\ t.bit \in Nat /\ n \in 5 .. 9 /\ two \in BOOLEAN
      /\ r.cnt \in Nat /\ r.bit \in Nat /\ t.state \in TxStates
      /\ InPhase(r, t, n, two, bc) /\ ReadsWell(r, n, two, word, x.udrRead)
      /\ SendsWell(t, n, two, "TXC" \in x.usr)
      /\ QueueRight(q, r, t, "UDRE" \notin x.usr, x.udrWrite)
  BY ReadyParts
<1>2. Reading(r)
  BY DEF Reading
<1>3. PICK s : s = Sampled(r, v)
  OBVIOUS
<1>4. /\ s \in Receivers /\ s.cnt = r.cnt + 1 /\ s.cnt \in 1 .. 17 /\ s.state = "READ_STOPBIT"
      /\ s.bit = r.bit /\ s.data = r.data
      /\ Wanted(s, word) = 1 /\ VotesRight(s, 1)
  <2>1. /\ s \in Receivers /\ s.cnt = r.cnt + 1 /\ s.cnt \in 1 .. 17 /\ s.state = r.state
        /\ s.bit = r.bit /\ s.data = r.data /\ VotesRight(s, Wanted(s, word))
    BY <1>2, <1>3, ReadyVotes
  <2>2. Wanted(s, word) = 1
    BY <2>1 DEF Wanted
  <2> QED
    BY <2>1, <2>2
<1>5. /\ RxRest(z, x)
      /\ s.cnt <= (IF two THEN 16 ELSE 10) => z.rx = s /\ z.udrRead = x.udrRead
      /\ s.cnt > 16 /\ two =>
           /\ z.rx.cnt = 0 /\ z.rx.low = 0 /\ z.rx.high = 0 /\ z.rx.data = s.data
           /\ z.rx.state = "READ_STOPBIT2" /\ z.udrRead = s.data \cap (0 .. 7)
      /\ s.cnt > 10 /\ ~two /\ High(s) =>
           /\ z.rx = Emptied(s, "WAIT_FOR_LOWEDGE") /\ z.udrRead = s.data \cap (0 .. 7)
           /\ "RXC" \in z.usr /\ "FE" \notin z.usr
  BY <1>1, <1>3, TickStop
<1>6. r.data = word \cap (0 .. n - 1) /\ r.cnt <= (IF two THEN 16 ELSE 10)
  BY <1>1, <1>2 DEF ReadsWell
<1>7. t.state \notin {"FIRST_RUN", "FINISH"} /\ 17 + 16 * n + r.cnt = 16 * Slot(t, n, two) + bc
  BY <1>1, <1>2 DEF InPhase, Clock
<1>8. CASE s.cnt <= (IF two THEN 16 ELSE 10)
  <2>1. s.cnt <= LastCount(s, two)
    BY <1>4, <1>8 DEF LastCount
  <2> QED
    BY <1>2, <1>3, <1>5, <1>8, <2>1, WithinBit
<1>9. CASE ~(s.cnt <= (IF two THEN 16 ELSE 10)) /\ two
  <2>1. r.cnt = 16 /\ s.cnt = 17
    BY <1>1, <1>4, <1>6, <1>9
  <2>2. /\ z.rx.cnt = 0 /\ z.rx.low = 0 /\ z.rx.high = 0 /\ z.rx.data = r.data
        /\ z.rx.state = "READ_STOPBIT2" /\ z.udrRead = r.data \cap (0 .. 7)
    BY <1>4, <1>5, <1>9, <2>1
  <2>3. Reading(z.rx)
    BY <2>2 DEF Reading
  <2>4. InPhase(z.rx, t, n, two, bc + 1)
    <3>1. PICK k \in Nat : k = Slot(t, n, two)
      BY <1>1 DEF Slot
    <3>2. Clock(z.rx, n) = 34 + 16 * n
      BY <1>1, <2>2 DEF Clock
    <3>3. Clock(z.rx, n) = 16 * k + (bc + 1)
      BY <1>1, <1>7, <2>1, <3>1, <3>2
    <3> QED
      BY <1>7, <2>3, <3>1, <3>3 DEF InPhase
  <2>5. ReadsWell(z.rx, n, two, word, z.udrRead)
    <3>1. VotesRight(z.rx, Wanted(z.rx, word))
      BY <2>2 DEF VotesRight
    <3> QED
      BY <1>6, <1>9, <2>2, <3>1 DEF ReadsWell
  <2> QED
    BY <1>2, <1>5, <2>2, <2>3, <2>4, <2>5 DEF GoesOn, Completes
<1>10. CASE ~(s.cnt <= (IF two THEN 16 ELSE 10)) /\ ~two
  <2>1. r.cnt = 10 /\ s.cnt = 11
    BY <1>1, <1>4, <1>6, <1>10
  <2>2. High(s)
    BY <1>4, <2>1, VoteWins
  <2>3. /\ z.rx = Emptied(s, "WAIT_FOR_LOWEDGE") /\ z.udrRead = s.data \cap (0 .. 7)
        /\ "RXC" \in z.usr /\ "FE" \notin z.usr
    BY <1>5, <1>10, <2>1, <2>2
  <2>4. z.rx.state = "WAIT_FOR_LOWEDGE" /\ z.rx.cnt = 0
    BY <1>4, <2>3, EmptiedFields DEF RxStates
  <2>5. t.state \in {"SEND_STARTBIT", "AFTER_STOPBIT"}
    <3>1. /\ t.state \in TxStates \ {"FIRST_RUN", "FINISH", "SEND_PARITY", "SEND_STOPBIT2"}
          /\ t.state = "SEND_DATABIT" => t.bit < n
      BY <1>1, <1>7, <1>10 DEF SendsWell
    <3>2. t.state \notin {"SEND_DATABIT", "SEND_STOPBIT"}
      BY <1>1, <1>7, <2>1, <3>1 DEF Slot
    <3> QED
      BY <3>1, <3>2 DEF TxStates
  <2>6. z.udrRead = word \cap (0 .. n - 1)
    <3>1. word \in Words
      BY <1>1, <1>2, <2>5, OldestWord DEF Ready
    <3>2. z.udrRead = (word \cap (0 .. n - 1)) \cap (0 .. 7)
      BY <1>4, <1>6, <2>3
    <3> QED
      BY <3>1, <3>2 DEF Words
  <2> QED
    BY <1>2, <1>5, <2>3, <2>4, <2>5, <2>6 DEF Ends, Completes
<1> QED
  BY <1>1, <1>8, <1>9, <1>10

(* The second stop bit. *)
LEMMA RxStops2 ==
  ASSUME NEW x, NEW bc, NEW q, NEW a, NEW v, Ready(x, bc, q, a, v), x.rx.state = "READ_STOPBIT2",
         NEW z, z = CpuCycleRx(x, v)
  PROVE  RxRest(z, x) /\ (GoesOn(z, x, bc, q) \/ Ends(z, x, q))
<1> DEFINE r == x.rx
           t == x.tx
           n == FrameLength(x)
           two == x.ucsrc.USBS
           word == q[1]
<1>1. /\ x \in Uarts /\ Counted(x.rx) /\ v \in {0, 1} /\ bc \in 0 .. 15 /\ "RXEN" \in x.ucr
      /\ r \in Receivers /\ t.bit \in Nat /\ n \in 5 .. 9 /\ two \in BOOLEAN
      /\ r.cnt \in Nat /\ r.bit \in Nat /\ t.state \in TxStates
      /\ InPhase(r, t, n, two, bc) /\ ReadsWell(r, n, two, word, x.udrRead)
      /\ SendsWell(t, n, two, "TXC" \in x.usr)
      /\ QueueRight(q, r, t, "UDRE" \notin x.usr, x.udrWrite)
  BY ReadyParts
<1>2. Reading(r)
  BY DEF Reading
<1>3. PICK s : s = Sampled(r, v)
  OBVIOUS
<1>4. /\ s \in Receivers /\ s.cnt = r.cnt + 1 /\ s.cnt \in 1 .. 17 /\ s.state = "READ_STOPBIT2"
      /\ s.bit = r.bit /\ s.data = r.data
      /\ Wanted(s, word) = 1 /\ VotesRight(s, 1)
  <2>1. /\ s \in Receivers /\ s.cnt = r.cnt + 1 /\ s.cnt \in 1 .. 17 /\ s.state = r.state
        /\ s.bit = r.bit /\ s.data = r.data /\ VotesRight(s, Wanted(s, word))
    BY <1>2, <1>3, ReadyVotes
  <2>2. Wanted(s, word) = 1
    BY <2>1 DEF Wanted
  <2> QED
    BY <2>1, <2>2
<1>5. /\ RxRest(z, x) /\ z.udrRead = x.udrRead
      /\ s.cnt <= 10 => z.rx = s
      /\ s.cnt > 10 /\ High(s) =>
           /\ z.rx = Emptied(s, "WAIT_FOR_LOWEDGE")
           /\ "RXC" \in z.usr /\ "FE" \notin z.usr
  BY <1>1, <1>3, TickStop2
<1>6. /\ r.data = word \cap (0 .. n - 1) /\ r.cnt <= 10 /\ two
      /\ x.udrRead = r.data \cap (0 .. 7)
  BY <1>1, <1>2 DEF ReadsWell
<1>7. t.state \notin {"FIRST_RUN", "FINISH"} /\ 34 + 16 * n + r.cnt = 16 * Slot(t, n, two) + bc
  BY <1>1, <1>2 DEF InPhase, Clock
<1>8. CASE s.cnt <= 10
  <2>1. s.cnt <= LastCount(s, two)
    BY <1>4, <1>8 DEF LastCount
  <2> QED
    BY <1>2, <1>3, <1>5, <1>8, <2>1, WithinBit
<1>9. CASE ~(s.cnt <= 10)
  <2>1. r.cnt = 10 /\ s.cnt = 11
    BY <1>1, <1>4, <1>6, <1>9
  <2>2. High(s)
    BY <1>4, <2>1, VoteWins
  <2>3. z.rx = Emptied(s, "WAIT_FOR_LOWEDGE") /\ "RXC" \in z.usr /\ "FE" \notin z.usr
    BY <1>5, <2>1, <2>2
  <2>4. z.rx.state = "WAIT_FOR_LOWEDGE" /\ z.rx.cnt = 0
    BY <1>4, <2>3, EmptiedFields DEF RxStates
  <2>5. t.state \in {"SEND_STARTBIT", "AFTER_STOPBIT"}
    <3>1. /\ t.state \in TxStates \ {"FIRST_RUN", "FINISH", "SEND_PARITY"}
          /\ t.state = "SEND_DATABIT" => t.bit < n
      BY <1>1, <1>7 DEF SendsWell
    <3>2. t.state \notin {"SEND_DATABIT", "SEND_STOPBIT", "SEND_STOPBIT2"}
      BY <1>1, <1>7, <2>1, <3>1 DEF Slot
    <3> QED
      BY <3>1, <3>2 DEF TxStates
  <2>6. z.udrRead = word \cap (0 .. n - 1)
    <3>1. word \in Words
      BY <1>1, <1>2, <2>5, OldestWord DEF Ready
    <3>2. z.udrRead = (word \cap (0 .. n - 1)) \cap (0 .. 7)
      BY <1>5, <1>6
    <3> QED
      BY <3>1, <3>2 DEF Words
  <2> QED
    BY <1>2, <1>5, <2>3, <2>4, <2>5, <2>6 DEF Ends, Completes
<1> QED
  BY <1>4, <1>8, <1>9

(* A tick of the receiver, in any state. *)
LEMMA RxStep ==
  ASSUME NEW x, NEW bc, NEW q, NEW a, NEW v, Ready(x, bc, q, a, v),
         NEW z, z = CpuCycleRx(x, v)
  PROVE  RxRest(z, x) /\ (GoesOn(z, x, bc, q) \/ Ends(z, x, q))
  BY RxWaits, RxStarts, RxReads, RxStops, RxStops2 DEF Reading

(* The queue of words when the oldest one has arrived. *)
LEMMA QueueTail ==
  ASSUME NEW q \in Seq(Words), NEW r, NEW t, NEW full, NEW w, QueueRight(q, r, t, full, w),
         Reading(r), t.state \in {"SEND_STARTBIT", "AFTER_STOPBIT"}, NEW r2, ~Reading(r2)
  PROVE  QueueRight(Tail(q), r2, t, full, w)
<1> DEFINE p == Tail(q)
           one == OneIf(Shifting(t))
           next == OneIf(full)
<1>1. /\ Len(q) = Before(r, t) + one + next
      /\ Shifting(t) => q[Before(r, t) + 1] = t.data
      /\ full => q[Len(q)] = w
  BY DEF QueueRight
<1>2. Before(r, t) = 1 /\ Before(r2, t) = 0
  BY DEF Before, OneIf
<1>3. one \in {0, 1} /\ next \in {0, 1} /\ (Shifting(t) => one = 1) /\ (full => next = 1)
  BY DEF OneIf
<1> HIDE DEF one, next
<1>4. Len(q) = 1 + one + next /\ Len(q) \in Nat
  BY <1>1, <1>2, <1>3
<1>5. Len(p) = one + next /\ \A i \in 1 .. Len(p) : p[i] = q[i + 1]
  BY <1>3, <1>4
<1> HIDE DEF p
<1>6. Shifting(t) => p[1] = t.data
  BY <1>1, <1>2, <1>3, <1>5
<1>7. full => p[Len(p)] = w
  BY <1>1, <1>3, <1>4, <1>5
<1>8. QueueRight(p, r2, t, full, w)
  BY <1>2, <1>3, <1>5, <1>6, <1>7 DEF QueueRight, one, next
<1> QED
  BY <1>8 DEF p

(* What a tick of the receiver makes of the UART x, of the words q on      *)
(* their way and of their age a.                                           *)
Sees(x, v, q, a, z, q2, a2) ==
  /\ z = CpuCycleRx(x, v)
  /\ q2 = IF Completes(x, z) /\ q # <<>> THEN Tail(q) ELSE q
  /\ a2 \in Nat /\ a2 <= a /\ (Completes(x, z) \/ q = <<>> => a2 = 0)

(* The frame stays in order when the receiver has taken a sample. *)
LEMMA RxFramed ==
  ASSUME NEW x, NEW bc, NEW q, NEW a, NEW v, Ready(x, bc, q, a, v),
         NEW z, NEW q2, NEW a2, Sees(x, v, q, a, z, q2, a2)
  PROVE  Framed(z, bc + 1, q2, a2) /\ Linked(z.ucr) /\ q2 \in Seq(Words)
<1> USE DEF Sees
<1> DEFINE r == x.rx
           t == x.tx
           n == FrameLength(x)
           two == x.ucsrc.USBS
           full == "UDRE" \notin x.usr
           complete == "TXC" \in x.usr
<1>1. /\ x \in Uarts /\ "RXEN" \in x.ucr /\ "TXEN" \in x.ucr /\ ~x.ucsrc.UPM1 /\ ~x.ucsrc.UPM0
      /\ t \in Transmitters /\ t.bit \in Nat /\ n \in 5 .. 9 /\ two \in BOOLEAN
      /\ SendsWell(t, n, two, complete)
      /\ QueueRight(q, r, t, full, x.udrWrite)
      /\ AgeRight(a, q, r, t, n, two)
  BY ReadyParts
<1>2. RxRest(z, x) /\ (GoesOn(z, x, bc, q) \/ Ends(z, x, q)) /\ q \in Seq(Words) /\ a \in Nat
  BY RxStep DEF Ready
<1>3. /\ z.tx = t /\ z.ucsrc = x.ucsrc /\ z.udrWrite = x.udrWrite /\ Linked(z.ucr)
      /\ FrameLength(z) = n
  BY <1>1, <1>2 DEF RxRest, Linked, FrameLength
<1>4. ("UDRE" \notin z.usr) = full /\ ("TXC" \in z.usr) = complete
  <2>1. /\ "TXC" \in z.usr <=> "TXC" \in x.usr
        /\ "UDRE" \in z.usr <=> "UDRE" \in x.usr
    BY <1>2 DEF RxRest
  <2> QED
    BY <2>1, SMT
<1> HIDE DEF r, t, n, two, full, complete
<1>5. Slot(t, n, two) \in Nat
  BY <1>1 DEF Slot
<1>6. CASE GoesOn(z, x, bc, q)
  <2>1. q2 = q
    BY <1>6 DEF GoesOn
  <2>2. /\ InPhase(z.rx, t, n, two, bc + 1) /\ ReadsWell(z.rx, n, two, q[1], z.udrRead)
        /\ Reading(r) => Reading(z.rx)
        /\ Reading(z.rx) /\ ~Reading(r) => t.state = "SEND_DATABIT"
    BY <1>6 DEF GoesOn, r, t, n, two
  <2>3. Before(z.rx, t) = Before(r, t)
    BY <2>2 DEF Before
  <2>4. QueueRight(q, z.rx, t, full, x.udrWrite)
    BY <1>1, <2>3 DEF QueueRight
  <2>5. AgeRight(a2, q, z.rx, t, n, two)
    BY <1>1, <1>2, <1>5, <2>2 DEF AgeRight
  <2>6. Framed(z, bc + 1, q, a2)
    BY <1>1, <1>3, <1>4, <2>2, <2>4, <2>5 DEF Framed, two
  <2> QED
    BY <1>2, <1>3, <2>1, <2>6
<1>7. CASE Ends(z, x, q)
  <2>1. /\ Reading(r) /\ t.state \in {"SEND_STARTBIT", "AFTER_STOPBIT"}
        /\ z.rx.state = "WAIT_FOR_LOWEDGE" /\ z.rx.cnt = 0 /\ Completes(x, z)
    BY <1>7 DEF Ends, r, t
  <2>2. q # <<>>
    BY <1>1, <1>2, <2>1, OldestWord
  <2>3. q2 = Tail(q) /\ q2 \in Seq(Words)
    BY <1>2, <2>1, <2>2
  <2>4. ~Reading(z.rx)
    BY <2>1 DEF Reading
  <2>5. QueueRight(q2, z.rx, t, full, x.udrWrite)
    BY <1>1, <1>2, <2>1, <2>3, <2>4, QueueTail
  <2>6. a2 = 0
    BY <2>1
  <2>7. InPhase(z.rx, t, n, two, bc + 1) /\ ReadsWell(z.rx, n, two, q2[1], z.udrRead)
    BY <2>1, <2>4 DEF InPhase, ReadsWell
  <2>8. AgeRight(a2, q2, z.rx, t, n, two)
    BY <1>5, <2>1, <2>4, <2>6 DEF AgeRight
  <2>9. Framed(z, bc + 1, q2, a2)
    BY <1>1, <1>3, <1>4, <2>5, <2>7, <2>8 DEF Framed, two
  <2> QED
    BY <1>3, <2>3, <2>9
<1> QED
  BY <1>2, <1>6, <1>7
-----------------------------------------------------------------------------
(* What the transmitter leaves alone. *)
TxRest(y, x) ==
  /\ y.rx = x.rx /\ y.ucsrc = x.ucsrc /\ y.ucr = x.ucr
  /\ y.udrRead = x.udrRead /\ y.udrWrite = x.udrWrite

(* The transmitter gets the value t and the status register the value st. *)
LEMMA OnlyTransmitter ==
  ASSUME NEW x \in Uarts, NEW t \in Transmitters, NEW st \in Statuses, NEW y,
         \/ y = [x EXCEPT !.tx = t] /\ st = x.usr
         \/ y = [x EXCEPT !.tx = t, !.usr = st]
         \/ y = [x EXCEPT !.usr = st, !.tx = t]
  PROVE  y \in Uarts /\ y.tx = t /\ y.usr = st /\ TxRest(y, x)
  BY UartsDef DEF TxRest

(* Fields after a word has been moved to the shift register. *)
LEMMA ShiftedFields ==
  ASSUME NEW x \in Uarts, NEW y, y = Shifted(x)
  PROVE  /\ y \in Uarts /\ TxRest(y, x) /\ y.tx \in Transmitters
         /\ y.tx.data = x.udrWrite /\ y.tx.state = "SEND_STARTBIT"
         /\ y.tx.bit = x.tx.bit /\ y.tx.pin = x.tx.pin /\ y.usr = x.usr \cup {"UDRE"}
<1>1. x.tx \in Transmitters /\ x.usr \in Statuses /\ x.udrWrite \in Words
  BY UartsDef
<1>2. PICK t \in Transmitters : t = [x.tx EXCEPT !.data = x.udrWrite, !.state = "SEND_STARTBIT"]
  BY <1>1, TransmittersDef, "SEND_STARTBIT" \in TxStates DEF TxStates
<1>3. PICK st \in Statuses : st = x.usr \cup {"UDRE"}
  BY <1>1 DEF Statuses, StatusBits, Irqs
<1>4. y = [x EXCEPT !.tx = t, !.usr = st]
  BY <1>1, <1>2, <1>3, UartsDef DEF Shifted
<1>5. y \in Uarts /\ y.tx = t /\ y.usr = st /\ TxRest(y, x)
  BY <1>1, <1>4, OnlyTransmitter
<1>6. /\ t.data = x.udrWrite /\ t.state = "SEND_STARTBIT" /\ t.bit = x.tx.bit /\ t.pin = x.tx.pin
  BY <1>1, <1>2, TransmittersDef
<1> QED
  BY <1>3, <1>5, <1>6

(* What CpuCycleTx computes of the UART l that Load left, in the states    *)
(* that it meets without parity.                                           *)
Sends(l) ==
  LET high == [l EXCEPT !.tx.pin = 1] IN
  CASE l.tx.state = "SEND_STARTBIT" ->
         [l EXCEPT !.tx = [@ EXCEPT !.pin = 0, !.state = "SEND_DATABIT", !.bit = 0]]
    [] l.tx.state = "SEND_DATABIT" -> SendDatabit(l)
    [] l.tx.state = "SEND_PARITY" ->
         [l EXCEPT !.tx = [@ EXCEPT !.pin = IF l.tx.parity = l.ucsrc.UPM0 THEN 1 ELSE 0,
                                    !.state = "SEND_STOPBIT"]]
    [] l.tx.state = "SEND_STOPBIT" ->
         IF l.ucsrc.USBS THEN [high EXCEPT !.tx.state = "SEND_STOPBIT2"] ELSE NextWord(high)
    [] l.tx.state = "SEND_STOPBIT2" -> NextWord(high)
    [] l.tx.state = "AFTER_STOPBIT" -> [l EXCEPT !.usr = @ \cup {"TXC"}, !.tx.state = "FINISH"]
    [] OTHER -> l

LEMMA CycleTxDef ==
  ASSUME NEW x, "TXEN" \in x.ucr PROVE CpuCycleTx(x) = CheckForNewIrq(Sends(Load(x)), x)
  BY DEF CpuCycleTx, Sends

(* The start bit. *)
LEMMA SendsStart ==
  ASSUME NEW l \in Uarts, l.tx.state = "SEND_STARTBIT", NEW y, y = Sends(l)
  PROVE  /\ y \in Uarts /\ TxRest(y, l) /\ y.usr = l.usr /\ y.tx \in Transmitters
         /\ y.tx.state = "SEND_DATABIT" /\ y.tx.pin = 0 /\ y.tx.bit = 0 /\ y.tx.data = l.tx.data
<1>1. l.tx \in Transmitters /\ l.usr \in Statuses
  BY UartsDef
<1>2. 0 \in Levels /\ 0 \in Places /\ "SEND_DATABIT" \in TxStates
  BY DEF Levels, Places, TxStates
<1>3. PICK t \in Transmitters : t = [l.tx EXCEPT !.pin = 0, !.state = "SEND_DATABIT", !.bit = 0]
  BY <1>1, <1>2, TransmittersDef
<1>4. y = [l EXCEPT !.tx = t]
  BY <1>3 DEF Sends
<1>5. y \in Uarts /\ y.tx = t /\ y.usr = l.usr /\ TxRest(y, l)
  BY <1>1, <1>4, OnlyTransmitter
<1>6. t.state = "SEND_DATABIT" /\ t.pin = 0 /\ t.bit = 0 /\ t.data = l.tx.data
  BY <1>1, <1>3, TransmittersDef
<1> QED
  BY <1>5, <1>6

(* A data bit. *)
DataSent(t2, t, n) ==
  /\ t2.pin = OneIf(t.bit \in t.data) /\ t2.data = t.data
  /\ t2.bit = IF t.bit + 1 < n THEN t.bit + 1 ELSE 0
  /\ t2.state = IF t.bit + 1 < n THEN "SEND_DATABIT" ELSE "SEND_STOPBIT"

LEMMA SendsData ==
  ASSUME NEW l \in Uarts, l.tx.state = "SEND_DATABIT", ~l.ucsrc.UPM1, ~l.ucsrc.UPM0,
         NEW y, y = Sends(l)
  PROVE  /\ y \in Uarts /\ TxRest(y, l) /\ y.usr = l.usr /\ y.tx \in Transmitters
         /\ DataSent(y.tx, l.tx, FrameLength(l))
<1> DEFINE one == l.tx.bit \in l.tx.data
           parity == l.ucsrc.UPM0 \/ l.ucsrc.UPM1
           more == l.tx.bit + 1 < FrameLength(l)
<1>1. l.tx \in Transmitters /\ l.usr \in Statuses
  BY UartsDef
<1>2. PICK n \in Levels : n = IF one THEN 1 ELSE 0
  BY DEF Levels
<1>3. PICK p \in BOOLEAN : p = IF one THEN ~l.tx.parity ELSE l.tx.parity
  <2>1. l.tx.parity \in BOOLEAN
    BY <1>1, TransmittersDef
  <2> QED
    BY <2>1, Zenon
<1>4. PICK b \in Places : b = IF more THEN l.tx.bit + 1 ELSE 0
  BY <1>1, FrameLengthType DEF Places, Transmitters
<1>5. PICK st \in TxStates : st = IF more THEN "SEND_DATABIT" ELSE "SEND_STOPBIT"
  BY DEF TxStates
<1>6. PICK t \in Transmitters : t = [l.tx EXCEPT !.pin = n, !.parity = p, !.bit = b, !.state = st]
  BY <1>1, TransmittersDef
<1>7. y = [l EXCEPT !.tx = t]
  <2>1. st = IF more THEN l.tx.state ELSE IF parity THEN "SEND_PARITY" ELSE "SEND_STOPBIT"
    BY <1>5
  <2>2. t =
        [l.tx EXCEPT !.pin = IF one THEN 1 ELSE 0, !.parity = IF one THEN ~@ ELSE @,
                     !.bit = IF more THEN @ + 1 ELSE 0,
                     !.state = IF more THEN @ ELSE
                               IF parity THEN "SEND_PARITY" ELSE "SEND_STOPBIT"]
    BY <1>1, <1>2, <1>3, <1>4, <1>6, <2>1, TransmittersDef
  <2>3. y = SendDatabit(l)
    BY DEF Sends
  <2> QED
    BY <2>2, <2>3 DEF SendDatabit
<1>8. y \in Uarts /\ y.tx = t /\ y.usr = l.usr /\ TxRest(y, l)
  BY <1>1, <1>7, OnlyTransmitter
<1>9. t.pin = n /\ t.bit = b /\ t.state = st /\ t.data = l.tx.data
  BY <1>1, <1>6, TransmittersDef
<1> QED
  BY <1>2, <1>4, <1>5, <1>8, <1>9 DEF DataSent, OneIf

(* The line is high, and the next word is moved to the shift register. *)
WordSent(y, l) ==
  IF "UDRE" \notin l.usr
  THEN /\ y.tx.state = "SEND_STARTBIT" /\ y.tx.data = l.udrWrite /\ y.usr = l.usr \cup {"UDRE"}
  ELSE y.tx.state = "AFTER_STOPBIT" /\ y.usr = l.usr

LEMMA SendsHigh ==
  ASSUME NEW l \in Uarts, NEW h, h = [l EXCEPT !.tx.pin = 1]
  PROVE  /\ h \in Uarts /\ TxRest(h, l) /\ h.usr = l.usr /\ h.tx \in Transmitters
         /\ h.tx.pin = 1 /\ h.tx.data = l.tx.data /\ h.tx.state = l.tx.state
<1>1. l.tx \in Transmitters /\ l.usr \in Statuses
  BY UartsDef
<1>2. PICK t \in Transmitters : t = [l.tx EXCEPT !.pin = 1]
  BY <1>1, TransmittersDef, 1 \in Levels DEF Levels
<1>3. h = [l EXCEPT !.tx = t]
  BY <1>2
<1>4. h \in Uarts /\ h.tx = t /\ h.usr = l.usr /\ TxRest(h, l)
  BY <1>1, <1>3, OnlyTransmitter
<1>5. t.pin = 1 /\ t.data = l.tx.data /\ t.state = l.tx.state
  BY <1>1, <1>2, TransmittersDef
<1> QED
  BY <1>4, <1>5

LEMMA SendsNext ==
  ASSUME NEW l \in Uarts, NEW h, h = [l EXCEPT !.tx.pin = 1], NEW y, y = NextWord(h)
  PROVE  /\ y \in Uarts /\ TxRest(y, l) /\ y.tx \in Transmitters
         /\ y.tx.pin = 1 /\ WordSent(y, l)
<1>1. /\ h \in Uarts /\ TxRest(h, l) /\ h.usr = l.usr /\ h.tx \in Transmitters
      /\ h.tx.pin = 1 /\ h.usr \in Statuses
  BY SendsHigh, UartsDef
<1>2. CASE "UDRE" \notin h.usr
  <2>1. y = Shifted(h)
    BY <1>2 DEF NextWord
  <2>2. /\ y \in Uarts /\ TxRest(y, h) /\ y.tx \in Transmitters
        /\ y.tx.data = h.udrWrite /\ y.tx.state = "SEND_STARTBIT"
        /\ y.tx.pin = h.tx.pin /\ y.usr = h.usr \cup {"UDRE"}
    BY <1>1, <2>1, ShiftedFields
  <2> QED
    BY <1>1, <1>2, <2>2 DEF TxRest, WordSent
<1>3. CASE "UDRE" \in h.usr
  <2>1. {} \in Words /\ "AFTER_STOPBIT" \in TxStates
    BY DEF Words, TxStates
  <2>2. PICK t \in Transmitters : t = [h.tx EXCEPT !.state = "AFTER_STOPBIT", !.data = {}]
    <3>1. PICK g \in Transmitters : g = h.tx
      BY <1>1
    <3>2. [g EXCEPT !.state = "AFTER_STOPBIT", !.data = {}] \in Transmitters
      BY <2>1, TransmittersDef
    <3> QED
      BY <3>1, <3>2
  <2>3. y = [h EXCEPT !.tx = t]
    BY <1>3, <2>2 DEF NextWord
  <2>4. y \in Uarts /\ y.tx = t /\ y.usr = h.usr /\ TxRest(y, h)
    BY <1>1, <2>3, OnlyTransmitter
  <2>5. t.pin = 1 /\ t.state = "AFTER_STOPBIT"
    BY <1>1, <2>2, TransmittersDef
  <2> QED
    BY <1>1, <1>3, <2>4, <2>5 DEF TxRest, WordSent
<1> QED
  BY <1>2, <1>3

(* The stop bits. *)
LEMMA SendsStop ==
  ASSUME NEW l \in Uarts, l.tx.state \in {"SEND_STOPBIT", "SEND_STOPBIT2"}, NEW y, y = Sends(l)
  PROVE  /\ y \in Uarts /\ TxRest(y, l) /\ y.tx \in Transmitters /\ y.tx.pin = 1
         /\ l.tx.state = "SEND_STOPBIT" /\ l.ucsrc.USBS =>
              y.tx.state = "SEND_STOPBIT2" /\ y.usr = l.usr /\ y.tx.data = l.tx.data
         /\ l.tx.state = "SEND_STOPBIT2" \/ ~l.ucsrc.USBS => WordSent(y, l)
<1>1. PICK h : h = [l EXCEPT !.tx.pin = 1]
  OBVIOUS
<1>2. /\ h \in Uarts /\ TxRest(h, l) /\ h.usr = l.usr /\ h.tx \in Transmitters
      /\ h.tx.pin = 1 /\ h.tx.data = l.tx.data /\ h.usr \in Statuses
  BY <1>1, SendsHigh, UartsDef
<1>3. CASE l.tx.state = "SEND_STOPBIT" /\ l.ucsrc.USBS
  <2>1. PICK t \in Transmitters : t = [h.tx EXCEPT !.state = "SEND_STOPBIT2"]
    BY <1>2, TransmittersDef, "SEND_STOPBIT2" \in TxStates DEF TxStates
  <2>2. y = [h EXCEPT !.tx = t]
    BY <1>1, <1>3, <2>1 DEF Sends
  <2>3. y \in Uarts /\ y.tx = t /\ y.usr = h.usr /\ TxRest(y, h)
    BY <1>2, <2>2, OnlyTransmitter
  <2>4. t.pin = 1 /\ t.state = "SEND_STOPBIT2" /\ t.data = h.tx.data
    BY <1>2, <2>1, TransmittersDef
  <2> QED
    BY <1>2, <1>3, <2>3, <2>4 DEF TxRest
<1>4. CASE l.tx.state = "SEND_STOPBIT2" \/ ~l.ucsrc.USBS
  <2>1. y = NextWord(h)
    BY <1>1, <1>4 DEF Sends
  <2>2. /\ y \in Uarts /\ TxRest(y, l) /\ y.tx \in Transmitters
        /\ y.tx.pin = 1 /\ WordSent(y, l)
    BY <1>1, <2>1, SendsNext
  <2> QED
    BY <1>4, <2>2
<1> QED
  BY <1>3, <1>4

(* The idle bit after the last word. *)
LEMMA SendsLast ==
  ASSUME NEW l \in Uarts, l.tx.state = "AFTER_STOPBIT", NEW y, y = Sends(l)
  PROVE  /\ y \in Uarts /\ TxRest(y, l) /\ y.tx \in Transmitters
         /\ y.tx.state = "FINISH" /\ y.tx.pin = l.tx.pin /\ y.usr = l.usr \cup {"TXC"}
<1>1. l.tx \in Transmitters /\ l.usr \in Statuses
  BY UartsDef
<1>2. PICK t \in Transmitters : t = [l.tx EXCEPT !.state = "FINISH"]
  BY <1>1, TransmittersDef, "FINISH" \in TxStates DEF TxStates
<1>3. PICK st \in Statuses : st = l.usr \cup {"TXC"}
  BY <1>1 DEF Statuses, StatusBits, Irqs
<1>4. y = [l EXCEPT !.usr = st, !.tx = t]
  BY <1>1, <1>2, <1>3, UartsDef DEF Sends
<1>5. y \in Uarts /\ y.tx = t /\ y.usr = st /\ TxRest(y, l)
  BY <1>1, <1>4, OnlyTransmitter
<1>6. t.state = "FINISH" /\ t.pin = l.tx.pin
  BY <1>1, <1>2, TransmittersDef
<1> QED
  BY <1>3, <1>5, <1>6

(* Load, of a transmitter that is idle and of one that is not. *)
LEMMA LoadFields ==
  ASSUME NEW x \in Uarts, "TXC" \in x.usr => x.tx.state = "FINISH", NEW l, l = Load(x)
  PROVE  /\ "UDRE" \in x.usr \/ x.tx.state \notin {"FIRST_RUN", "FINISH"} => l = x
         /\ "UDRE" \notin x.usr /\ x.tx.state \in {"FIRST_RUN", "FINISH"} =>
              /\ l \in Uarts /\ TxRest(l, x) /\ l.tx.state = "SEND_STARTBIT"
              /\ l.tx.data = x.udrWrite /\ "UDRE" \in l.usr /\ "TXC" \notin l.usr
<1>1. "UDRE" \in x.usr \/ x.tx.state \notin {"FIRST_RUN", "FINISH"} => l = x
  BY DEF Load
<1>2. CASE "UDRE" \notin x.usr /\ x.tx.state \in {"FIRST_RUN", "FINISH"}
  <2>1. PICK y : y = Shifted(x)
    OBVIOUS
  <2>2. /\ y \in Uarts /\ TxRest(y, x) /\ y.tx \in Transmitters /\ y.usr \in Statuses
        /\ y.tx.data = x.udrWrite /\ y.tx.state = "SEND_STARTBIT" /\ y.usr = x.usr \cup {"UDRE"}
    BY <2>1, ShiftedFields, UartsDef
  <2>3. PICK st \in Statuses : st = y.usr \ {"TXC"}
    BY <2>2 DEF Statuses
  <2>4. l = [y EXCEPT !.usr = st]
    <3>1. l = [y EXCEPT !.usr = @ \ {"TXC"}]
      BY <1>2, <2>1 DEF Load
    <3> QED
      BY <2>2, <2>3, <3>1, UartsDef
  <2>5. l \in Uarts /\ l.usr = st /\ l.tx = y.tx /\ TxRest(l, y)
    BY <2>2, <2>4, UartsDef DEF TxRest
  <2> QED
    BY <1>1, <1>2, <2>2, <2>3, <2>5 DEF TxRest
<1> QED
  BY <1>1, <1>2

(* At the end of a bit: the receiver is within the frame while a bit of it *)
(* is followed by another one, and has completed it before the idle line   *)
(* or the next start bit.                                                  *)
LEMMA BitEnds ==
  ASSUME NEW r \in Receivers, NEW t \in Transmitters, NEW n \in 5 .. 9, NEW two \in BOOLEAN,
         NEW word, NEW read, NEW complete, InPhase(r, t, n, two, 16),
         ReadsWell(r, n, two, word, read), SendsWell(t, n, two, complete)
  PROVE  /\ t.state \in {"SEND_DATABIT", "SEND_STOPBIT", "SEND_STOPBIT2"} => Reading(r)
         /\ t.state \in {"SEND_STARTBIT", "AFTER_STOPBIT", "FIRST_RUN", "FINISH"} => ~Reading(r)
         /\ Reading(r) => Clock(r, n) = 16 * Slot(t, n, two) + 16
         /\ ~Reading(r) => r.state = "WAIT_FOR_LOWEDGE" /\ r.cnt = 0
<1>1. /\ Reading(r) => /\ t.state \notin {"FIRST_RUN", "FINISH"}
                       /\ Clock(r, n) = 16 * Slot(t, n, two) + 16
      /\ ~Reading(r) =>
           /\ r.state = "WAIT_FOR_LOWEDGE" /\ r.cnt = 0
           /\ t.state \in {"FIRST_RUN", "FINISH", "AFTER_STOPBIT", "SEND_STARTBIT"}
  BY DEF InPhase
<1>2. ASSUME t.state \in {"SEND_STARTBIT", "AFTER_STOPBIT"}, Reading(r) PROVE FALSE
  <2>1. Slot(t, n, two) = IF two THEN n + 2 ELSE n + 1
    BY <1>2 DEF Slot
  <2>2. r.cnt \in Nat /\ r.bit \in Nat
    BY DEF Receivers
  <2>3. /\ r.cnt <= (IF r.state = "READ_STOPBIT2" THEN 10
                     ELSE IF r.state # "READ_STOPBIT" THEN 15 ELSE IF two THEN 16 ELSE 10)
        /\ r.state = "READ_DATABIT" => r.bit < n
        /\ r.state = "READ_STOPBIT2" => two
    BY <1>2 DEF ReadsWell
  <2>4. Clock(r, n) = IF two THEN 16 * n + 48 ELSE 16 * n + 32
    BY <1>1, <1>2, <2>1
  <2> QED
    BY <1>2, <2>2, <2>3, <2>4 DEF Clock, Reading
<1> QED
  BY <1>1, <1>2

(* The frame is in order after the transmitter's step when its parts are. *)
LEMMA TxDone ==
  ASSUME NEW x \in Uarts, NEW y \in Uarts, TxRest(y, x), NEW z, z = CheckForNewIrq(y, x),
         Linked(x.ucr), ~x.ucsrc.UPM1, ~x.ucsrc.UPM0, NEW q, NEW a,
         NEW n, n = FrameLength(x), NEW two, two = x.ucsrc.USBS,
         InPhase(x.rx, y.tx, n, two, 0), SendsWell(y.tx, n, two, "TXC" \in y.usr),
         ReadsWell(x.rx, n, two, q[1], x.udrRead),
         QueueRight(q, x.rx, y.tx, "UDRE" \notin y.usr, x.udrWrite),
         AgeRight(a, q, x.rx, y.tx, n, two)
  PROVE  Framed(z, 0, q, a)
<1>1. /\ z.rx = x.rx /\ z.tx = y.tx /\ z.usr = y.usr /\ z.ucr = x.ucr /\ z.ucsrc = x.ucsrc
      /\ z.udrWrite = x.udrWrite /\ z.udrRead = x.udrRead
  BY CheckFields DEF TxRest
<1>2. FrameLength(z) = n
  BY <1>1 DEF FrameLength
<1> QED
  BY <1>1, <1>2 DEF Framed

(* A bit of the frame is followed by another one. *)
LEMMA NextBit ==
  ASSUME NEW r \in Receivers, NEW t \in Transmitters, NEW t2, NEW n \in 5 .. 9,
         NEW two \in BOOLEAN, Reading(r), Clock(r, n) = 16 * Slot(t, n, two) + 16,
         Slot(t2, n, two) = Slot(t, n, two) + 1, t2.state \notin {"FIRST_RUN", "FINISH"},
         NEW q, NEW a \in Nat, NEW a2 \in Nat, AgeRight(a, q, r, t, n, two), a2 <= a + 1,
         q = <<>> => a2 = 0
  PROVE  InPhase(r, t2, n, two, 0) /\ AgeRight(a2, q, r, t2, n, two)
<1>1. PICK k \in Nat : k = Slot(t, n, two)
  BY DEF Slot, Transmitters
<1>2. a <= k + 2
  BY <1>1 DEF AgeRight
<1>3. Clock(r, n) = 16 * (k + 1) + 0 /\ a2 <= (k + 1) + 2 /\ Slot(t2, n, two) = k + 1
  BY <1>1, <1>2
<1> QED
  BY <1>3 DEF InPhase, AgeRight

(* A linked UART at the end of a bit time, and the age after it. *)
BitOver(x, q, a, a2) ==
  /\ x \in Uarts /\ Linked(x.ucr) /\ q \in Seq(Words) /\ Framed(x, 16, q, a)
  /\ a \in Nat /\ a2 \in Nat /\ a2 <= a + 1 /\ (q = <<>> => a2 = 0)

LEMMA BitOverParts ==
  ASSUME NEW x, NEW q, NEW a, NEW a2, BitOver(x, q, a, a2)
  PROVE  /\ x \in Uarts /\ Linked(x.ucr) /\ "TXEN" \in x.ucr /\ ~x.ucsrc.UPM1 /\ ~x.ucsrc.UPM0
         /\ x.rx \in Receivers /\ x.tx \in Transmitters /\ x.tx.bit \in Nat
         /\ FrameLength(x) \in 5 .. 9 /\ x.ucsrc.USBS \in BOOLEAN
         /\ SendsWell(x.tx, FrameLength(x), x.ucsrc.USBS, "TXC" \in x.usr)
         /\ ReadsWell(x.rx, FrameLength(x), x.ucsrc.USBS, q[1], x.udrRead)
         /\ QueueRight(q, x.rx, x.tx, "UDRE" \notin x.usr, x.udrWrite)
         /\ AgeRight(a, q, x.rx, x.tx, FrameLength(x), x.ucsrc.USBS)
         /\ x.tx.state \in {"SEND_DATABIT", "SEND_STOPBIT", "SEND_STOPBIT2"} => Reading(x.rx)
         /\ x.tx.state \in {"SEND_STARTBIT", "AFTER_STOPBIT", "FIRST_RUN", "FINISH"} =>
              ~Reading(x.rx)
         /\ Reading(x.rx) =>
              Clock(x.rx, FrameLength(x)) = 16 * Slot(x.tx, FrameLength(x), x.ucsrc.USBS) + 16
         /\ ~Reading(x.rx) => x.rx.state = "WAIT_FOR_LOWEDGE" /\ x.rx.cnt = 0
<1>1. x \in Uarts /\ Linked(x.ucr)
  BY DEF BitOver
<1>2. /\ x.rx \in Receivers /\ x.tx \in Transmitters /\ x.tx.bit \in Nat
      /\ FrameLength(x) \in 5 .. 9 /\ x.ucsrc.USBS \in BOOLEAN /\ "TXEN" \in x.ucr
  BY <1>1, FrameLengthType DEF Uarts, Format, Transmitters, Linked
<1>3. /\ InPhase(x.rx, x.tx, FrameLength(x), x.ucsrc.USBS, 16)
      /\ SendsWell(x.tx, FrameLength(x), x.ucsrc.USBS, "TXC" \in x.usr)
      /\ ReadsWell(x.rx, FrameLength(x), x.ucsrc.USBS, q[1], x.udrRead)
      /\ QueueRight(q, x.rx, x.tx, "UDRE" \notin x.usr, x.udrWrite)
      /\ AgeRight(a, q, x.rx, x.tx, FrameLength(x), x.ucsrc.USBS)
      /\ ~x.ucsrc.UPM1 /\ ~x.ucsrc.UPM0
  BY DEF BitOver, Framed
<1>4. PICK complete : complete = ("TXC" \in x.usr)
  OBVIOUS
<1>5. /\ x.tx.state \in {"SEND_DATABIT", "SEND_STOPBIT", "SEND_STOPBIT2"} => Reading(x.rx)
      /\ x.tx.state \in {"SEND_STARTBIT", "AFTER_STOPBIT", "FIRST_RUN", "FINISH"} =>
           ~Reading(x.rx)
      /\ Reading(x.rx) =>
           Clock(x.rx, FrameLength(x)) = 16 * Slot(x.tx, FrameLength(x), x.ucsrc.USBS) + 16
      /\ ~Reading(x.rx) => x.rx.state = "WAIT_FOR_LOWEDGE" /\ x.rx.cnt = 0
  BY <1>2, <1>3, <1>4, BitEnds
<1> QED
  BY <1>1, <1>2, <1>3, <1>5

(* The transmitter is idle: it stays so, or begins a frame at once. *)
LEMMA TxIdles ==
  ASSUME NEW x, NEW q, NEW a, NEW a2, BitOver(x, q, a, a2), NEW z, z = CpuCycleTx(x),
         x.tx.state \in {"FIRST_RUN", "FINISH"}
  PROVE  Framed(z, 0, q, a2)
<1> DEFINE r == x.rx
           t == x.tx
           n == FrameLength(x)
           two == x.ucsrc.USBS
           full == "UDRE" \notin x.usr
           word == q[1]
<1>1. /\ x \in Uarts /\ Linked(x.ucr) /\ "TXEN" \in x.ucr /\ ~x.ucsrc.UPM1 /\ ~x.ucsrc.UPM0
      /\ n \in 5 .. 9 /\ two \in BOOLEAN
      /\ SendsWell(t, n, two, "TXC" \in x.usr) /\ ReadsWell(r, n, two, word, x.udrRead)
      /\ QueueRight(q, r, t, full, x.udrWrite) /\ AgeRight(a, q, r, t, n, two)
      /\ ~Reading(r) /\ r.state = "WAIT_FOR_LOWEDGE" /\ r.cnt = 0
  BY BitOverParts
<1>2. a \in Nat /\ a2 \in Nat /\ a2 <= a + 1 /\ (q = <<>> => a2 = 0)
  BY DEF BitOver
<1>3. PICK l : l = Load(x)
  OBVIOUS
<1>4. PICK y : y = Sends(l)
  OBVIOUS
<1>5. z = CheckForNewIrq(y, x)
  BY <1>1, <1>3, <1>4, CycleTxDef
<1>6. "TXC" \in x.usr => x.tx.state = "FINISH"
  BY <1>1 DEF SendsWell
<1>7. ~Shifting(t) /\ Before(r, t) = 0
  BY <1>1 DEF Shifting, Before, OneIf
<1>8. CASE "UDRE" \in x.usr
  <2>1. l = x
    BY <1>1, <1>3, <1>6, <1>8, LoadFields
  <2>2. y = x
    BY <1>4, <2>1 DEF Sends
  <2>3. InPhase(r, t, n, two, 0)
    BY <1>1 DEF InPhase
  <2>4. Len(q) = 0
    BY <1>1, <1>7, <1>8 DEF QueueRight, OneIf
  <2>5. q = <<>>
    <3>1. q \in Seq(Words)
      BY DEF BitOver
    <3> QED
      BY <2>4, <3>1
  <2>6. AgeRight(a2, q, r, t, n, two)
    BY <1>1, <1>2, <2>5 DEF AgeRight
  <2>7. TxRest(y, x)
    BY <2>2 DEF TxRest
  <2> QED
    BY <1>1, <1>5, <2>2, <2>3, <2>6, <2>7, TxDone
<1>9. CASE "UDRE" \notin x.usr
  <2>1. /\ l \in Uarts /\ TxRest(l, x) /\ l.tx.state = "SEND_STARTBIT"
        /\ l.tx.data = x.udrWrite /\ "UDRE" \in l.usr /\ "TXC" \notin l.usr
    BY <1>1, <1>3, <1>6, <1>9, LoadFields
  <2>2. /\ y \in Uarts /\ TxRest(y, l) /\ y.usr = l.usr
        /\ y.tx.state = "SEND_DATABIT" /\ y.tx.pin = 0 /\ y.tx.bit = 0 /\ y.tx.data = l.tx.data
    BY <1>4, <2>1, SendsStart
  <2>3. TxRest(y, x)
    BY <2>1, <2>2 DEF TxRest
  <2>4. InPhase(r, y.tx, n, two, 0)
    BY <1>1, <2>2 DEF InPhase
  <2>5. SendsWell(y.tx, n, two, "TXC" \in y.usr)
    BY <1>1, <2>1, <2>2 DEF SendsWell, Level, OneIf
  <2>6. QueueRight(q, r, y.tx, "UDRE" \notin y.usr, x.udrWrite)
    <3>1. Len(q) = 1 /\ q[Len(q)] = x.udrWrite
      BY <1>1, <1>7, <1>9 DEF QueueRight, OneIf
    <3>2. Shifting(y.tx) /\ Before(r, y.tx) = 0
      BY <1>1, <2>2 DEF Shifting, Before, OneIf
    <3> QED
      BY <2>1, <2>2, <3>1, <3>2 DEF QueueRight, OneIf
  <2>7. AgeRight(a2, q, r, y.tx, n, two)
    BY <1>1, <1>2, <2>2 DEF AgeRight, Slot
  <2> QED
    BY <1>1, <1>5, <2>2, <2>3, <2>4, <2>5, <2>6, <2>7, TxDone
<1> QED
  BY <1>8, <1>9

(* The start bit of a word that was waiting behind a frame. *)
LEMMA TxStarts ==
  ASSUME NEW x, NEW q, NEW a, NEW a2, BitOver(x, q, a, a2), NEW z, z = CpuCycleTx(x),
         x.tx.state = "SEND_STARTBIT"
  PROVE  Framed(z, 0, q, a2)
<1> DEFINE r == x.rx
           t == x.tx
           n == FrameLength(x)
           two == x.ucsrc.USBS
           full == "UDRE" \notin x.usr
           word == q[1]
<1>1. /\ x \in Uarts /\ Linked(x.ucr) /\ "TXEN" \in x.ucr /\ ~x.ucsrc.UPM1 /\ ~x.ucsrc.UPM0
      /\ n \in 5 .. 9 /\ two \in BOOLEAN
      /\ SendsWell(t, n, two, "TXC" \in x.usr) /\ ReadsWell(r, n, two, word, x.udrRead)
      /\ QueueRight(q, r, t, full, x.udrWrite) /\ AgeRight(a, q, r, t, n, two)
      /\ ~Reading(r) /\ r.state = "WAIT_FOR_LOWEDGE" /\ r.cnt = 0
  BY BitOverParts
<1>2. a \in Nat /\ a2 \in Nat /\ a2 <= a + 1 /\ (q = <<>> => a2 = 0)
  BY DEF BitOver
<1>3. "TXC" \notin x.usr
  BY <1>1 DEF SendsWell
<1>4. Load(x) = x
  BY <1>1, <1>3, LoadFields
<1>5. PICK y : y = Sends(x)
  OBVIOUS
<1>6. z = CheckForNewIrq(y, x)
  BY <1>1, <1>4, <1>5, CycleTxDef
<1>7. /\ y \in Uarts /\ TxRest(y, x) /\ y.usr = x.usr
      /\ y.tx.state = "SEND_DATABIT" /\ y.tx.pin = 0 /\ y.tx.bit = 0 /\ y.tx.data = t.data
  BY <1>1, <1>5, SendsStart
<1>8. InPhase(r, y.tx, n, two, 0)
  BY <1>1, <1>7 DEF InPhase
<1>9. SendsWell(y.tx, n, two, "TXC" \in y.usr)
  BY <1>1, <1>3, <1>7 DEF SendsWell, Level, OneIf
<1>10. QueueRight(q, r, y.tx, "UDRE" \notin y.usr, x.udrWrite)
  <2>1. Shifting(y.tx) /\ Shifting(t) /\ Before(r, y.tx) = Before(r, t)
    BY <1>1, <1>7 DEF Shifting, Before, OneIf
  <2> QED
    BY <1>1, <1>7, <2>1 DEF QueueRight
<1>11. AgeRight(a2, q, r, y.tx, n, two)
  BY <1>1, <1>2, <1>7 DEF AgeRight, Slot
<1> QED
  BY <1>1, <1>6, <1>7, <1>8, <1>9, <1>10, <1>11, TxDone

(* A data bit follows the start bit or another data bit. *)
LEMMA TxSends ==
  ASSUME NEW x, NEW q, NEW a, NEW a2, BitOver(x, q, a, a2), NEW z, z = CpuCycleTx(x),
         x.tx.state = "SEND_DATABIT"
  PROVE  Framed(z, 0, q, a2)
<1> DEFINE r == x.rx
           t == x.tx
           n == FrameLength(x)
           two == x.ucsrc.USBS
           full == "UDRE" \notin x.usr
           word == q[1]
<1>1. /\ x \in Uarts /\ Linked(x.ucr) /\ "TXEN" \in x.ucr /\ ~x.ucsrc.UPM1 /\ ~x.ucsrc.UPM0
      /\ n \in 5 .. 9 /\ two \in BOOLEAN
      /\ r \in Receivers /\ t \in Transmitters /\ t.bit \in Nat
      /\ SendsWell(t, n, two, "TXC" \in x.usr) /\ ReadsWell(r, n, two, word, x.udrRead)
      /\ QueueRight(q, r, t, full, x.udrWrite) /\ AgeRight(a, q, r, t, n, two)
      /\ Reading(r) /\ Clock(r, n) = 16 * Slot(t, n, two) + 16
  BY BitOverParts
<1>2. a \in Nat /\ a2 \in Nat /\ a2 <= a + 1 /\ (q = <<>> => a2 = 0)
  BY DEF BitOver
<1>3. "TXC" \notin x.usr
  BY <1>1 DEF SendsWell
<1>4. Load(x) = x
  BY <1>1, <1>3, LoadFields
<1>5. PICK y : y = Sends(x)
  OBVIOUS
<1>6. z = CheckForNewIrq(y, x)
  BY <1>1, <1>4, <1>5, CycleTxDef
<1>7. y \in Uarts /\ TxRest(y, x) /\ y.usr = x.usr /\ DataSent(y.tx, t, n)
  BY <1>1, <1>5, SendsData
<1>8. t.bit < n
  BY <1>1 DEF SendsWell
<1> HIDE DEF r, t, n, two, full, word
<1>9. t.state = "SEND_DATABIT"
  BY DEF t
<1>10. /\ y.tx.pin = OneIf(t.bit \in t.data) /\ y.tx.data = t.data
       /\ \/ t.bit + 1 < n /\ y.tx.state = "SEND_DATABIT" /\ y.tx.bit = t.bit + 1
          \/ t.bit + 1 = n /\ y.tx.state = "SEND_STOPBIT"
  BY <1>1, <1>7, <1>8 DEF DataSent
<1>11. Slot(y.tx, n, two) = Slot(t, n, two) + 1
  BY <1>9, <1>10 DEF Slot
<1>12. InPhase(r, y.tx, n, two, 0) /\ AgeRight(a2, q, r, y.tx, n, two)
  <2>1. y.tx.state \notin {"FIRST_RUN", "FINISH"}
    BY <1>10
  <2> QED
    BY <1>1, <1>2, <1>11, <2>1, NextBit
<1>13. SendsWell(y.tx, n, two, "TXC" \in y.usr)
  <2>1. CASE t.bit + 1 < n /\ y.tx.state = "SEND_DATABIT" /\ y.tx.bit = t.bit + 1
    <3>1. y.tx.bit > 0 /\ y.tx.bit - 1 = t.bit
      BY <1>1, <2>1
    <3> QED
      BY <1>3, <1>7, <1>10, <2>1, <3>1 DEF SendsWell, Level
  <2>2. CASE t.bit + 1 = n /\ y.tx.state = "SEND_STOPBIT"
    <3>1. n - 1 = t.bit
      BY <1>1, <2>2
    <3> QED
      BY <1>3, <1>7, <1>10, <2>2, <3>1 DEF SendsWell, Level
  <2> QED
    BY <1>10, <2>1, <2>2
<1>14. QueueRight(q, r, y.tx, "UDRE" \notin y.usr, x.udrWrite)
  <2>1. Shifting(y.tx) /\ Shifting(t) /\ Before(r, y.tx) = Before(r, t)
    BY <1>9, <1>10 DEF Shifting, Before, OneIf
  <2> QED
    BY <1>1, <1>7, <1>10, <2>1 DEF QueueRight, full
<1> QED
  BY <1>1, <1>6, <1>7, <1>12, <1>13, <1>14, TxDone DEF r, n, two, word

(* A stop bit; after the last one the next word follows, if there is one. *)
LEMMA TxStops ==
  ASSUME NEW x, NEW q, NEW a, NEW a2, BitOver(x, q, a, a2), NEW z, z = CpuCycleTx(x),
         x.tx.state \in {"SEND_STOPBIT", "SEND_STOPBIT2"}
  PROVE  Framed(z, 0, q, a2)
<1> DEFINE r == x.rx
           t == x.tx
           n == FrameLength(x)
           two == x.ucsrc.USBS
           full == "UDRE" \notin x.usr
           word == q[1]
<1>1. /\ x \in Uarts /\ Linked(x.ucr) /\ "TXEN" \in x.ucr /\ ~x.ucsrc.UPM1 /\ ~x.ucsrc.UPM0
      /\ n \in 5 .. 9 /\ two \in BOOLEAN
      /\ r \in Receivers /\ t \in Transmitters /\ t.bit \in Nat
      /\ SendsWell(t, n, two, "TXC" \in x.usr) /\ ReadsWell(r, n, two, word, x.udrRead)
      /\ QueueRight(q, r, t, full, x.udrWrite) /\ AgeRight(a, q, r, t, n, two)
      /\ Reading(r) /\ Clock(r, n) = 16 * Slot(t, n, two) + 16
  BY BitOverParts
<1>2. a \in Nat /\ a2 \in Nat /\ a2 <= a + 1 /\ (q = <<>> => a2 = 0)
  BY DEF BitOver
<1>3. "TXC" \notin x.usr
  BY <1>1 DEF SendsWell
<1>4. Load(x) = x
  BY <1>1, <1>3, LoadFields
<1>5. PICK y : y = Sends(x)
  OBVIOUS
<1>6. z = CheckForNewIrq(y, x)
  BY <1>1, <1>4, <1>5, CycleTxDef
<1>7. /\ y \in Uarts /\ TxRest(y, x) /\ y.tx.pin = 1
      /\ t.state = "SEND_STOPBIT" /\ two =>
           y.tx.state = "SEND_STOPBIT2" /\ y.usr = x.usr /\ y.tx.data = t.data
      /\ t.state = "SEND_STOPBIT2" \/ ~two => WordSent(y, x)
  BY <1>1, <1>5, SendsStop
<1>8. t.state = "SEND_STOPBIT2" => two
  BY <1>1 DEF SendsWell
<1>9. t.state \in {"SEND_STOPBIT", "SEND_STOPBIT2"}
  OBVIOUS
<1> HIDE DEF r, t, n, two, word
<1>10. Shifting(t) /\ Before(r, t) = 0
  BY <1>9 DEF Shifting, Before, OneIf
<1>11. Len(q) = 1 + OneIf(full) /\ q[1] = t.data /\ (full => q[Len(q)] = x.udrWrite)
  BY <1>1, <1>10 DEF QueueRight, OneIf
<1>12. ASSUME NEW st, y.tx.state = st, st \in {"SEND_STOPBIT2", "SEND_STARTBIT", "AFTER_STOPBIT"},
              Slot(y.tx, n, two) = Slot(t, n, two) + 1, st = "SEND_STOPBIT2" => two,
              "TXC" \notin y.usr, QueueRight(q, r, y.tx, "UDRE" \notin y.usr, x.udrWrite)
       PROVE  Framed(z, 0, q, a2)
  <2>1. y.tx.state \notin {"FIRST_RUN", "FINISH"}
    BY <1>12
  <2>2. InPhase(r, y.tx, n, two, 0) /\ AgeRight(a2, q, r, y.tx, n, two)
    BY <1>1, <1>2, <1>12, <2>1, NextBit
  <2>3. SendsWell(y.tx, n, two, "TXC" \in y.usr)
    BY <1>7, <1>12 DEF SendsWell, Level
  <2> QED
    BY <1>1, <1>6, <1>7, <1>12, <2>2, <2>3, TxDone DEF r, n, two, word
<1>13. CASE t.state = "SEND_STOPBIT" /\ two
  <2>1. y.tx.state = "SEND_STOPBIT2" /\ y.usr = x.usr /\ y.tx.data = t.data
    BY <1>7, <1>13
  <2>2. Slot(y.tx, n, two) = Slot(t, n, two) + 1
    BY <1>13, <2>1 DEF Slot
  <2>3. Shifting(y.tx) /\ Before(r, y.tx) = 0
    BY <2>1 DEF Shifting, Before, OneIf
  <2>4. QueueRight(q, r, y.tx, "UDRE" \notin y.usr, x.udrWrite)
    BY <1>1, <1>10, <2>1, <2>3 DEF QueueRight
  <2> QED
    BY <1>3, <1>12, <1>13, <2>1, <2>2, <2>4
<1>14. CASE (t.state = "SEND_STOPBIT2" \/ ~two) /\ full
  <2>1. y.tx.state = "SEND_STARTBIT" /\ y.tx.data = x.udrWrite /\ y.usr = x.usr \cup {"UDRE"}
    BY <1>7, <1>14 DEF WordSent
  <2>2. Slot(y.tx, n, two) = Slot(t, n, two) + 1
    BY <1>1, <1>8, <1>9, <1>14, <2>1 DEF Slot
  <2>3. Shifting(y.tx) /\ Before(r, y.tx) = 1
    BY <1>1, <2>1 DEF Shifting, Before, OneIf
  <2>4. Len(q) = 2 /\ q[2] = x.udrWrite
    BY <1>11, <1>14 DEF OneIf
  <2>5. QueueRight(q, r, y.tx, "UDRE" \notin y.usr, x.udrWrite)
    BY <2>1, <2>3, <2>4 DEF QueueRight, OneIf
  <2> QED
    BY <1>3, <1>12, <2>1, <2>2, <2>5
<1>15. CASE (t.state = "SEND_STOPBIT2" \/ ~two) /\ ~full
  <2>1. y.tx.state = "AFTER_STOPBIT" /\ y.usr = x.usr
    BY <1>7, <1>15 DEF WordSent
  <2>2. Slot(y.tx, n, two) = Slot(t, n, two) + 1
    BY <1>1, <1>8, <1>9, <1>15, <2>1 DEF Slot
  <2>3. ~Shifting(y.tx) /\ Before(r, y.tx) = 1
    BY <1>1, <2>1 DEF Shifting, Before, OneIf
  <2>4. Len(q) = 1
    BY <1>11, <1>15 DEF OneIf
  <2>5. QueueRight(q, r, y.tx, "UDRE" \notin y.usr, x.udrWrite)
    BY <1>15, <2>1, <2>3, <2>4 DEF QueueRight, OneIf
  <2> QED
    BY <1>3, <1>12, <2>1, <2>2, <2>5
<1> QED
  BY <1>9, <1>13, <1>14, <1>15

(* The idle bit after the last word. *)
LEMMA TxEnds ==
  ASSUME NEW x, NEW q, NEW a, NEW a2, BitOver(x, q, a, a2), NEW z, z = CpuCycleTx(x),
         x.tx.state = "AFTER_STOPBIT"
  PROVE  Framed(z, 0, q, a2)
<1> DEFINE r == x.rx
           t == x.tx
           n == FrameLength(x)
           two == x.ucsrc.USBS
           full == "UDRE" \notin x.usr
           word == q[1]
<1>1. /\ x \in Uarts /\ Linked(x.ucr) /\ "TXEN" \in x.ucr /\ ~x.ucsrc.UPM1 /\ ~x.ucsrc.UPM0
      /\ n \in 5 .. 9 /\ two \in BOOLEAN
      /\ r \in Receivers /\ t \in Transmitters /\ t.bit \in Nat
      /\ SendsWell(t, n, two, "TXC" \in x.usr) /\ ReadsWell(r, n, two, word, x.udrRead)
      /\ QueueRight(q, r, t, full, x.udrWrite) /\ AgeRight(a, q, r, t, n, two)
      /\ ~Reading(r) /\ r.state = "WAIT_FOR_LOWEDGE" /\ r.cnt = 0
  BY BitOverParts
<1>2. a \in Nat /\ a2 \in Nat /\ a2 <= a + 1 /\ (q = <<>> => a2 = 0)
  BY DEF BitOver
<1>3. "TXC" \notin x.usr
  BY <1>1 DEF SendsWell
<1>4. Load(x) = x
  BY <1>1, <1>3, LoadFields
<1>5. PICK y : y = Sends(x)
  OBVIOUS
<1>6. z = CheckForNewIrq(y, x)
  BY <1>1, <1>4, <1>5, CycleTxDef
<1>7. /\ y \in Uarts /\ TxRest(y, x)
      /\ y.tx.state = "FINISH" /\ y.tx.pin = t.pin /\ y.usr = x.usr \cup {"TXC"}
  BY <1>1, <1>5, SendsLast
<1>8. InPhase(r, y.tx, n, two, 0)
  BY <1>1, <1>7 DEF InPhase
<1>9. SendsWell(y.tx, n, two, "TXC" \in y.usr)
  BY <1>1, <1>7 DEF SendsWell, Level
<1>10. QueueRight(q, r, y.tx, "UDRE" \notin y.usr, x.udrWrite)
  <2>1. ~Shifting(y.tx) /\ ~Shifting(t) /\ Before(r, y.tx) = Before(r, t)
    BY <1>1, <1>7 DEF Shifting, Before, OneIf
  <2>2. "UDRE" \in y.usr <=> "UDRE" \in x.usr
    BY <1>7
  <2> QED
    BY <1>1, <1>7, <2>1, <2>2 DEF QueueRight, OneIf
<1>11. AgeRight(a2, q, r, y.tx, n, two)
  BY <1>1, <1>2, <1>7 DEF AgeRight
<1> QED
  BY <1>1, <1>6, <1>7, <1>8, <1>9, <1>10, <1>11, TxDone

(* A step of the transmitter, in any state. *)
LEMMA TxFramed ==
  ASSUME NEW x, NEW q, NEW a, NEW a2, BitOver(x, q, a, a2), NEW z, z = CpuCycleTx(x)
  PROVE  Framed(z, 0, q, a2)
<1>1. x.tx.state \in TxStates \ {"SEND_PARITY"}
  BY BitOverParts DEF SendsWell, Transmitters
<1> QED
  BY <1>1, TxIdles, TxStarts, TxSends, TxStops, TxEnds DEF TxStates
-----------------------------------------------------------------------------
(* As long as the program keeps the rules, receiver and transmitter are in *)
(* step.                                                                   *)
KeepsStep == wild = 0 => Framed(u, baudCnt16, inflight, age)

(* An access that changes nothing of a frame. *)
LEMMA SameFrame ==
  ASSUME NEW x, NEW y, NEW bc, NEW q, NEW a, Framed(x, bc, q, a),
         y.rx = x.rx, y.tx = x.tx, y.ucsrc = x.ucsrc, y.udrRead = x.udrRead,
         y.udrWrite = x.udrWrite, "CHR9" \in y.ucr <=> "CHR9" \in x.ucr,
         "UDRE" \in y.usr <=> "UDRE" \in x.usr, "TXC" \in y.usr => "TXC" \in x.usr,
         Linked(y.ucr) \/ y.ucr = x.ucr
  PROVE  Framed(y, bc, q, a)
<1>1. FrameLength(y) = FrameLength(x)
  BY DEF FrameLength
<1>2. SendsWell(y.tx, FrameLength(y), y.ucsrc.USBS, "TXC" \in y.usr)
  BY <1>1 DEF Framed, SendsWell
<1>3. QueueRight(q, y.rx, y.tx, "UDRE" \notin y.usr, y.udrWrite)
  BY DEF Framed, QueueRight, OneIf
<1> QED
  BY <1>1, <1>2, <1>3 DEF Framed

(* Nothing is on its way: the frame format may change. *)
LEMMA QuietFrame ==
  ASSUME NEW x, NEW y, NEW bc, NEW a, Framed(x, bc, <<>>, a), x.tx \in Transmitters,
         y.rx = x.rx, y.tx = x.tx, y.udrWrite = x.udrWrite, y.usr = x.usr,
         ~y.ucsrc.UPM1, ~y.ucsrc.UPM0, Linked(y.ucr) \/ y.ucr = x.ucr
  PROVE  Framed(y, bc, <<>>, a)
<1> DEFINE r == x.rx
           t == x.tx
<1>1. QueueRight(<<>>, r, t, "UDRE" \notin x.usr, x.udrWrite)
  BY DEF Framed
<1>2. InPhase(r, t, FrameLength(x), x.ucsrc.USBS, bc)
  BY DEF Framed
<1>3. SendsWell(t, FrameLength(x), x.ucsrc.USBS, "TXC" \in x.usr)
  BY DEF Framed
<1>4. a = 0
  BY DEF Framed, AgeRight
<1>5. ~Shifting(t) /\ ~(Reading(r) /\ t.state \in {"SEND_STARTBIT", "AFTER_STOPBIT"})
  <2>1. Before(r, t) + OneIf(Shifting(t)) + OneIf("UDRE" \notin x.usr) = 0
    BY <1>1 DEF QueueRight
  <2>2. Before(r, t) \in Nat /\ OneIf(Shifting(t)) \in Nat /\ OneIf("UDRE" \notin x.usr) \in Nat
    BY DEF Before, OneIf
  <2>3. Before(r, t) = 0 /\ OneIf(Shifting(t)) = 0
    BY <2>1, <2>2
  <2> QED
    BY <2>3 DEF Before, OneIf
<1>6. t.state \in {"FIRST_RUN", "FINISH", "AFTER_STOPBIT"}
  <2>1. t.state \in TxStates /\ t.state # "SEND_PARITY"
    BY <1>3 DEF SendsWell, Transmitters
  <2> QED
    BY <1>5, <2>1 DEF Shifting, TxStates
<1>7. ~Reading(r) /\ r.state = "WAIT_FOR_LOWEDGE" /\ r.cnt = 0
  BY <1>2, <1>5, <1>6 DEF InPhase
<1>8. t.pin = 1
  BY <1>3, <1>6 DEF SendsWell, Level
<1>9. ASSUME NEW n, NEW two
      PROVE  /\ InPhase(r, t, n, two, bc) /\ SendsWell(t, n, two, "TXC" \in x.usr)
             /\ ReadsWell(r, n, two, <<>>[1], y.udrRead) /\ AgeRight(a, <<>>, r, t, n, two)
  <2>1. InPhase(r, t, n, two, bc)
    BY <1>6, <1>7 DEF InPhase
  <2>2. SendsWell(t, n, two, "TXC" \in x.usr)
    BY <1>3, <1>6, <1>8 DEF SendsWell, Level
  <2>3. ReadsWell(r, n, two, <<>>[1], y.udrRead)
    BY <1>7 DEF ReadsWell
  <2>4. AgeRight(a, <<>>, r, t, n, two)
    BY <1>4, <1>6, <1>7 DEF AgeRight
  <2> QED
    BY <2>1, <2>2, <2>3, <2>4
<1>10. x.ucr = y.ucr => Linked(y.ucr) \/ (y.ucr = {} /\ y.tx.state = "FIRST_RUN")
  BY DEF Framed
<1> QED
  BY <1>1, <1>9, <1>10 DEF Framed

(* A word is written to UDR. *)
LEMMA WordWritten ==
  ASSUME NEW x, NEW y, NEW bc, NEW q \in Seq(Words), NEW a, Framed(x, bc, q, a), NEW w \in Words,
         x.tx \in Transmitters, "UDRE" \in x.usr, Linked(x.ucr),
         y.rx = x.rx, y.tx = x.tx, y.ucsrc = x.ucsrc, y.udrRead = x.udrRead, y.ucr = x.ucr,
         y.udrWrite = w, y.usr = x.usr \ {"UDRE"}
  PROVE  Len(q) < 3 /\ Framed(y, bc, Append(q, w), a)
<1> DEFINE r == x.rx
           t == x.tx
           n == FrameLength(x)
           two == x.ucsrc.USBS
           b == Before(r, t)
           o == OneIf(Shifting(t))
<1>1. /\ InPhase(r, t, n, two, bc) /\ SendsWell(t, n, two, "TXC" \in x.usr)
      /\ ReadsWell(r, n, two, q[1], x.udrRead) /\ QueueRight(q, r, t, "UDRE" \notin x.usr, x.udrWrite)
      /\ AgeRight(a, q, r, t, n, two) /\ ~x.ucsrc.UPM1 /\ ~x.ucsrc.UPM0
  BY DEF Framed
<1>2. b \in {0, 1} /\ o \in {0, 1} /\ (Shifting(t) => o = 1)
  BY DEF Before, OneIf
<1>3. Len(q) = b + o /\ (Shifting(t) => q[b + 1] = t.data)
  BY <1>1, <1>2 DEF QueueRight, OneIf
<1>4. Reading(r) => Len(q) >= 1
  <2>1. t.state \in TxStates /\ t.state # "SEND_PARITY"
    BY <1>1 DEF SendsWell, Transmitters
  <2>2. ASSUME Reading(r) PROVE b = 1 \/ o = 1
    <3>1. t.state \notin {"FIRST_RUN", "FINISH"}
      BY <1>1, <2>2 DEF InPhase
    <3> QED
      BY <2>1, <2>2, <3>1 DEF TxStates, Before, Shifting, OneIf
  <2> QED
    BY <1>2, <1>3, <2>2
<1>5. FrameLength(y) = n
  BY DEF FrameLength
<1>6. PICK p : p = Append(q, w)
  OBVIOUS
<1>7. Len(p) = Len(q) + 1 /\ p[Len(p)] = w /\ p # <<>> /\ \A i \in 1 .. Len(q) : p[i] = q[i]
  BY <1>6
<1> HIDE DEF r, t, n, two, b, o
<1>8. Reading(r) => p[1] = q[1]
  BY <1>4, <1>7
<1>9. Shifting(t) => p[b + 1] = t.data
  BY <1>2, <1>3, <1>7
<1>10. ReadsWell(r, n, two, p[1], x.udrRead)
  BY <1>1, <1>8 DEF ReadsWell
<1>11. QueueRight(p, r, t, "UDRE" \notin y.usr, w)
  <2>1. "UDRE" \notin y.usr
    OBVIOUS
  <2>2. Len(p) = Before(r, t) + OneIf(Shifting(t)) + OneIf("UDRE" \notin y.usr)
    BY <1>2, <1>3, <1>7, <2>1 DEF OneIf, b, o
  <2> QED
    BY <1>7, <1>9, <2>2 DEF QueueRight, b
<1>12. AgeRight(a, p, r, t, n, two)
  BY <1>1, <1>7 DEF AgeRight
<1>13. SendsWell(t, n, two, "TXC" \in y.usr)
  BY <1>1 DEF SendsWell
<1>14. Framed(y, bc, p, a)
  BY <1>1, <1>5, <1>10, <1>11, <1>12, <1>13 DEF Framed, r, t, n, two
<1> QED
  BY <1>2, <1>3, <1>6, <1>14

(* A reset UART, with any parity bits. *)
LEMMA ResetFrame ==
  ASSUME NEW x, NEW rp, NEW wp, NEW bc, x.rx = IdleReceiver(rp), x.tx = IdleTransmitter(wp),
         x.usr = {"UDRE"}, x.ucr = {}, x.ucsrc = ResetFormat
  PROVE  Framed(x, bc, <<>>, 0)
<1>1. /\ x.rx.state = "WAIT_FOR_LOWEDGE" /\ x.rx.cnt = 0
      /\ x.tx.state = "FIRST_RUN" /\ x.tx.pin = 1
      /\ ~x.ucsrc.UPM1 /\ ~x.ucsrc.UPM0
  BY DEF IdleReceiver, IdleTransmitter, ResetFormat
<1>2. ~Reading(x.rx) /\ ~Shifting(x.tx) /\ Before(x.rx, x.tx) = 0
  BY <1>1 DEF Reading, Shifting, Before, OneIf
<1>3. InPhase(x.rx, x.tx, FrameLength(x), x.ucsrc.USBS, bc)
  BY <1>1, <1>2 DEF InPhase
<1>4. SendsWell(x.tx, FrameLength(x), x.ucsrc.USBS, "TXC" \in x.usr)
  BY <1>1 DEF SendsWell, Level
<1>5. ReadsWell(x.rx, FrameLength(x), x.ucsrc.USBS, <<>>[1], x.udrRead)
  BY <1>2 DEF ReadsWell
<1>6. QueueRight(<<>>, x.rx, x.tx, "UDRE" \notin x.usr, x.udrWrite)
  BY <1>2 DEF QueueRight, OneIf
<1>7. AgeRight(0, <<>>, x.rx, x.tx, FrameLength(x), x.ucsrc.USBS)
  BY <1>1, <1>2 DEF AgeRight
<1> QED
  BY <1>1, <1>3, <1>4, <1>5, <1>6, <1>7 DEF Framed

LEMMA InitKeepsStep == Init => KeepsStep
<1> SUFFICES ASSUME Init PROVE KeepsStep
  OBVIOUS
<1>1. PICK rp, wp \in program.parities :
        u = [udrWrite |-> {}, udrRead |-> {}, usr |-> {"UDRE"}, ucr |-> {},
             ucsrc |-> ResetFormat, ubrr |-> 0, queue |-> {},
             rx |-> IdleReceiver(rp), tx |-> IdleTransmitter(wp)]
  BY DEF Init
<1>2. /\ u.rx = IdleReceiver(rp) /\ u.tx = IdleTransmitter(wp)
      /\ u.usr = {"UDRE"} /\ u.ucr = {} /\ u.ucsrc = ResetFormat
  BY <1>1
<1>3. Framed(u, 0, <<>>, 0)
  BY <1>2, ResetFrame
<1> QED
  BY <1>3 DEF Init, KeepsStep

(* A baud tick, with the sample v of the line. *)
Tick(v) ==
  LET x == CpuCycleRx(u, v) IN
  /\ u' = IF baudCnt16 = 15 THEN CpuCycleTx(x) ELSE x
  /\ inflight' = IF Completes(u, x) /\ inflight # <<>> THEN Tail(inflight) ELSE inflight
  /\ age' = IF Completes(u, x) \/ inflight = <<>> \/ wild > 0 THEN 0
            ELSE IF baudCnt16 = 15 THEN age + 1 ELSE age

LEMMA TickReady ==
  ASSUME Inv, KeepsStep, wild = 0, Linked(u.ucr), NEW v \in Disturbed(Line)
  PROVE  Ready(u, baudCnt16, inflight, age, v)
<1>1. /\ u \in Uarts /\ Counted(u.rx) /\ baudCnt16 \in 0 .. 15 /\ inflight \in Seq(Words)
      /\ age \in Nat
  BY DEF Inv, TypeOK, Words
<1>2. Line = u.tx.pin /\ u.tx.pin \in {0, 1}
  BY <1>1 DEF Line, Linked, Uarts, Transmitters
<1>3. /\ v \in {0, 1}
      /\ \/ v = u.tx.pin
         \/ u.rx.cnt + 1 \in 8 .. 10 /\ (IF u.tx.pin = 0 THEN u.rx.high = 0 ELSE u.rx.low = 0)
  BY <1>2 DEF Disturbed
<1> QED
  BY <1>1, <1>3 DEF Ready, KeepsStep

LEMMA CycleKeepsStep ==
  ASSUME Inv, KeepsStep, CpuCycle
  PROVE  KeepsStep'
<1> SUFFICES ASSUME wild' = 0 PROVE Framed(u', baudCnt16', inflight', age')
  BY DEF KeepsStep
<1>1. wild = 0 /\ Framed(u, baudCnt16, inflight, age)
  BY DEF CpuCycle, KeepsStep
<1>2. CASE UNCHANGED <<u, baudCnt16, inflight, age>>
  BY <1>1, <1>2
<1>3. CASE ~(baudCnt + 1 < u.ubrr + 1)
  <2>1. PICK v \in Disturbed(Line) : Tick(v)
    BY <1>3 DEF CpuCycle, Tick
  <2>2. baudCnt16' = (baudCnt16 + 1) % 16
    BY <1>3 DEF CpuCycle
  <2>3. u \in Uarts /\ baudCnt16 \in 0 .. 15 /\ age \in Nat
    BY DEF Inv, TypeOK
  <2>4. PICK x : x = CpuCycleRx(u, v)
    OBVIOUS
  <2>5. /\ u' = IF baudCnt16 = 15 THEN CpuCycleTx(x) ELSE x
        /\ inflight' = IF Completes(u, x) /\ inflight # <<>> THEN Tail(inflight) ELSE inflight
        /\ age' = IF Completes(u, x) \/ inflight = <<>> THEN 0
                  ELSE IF baudCnt16 = 15 THEN age + 1 ELSE age
    BY <1>1, <2>1, <2>4 DEF Tick
  <2>6. CASE Linked(u.ucr)
    <3>1. Ready(u, baudCnt16, inflight, age, v)
      BY <1>1, <2>6, TickReady
    <3>2. PICK a2 \in Nat : a2 = IF Completes(u, x) \/ inflight = <<>> THEN 0 ELSE age
      BY <2>3
    <3>3. a2 <= age
      BY <2>3, <3>2
    <3>4. Framed(x, baudCnt16 + 1, inflight', a2) /\ Linked(x.ucr) /\ inflight' \in Seq(Words)
      <4>1. PICK p : p = IF Completes(u, x) /\ inflight # <<>> THEN Tail(inflight) ELSE inflight
        OBVIOUS
      <4>2. Sees(u, v, inflight, age, x, p, a2)
        BY <2>4, <3>2, <3>3, <4>1 DEF Sees
      <4>3. Framed(x, baudCnt16 + 1, p, a2) /\ Linked(x.ucr) /\ p \in Seq(Words)
        BY <3>1, <4>2, RxFramed
      <4> QED
        BY <2>5, <4>1, <4>3
    <3>5. CASE baudCnt16 # 15
      <4>1. u' = x /\ age' = a2 /\ baudCnt16' = baudCnt16 + 1
        BY <2>2, <2>3, <2>5, <3>2, <3>5
      <4> QED
        BY <3>4, <4>1
    <3>6. CASE baudCnt16 = 15
      <4>1. u' = CpuCycleTx(x) /\ baudCnt16' = 0 /\ baudCnt16 + 1 = 16
        BY <2>2, <2>5, <3>6
      <4>2. age' \in Nat /\ age' <= a2 + 1
        BY <2>3, <2>5, <3>2, <3>6
      <4>3. inflight' = <<>> => age' = 0
        BY <2>5
      <4>4. x \in Uarts
        <5>1. v \in {0, 1} /\ Counted(u.rx) /\ Queued(u)
          BY <3>1 DEF Ready, Inv
        <5> QED
          BY <2>3, <2>4, <5>1, ReceiveStep
      <4>5. BitOver(x, inflight', a2, age')
        BY <3>2, <3>4, <4>1, <4>2, <4>3, <4>4 DEF BitOver
      <4> QED
        BY <4>1, <4>5, TxFramed
    <3> QED
      BY <3>5, <3>6
  <2>7. CASE ~Linked(u.ucr)
    <3>1. u.ucr = {} /\ u.tx.state = "FIRST_RUN" /\ inflight = <<>>
      BY <1>1, <2>7 DEF Framed
    <3>2. x = u
      BY <2>4, <3>1 DEF CpuCycleRx
    <3>3. CpuCycleTx(u) = u
      BY <3>1 DEF CpuCycleTx
    <3>4. u' = u /\ inflight' = inflight /\ age' = 0
      BY <2>5, <3>1, <3>2, <3>3
    <3>5. age = 0
      BY <1>1, <3>1 DEF Framed, AgeRight
    <3>6. InPhase(u.rx, u.tx, FrameLength(u), u.ucsrc.USBS, baudCnt16')
      BY <1>1, <3>1 DEF Framed, InPhase
    <3> QED
      BY <1>1, <3>4, <3>5, <3>6 DEF Framed
  <2> QED
    BY <2>6, <2>7
<1> QED
  BY <1>2, <1>3 DEF CpuCycle

(* An access after which the rules still are kept was itself within them. *)
LEMMA AccessKeeps ==
  ASSUME Inv, KeepsStep, NEW ok \in BOOLEAN, Access(ok), wild' = 0
  PROVE  /\ ok /\ wild = 0 /\ Framed(u, baudCnt16, inflight, age)
         /\ UNCHANGED <<baudCnt16, age>>
<1>1. wild \in Nat
  BY UartAssumption DEF Inv, TypeOK
<1>2. ok /\ wild = 0
  BY <1>1 DEF Access
<1> QED
  BY <1>2 DEF Access, KeepsStep

LEMMA NextKeepsStep == Inv /\ KeepsStep /\ [Next]_vars => KeepsStep'
<1> SUFFICES ASSUME Inv, KeepsStep, [Next]_vars PROVE KeepsStep'
  OBVIOUS
<1>1. CASE CpuCycle
  BY <1>1, CycleKeepsStep
<1>2. /\ u \in Uarts /\ u.tx \in Transmitters /\ inflight \in Seq(Words)
      /\ program.words \subseteq Words /\ program.controls \subseteq Controls
      /\ program.formats \subseteq Format
  BY UartAssumption, UartsDef DEF Inv, TypeOK, Words, Controls
<1>3. ASSUME NEW w \in program.words, SetUdr(w), wild' = 0 PROVE KeepsStep'
  <2>1. PICK ok \in BOOLEAN : ok = ("UDRE" \in u.usr /\ Linked(u.ucr))
    BY Zenon
  <2>2. Access(ok)
    BY <1>3, <2>1 DEF SetUdr
  <2>3. ok /\ Framed(u, baudCnt16, inflight, age) /\ UNCHANGED <<baudCnt16, age>>
    BY <1>3, <2>2, AccessKeeps
  <2>4. PICK st, q : /\ st = u.usr \ {"UDRE"}
                     /\ q = IF "UDRE" \in u.usr \cap u.ucr THEN u.queue \ {"UDRE"} ELSE u.queue
    OBVIOUS
  <2>5. u' = [u EXCEPT !.udrWrite = w, !.usr = st, !.queue = q]
    BY <1>3, <1>2, <2>4, UartsDef DEF SetUdr
  <2>6. /\ u'.rx = u.rx /\ u'.tx = u.tx /\ u'.ucsrc = u.ucsrc /\ u'.udrRead = u.udrRead
        /\ u'.ucr = u.ucr /\ u'.udrWrite = w /\ u'.usr = u.usr \ {"UDRE"}
    BY <1>2, <2>4, <2>5, UartsDef
  <2>7. Len(inflight) < 3 /\ Framed(u', baudCnt16, Append(inflight, w), age)
    BY <1>2, <1>3, <2>1, <2>3, <2>6, WordWritten
  <2> QED
    BY <1>3, <2>3, <2>7 DEF SetUdr, KeepsStep
<1>4. ASSUME NEW val \in program.statuses, SetUsr(val), wild' = 0 PROVE KeepsStep'
  BY <1>4, AccessKeeps DEF SetUsr
<1>5. ASSUME NEW val \in program.controls, SetUcr(val), wild' = 0 PROVE KeepsStep'
  <2>1. PICK ok \in BOOLEAN : ok = (Linked(val) /\ (Quiet \/ val \ Irqs = u.ucr \ Irqs))
    BY Zenon
  <2>2. Access(ok) /\ inflight' = inflight
    BY <1>5, <2>1 DEF SetUcr
  <2>3. ok /\ Framed(u, baudCnt16, inflight, age) /\ UNCHANGED <<baudCnt16, age>>
    BY <1>5, <2>2, AccessKeeps
  <2>4. u.tx.state \in {"FIRST_RUN", "SEND_STARTBIT"} => u.tx.pin = 1
    BY <2>3 DEF Framed, SendsWell, Level
  <2>5. PICK y : y = [u EXCEPT !.ucr = val]
    OBVIOUS
  <2>6. /\ y \in Uarts /\ y.rx = u.rx /\ y.tx = u.tx /\ y.ucsrc = u.ucsrc /\ y.usr = u.usr
        /\ y.udrRead = u.udrRead /\ y.udrWrite = u.udrWrite /\ y.ucr = val
    BY <1>2, <2>5, UartsDef
  <2>7. u' = CheckForNewIrq(y, u)
    <3>1. PICK n : n = IF "TXEN" \in val /\ u.tx.state \in {"FIRST_RUN", "SEND_STARTBIT"}
                       THEN 1 ELSE u.tx.pin
      OBVIOUS
    <3>2. n = u.tx.pin
      BY <2>4, <3>1
    <3>3. [u.tx EXCEPT !.pin = n] = u.tx
      BY <1>2, <3>2, TransmittersDef
    <3>4. PICK t : t = [u.tx EXCEPT !.pin = n]
      OBVIOUS
    <3>5. [u EXCEPT !.ucr = val, !.tx = t] = y
      BY <1>2, <2>5, <3>3, <3>4, UartsDef
    <3>6. [u EXCEPT !.ucr = val, !.tx = t]
            = [u EXCEPT !.ucr = val,
                        !.tx.pin = IF "TXEN" \in val /\ u.tx.state \in {"FIRST_RUN", "SEND_STARTBIT"}
                                   THEN 1 ELSE @]
      BY <1>2, <3>1, <3>4, UartsDef
    <3> QED
      BY <1>5, <3>5, <3>6 DEF SetUcr
  <2>8. /\ u'.rx = u.rx /\ u'.tx = u.tx /\ u'.ucsrc = u.ucsrc /\ u'.udrRead = u.udrRead
        /\ u'.ucr = val /\ u'.udrWrite = u.udrWrite /\ u'.usr = u.usr
    BY <1>2, <2>6, <2>7, CheckFields
  <2>9. Framed(u', baudCnt16, inflight, age)
    <3>1. CASE inflight = <<>>
      <4>1. ~u'.ucsrc.UPM1 /\ ~u'.ucsrc.UPM0
        BY <2>3, <2>8 DEF Framed
      <4> QED
        BY <1>2, <2>1, <2>3, <2>8, <3>1, <4>1, QuietFrame
    <3>2. CASE val \ Irqs = u.ucr \ Irqs
      <4>1. "CHR9" \in val <=> "CHR9" \in u.ucr
        BY <3>2 DEF Irqs
      <4> QED
        BY <2>1, <2>3, <2>8, <4>1, SameFrame
    <3> QED
      BY <2>1, <2>3, <3>1, <3>2 DEF Quiet
  <2> QED
    BY <2>2, <2>3, <2>9 DEF KeepsStep
<1>6. ASSUME NEW val \in program.formats, SetUcsrc(val), wild' = 0 PROVE KeepsStep'
  <2>1. PICK ok \in BOOLEAN : ok = (Quiet /\ ~val.UPM1 /\ ~val.UPM0)
    BY Zenon
  <2>2. Access(ok) /\ inflight' = inflight
    BY <1>6, <2>1 DEF SetUcsrc
  <2>3. ok /\ Framed(u, baudCnt16, inflight, age) /\ UNCHANGED <<baudCnt16, age>>
    BY <1>6, <2>2, AccessKeeps
  <2>4. /\ u'.rx = u.rx /\ u'.tx = u.tx /\ u'.ucsrc = val
        /\ u'.ucr = u.ucr /\ u'.udrWrite = u.udrWrite /\ u'.usr = u.usr
    BY <1>6, <1>2, UartsDef DEF SetUcsrc
  <2>5. Framed(u', baudCnt16, inflight, age)
    <3>1. inflight = <<>> /\ ~u'.ucsrc.UPM1 /\ ~u'.ucsrc.UPM0
      BY <2>1, <2>3, <2>4 DEF Quiet
    <3>2. Framed(u, baudCnt16, <<>>, age)
      BY <2>3, <3>1
    <3>3. Framed(u', baudCnt16, <<>>, age)
      BY <1>2, <2>4, <3>1, <3>2, QuietFrame
    <3> QED
      BY <3>1, <3>3
  <2> QED
    BY <2>2, <2>3, <2>5 DEF KeepsStep
<1>7. ASSUME NEW val \in program.rates, SetUbrr(val), wild' = 0 PROVE KeepsStep'
  <2>1. Access(TRUE) /\ inflight' = inflight
    BY <1>7 DEF SetUbrr
  <2>2. Framed(u, baudCnt16, inflight, age) /\ UNCHANGED <<baudCnt16, age>>
    BY <1>7, <2>1, AccessKeeps
  <2>3. /\ u'.rx = u.rx /\ u'.tx = u.tx /\ u'.ucsrc = u.ucsrc /\ u'.udrRead = u.udrRead
        /\ u'.ucr = u.ucr /\ u'.udrWrite = u.udrWrite /\ u'.usr = u.usr
    BY <1>7, <1>2, UartsDef DEF SetUbrr
  <2>4. Framed(u', baudCnt16, inflight, age)
    BY <2>2, <2>3, SameFrame
  <2> QED
    BY <2>1, <2>2, <2>4 DEF KeepsStep
<1>8. ASSUME GetUdr, wild' = 0 PROVE KeepsStep'
  <2>1. PICK st, q : /\ st = u.usr \ {"RXC"}
                     /\ q = IF "RXC" \in u.usr \cap u.ucr THEN u.queue \ {"RXC"} ELSE u.queue
    OBVIOUS
  <2>2. u' = [u EXCEPT !.usr = st, !.queue = q]
    BY <1>8, <1>2, <2>1, UartsDef DEF GetUdr
  <2>3. /\ u'.rx = u.rx /\ u'.tx = u.tx /\ u'.ucsrc = u.ucsrc /\ u'.udrRead = u.udrRead
        /\ u'.ucr = u.ucr /\ u'.udrWrite = u.udrWrite /\ u'.usr = u.usr \ {"RXC"}
    BY <1>2, <2>1, <2>2, UartsDef
  <2>4. UNCHANGED <<baudCnt16, inflight, age, wild>> /\ Framed(u, baudCnt16, inflight, age)
    BY <1>8 DEF GetUdr, KeepsStep
  <2>5. Framed(u', baudCnt16, inflight, age)
    BY <2>3, <2>4, SameFrame
  <2> QED
    BY <2>4, <2>5 DEF KeepsStep
<1>9. ASSUME NEW v \in Irqs, ClearIrqFlag(v), wild' = 0 PROVE KeepsStep'
  <2>1. UNCHANGED <<baudCnt16, inflight, age, wild>> /\ Framed(u, baudCnt16, inflight, age)
    BY <1>9 DEF ClearIrqFlag, KeepsStep
  <2>2. CASE v = "TXC"
    <3>1. u' = [u EXCEPT !.usr = u.usr \ {v}, !.queue = u.queue \ {v}]
      BY <1>9, <1>2, <2>2, UartsDef DEF ClearIrqFlag
    <3>2. /\ u'.rx = u.rx /\ u'.tx = u.tx /\ u'.ucsrc = u.ucsrc /\ u'.udrRead = u.udrRead
          /\ u'.ucr = u.ucr /\ u'.udrWrite = u.udrWrite /\ u'.usr = u.usr \ {v}
      BY <1>2, <3>1, UartsDef
    <3>3. Framed(u', baudCnt16, inflight, age)
      BY <2>1, <2>2, <3>2, SameFrame
    <3> QED
      BY <2>1, <3>3 DEF KeepsStep
  <2>3. CASE v # "TXC"
    <3>1. u' = u
      BY <1>9, <2>3 DEF ClearIrqFlag
    <3> QED
      BY <2>1, <3>1 DEF KeepsStep
  <2> QED
    BY <2>2, <2>3
<1>10. CASE Reset
  <2>1. PICK r, t : r = IdleReceiver(u.rx.parity) /\ t = IdleTransmitter(u.tx.parity)
    OBVIOUS
  <2>2. u' = [u EXCEPT !.udrWrite = {}, !.udrRead = {}, !.usr = {"UDRE"}, !.ucr = {},
                       !.ucsrc = ResetFormat, !.ubrr = 0, !.rx = r, !.tx = t]
    BY <1>10, <1>2, <2>1, UartsDef DEF Reset
  <2>3. u'.rx = r /\ u'.tx = t /\ u'.usr = {"UDRE"} /\ u'.ucr = {} /\ u'.ucsrc = ResetFormat
    BY <1>2, <2>2, UartsDef
  <2>4. Framed(u', 0, <<>>, 0)
    BY <2>1, <2>3, ResetFrame
  <2> QED
    BY <1>10, <2>4 DEF Reset, KeepsStep
<1>11. CASE UNCHANGED vars
  BY <1>11 DEF vars, KeepsStep
<1>12. wild' # 0 => KeepsStep'
  BY DEF KeepsStep
<1> QED
  BY <1>1, <1>3, <1>4, <1>5, <1>6, <1>7, <1>8, <1>9, <1>10, <1>11, <1>12 DEF Next

LEMMA InStep == Spec => []KeepsStep
  BY Invariance, InitKeepsStep, NextKeepsStep, PTL DEF Spec

(* Every word that is sent arrives in time, for every program that keeps   *)
(* the rules: CpuCycleRx and CpuCycleTx stay in phase, so that the word    *)
(* written to UDR is complete within the bit times of its frame, the one   *)
(* of the write and the idle one after a frame.                            *)
THEOREM WordsArrive == Spec => []ArrivesInTime
<1>1. Inv /\ KeepsStep => ArrivesInTime
  <2> SUFFICES ASSUME Inv, KeepsStep, wild = 0
               PROVE  age <= FrameLength(u) + (IF u.ucsrc.USBS THEN 4 ELSE 3)
    BY DEF ArrivesInTime
  <2> DEFINE n == FrameLength(u)
             two == u.ucsrc.USBS
  <2>1. u \in Uarts /\ age \in Nat
    BY DEF Inv, TypeOK
  <2>2. n \in 5 .. 9 /\ two \in BOOLEAN /\ u.tx.bit \in Nat
    BY <2>1, FrameLengthType DEF Uarts, Format, Transmitters
  <2>3. SendsWell(u.tx, n, two, "TXC" \in u.usr) /\ AgeRight(age, inflight, u.rx, u.tx, n, two)
    BY DEF KeepsStep, Framed
  <2> HIDE DEF n, two
  <2>4. Slot(u.tx, n, two) \in Nat /\ Slot(u.tx, n, two) <= n + (IF two THEN 2 ELSE 1)
    BY <2>2, <2>3 DEF SendsWell, Slot
  <2>5. age <= Slot(u.tx, n, two) + 2
    BY <2>1, <2>3, <2>4 DEF AgeRight
  <2>6. age <= n + (IF two THEN 4 ELSE 3)
    BY <2>1, <2>2, <2>4, <2>5
  <2> QED
    BY <2>6 DEF n, two
<1> QED
  BY <1>1, Invariance, InStep, PTL

(* A frame is never completed in the tick that ends a bit. *)
LEMMA EndsWithinBit ==
  ASSUME NEW x, NEW q, NEW a, NEW v, Ready(x, 15, q, a, v), NEW z, Ends(z, x, q)
  PROVE  FALSE
<1> DEFINE r == x.rx
           t == x.tx
           n == FrameLength(x)
           two == x.ucsrc.USBS
<1>1. /\ r.cnt \in Nat /\ r.bit \in Nat /\ n \in 5 .. 9 /\ two \in BOOLEAN
      /\ InPhase(r, t, n, two, 15) /\ ReadsWell(r, n, two, q[1], x.udrRead)
  BY ReadyParts
<1>2. Reading(r) /\ t.state \in {"SEND_STARTBIT", "AFTER_STOPBIT"}
  BY DEF Ends
<1> HIDE DEF r, t, n, two
<1>3. Slot(t, n, two) = IF two THEN n + 2 ELSE n + 1
  BY <1>2 DEF Slot
<1>4. Clock(r, n) = IF two THEN 16 * n + 47 ELSE 16 * n + 31
  BY <1>1, <1>2, <1>3 DEF InPhase
<1>5. /\ r.cnt <= (IF r.state = "READ_STOPBIT2" THEN 10
                   ELSE IF r.state # "READ_STOPBIT" THEN 15 ELSE IF two THEN 16 ELSE 10)
      /\ r.state = "READ_DATABIT" => r.bit < n
      /\ r.state = "READ_STOPBIT2" => two
  BY <1>1, <1>2 DEF ReadsWell
<1> QED
  BY <1>1, <1>2, <1>4, <1>5 DEF Clock, Reading

(* Steps that leave the receiver's state alone complete nothing. *)
LEMMA OthersComplete ==
  ASSUME Inv, [Next]_vars, ~CpuCycle, Completes(u, u')
  PROVE  u'.ucr = {}
<1>1. u \in Uarts
  BY DEF Inv, TypeOK
<1>2. u'.rx # u.rx
  BY DEF Completes
<1>3. ASSUME NEW w, SetUdr(w) PROVE FALSE
  BY <1>1, <1>2, <1>3, UartsDef DEF SetUdr
<1>4. ASSUME NEW val, SetUsr(val) PROVE FALSE
  <2>1. PICK y : y = CheckForNewIrq([u EXCEPT !.usr = val], u)
    OBVIOUS
  <2>2. y.rx = u.rx
    BY <1>1, <2>1, UartsDef DEF CheckForNewIrq
  <2>3. u' = [y EXCEPT !.usr = @ \ {"TXC"}]
    BY <1>4, <2>1 DEF SetUsr
  <2> QED
    BY <1>2, <2>2, <2>3
<1>5. ASSUME NEW val, SetUcr(val) PROVE FALSE
  BY <1>1, <1>2, <1>5, UartsDef DEF SetUcr, CheckForNewIrq
<1>6. ASSUME NEW val, SetUcsrc(val) \/ SetUbrr(val) PROVE FALSE
  BY <1>1, <1>2, <1>6, UartsDef DEF SetUcsrc, SetUbrr
<1>7. ASSUME NEW v, GetUdr \/ ClearIrqFlag(v) PROVE FALSE
  BY <1>1, <1>2, <1>7, UartsDef DEF GetUdr, ClearIrqFlag
<1>8. Reset => u'.ucr = {}
  BY <1>1, UartsDef DEF Reset
<1>9. ~UNCHANGED vars
  BY <1>2 DEF vars
<1> QED
  BY <1>3, <1>4, <1>5, <1>6, <1>7, <1>8, <1>9 DEF Next

(* Whatever words a program sends within the rules, and whichever one of   *)
(* the three samples of a bit is disturbed: what HWUart::CpuCycleRx puts   *)
(* into UDR is the next word that was sent, cut to the frame length, and   *)
(* there is no framing error.                                              *)
THEOREM SentIsReceived == Spec => ReceivesWhatWasSent
<1> DEFINE Right == wild = 0 /\ wild' = 0 /\ Completes(u, u') /\ u'.ucr # {} =>
                      /\ inflight # <<>>
                      /\ u'.udrRead = Head(inflight) \cap (0 .. FrameLength(u) - 1)
                      /\ {"RXC"} = u'.usr \cap {"RXC", "FE"}
<1>1. Inv /\ KeepsStep /\ [Next]_vars => [Right]_vars
  <2> SUFFICES ASSUME Inv, KeepsStep, [Next]_vars,
                      wild = 0, wild' = 0, Completes(u, u'), u'.ucr # {}
               PROVE  /\ inflight # <<>>
                      /\ u'.udrRead = Head(inflight) \cap (0 .. FrameLength(u) - 1)
                      /\ {"RXC"} = u'.usr \cap {"RXC", "FE"}
    OBVIOUS
  <2>1. CpuCycle
    BY OthersComplete
  <2>2. u' # u
    BY DEF Completes
  <2>3. PICK v \in Disturbed(Line) : Tick(v)
    BY <2>1, <2>2 DEF CpuCycle, Tick
  <2>4. PICK x : x = CpuCycleRx(u, v)
    OBVIOUS
  <2>5. u' = IF baudCnt16 = 15 THEN CpuCycleTx(x) ELSE x
    BY <2>3, <2>4 DEF Tick
  <2>6. Linked(u.ucr)
    <3>1. ASSUME u.ucr = {} PROVE FALSE
      <4>1. x = u
        BY <2>4, <3>1 DEF CpuCycleRx
      <4>2. CpuCycleTx(u) = u
        BY <3>1 DEF CpuCycleTx
      <4> QED
        BY <2>2, <2>5, <4>1, <4>2
    <3> QED
      BY <3>1 DEF KeepsStep, Framed
  <2>7. Ready(u, baudCnt16, inflight, age, v)
    BY <2>6, TickReady
  <2>8. GoesOn(x, u, baudCnt16, inflight) \/ Ends(x, u, inflight)
    BY <2>4, <2>7, RxStep
  <2>9. x \in Uarts /\ Queued(x)
    <3>1. v \in {0, 1} /\ Counted(u.rx) /\ Queued(u) /\ u \in Uarts
      BY <2>7 DEF Ready, Inv
    <3> QED
      BY <2>4, <3>1, ReceiveStep
  <2>10. u'.rx = x.rx
    BY <2>5, <2>9, TransmitStep
  <2>11. Ends(x, u, inflight)
    BY <2>8, <2>10 DEF GoesOn, Completes
  <2>12. u' = x
    <3>1. baudCnt16 # 15
      BY <2>7, <2>11, EndsWithinBit
    <3> QED
      BY <2>5, <3>1
  <2>13. inflight # <<>> /\ Head(inflight) = inflight[1]
    <3>1. inflight \in Seq(Words) /\ QueueRight(inflight, u.rx, u.tx, "UDRE" \notin u.usr, u.udrWrite)
      BY <2>7, ReadyParts DEF Ready
    <3>2. PICK full : full = ("UDRE" \notin u.usr)
      OBVIOUS
    <3>3. inflight # <<>>
      BY <2>11, <3>1, <3>2, OldestWord DEF Ends
    <3> QED
      BY <3>1, <3>3
  <2> QED
    BY <2>11, <2>12, <2>13 DEF Ends
<1>2. ReceivesWhatWasSent <=> [][Right]_vars
  BY DEF ReceivesWhatWasSent
<1> QED
  BY <1>1, <1>2, Invariance, InStep, PTL DEF Spec
=============================================================================
