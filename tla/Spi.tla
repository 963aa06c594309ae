-------------------------------- MODULE Spi --------------------------------
(***************************************************************************)
(* The SPI (hwspi.cpp) of two devices: m, which the program makes master,  *)
(* and s, a slave, with MOSI, MISO and SCK wired together, pull-ups on the *)
(* data lines and a resistor that holds SCK at its idle level when nobody  *)
(* drives it.  SS of s is a port of m's program, SS of m an input that     *)
(* something else may pull low.  Both devices have the same clock and take *)
(* turns: a CpuCycle of the hardware, then what the program does.          *)
(*                                                                         *)
(* A byte is the set of the positions of its one bits.  clkcnt is kept     *)
(* modulo the two phases of a bit.  Clock mode and divisor stay as they    *)
(* were chosen.                                                            *)
(***************************************************************************)
EXTENDS Integers

CONSTANTS Bytes,        \* bytes that the programs write
          Modes,        \* settings of DORD, CPOL, CPHA and the clock divisor
          MaxWrites,    \* bound on the writes of m to SPDR
          MaxEvents     \* bound on what disturbs: selects, faults, settings, resets

ASSUME SpiAssumption ==
  /\ Bytes \subseteq SUBSET (0 .. 7)
  /\ Modes \subseteq [DORD : BOOLEAN, CPOL : BOOLEAN, CPHA : BOOLEAN, clkdiv : Nat \ {0, 1}]
  /\ MaxWrites \in Nat /\ MaxEvents \in Nat

VARIABLES m, s,         \* the two interfaces
          ss, mss,      \* level of SS at s, and at m
          mode,
          turn,         \* whose clock is next
          (* history *)
          sent,         \* data_write of both when the master began its byte
          clean,        \* nobody has disturbed the byte since
          age,          \* clocks of m since its byte began
          writes, events

vars == <<m, s, ss, mss, mode, turn, sent, clean, age, writes, events>>

Byte == SUBSET (0 .. 7)
Interfaces ==
  [SPE : BOOLEAN, SPIE : BOOLEAN, MSTR : BOOLEAN, spsr : SUBSET {"SPIF", "WCOL"}, spsr_read : BOOLEAN,
   data_write : Byte, data_read : Byte, shift_in : Byte, bitcnt : 0 .. 8, finished : BOOLEAN,
   clkcnt : 0 .. 2 * mode.clkdiv - 1, oldsck : BOOLEAN,
   mosi : BOOLEAN, miso : BOOLEAN, sck : BOOLEAN,     \* the alternate port bits
   queued : BOOLEAN]                                  \* the vector, in the interrupt system

(* The interfaces keep to their types; bitcnt never passes 8. *)
TypeOK ==
  /\ m \in Interfaces /\ s \in Interfaces
  /\ ss \in BOOLEAN /\ mss \in BOOLEAN /\ mode \in Modes /\ turn \in {"m", "s"}
  /\ sent \in [m : Byte, s : Byte] /\ clean \in BOOLEAN /\ age \in Nat
  /\ writes \in 0 .. MaxWrites /\ events \in 0 .. MaxEvents
-----------------------------------------------------------------------------
(* The wires. *)
Drives(d) == d.SPE /\ d.MSTR
SckLine == IF Drives(m) THEN m.sck ELSE mode.CPOL
MosiLine == IF Drives(m) THEN m.mosi ELSE TRUE
MisoLine == IF s.SPE THEN s.miso ELSE TRUE

(* Bit n of a byte in the order of transmission. *)
Bitpos(n) == IF mode.DORD THEN n ELSE 7 - n
TxBit(d, n) ==
  IF d.MSTR THEN [d EXCEPT !.mosi = (Bitpos(n) \in d.data_write)]
  ELSE [d EXCEPT !.miso = (Bitpos(n) \in d.data_write)]
RxBit(d, n, line) == IF line THEN [d EXCEPT !.shift_in = @ \cup {Bitpos(n)}] ELSE d

Raise(d) == [d EXCEPT !.spsr = @ \cup {"SPIF"}, !.queued = @ \/ d.SPIE]
TrxEnd(d) ==
  IF d.finished
  THEN [Raise(d) EXCEPT !.finished = FALSE, !.data_write = d.shift_in, !.data_read = d.shift_in,
                        !.spsr_read = FALSE]
  ELSE d
Clocked(d) == [d EXCEPT !.clkcnt = (@ + 1) % (2 * mode.clkdiv)]

(* SetSPCR: switched off, an interface forgets its bit count and leaves    *)
(* the cycle list; as master it puts its pins at rest.                     *)
SetSPCR(d, spe, spie, mstr) ==
  LET e == [d EXCEPT !.SPE = spe, !.SPIE = spie, !.MSTR = mstr]
  IN  IF ~spe THEN [e EXCEPT !.bitcnt = 8, !.finished = FALSE]
      ELSE IF mstr THEN [e EXCEPT !.mosi = TRUE, !.sck = mode.CPOL] ELSE e

(* SS of a master pulled low makes it a slave. *)
Fault(d) ==
  [Raise(SetSPCR(d, TRUE, d.SPIE, FALSE)) EXCEPT !.bitcnt = 8, !.finished = FALSE, !.clkcnt = 0]

MasterBit(d) ==
  LET e == IF d.bitcnt = 0 THEN [d EXCEPT !.shift_in = {}] ELSE d
      idle == [e EXCEPT !.sck = mode.CPOL]
      valid == [e EXCEPT !.sck = ~mode.CPOL]
      n == d.bitcnt
      f == IF d.clkcnt < mode.clkdiv
           THEN IF ~mode.CPHA THEN TxBit(idle, n) ELSE IF n > 0 THEN RxBit(idle, n - 1, MisoLine) ELSE idle
           ELSE [IF mode.CPHA THEN TxBit(valid, n) ELSE RxBit(valid, n, MisoLine) EXCEPT !.bitcnt = n + 1]
  IN  [f EXCEPT !.finished = (f.bitcnt = 8)]

MasterEnd(d) ==
  LET e == TrxEnd(IF mode.CPHA THEN RxBit(d, 7, MisoLine) ELSE d)
  IN  [e EXCEPT !.sck = mode.CPOL, !.mosi = IF mode.CPHA THEN @ ELSE TRUE]

MasterCycle(d, select) ==
  LET e == IF select THEN d ELSE Fault(d)
  IN  IF e.clkcnt % mode.clkdiv # 0 THEN e
      ELSE IF e.bitcnt < 8 THEN MasterBit(e) ELSE IF e.finished THEN MasterEnd(e) ELSE e

(* A slave between two bytes begins the next one; within one it shows its  *)
(* bit when the clock phase is 0.                                          *)
Restarted(d, sck) ==
  IF d.bitcnt = 8 THEN [d EXCEPT !.bitcnt = 0, !.finished = FALSE, !.shift_in = {}, !.oldsck = sck]
  ELSE IF ~mode.CPHA THEN TxBit(d, d.bitcnt) ELSE d

(* Mutant of Samples: always on the leading edge. *)
SamplesLeading(leading) == leading
Samples(leading) == leading # mode.CPHA

(* Mutant of EndsBit: the bit ends with its leading edge. *)
EndsBitEarly(leading) == leading
EndsBit(leading) == ~leading

SlaveEdge(d, sck, mosi) ==
  LET leading == sck # mode.CPOL
      n == d.bitcnt
      e == IF Samples(leading) THEN RxBit(d, n, mosi) ELSE TxBit(d, n)
  IN  IF EndsBit(leading) THEN [e EXCEPT !.bitcnt = n + 1, !.finished = (n + 1 = 8)] ELSE e

SlaveCycle(d, select, sck, mosi) ==
  IF select THEN [d EXCEPT !.bitcnt = 8]
  ELSE LET e == Restarted(d, sck)
           f == IF sck # e.oldsck THEN SlaveEdge(e, sck, mosi) ELSE e
       IN  [TrxEnd(f) EXCEPT !.oldsck = sck]

CpuCycle(d, select) ==
  IF ~d.SPE THEN d
  ELSE Clocked(IF d.MSTR THEN MasterCycle(d, select) ELSE SlaveCycle(d, select, SckLine, MosiLine))
-----------------------------------------------------------------------------
(* The registers. *)
SpdrAccess(d) ==
  IF d.spsr_read THEN [d EXCEPT !.spsr = {}, !.spsr_read = FALSE] ELSE d

(* Mutant of SetSPDR: a collision begins the byte again. *)
SetSPDRAnew(d, v) ==
  LET e == [SpdrAccess(d) EXCEPT !.data_write = v]
  IN  IF d.MSTR THEN [e EXCEPT !.bitcnt = 0, !.finished = FALSE, !.clkcnt = 0] ELSE e

SetSPDR(d, v) ==
  LET e == [SpdrAccess(d) EXCEPT !.data_write = v]
  IN  IF ~d.MSTR THEN e
      ELSE IF d.bitcnt < 8 THEN [e EXCEPT !.spsr = @ \cup {"WCOL"}]
      ELSE [e EXCEPT !.bitcnt = 0, !.finished = FALSE, !.clkcnt = 0]

GetSPDR(d) == SpdrAccess(d)
GetSPSR(d) == [d EXCEPT !.spsr_read = TRUE]
ClearIrqFlag(d) == [d EXCEPT !.spsr = @ \ {"SPIF"}, !.queued = FALSE]
Reset(d) ==
  [SetSPCR(d, FALSE, FALSE, FALSE) EXCEPT !.spsr = {}, !.data_write = {}, !.data_read = {}, !.shift_in = {}]

NewInterface ==
  [SPE |-> FALSE, SPIE |-> FALSE, MSTR |-> FALSE, spsr |-> {}, spsr_read |-> FALSE,
   data_write |-> {}, data_read |-> {}, shift_in |-> {}, bitcnt |-> 8, finished |-> FALSE,
   clkcnt |-> 0, oldsck |-> FALSE, mosi |-> FALSE, miso |-> FALSE, sck |-> FALSE, queued |-> FALSE]

(* The programs have switched both interfaces on. *)
Init ==
  /\ mode \in Modes
  /\ m = SetSPCR(NewInterface, TRUE, TRUE, TRUE) /\ s = SetSPCR(NewInterface, TRUE, FALSE, FALSE)
  /\ ss = TRUE /\ mss = TRUE /\ turn = "m"
  /\ sent = [m |-> {}, s |-> {}] /\ clean = FALSE /\ age = 0 /\ writes = 0 /\ events = 0
-----------------------------------------------------------------------------
Busy == Drives(m) /\ (m.bitcnt < 8 \/ m.finished)

(* The slave is there, and between two bytes, when the master begins. *)
Begins == Drives(m) /\ m.bitcnt = 0 /\ m.clkcnt = 0
Ready == s.SPE /\ ~ss /\ SckLine = mode.CPOL /\ (s.bitcnt = 8 \/ (s.bitcnt = 0 /\ s.oldsck = mode.CPOL))

CycleM ==
  /\ turn = "m" /\ turn' = "s"
  /\ m' = CpuCycle(m, mss)
  /\ clean' = (mss /\ IF Begins THEN Ready ELSE clean)
  /\ sent' = IF Begins THEN [m |-> m.data_write, s |-> s.data_write] ELSE sent
  /\ age' = IF Busy' THEN age + 1 ELSE 0
  /\ UNCHANGED <<s, ss, mss, mode, writes, events>>

CycleS ==
  /\ turn = "s" /\ turn' = "m"
  /\ s' = CpuCycle(s, ss)
  /\ UNCHANGED <<m, ss, mss, mode, sent, clean, age, writes, events>>

(* What the programs do, after the clock of their own device.  Whatever    *)
(* touches the interfaces or SS before both have ended a byte disturbs it. *)
Over == ~Busy /\ s.bitcnt \in {0, 8}
Disturb == events < MaxEvents /\ events' = events + 1 /\ clean' = (clean /\ Over)

WriteM ==
  /\ turn = "s" /\ writes < MaxWrites /\ writes' = writes + 1
  /\ \E v \in Bytes : m' = SetSPDR(m, v)
  /\ clean' = (clean /\ ~Busy)
  /\ age' = IF Busy /\ ~(m.bitcnt = 8) THEN age ELSE 0
  /\ UNCHANGED <<s, ss, mss, mode, turn, sent, events>>

WriteS ==
  /\ turn = "m" /\ Disturb
  /\ \E v \in Bytes : s' = SetSPDR(s, v)
  /\ UNCHANGED <<m, ss, mss, mode, turn, sent, age, writes>>

(* A program looks at the registers when a flag is set; that of m may be   *)
(* at any distance between the status and the data.                        *)
ReadM ==
  /\ turn = "s" /\ m.spsr # {} /\ m' \in {GetSPDR(m), GetSPSR(m)}
  /\ UNCHANGED <<s, ss, mss, mode, turn, sent, clean, age, writes, events>>

ReadS ==
  /\ turn = "m" /\ s.spsr # {} /\ s' = GetSPDR(GetSPSR(s))
  /\ UNCHANGED <<m, ss, mss, mode, turn, sent, clean, age, writes, events>>

(* The handler is entered; only m enables its interrupt. *)
HandlerM ==
  /\ turn = "s" /\ m.queued /\ m' = ClearIrqFlag(m)
  /\ UNCHANGED <<s, ss, mss, mode, turn, sent, clean, age, writes, events>>

Select ==
  /\ turn = "s" /\ Disturb /\ ss' = ~ss
  /\ UNCHANGED <<m, s, mss, mode, turn, sent, age, writes>>

PullMss ==
  /\ turn = "m" /\ Disturb /\ mss' = ~mss
  /\ UNCHANGED <<m, s, ss, mode, turn, sent, age, writes>>

(* The control register is written: on, as before a fault, or off. *)
SetUpM ==
  /\ turn = "s" /\ Disturb
  /\ m' \in {SetSPCR(m, TRUE, TRUE, TRUE), SetSPCR(m, FALSE, FALSE, FALSE), Reset(m)}
  /\ age' = 0
  /\ UNCHANGED <<s, ss, mss, mode, turn, sent, writes>>

SetUpS ==
  /\ turn = "m" /\ Disturb
  /\ s' \in {SetSPCR(s, TRUE, FALSE, FALSE), SetSPCR(s, FALSE, FALSE, FALSE), Reset(s)}
  /\ UNCHANGED <<m, ss, mss, mode, turn, sent, age, writes>>

Next ==
  \/ CycleM \/ CycleS
  \/ WriteM \/ WriteS \/ ReadM \/ ReadS \/ HandlerM
  \/ Select \/ PullMss \/ SetUpM \/ SetUpS

Spec == Init /\ [][Next]_vars
-----------------------------------------------------------------------------
(* A byte that nobody disturbs is exchanged: when the master ends it, it   *)
(* has read what the slave had to send as it began, and when the slave     *)
(* does, it has read what the master sent, in every clock mode and bit     *)
(* order.                                                                  *)
Exchange ==
  [][/\ turn = "m" /\ turn' = "s" /\ clean' /\ m.finished /\ ~m'.finished => m'.data_read = sent.s
     /\ turn = "s" /\ turn' = "m" /\ clean' /\ s.bitcnt = 7 /\ s'.bitcnt = 8 => s'.data_read = sent.m]_vars

(* Master and slave count the same bits: the slave is at most the edge     *)
(* behind that ends the bit, and between bytes when the master is done.    *)
InStep ==
  turn = "m" /\ clean =>
    IF Busy /\ m.bitcnt > 0 THEN s.bitcnt = m.bitcnt - 1 \/ s.bitcnt = m.bitcnt ELSE s.bitcnt \in {0, 8}

(* A byte takes the master sixteen half bits, and one more bit when it was *)
(* switched to master in the middle; a write collision does not prolong it. *)
DoneInTime == age <= 18 * mode.clkdiv
=============================================================================
