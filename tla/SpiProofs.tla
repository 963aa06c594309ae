----------------------------- MODULE SpiProofs -----------------------------
(***************************************************************************)
(* Proofs about Spi for any clock modes with a divisor of at least two,    *)
(* any bytes and any number of writes and disturbances.  First each        *)
(* interface for itself: what a cycle, a register access and a fault leave *)
(* of its fields, hence types and the bound on the time of a byte.  Then   *)
(* both together: while nobody disturbs a byte, master and slave are at    *)
(* the same bit, up to the edge that the slave has not yet seen, and each  *)
(* has shifted in the bits of the other up to there.                       *)
(***************************************************************************)
EXTENDS Spi, TLAPS

(* From the last edge of a byte to its end. *)
Late(c) == c = 0 \/ c > mode.clkdiv

(* Cycles to the next leading edge of a master whose clock is at c, *)
HalfLeft(c) == IF c <= mode.clkdiv THEN mode.clkdiv - c ELSE 3 * mode.clkdiv - c

(* and to the end of its byte, when n bits have had theirs. *)
Rest(n, c) ==
  IF n = 8 THEN IF c = 0 THEN 1 ELSE 2 * mode.clkdiv - c + 1
  ELSE HalfLeft(c) + 2 * mode.clkdiv * (7 - n) + mode.clkdiv + 1

-----------------------------------------------------------------------------
(* Types of the fields of an interface. *)
Flags == SUBSET {"SPIF", "WCOL"}
BitCounts == 0 .. 8
ClockCounts == 0 .. 2 * mode.clkdiv - 1

(* The interfaces, with these names for the types of their fields. *)
LEMMA InterfacesDef ==
  Interfaces =
    [SPE : BOOLEAN, SPIE : BOOLEAN, MSTR : BOOLEAN, spsr : Flags, spsr_read : BOOLEAN,
     data_write : Byte, data_read : Byte, shift_in : Byte, bitcnt : BitCounts, finished : BOOLEAN,
     clkcnt : ClockCounts, oldsck : BOOLEAN, mosi : BOOLEAN, miso : BOOLEAN, sck : BOOLEAN,
     queued : BOOLEAN]
  BY DEF Interfaces, Flags, BitCounts, ClockCounts

(* What a clock mode is made of; the divisor is at least two. *)
LEMMA ModeType ==
  ASSUME mode \in Modes
  PROVE  /\ mode.DORD \in BOOLEAN /\ mode.CPOL \in BOOLEAN /\ mode.CPHA \in BOOLEAN
         /\ mode.clkdiv \in Nat /\ mode.clkdiv >= 2
  BY SpiAssumption

(* The clock of an interface, which counts the two phases of a bit. *)
LEMMA ClockGoesOn ==
  ASSUME NEW k \in Nat, k >= 2, NEW c \in 0 .. 2 * k - 1
  PROVE  (c + 1) % (2 * k) = IF c = 2 * k - 1 THEN 0 ELSE c + 1
<1>1. PICK n \in Nat : n = 2 * k
  OBVIOUS
<1>2. n > 0 /\ c \in Nat /\ c < n
  BY <1>1
<1>3. c + 1 = n => (c + 1) % n = 0
  BY <1>2
<1>4. c + 1 < n => (c + 1) % n = c + 1
  BY <1>2
<1> QED
  BY <1>1, <1>2, <1>3, <1>4

(* The count after c. *)
NextClock(c) == IF c = 2 * mode.clkdiv - 1 THEN 0 ELSE c + 1

(* A half of a bit begins where the clock is at 0 or at the divisor. *)
LEMMA PhaseBegins ==
  ASSUME NEW k \in Nat, k >= 2, NEW c \in 0 .. 2 * k - 1
  PROVE  c % k = 0 <=> c = 0 \/ c = k
<1>1. c < k => c % k = c
  OBVIOUS
<1>2. c >= k => c % k = c - k
  <2> SUFFICES ASSUME c >= k PROVE c % k = c - k
    OBVIOUS
  <2>1. PICK d \in Nat : d = c - k
    OBVIOUS
  <2>2. d < k /\ c = d + k
    BY <2>1
  <2> QED
    BY <2>1, <2>2
<1> QED
  BY <1>1, <1>2

(* The bit in place n of the transmission is one of the eight. *)
LEMMA BitposType ==
  ASSUME mode \in Modes, NEW n \in 0 .. 7
  PROVE  Bitpos(n) \in 0 .. 7
  BY ModeType DEF Bitpos

(* Bit n of a byte is set, *)
Has(n, byte) == Bitpos(n) \in byte

(* or it is not. *)
LEMMA HasType == ASSUME NEW n, NEW b PROVE Has(n, b) \in BOOLEAN
  BY DEF Has

(* Byte b with bit n taken from the line. *)
TakenFrom(b, n, line) == IF line THEN b \cup {Bitpos(n)} ELSE b

(* It is a byte again. *)
LEMMA TakenFromType ==
  ASSUME mode \in Modes, NEW b \in Byte, NEW n \in 0 .. 7, NEW line
  PROVE  TakenFrom(b, n, line) \in Byte
  BY BitposType DEF TakenFrom, Byte

(* RxBit changes the shift register only. *)
LEMMA RxBitFields ==
  ASSUME NEW d \in Interfaces, NEW n, NEW line
  PROVE  RxBit(d, n, line) = [d EXCEPT !.shift_in = TakenFrom(@, n, line)]
  BY InterfacesDef DEF RxBit, TakenFrom

(* The end of a byte. *)
LEMMA TrxEndFields ==
  ASSUME NEW d \in Interfaces, NEW e, e = TrxEnd(d)
  PROVE  /\ e \in Interfaces
         /\ ~e.finished
         /\ e.data_write = IF d.finished THEN d.shift_in ELSE d.data_write
         /\ e.data_read = IF d.finished THEN d.shift_in ELSE d.data_read
         /\ e.SPE = d.SPE /\ e.MSTR = d.MSTR /\ e.shift_in = d.shift_in /\ e.bitcnt = d.bitcnt
         /\ e.clkcnt = d.clkcnt /\ e.oldsck = d.oldsck /\ e.mosi = d.mosi /\ e.miso = d.miso
         /\ e.sck = d.sck
<1>1. PICK f \in Flags : f = d.spsr \cup {"SPIF"}
  BY InterfacesDef DEF Flags
<1>2. PICK q \in BOOLEAN : q = (d.queued \/ d.SPIE)
  BY InterfacesDef
<1>3. CASE d.finished
  <2>1. Raise(d) = [d EXCEPT !.spsr = f, !.queued = q]
    BY <1>1, <1>2, InterfacesDef DEF Raise
  <2>2. e = [d EXCEPT !.spsr = f, !.queued = q, !.finished = FALSE, !.data_write = d.shift_in,
                      !.data_read = d.shift_in, !.spsr_read = FALSE]
    BY <1>3, <2>1, InterfacesDef DEF TrxEnd
  <2> QED
    BY <1>3, <2>2, InterfacesDef
<1>4. CASE ~d.finished
  BY <1>4, InterfacesDef DEF TrxEnd
<1> QED
  BY <1>3, <1>4

(* What stays as it was in a bit. *)
Kept(e, d) ==
  /\ e \in Interfaces
  /\ e.SPE = d.SPE /\ e.MSTR = d.MSTR
  /\ e.data_write = d.data_write /\ e.data_read = d.data_read

(* A cycle that only counts the clock. *)
Ticked(e, d) ==
  /\ Kept(e, d) /\ e.clkcnt = NextClock(d.clkcnt)
  /\ e.shift_in = d.shift_in /\ e.bitcnt = d.bitcnt /\ e.finished = d.finished
  /\ e.oldsck = d.oldsck /\ e.mosi = d.mosi /\ e.miso = d.miso /\ e.sck = d.sck

(* That is what Clocked does. *)
LEMMA ClockedFields ==
  ASSUME mode \in Modes, NEW d \in Interfaces, NEW e, e = Clocked(d)
  PROVE  Ticked(e, d)
<1>1. d.clkcnt \in 0 .. 2 * mode.clkdiv - 1
  BY DEF Interfaces
<1>2. PICK c \in ClockCounts :
        /\ c = (d.clkcnt + 1) % (2 * mode.clkdiv)
        /\ c = NextClock(d.clkcnt)
  BY <1>1, ModeType, ClockGoesOn DEF ClockCounts, NextClock
<1>3. e = [d EXCEPT !.clkcnt = c]
  BY <1>2, InterfacesDef DEF Clocked
<1> QED
  BY <1>2, <1>3, InterfacesDef DEF Kept, Ticked

(* The two halves of a bit of the master: the leading edge of SCK comes    *)
(* when the clock is at half of the bit, the trailing edge at its begin.   *)
LEMMA MasterLeading ==
  ASSUME mode \in Modes, NEW d \in Interfaces, d.bitcnt < 8, d.clkcnt = mode.clkdiv, d.MSTR,
         NEW e, e = MasterBit(d)
  PROVE  /\ Kept(e, d) /\ e.clkcnt = d.clkcnt
         /\ e.bitcnt = d.bitcnt + 1 /\ e.finished = (e.bitcnt = 8)
         /\ e.sck = ~mode.CPOL
         /\ e.mosi = IF mode.CPHA THEN Has(d.bitcnt, d.data_write) ELSE d.mosi
         /\ e.shift_in = LET b == IF d.bitcnt = 0 THEN {} ELSE d.shift_in
                         IN  IF mode.CPHA THEN b ELSE TakenFrom(b, d.bitcnt, MisoLine)
<1>1. d.bitcnt \in 0 .. 7
  BY InterfacesDef DEF BitCounts
<1>2. PICK b \in Byte : b = IF d.bitcnt = 0 THEN {} ELSE d.shift_in
  BY InterfacesDef DEF Byte
<1>3. PICK t \in Byte : t = TakenFrom(b, d.bitcnt, MisoLine)
  BY <1>1, TakenFromType
<1>4. PICK v \in BOOLEAN : v = ~mode.CPOL
  BY ModeType
<1>5. PICK h \in BOOLEAN : h = Has(d.bitcnt, d.data_write)
  BY HasType
<1>6. PICK n \in BitCounts : n = d.bitcnt + 1
  BY <1>1 DEF BitCounts
<1>7. PICK fin \in BOOLEAN : fin = (n = 8)
  OBVIOUS
<1>8. PICK x : x = [d EXCEPT !.shift_in = b, !.sck = v]
  OBVIOUS
<1>9. /\ x \in Interfaces /\ x.MSTR /\ x.data_write = d.data_write /\ x.bitcnt = d.bitcnt
      /\ x.shift_in = b
  BY <1>8, InterfacesDef
<1>10. PICK y : y = IF mode.CPHA THEN [x EXCEPT !.mosi = h] ELSE [x EXCEPT !.shift_in = t]
  OBVIOUS
<1>11. y = IF mode.CPHA THEN TxBit(x, d.bitcnt) ELSE RxBit(x, d.bitcnt, MisoLine)
  BY <1>3, <1>5, <1>9, <1>10, RxBitFields DEF TxBit, Has
<1>12. y.bitcnt = d.bitcnt /\ y \in Interfaces
  BY <1>9, <1>10, InterfacesDef
<1>13. e = [y EXCEPT !.bitcnt = n, !.finished = fin]
  <2>1. ~(d.clkcnt < mode.clkdiv)
    BY ModeType
  <2>2. PICK z : z = (IF d.bitcnt = 0 THEN [d EXCEPT !.shift_in = {}] ELSE d)
    OBVIOUS
  <2>3. [z EXCEPT !.sck = ~mode.CPOL] = x
    BY <2>2, <1>2, <1>4, <1>8, InterfacesDef
  <2>4. e = [[y EXCEPT !.bitcnt = n] EXCEPT !.finished = ([y EXCEPT !.bitcnt = n].bitcnt = 8)]
    BY <2>1, <2>2, <2>3, <1>11, <1>6 DEF MasterBit
  <2>5. [y EXCEPT !.bitcnt = n].bitcnt = n
    BY <1>12, InterfacesDef
  <2> QED
    BY <2>4, <2>5, <1>7, <1>12, InterfacesDef
<1>14. /\ Kept(y, d) /\ y.clkcnt = d.clkcnt /\ y.sck = v
       /\ y.mosi = IF mode.CPHA THEN h ELSE d.mosi
       /\ y.shift_in = IF mode.CPHA THEN b ELSE t
  <2>1. Kept(x, d) /\ x.clkcnt = d.clkcnt /\ x.sck = v /\ x.mosi = d.mosi
    BY <1>8, InterfacesDef DEF Kept
  <2> QED
    BY <1>9, <1>10, <2>1, InterfacesDef DEF Kept
<1>15. /\ Kept(e, y) /\ e.clkcnt = y.clkcnt /\ e.sck = y.sck /\ e.mosi = y.mosi
       /\ e.shift_in = y.shift_in /\ e.bitcnt = n /\ e.finished = fin
  BY <1>12, <1>13, InterfacesDef DEF Kept
<1> QED
  BY <1>2, <1>3, <1>4, <1>5, <1>6, <1>7, <1>14, <1>15 DEF Kept

(* The trailing edge of the master. *)
LEMMA MasterTrailing ==
  ASSUME mode \in Modes, NEW d \in Interfaces, d.bitcnt < 8, d.clkcnt = 0, d.MSTR,
         NEW e, e = MasterBit(d)
  PROVE  /\ Kept(e, d) /\ e.clkcnt = d.clkcnt
         /\ e.bitcnt = d.bitcnt /\ ~e.finished
         /\ e.sck = mode.CPOL
         /\ e.mosi = IF mode.CPHA THEN d.mosi ELSE Has(d.bitcnt, d.data_write)
         /\ e.shift_in = IF d.bitcnt = 0 THEN {}
                         ELSE IF mode.CPHA THEN TakenFrom(d.shift_in, d.bitcnt - 1, MisoLine)
                         ELSE d.shift_in
<1>1. d.bitcnt \in 0 .. 7
  BY InterfacesDef DEF BitCounts
<1>2. PICK b \in Byte : b = IF d.bitcnt = 0 THEN {} ELSE d.shift_in
  BY InterfacesDef DEF Byte
<1>3. PICK t \in Byte : t = IF d.bitcnt = 0 THEN b ELSE TakenFrom(b, d.bitcnt - 1, MisoLine)
  <2>1. d.bitcnt # 0 => d.bitcnt - 1 \in 0 .. 7
    BY <1>1
  <2> QED
    BY <2>1, TakenFromType
<1>4. PICK v \in BOOLEAN : v = mode.CPOL
  BY ModeType
<1>5. PICK h \in BOOLEAN : h = Has(d.bitcnt, d.data_write)
  BY HasType
<1>6. PICK x : x = [d EXCEPT !.shift_in = b, !.sck = v]
  OBVIOUS
<1>7. /\ x \in Interfaces /\ x.MSTR /\ x.data_write = d.data_write /\ x.bitcnt = d.bitcnt
      /\ x.shift_in = b
  BY <1>6, InterfacesDef
<1>8. PICK y : y = IF mode.CPHA THEN [x EXCEPT !.shift_in = t] ELSE [x EXCEPT !.mosi = h]
  OBVIOUS
<1>9. y = IF ~mode.CPHA THEN TxBit(x, d.bitcnt)
          ELSE IF d.bitcnt > 0 THEN RxBit(x, d.bitcnt - 1, MisoLine) ELSE x
  <2>1. CASE ~mode.CPHA
    BY <2>1, <1>5, <1>7, <1>8 DEF TxBit, Has
  <2>2. CASE mode.CPHA /\ d.bitcnt > 0
    BY <2>2, <1>3, <1>7, <1>8, RxBitFields
  <2>3. CASE mode.CPHA /\ d.bitcnt = 0
    BY <2>3, <1>3, <1>7, <1>8, InterfacesDef
  <2> QED
    BY <2>1, <2>2, <2>3, <1>1
<1>10. y.bitcnt = d.bitcnt /\ y \in Interfaces
  BY <1>7, <1>8, InterfacesDef
<1>11. e = [y EXCEPT !.finished = FALSE]
  <2>1. d.clkcnt < mode.clkdiv
    BY ModeType
  <2>2. PICK z : z = (IF d.bitcnt = 0 THEN [d EXCEPT !.shift_in = {}] ELSE d)
    OBVIOUS
  <2>3. [z EXCEPT !.sck = mode.CPOL] = x
    BY <2>2, <1>2, <1>4, <1>6, InterfacesDef
  <2>4. e = [y EXCEPT !.finished = (y.bitcnt = 8)]
    BY <2>1, <2>2, <2>3, <1>9 DEF MasterBit
  <2>5. (y.bitcnt = 8) = FALSE
    BY <1>1, <1>10
  <2> QED
    BY <2>4, <2>5
<1> QED
  BY <1>1, <1>2, <1>3, <1>4, <1>5, <1>6, <1>8, <1>11, InterfacesDef DEF Kept

(* The end of a byte of the master: SCK rests and the byte is readable. *)
LEMMA MasterEnds ==
  ASSUME mode \in Modes, NEW d \in Interfaces, d.finished, NEW e, e = MasterEnd(d)
  PROVE  /\ e \in Interfaces /\ e.SPE = d.SPE /\ e.MSTR = d.MSTR
         /\ e.clkcnt = d.clkcnt /\ e.bitcnt = d.bitcnt /\ ~e.finished
         /\ e.sck = mode.CPOL
         /\ mode.CPHA => e.mosi = d.mosi
         /\ e.data_read = IF mode.CPHA THEN TakenFrom(d.shift_in, 7, MisoLine) ELSE d.shift_in
<1>1. PICK t \in Byte : t = TakenFrom(d.shift_in, 7, MisoLine)
  BY TakenFromType, InterfacesDef
<1>2. PICK x : x = IF mode.CPHA THEN [d EXCEPT !.shift_in = t] ELSE d
  OBVIOUS
<1>3. x = IF mode.CPHA THEN RxBit(d, 7, MisoLine) ELSE d
  BY <1>1, <1>2, RxBitFields
<1>4. /\ x \in Interfaces /\ x.finished /\ x.SPE = d.SPE /\ x.MSTR = d.MSTR
      /\ x.clkcnt = d.clkcnt /\ x.bitcnt = d.bitcnt /\ x.mosi = d.mosi
      /\ x.shift_in = IF mode.CPHA THEN t ELSE d.shift_in
  BY <1>1, <1>2, InterfacesDef
<1>5. PICK y : y = TrxEnd(x)
  OBVIOUS
<1>6. /\ y \in Interfaces /\ ~y.finished /\ y.data_read = x.shift_in
      /\ y.SPE = x.SPE /\ y.MSTR = x.MSTR /\ y.bitcnt = x.bitcnt /\ y.clkcnt = x.clkcnt
      /\ y.mosi = x.mosi
  BY <1>4, <1>5, TrxEndFields
<1>7. PICK v \in BOOLEAN : v = mode.CPOL
  BY ModeType
<1>8. PICK h \in BOOLEAN : h = IF mode.CPHA THEN y.mosi ELSE TRUE
  BY <1>6, InterfacesDef
<1>9. e = [y EXCEPT !.sck = v, !.mosi = h]
  BY <1>3, <1>5, <1>6, <1>7, <1>8, InterfacesDef DEF MasterEnd
<1> QED
  BY <1>1, <1>4, <1>6, <1>7, <1>8, <1>9, InterfacesDef

(* Switched by its control register, or by a fault. *)
Switched(e, d, spe, mstr) ==
  /\ e \in Interfaces /\ e.SPE = spe /\ e.MSTR = mstr
  /\ e.bitcnt = IF spe THEN d.bitcnt ELSE 8
  /\ spe => e.finished = d.finished
  /\ ~spe => ~e.finished
  /\ spe /\ mstr => e.sck = mode.CPOL
  /\ e.clkcnt = d.clkcnt /\ e.oldsck = d.oldsck
  /\ spe => e.shift_in = d.shift_in

(* What SetSPCR leaves of an interface. *)
LEMMA SetSPCRFields ==
  ASSUME mode \in Modes, NEW d \in Interfaces, NEW spe \in BOOLEAN, NEW spie \in BOOLEAN,
         NEW mstr \in BOOLEAN, NEW e, e = SetSPCR(d, spe, spie, mstr)
  PROVE  Switched(e, d, spe, mstr)
<1>1. PICK x : x = [d EXCEPT !.SPE = spe, !.SPIE = spie, !.MSTR = mstr]
  OBVIOUS
<1>2. e = IF ~spe THEN [x EXCEPT !.bitcnt = 8, !.finished = FALSE]
          ELSE IF mstr THEN [x EXCEPT !.mosi = TRUE, !.sck = mode.CPOL] ELSE x
  BY <1>1 DEF SetSPCR
<1>3. 8 \in BitCounts
  BY DEF BitCounts
<1>4. PICK v \in BOOLEAN : v = mode.CPOL
  BY ModeType
<1>5. x \in Interfaces /\ x.SPE = spe /\ x.MSTR = mstr /\ x.bitcnt = d.bitcnt
      /\ x.finished = d.finished /\ x.clkcnt = d.clkcnt /\ x.oldsck = d.oldsck
      /\ x.shift_in = d.shift_in /\ x.data_write = d.data_write /\ x.data_read = d.data_read
  BY <1>1, InterfacesDef
<1>6. CASE ~spe
  BY <1>2, <1>3, <1>5, <1>6, InterfacesDef DEF Switched
<1>7. CASE spe /\ mstr
  <2>1. e = [x EXCEPT !.mosi = TRUE, !.sck = v]
    BY <1>2, <1>4, <1>7
  <2> QED
    BY <2>1, <1>4, <1>5, <1>7, InterfacesDef DEF Switched
<1>8. CASE spe /\ ~mstr
  BY <1>2, <1>5, <1>8 DEF Switched
<1> QED
  BY <1>6, <1>7, <1>8

(* After a fault a master is a slave that is at no byte. *)
LEMMA FaultFields ==
  ASSUME mode \in Modes, NEW d \in Interfaces, NEW e, e = Fault(d)
  PROVE  /\ e \in Interfaces /\ e.SPE /\ ~e.MSTR
         /\ e.bitcnt = 8 /\ ~e.finished /\ e.clkcnt = 0
<1>1. PICK x : x = SetSPCR(d, TRUE, d.SPIE, FALSE)
  OBVIOUS
<1>2. PICK i \in BOOLEAN : i = d.SPIE
  BY InterfacesDef
<1>3. x \in Interfaces /\ x.SPE /\ ~x.MSTR
  <2>1. x = SetSPCR(d, TRUE, i, FALSE)
    BY <1>1, <1>2
  <2>2. Switched(x, d, TRUE, FALSE)
    BY <2>1, SetSPCRFields
  <2> QED
    BY <2>2 DEF Switched
<1>4. PICK f \in Flags : f = x.spsr \cup {"SPIF"}
  BY <1>3, InterfacesDef DEF Flags
<1>5. PICK q \in BOOLEAN : q = (x.queued \/ x.SPIE)
  BY <1>3, InterfacesDef
<1>6. Raise(x) = [x EXCEPT !.spsr = f, !.queued = q]
  BY <1>3, <1>4, <1>5, InterfacesDef DEF Raise
<1>7. e = [x EXCEPT !.spsr = f, !.queued = q, !.bitcnt = 8, !.finished = FALSE, !.clkcnt = 0]
  BY <1>1, <1>3, <1>6, InterfacesDef DEF Fault
<1>8. 8 \in BitCounts /\ 0 \in ClockCounts
  BY ModeType DEF BitCounts, ClockCounts
<1> QED
  BY <1>3, <1>7, <1>8, InterfacesDef

(* A slave between two bytes begins the next one. *)
LEMMA RestartedFields ==
  ASSUME NEW d \in Interfaces, ~d.MSTR, ~d.finished, NEW sck \in BOOLEAN,
         NEW e, e = Restarted(d, sck)
  PROVE  /\ Kept(e, d) /\ ~e.finished /\ e.clkcnt = d.clkcnt
         /\ d.bitcnt = 8 => e.bitcnt = 0 /\ e.shift_in = {} /\ e.oldsck = sck
         /\ d.bitcnt # 8 => e.bitcnt = d.bitcnt /\ e.shift_in = d.shift_in /\ e.oldsck = d.oldsck
         /\ d.bitcnt # 8 /\ ~mode.CPHA => e.miso = Has(d.bitcnt, d.data_write)
         /\ mode.CPHA => e.miso = d.miso
<1>1. PICK h \in BOOLEAN : h = Has(d.bitcnt, d.data_write)
  BY HasType
<1>2. 0 \in BitCounts /\ {} \in Byte
  BY DEF BitCounts, Byte
<1>3. CASE d.bitcnt = 8
  <2>1. e = [d EXCEPT !.bitcnt = 0, !.finished = FALSE, !.shift_in = {}, !.oldsck = sck]
    BY <1>3 DEF Restarted
  <2> QED
    BY <1>2, <1>3, <2>1, InterfacesDef DEF Kept
<1>4. CASE d.bitcnt # 8 /\ ~mode.CPHA
  <2>1. e = [d EXCEPT !.miso = h]
    BY <1>1, <1>4 DEF Restarted, TxBit, Has
  <2> QED
    BY <1>1, <1>4, <2>1, InterfacesDef DEF Kept
<1>5. CASE d.bitcnt # 8 /\ mode.CPHA
  BY <1>5 DEF Restarted, Kept
<1> QED
  BY <1>3, <1>4, <1>5

(* The edges of SCK at the slave. *)
LEMMA SlaveLeading ==
  ASSUME mode \in Modes, NEW d \in Interfaces, ~d.MSTR, d.bitcnt < 8, NEW mosi,
         NEW sck \in BOOLEAN, sck # mode.CPOL, NEW e, e = SlaveEdge(d, sck, mosi)
  PROVE  /\ Kept(e, d) /\ e.clkcnt = d.clkcnt /\ e.finished = d.finished
         /\ e.bitcnt = d.bitcnt
         /\ e.shift_in = IF mode.CPHA THEN d.shift_in ELSE TakenFrom(d.shift_in, d.bitcnt, mosi)
         /\ mode.CPHA => e.miso = Has(d.bitcnt, d.data_write)
<1>1. d.bitcnt \in 0 .. 7
  BY InterfacesDef DEF BitCounts
<1>2. PICK t \in Byte : t = TakenFrom(d.shift_in, d.bitcnt, mosi)
  BY <1>1, TakenFromType, InterfacesDef
<1>3. PICK h \in BOOLEAN : h = Has(d.bitcnt, d.data_write)
  BY HasType
<1>4. e = IF mode.CPHA THEN TxBit(d, d.bitcnt) ELSE RxBit(d, d.bitcnt, mosi)
  BY ModeType DEF SlaveEdge, Samples, EndsBit
<1>5. e = IF mode.CPHA THEN [d EXCEPT !.miso = h] ELSE [d EXCEPT !.shift_in = t]
  BY <1>2, <1>3, <1>4, RxBitFields DEF TxBit, Has
<1> QED
  BY <1>2, <1>3, <1>5, InterfacesDef DEF Kept

(* The trailing edge ends the bit. *)
LEMMA SlaveTrailing ==
  ASSUME mode \in Modes, NEW d \in Interfaces, ~d.MSTR, d.bitcnt < 8, NEW mosi,
         NEW sck \in BOOLEAN, sck = mode.CPOL, NEW e, e = SlaveEdge(d, sck, mosi)
  PROVE  /\ Kept(e, d) /\ e.clkcnt = d.clkcnt /\ e.finished = (e.bitcnt = 8)
         /\ e.bitcnt = d.bitcnt + 1
         /\ e.shift_in = IF mode.CPHA THEN TakenFrom(d.shift_in, d.bitcnt, mosi) ELSE d.shift_in
         /\ mode.CPHA => e.miso = d.miso
<1>1. d.bitcnt \in 0 .. 7
  BY InterfacesDef DEF BitCounts
<1>2. PICK t \in Byte : t = TakenFrom(d.shift_in, d.bitcnt, mosi)
  BY <1>1, TakenFromType, InterfacesDef
<1>3. PICK h \in BOOLEAN : h = Has(d.bitcnt, d.data_write)
  BY HasType
<1>4. PICK n \in BitCounts : n = d.bitcnt + 1
  BY <1>1 DEF BitCounts
<1>5. PICK fin \in BOOLEAN : fin = (n = 8)
  OBVIOUS
<1>6. PICK y : y = IF mode.CPHA THEN RxBit(d, d.bitcnt, mosi) ELSE TxBit(d, d.bitcnt)
  OBVIOUS
<1>7. y = IF mode.CPHA THEN [d EXCEPT !.shift_in = t] ELSE [d EXCEPT !.miso = h]
  BY <1>2, <1>3, <1>6, RxBitFields DEF TxBit, Has
<1>8. e = [y EXCEPT !.bitcnt = n, !.finished = fin]
  BY <1>4, <1>5, <1>6, ModeType DEF SlaveEdge, Samples, EndsBit
<1> QED
  BY <1>2, <1>3, <1>4, <1>5, <1>7, <1>8, InterfacesDef DEF Kept

(* A cycle of a slave: SS, no edge, a leading one and a trailing one. *)
Last(e, f, sck) ==
  /\ e \in Interfaces /\ e.SPE = f.SPE /\ e.MSTR = f.MSTR /\ ~e.finished
  /\ e.data_write = IF f.finished THEN f.shift_in ELSE f.data_write
  /\ e.data_read = IF f.finished THEN f.shift_in ELSE f.data_read
  /\ e.bitcnt = f.bitcnt /\ e.shift_in = f.shift_in /\ e.miso = f.miso /\ e.oldsck = sck

(* The end of a cycle of a slave: TrxEnd, and SCK is remembered. *)
LEMMA SlaveLast ==
  ASSUME NEW f \in Interfaces, NEW sck \in BOOLEAN, NEW e, e = [TrxEnd(f) EXCEPT !.oldsck = sck]
  PROVE  Last(e, f, sck)
<1>1. PICK x : x = TrxEnd(f)
  OBVIOUS
<1>2. /\ x \in Interfaces /\ x.SPE = f.SPE /\ x.MSTR = f.MSTR /\ ~x.finished
      /\ x.data_write = IF f.finished THEN f.shift_in ELSE f.data_write
      /\ x.data_read = IF f.finished THEN f.shift_in ELSE f.data_read
      /\ x.bitcnt = f.bitcnt /\ x.shift_in = f.shift_in /\ x.miso = f.miso
  BY <1>1, TrxEndFields
<1>3. e = [x EXCEPT !.oldsck = sck]
  BY <1>1
<1> QED
  BY <1>2, <1>3, InterfacesDef DEF Last

(* A slave that is not selected is at no byte. *)
Selected(e, d) ==
  /\ Kept(e, d) /\ e.bitcnt = 8 /\ e.finished = d.finished /\ e.clkcnt = d.clkcnt

(* Its cycle. *)
LEMMA SlaveSelect ==
  ASSUME NEW d \in Interfaces, NEW sck, NEW mosi, NEW e, e = SlaveCycle(d, TRUE, sck, mosi)
  PROVE  Selected(e, d)
<1>1. 8 \in BitCounts
  BY DEF BitCounts
<1>2. e = [d EXCEPT !.bitcnt = 8]
  BY DEF SlaveCycle
<1> QED
  BY <1>1, <1>2, InterfacesDef DEF Kept, Selected

(* A selected slave without an edge: a byte may begin, nothing is shifted. *)
Stilled(e, d, sck) ==
  /\ Kept(e, d) /\ ~e.finished /\ e.oldsck = sck
  /\ e.bitcnt = IF d.bitcnt = 8 THEN 0 ELSE d.bitcnt
  /\ e.shift_in = IF d.bitcnt = 8 THEN {} ELSE d.shift_in
  /\ d.bitcnt # 8 /\ ~mode.CPHA => e.miso = Has(d.bitcnt, d.data_write)
  /\ mode.CPHA => e.miso = d.miso

(* Its cycle. *)
LEMMA SlaveStill ==
  ASSUME NEW d \in Interfaces, ~d.MSTR, ~d.finished, NEW sck \in BOOLEAN, NEW mosi,
         d.bitcnt = 8 \/ d.oldsck = sck,
         NEW e, e = SlaveCycle(d, FALSE, sck, mosi)
  PROVE  Stilled(e, d, sck)
<1>1. PICK r : r = Restarted(d, sck)
  OBVIOUS
<1>2. /\ Kept(r, d) /\ ~r.finished /\ r.oldsck = sck
      /\ r.bitcnt = IF d.bitcnt = 8 THEN 0 ELSE d.bitcnt
      /\ r.shift_in = IF d.bitcnt = 8 THEN {} ELSE d.shift_in
      /\ d.bitcnt # 8 /\ ~mode.CPHA => r.miso = Has(d.bitcnt, d.data_write)
      /\ mode.CPHA => r.miso = d.miso
  <2>1. /\ Kept(r, d) /\ ~r.finished
        /\ d.bitcnt = 8 => r.bitcnt = 0 /\ r.shift_in = {} /\ r.oldsck = sck
        /\ d.bitcnt # 8 => r.bitcnt = d.bitcnt /\ r.shift_in = d.shift_in /\ r.oldsck = d.oldsck
        /\ d.bitcnt # 8 /\ ~mode.CPHA => r.miso = Has(d.bitcnt, d.data_write)
        /\ mode.CPHA => r.miso = d.miso
    BY <1>1, RestartedFields
  <2> QED
    BY <2>1
<1>3. e = [TrxEnd(r) EXCEPT !.oldsck = sck]
  BY <1>1, <1>2 DEF SlaveCycle
<1>4. Last(e, r, sck)
  BY <1>2, <1>3, SlaveLast DEF Kept
<1> QED
  BY <1>2, <1>4 DEF Kept, Last, Stilled

(* A slave after the leading edge, *)
AfterLeading(e, d, sck, mosi) ==
  /\ Kept(e, d) /\ ~e.finished /\ e.oldsck = sck
  /\ e.bitcnt = d.bitcnt
  /\ e.shift_in = IF mode.CPHA THEN d.shift_in ELSE TakenFrom(d.shift_in, d.bitcnt, mosi)
  /\ mode.CPHA => e.miso = Has(d.bitcnt, d.data_write)

(* which a cycle with that edge leaves. *)
LEMMA SlaveAtLeading ==
  ASSUME mode \in Modes, NEW d \in Interfaces, ~d.MSTR, ~d.finished, d.bitcnt # 8,
         NEW mosi, NEW sck \in BOOLEAN, d.oldsck # sck, sck # mode.CPOL,
         NEW e, e = SlaveCycle(d, FALSE, sck, mosi)
  PROVE  AfterLeading(e, d, sck, mosi)
<1>1. PICK r : r = Restarted(d, sck)
  OBVIOUS
<1>2. /\ Kept(r, d) /\ ~r.finished /\ r.oldsck = d.oldsck
      /\ r.bitcnt = d.bitcnt /\ r.shift_in = d.shift_in
  BY <1>1, RestartedFields
<1>3. PICK f : f = SlaveEdge(r, sck, mosi)
  OBVIOUS
<1>4. r.bitcnt < 8 /\ r \in Interfaces /\ ~r.MSTR
  BY <1>2, InterfacesDef DEF BitCounts, Kept
<1>5. /\ Kept(f, r) /\ ~f.finished /\ f.bitcnt = r.bitcnt
      /\ f.shift_in = IF mode.CPHA THEN r.shift_in ELSE TakenFrom(r.shift_in, r.bitcnt, mosi)
      /\ mode.CPHA => f.miso = Has(r.bitcnt, r.data_write)
  BY <1>2, <1>3, <1>4, SlaveLeading
<1>6. e = [TrxEnd(f) EXCEPT !.oldsck = sck]
  BY <1>1, <1>2, <1>3 DEF SlaveCycle
<1>7. Last(e, f, sck)
  BY <1>5, <1>6, SlaveLast DEF Kept
<1> QED
  BY <1>2, <1>5, <1>7 DEF Kept, Last, AfterLeading

(* A slave after the trailing edge, perhaps the last of its byte, *)
AfterTrailing(e, d, sck, mosi) ==
  /\ e \in Interfaces /\ e.SPE = d.SPE /\ e.MSTR = d.MSTR
  /\ ~e.finished /\ e.oldsck = sck
  /\ e.bitcnt = d.bitcnt + 1
  /\ e.shift_in = IF mode.CPHA THEN TakenFrom(d.shift_in, d.bitcnt, mosi) ELSE d.shift_in
  /\ e.data_write = IF e.bitcnt = 8 THEN e.shift_in ELSE d.data_write
  /\ e.data_read = IF e.bitcnt = 8 THEN e.shift_in ELSE d.data_read

(* which a cycle with that edge leaves. *)
LEMMA SlaveAtTrailing ==
  ASSUME mode \in Modes, NEW d \in Interfaces, ~d.MSTR, ~d.finished, d.bitcnt # 8,
         NEW mosi, NEW sck \in BOOLEAN, d.oldsck # sck, sck = mode.CPOL,
         NEW e, e = SlaveCycle(d, FALSE, sck, mosi)
  PROVE  AfterTrailing(e, d, sck, mosi)
<1>1. PICK r : r = Restarted(d, sck)
  OBVIOUS
<1>2. /\ Kept(r, d) /\ ~r.finished /\ r.oldsck = d.oldsck
      /\ r.bitcnt = d.bitcnt /\ r.shift_in = d.shift_in
  BY <1>1, RestartedFields
<1>3. PICK f : f = SlaveEdge(r, sck, mosi)
  OBVIOUS
<1>4. r.bitcnt < 8 /\ r \in Interfaces /\ ~r.MSTR
  BY <1>2, InterfacesDef DEF BitCounts, Kept
<1>5. /\ Kept(f, r) /\ f.finished = (f.bitcnt = 8) /\ f.bitcnt = r.bitcnt + 1
      /\ f.shift_in = IF mode.CPHA THEN TakenFrom(r.shift_in, r.bitcnt, mosi) ELSE r.shift_in
  BY <1>2, <1>3, <1>4, SlaveTrailing
<1>6. e = [TrxEnd(f) EXCEPT !.oldsck = sck]
  BY <1>1, <1>2, <1>3 DEF SlaveCycle
<1>7. Last(e, f, sck)
  BY <1>5, <1>6, SlaveLast DEF Kept
<1> QED
  BY <1>2, <1>5, <1>7 DEF Kept, Last, AfterTrailing

(* Whatever a slave does in a cycle, it does not become master, nothing is *)
(* finished afterwards, and before bit 0 it has shifted nothing in.        *)
Slavelike(d) == d \in Interfaces /\ ~d.MSTR /\ ~d.finished
(* Nothing is shifted in before the first edge. *)
Fresh(d) == d.bitcnt = 0 /\ d.oldsck = mode.CPOL => d.shift_in = {}

(* SlaveCycle keeps both. *)
LEMMA SlaveCycleKeeps ==
  ASSUME mode \in Modes, NEW d, Slavelike(d), NEW select \in BOOLEAN,
         NEW sck \in BOOLEAN, NEW mosi, NEW e, e = SlaveCycle(d, select, sck, mosi)
  PROVE  Slavelike(e) /\ e.SPE = d.SPE /\ (Fresh(d) => Fresh(e))
<1>1. d \in Interfaces /\ ~d.MSTR /\ ~d.finished
  BY DEF Slavelike
<1>2. CASE select
  <2>1. e = SlaveCycle(d, TRUE, sck, mosi)
    BY <1>2
  <2>2. Selected(e, d)
    BY <1>1, <2>1, SlaveSelect
  <2> QED
    BY <1>1, <2>2 DEF Fresh, Slavelike, Selected, Kept
<1>3. CASE ~select
  <2>1. e = SlaveCycle(d, FALSE, sck, mosi)
    BY <1>3
  <2>2. CASE d.bitcnt = 8 \/ d.oldsck = sck
    <3>1. Stilled(e, d, sck)
      BY <1>1, <2>1, <2>2, SlaveStill
    <3> QED
      BY <1>1, <2>2, <3>1 DEF Fresh, Slavelike, Stilled, Kept
  <2>3. CASE d.bitcnt # 8 /\ d.oldsck # sck /\ sck # mode.CPOL
    <3>1. AfterLeading(e, d, sck, mosi)
      BY <1>1, <2>1, <2>3, SlaveAtLeading
    <3> QED
      BY <1>1, <2>3, <3>1 DEF Fresh, Slavelike, AfterLeading, Kept
  <2>4. CASE d.bitcnt # 8 /\ d.oldsck # sck /\ sck = mode.CPOL
    <3>1. AfterTrailing(e, d, sck, mosi)
      BY <1>1, <2>1, <2>4, SlaveAtTrailing
    <3>2. d.bitcnt \in 0 .. 8
      BY <1>1, InterfacesDef DEF BitCounts
    <3> QED
      BY <1>1, <3>1, <3>2 DEF Fresh, Slavelike, AfterTrailing
  <2> QED
    BY <2>2, <2>3, <2>4
<1> QED
  BY <1>2, <1>3
-----------------------------------------------------------------------------
(* A cycle of the master takes one off the rest of its byte.               *)
LEMMA RestFalls ==
  ASSUME mode \in Modes, NEW n \in 0 .. 8, NEW c \in ClockCounts
  PROVE  /\ n < 8 /\ c # mode.clkdiv => Rest(n, NextClock(c)) + 1 <= Rest(n, c)
         /\ n < 8 /\ c = mode.clkdiv => Rest(n + 1, NextClock(c)) + 1 <= Rest(n, c)
         /\ c > mode.clkdiv => Late(NextClock(c)) /\ Rest(8, NextClock(c)) + 1 <= Rest(8, c)
         /\ c = mode.clkdiv => Late(NextClock(c))
<1>1. PICK k \in Nat : k = mode.clkdiv /\ k >= 2
  BY ModeType
<1>2. c \in 0 .. 2 * k - 1
  BY <1>1 DEF ClockCounts
<1>3. ASSUME n < 8, c # k PROVE Rest(n, NextClock(c)) + 1 <= Rest(n, c)
  <2>1. PICK x \in Int : x = 2 * k * (7 - n)
    OBVIOUS
  <2>2. HalfLeft(NextClock(c)) + 1 <= HalfLeft(c) /\ HalfLeft(c) \in Int /\ HalfLeft(NextClock(c)) \in Int
    BY <1>1, <1>2, <1>3 DEF HalfLeft, NextClock
  <2>3. \A h : Rest(n, h) = HalfLeft(h) + x + k + 1
    BY <1>1, <1>3, <2>1 DEF Rest
  <2>4. Rest(n, NextClock(c)) = HalfLeft(NextClock(c)) + x + k + 1 /\ Rest(n, c) = HalfLeft(c) + x + k + 1
    BY <2>3
  <2> QED
    BY <2>1, <2>2, <2>4
<1>4. ASSUME n < 8, c = k PROVE Rest(n + 1, NextClock(c)) + 1 <= Rest(n, c)
  <2>1. NextClock(c) = k + 1
    BY <1>1, <1>4 DEF NextClock
  <2>2. Rest(n, c) = 2 * k * (7 - n) + k + 1
    BY <1>1, <1>4 DEF Rest, HalfLeft
  <2>3. CASE n = 7
    BY <1>1, <2>1, <2>2, <2>3 DEF Rest
  <2>4. CASE n # 7
    <3>1. Rest(n + 1, k + 1) = 3 * k - (k + 1) + 2 * k * (6 - n) + k + 1
      BY <1>1, <1>4, <2>4 DEF Rest, HalfLeft
    <3>2. PICK x \in Int : x = 2 * k * (6 - n)
      OBVIOUS
    <3>3. 2 * k * (7 - n) = x + 2 * k
      BY <3>2
    <3> QED
      BY <1>1, <2>1, <2>2, <3>1, <3>2, <3>3
  <2> QED
    BY <2>3, <2>4
<1>5. c > k => Late(NextClock(c)) /\ Rest(8, NextClock(c)) + 1 <= Rest(8, c)
  BY <1>1, <1>2 DEF Late, NextClock, Rest
<1>6. c = k => Late(NextClock(c))
  BY <1>1, <1>2 DEF Late, NextClock
<1> QED
  BY <1>1, <1>3, <1>4, <1>5, <1>6

(* No byte takes more than nine bits from where its count begins. *)
LEMMA RestBound ==
  ASSUME mode \in Modes, NEW n \in 0 .. 8, NEW c \in ClockCounts, n = 8 => Late(c)
  PROVE  Rest(n, c) \in Nat /\ Rest(n, c) <= 18 * mode.clkdiv
<1>1. PICK k \in Nat : k = mode.clkdiv /\ k >= 2
  BY ModeType
<1>2. c \in 0 .. 2 * k - 1
  BY <1>1 DEF ClockCounts
<1>3. CASE n = 8
  BY <1>1, <1>2, <1>3 DEF Rest, Late
<1>4. CASE n # 8
  <2>1. PICK i \in 0 .. 7 : i = 7 - n
    BY <1>4
  <2>2. PICK x \in Nat : x = 2 * k * i
    OBVIOUS
  <2>3. x <= 14 * k
    BY <2>1, <2>2
  <2>4. PICK h \in Nat : h = HalfLeft(c) /\ h <= 2 * k
    BY <1>1, <1>2 DEF HalfLeft
  <2>5. Rest(n, c) = h + x + k + 1
    BY <1>1, <1>4, <2>1, <2>2, <2>4 DEF Rest
  <2>6. h + x + k + 1 \in Nat /\ h + x + k + 1 <= 18 * k
    <3>1. k \in Nat /\ k >= 2 /\ x \in Nat /\ h \in Nat /\ x <= 14 * k /\ h <= 2 * k
      BY <1>1, <2>2, <2>3, <2>4
    <3> QED
      BY ONLY <3>1
  <2> QED
    BY <1>1, <2>5, <2>6
<1> QED
  BY <1>3, <1>4

(* A master between the edges, at the edges, at the end of a byte and when *)
(* its SS is pulled low.                                                   *)
LEMMA MasterStill ==
  ASSUME mode \in Modes, NEW d \in Interfaces, d.SPE, d.MSTR,
         (d.clkcnt # 0 /\ d.clkcnt # mode.clkdiv) \/ (d.bitcnt = 8 /\ ~d.finished),
         NEW e, e = CpuCycle(d, TRUE)
  PROVE  Ticked(e, d)
<1>1. d.clkcnt \in 0 .. 2 * mode.clkdiv - 1
  BY DEF Interfaces
<1>2. MasterCycle(d, TRUE) = d
  BY <1>1, ModeType, PhaseBegins DEF MasterCycle
<1>3. e = Clocked(d)
  BY <1>2 DEF CpuCycle
<1> QED
  BY <1>3, ClockedFields

(* A master after the leading edge, *)
AfterMasterLeading(e, d) ==
  /\ Kept(e, d) /\ e.clkcnt = NextClock(d.clkcnt)
  /\ e.bitcnt = d.bitcnt + 1 /\ e.finished = (e.bitcnt = 8)
  /\ e.sck = ~mode.CPOL
  /\ e.mosi = IF mode.CPHA THEN Has(d.bitcnt, d.data_write) ELSE d.mosi
  /\ e.shift_in = LET b == IF d.bitcnt = 0 THEN {} ELSE d.shift_in
                  IN  IF mode.CPHA THEN b ELSE TakenFrom(b, d.bitcnt, MisoLine)

(* which the cycle at the divisor leaves. *)
LEMMA MasterAtLeading ==
  ASSUME mode \in Modes, NEW d \in Interfaces, d.SPE, d.MSTR, d.bitcnt < 8, d.clkcnt = mode.clkdiv,
         NEW e, e = CpuCycle(d, TRUE)
  PROVE  AfterMasterLeading(e, d)
<1>1. d.clkcnt \in 0 .. 2 * mode.clkdiv - 1
  BY DEF Interfaces
<1>2. PICK f : f = MasterBit(d)
  OBVIOUS
<1>3. MasterCycle(d, TRUE) = f
  BY <1>1, <1>2, ModeType, PhaseBegins DEF MasterCycle
<1>4. e = Clocked(f)
  BY <1>3 DEF CpuCycle
<1>5. /\ Kept(f, d) /\ f.clkcnt = d.clkcnt
      /\ f.bitcnt = d.bitcnt + 1 /\ f.finished = (f.bitcnt = 8)
      /\ f.sck = ~mode.CPOL
      /\ f.mosi = IF mode.CPHA THEN Has(d.bitcnt, d.data_write) ELSE d.mosi
      /\ f.shift_in = LET b == IF d.bitcnt = 0 THEN {} ELSE d.shift_in
                      IN  IF mode.CPHA THEN b ELSE TakenFrom(b, d.bitcnt, MisoLine)
  BY <1>2, MasterLeading
<1>6. Ticked(e, f)
  BY <1>4, <1>5, ClockedFields DEF Kept
<1> QED
  BY <1>5, <1>6 DEF AfterMasterLeading, Ticked, Kept

(* A master after the trailing edge, *)
AfterMasterTrailing(e, d) ==
  /\ Kept(e, d) /\ e.clkcnt = NextClock(d.clkcnt)
  /\ e.bitcnt = d.bitcnt /\ ~e.finished
  /\ e.sck = mode.CPOL
  /\ e.mosi = IF mode.CPHA THEN d.mosi ELSE Has(d.bitcnt, d.data_write)
  /\ e.shift_in = IF d.bitcnt = 0 THEN {}
                  ELSE IF mode.CPHA THEN TakenFrom(d.shift_in, d.bitcnt - 1, MisoLine)
                  ELSE d.shift_in

(* which the cycle at 0 leaves. *)
LEMMA MasterAtTrailing ==
  ASSUME mode \in Modes, NEW d \in Interfaces, d.SPE, d.MSTR, d.bitcnt < 8, d.clkcnt = 0,
         NEW e, e = CpuCycle(d, TRUE)
  PROVE  AfterMasterTrailing(e, d)
<1>1. d.clkcnt \in 0 .. 2 * mode.clkdiv - 1
  BY DEF Interfaces
<1>2. PICK f : f = MasterBit(d)
  OBVIOUS
<1>3. MasterCycle(d, TRUE) = f
  BY <1>1, <1>2, ModeType, PhaseBegins DEF MasterCycle
<1>4. e = Clocked(f)
  BY <1>3 DEF CpuCycle
<1>5. /\ Kept(f, d) /\ f.clkcnt = d.clkcnt
      /\ f.bitcnt = d.bitcnt /\ ~f.finished
      /\ f.sck = mode.CPOL
      /\ f.mosi = IF mode.CPHA THEN d.mosi ELSE Has(d.bitcnt, d.data_write)
      /\ f.shift_in = IF d.bitcnt = 0 THEN {}
                      ELSE IF mode.CPHA THEN TakenFrom(d.shift_in, d.bitcnt - 1, MisoLine)
                      ELSE d.shift_in
  BY <1>2, MasterTrailing
<1>6. Ticked(e, f)
  BY <1>4, <1>5, ClockedFields DEF Kept
<1> QED
  BY <1>5, <1>6 DEF AfterMasterTrailing, Ticked, Kept

(* A master that has ended its byte, *)
AfterMasterEnd(e, d) ==
  /\ e \in Interfaces /\ e.SPE = d.SPE /\ e.MSTR = d.MSTR
  /\ e.clkcnt = NextClock(d.clkcnt) /\ e.bitcnt = d.bitcnt /\ ~e.finished
  /\ e.sck = mode.CPOL
  /\ mode.CPHA => e.mosi = d.mosi
  /\ e.data_read = IF mode.CPHA THEN TakenFrom(d.shift_in, 7, MisoLine) ELSE d.shift_in

(* which the cycle at 0 after the last bit leaves. *)
LEMMA MasterAtEnd ==
  ASSUME mode \in Modes, NEW d \in Interfaces, d.SPE, d.MSTR, d.bitcnt = 8, d.clkcnt = 0, d.finished,
         NEW e, e = CpuCycle(d, TRUE)
  PROVE  AfterMasterEnd(e, d)
<1>1. d.clkcnt \in 0 .. 2 * mode.clkdiv - 1
  BY DEF Interfaces
<1>2. PICK f : f = MasterEnd(d)
  OBVIOUS
<1>3. MasterCycle(d, TRUE) = f
  BY <1>1, <1>2, ModeType, PhaseBegins DEF MasterCycle
<1>4. e = Clocked(f)
  BY <1>3 DEF CpuCycle
<1>5. /\ f \in Interfaces /\ f.SPE = d.SPE /\ f.MSTR = d.MSTR
      /\ f.clkcnt = d.clkcnt /\ f.bitcnt = d.bitcnt /\ ~f.finished
      /\ f.sck = mode.CPOL
      /\ mode.CPHA => f.mosi = d.mosi
      /\ f.data_read = IF mode.CPHA THEN TakenFrom(d.shift_in, 7, MisoLine) ELSE d.shift_in
  BY <1>2, MasterEnds
<1>6. Ticked(e, f)
  BY <1>4, <1>5, ClockedFields
<1> QED
  BY <1>5, <1>6 DEF AfterMasterEnd, Ticked, Kept

(* A master whose SS is low becomes a slave. *)
LEMMA MasterFaults ==
  ASSUME mode \in Modes, NEW d \in Interfaces, d.SPE, d.MSTR, NEW e, e = CpuCycle(d, FALSE)
  PROVE  Slavelike(e) /\ e.SPE /\ e.bitcnt = 8
<1>1. PICK f : f = Fault(d)
  OBVIOUS
<1>2. f \in Interfaces /\ f.SPE /\ ~f.MSTR /\ f.bitcnt = 8 /\ ~f.finished
  BY <1>1, FaultFields
<1>3. MasterCycle(d, FALSE) = f
  BY <1>1, <1>2 DEF MasterCycle
<1>4. e = Clocked(f)
  BY <1>3 DEF CpuCycle
<1>5. Ticked(e, f)
  BY <1>2, <1>4, ClockedFields
<1> QED
  BY <1>2, <1>5 DEF Ticked, Kept, Slavelike

(* SCK has a level. *)
LEMMA Lines ==
  ASSUME mode \in Modes, m \in Interfaces
  PROVE  SckLine \in BOOLEAN
  BY ModeType, InterfacesDef DEF SckLine

(* CpuCycle of a slave, switched on or not. *)
LEMMA SlaveClock ==
  ASSUME mode \in Modes, m \in Interfaces, NEW d, Slavelike(d), NEW select, select \in BOOLEAN,
         NEW e, e = CpuCycle(d, select)
  PROVE  Slavelike(e) /\ e.SPE = d.SPE /\ (Fresh(d) => Fresh(e))
<1>1. CASE ~d.SPE
  BY <1>1 DEF CpuCycle
<1>2. CASE d.SPE
  <2>1. PICK sck : sck = SckLine
    OBVIOUS
  <2>2. PICK f : f = SlaveCycle(d, select, sck, MosiLine)
    OBVIOUS
  <2>3. sck \in BOOLEAN
    BY <2>1, Lines
  <2>4. Slavelike(f) /\ f.SPE = d.SPE /\ (Fresh(d) => Fresh(f))
    BY <2>2, <2>3, SlaveCycleKeeps
  <2>5. e = Clocked(f)
    BY <1>2, <2>1, <2>2 DEF CpuCycle, Slavelike
  <2>6. Ticked(e, f)
    BY <2>4, <2>5, ClockedFields DEF Slavelike
  <2> QED
    BY <2>4, <2>6 DEF Ticked, Kept, Slavelike, Fresh
<1> QED
  BY <1>1, <1>2

(* The interface m: only a master finishes bytes, and it does so from the  *)
(* last edge to the end of the clock.                                      *)
Masterlike(d) ==
  /\ d \in Interfaces
  /\ d.finished => d.MSTR /\ d.bitcnt = 8 /\ Late(d.clkcnt)
  /\ d.MSTR => d.SPE

(* It is at a byte. *)
Sends(d) == d.SPE /\ d.MSTR /\ (d.bitcnt < 8 \/ d.finished)

(* CpuCycle of m, which may have become a slave: a byte goes on only with less of it left. *)
LEMMA MasterClock ==
  ASSUME mode \in Modes, m \in Interfaces, NEW d, Masterlike(d), NEW select, select \in BOOLEAN,
         NEW e, e = CpuCycle(d, select)
  PROVE  /\ Masterlike(e)
         /\ Sends(e) => /\ Sends(d)
                        /\ Rest(e.bitcnt, e.clkcnt) + 1 <= Rest(d.bitcnt, d.clkcnt)
<1>1. /\ d \in Interfaces /\ d.bitcnt \in 0 .. 8 /\ d.clkcnt \in ClockCounts
      /\ d.clkcnt \in 0 .. 2 * mode.clkdiv - 1
  BY InterfacesDef DEF Masterlike, BitCounts, ClockCounts
<1>2. CASE ~d.MSTR
  <2>1. Slavelike(d)
    BY <1>2 DEF Masterlike, Slavelike
  <2>2. Slavelike(e)
    BY <2>1, SlaveClock
  <2> QED
    BY <2>2 DEF Slavelike, Masterlike, Sends
<1>3. CASE d.MSTR /\ ~select
  <2>1. Slavelike(e)
    BY <1>1, <1>3, MasterFaults DEF Masterlike
  <2> QED
    BY <2>1 DEF Slavelike, Masterlike, Sends
<1>4. CASE d.MSTR /\ select
  <2>1. d.SPE /\ e = CpuCycle(d, TRUE)
    BY <1>4 DEF Masterlike
  <2>2. CASE d.bitcnt = 8 /\ ~d.finished
    <3>1. Ticked(e, d)
      BY <1>1, <1>4, <2>1, <2>2, MasterStill
    <3>2. e \in Interfaces /\ e.SPE /\ e.MSTR /\ e.bitcnt = 8 /\ ~e.finished
      BY <1>4, <2>1, <2>2, <3>1 DEF Ticked, Kept
    <3> QED
      BY <3>2 DEF Masterlike, Sends
  <2>3. CASE d.bitcnt < 8 /\ d.clkcnt # 0 /\ d.clkcnt # mode.clkdiv
    <3>1. Ticked(e, d)
      BY <1>1, <1>4, <2>1, <2>3, MasterStill
    <3>2. Rest(d.bitcnt, NextClock(d.clkcnt)) + 1 <= Rest(d.bitcnt, d.clkcnt)
      BY <1>1, <2>3, RestFalls
    <3>3. ~d.finished
      BY <2>3 DEF Masterlike
    <3>4. /\ e \in Interfaces /\ e.SPE /\ e.MSTR /\ ~e.finished
          /\ e.bitcnt = d.bitcnt /\ e.clkcnt = NextClock(d.clkcnt)
      BY <1>4, <2>1, <3>1, <3>3 DEF Ticked, Kept
    <3>5. Sends(d)
      BY <1>4, <2>1, <2>3 DEF Sends
    <3> QED
      BY <3>2, <3>4, <3>5 DEF Masterlike
  <2>4. CASE d.bitcnt = 8 /\ d.finished /\ d.clkcnt # 0
    <3>1. d.clkcnt > mode.clkdiv
      BY <2>4 DEF Masterlike, Late
    <3>2. Ticked(e, d)
      <4>1. d.clkcnt # mode.clkdiv
        BY <1>1, <3>1, ModeType
      <4> QED
        BY <1>1, <1>4, <2>1, <2>4, <4>1, MasterStill
    <3>3. Late(NextClock(d.clkcnt)) /\ Rest(8, NextClock(d.clkcnt)) + 1 <= Rest(8, d.clkcnt)
      BY <1>1, <3>1, RestFalls
    <3> QED
      BY <1>1, <1>4, <2>1, <2>4, <3>2, <3>3 DEF Ticked, Kept, Masterlike, Sends
  <2>5. CASE d.bitcnt = 8 /\ d.finished /\ d.clkcnt = 0
    <3>1. AfterMasterEnd(e, d)
      BY <1>1, <1>4, <2>1, <2>5, MasterAtEnd
    <3>2. e \in Interfaces /\ e.SPE /\ e.MSTR /\ e.bitcnt = 8 /\ ~e.finished
      BY <1>4, <2>1, <2>5, <3>1 DEF AfterMasterEnd
    <3> QED
      BY <3>2 DEF Masterlike, Sends
  <2>6. CASE d.bitcnt < 8 /\ d.clkcnt = 0
    <3>1. AfterMasterTrailing(e, d)
      BY <1>1, <1>4, <2>1, <2>6, MasterAtTrailing
    <3>2. Rest(d.bitcnt, NextClock(d.clkcnt)) + 1 <= Rest(d.bitcnt, d.clkcnt)
      BY <1>1, <2>6, ModeType, RestFalls
    <3> QED
      BY <1>1, <1>4, <2>1, <2>6, <3>1, <3>2 DEF AfterMasterTrailing, Kept, Masterlike, Sends
  <2>7. CASE d.bitcnt < 8 /\ d.clkcnt = mode.clkdiv
    <3>1. AfterMasterLeading(e, d)
      BY <1>1, <1>4, <2>1, <2>7, MasterAtLeading
    <3>2. /\ Rest(d.bitcnt + 1, NextClock(d.clkcnt)) + 1 <= Rest(d.bitcnt, d.clkcnt)
          /\ Late(NextClock(d.clkcnt))
      BY <1>1, <2>7, ModeType, RestFalls
    <3>3. /\ e.SPE /\ e.MSTR /\ e \in Interfaces /\ e.bitcnt = d.bitcnt + 1
          /\ e.clkcnt = NextClock(d.clkcnt) /\ e.finished = (e.bitcnt = 8)
      BY <1>4, <2>1, <3>1 DEF AfterMasterLeading, Kept
    <3> QED
      BY <1>1, <1>4, <2>1, <2>7, <3>2, <3>3 DEF Masterlike, Sends
  <2> QED
    BY <1>1, <2>2, <2>3, <2>4, <2>5, <2>6, <2>7
<1> QED
  BY <1>2, <1>3, <1>4

-----------------------------------------------------------------------------
(* The registers.  Reading them, and the handler, touch the flags only.    *)
Untouched(e, d) ==
  /\ Kept(e, d)
  /\ e.shift_in = d.shift_in /\ e.bitcnt = d.bitcnt /\ e.finished = d.finished
  /\ e.clkcnt = d.clkcnt /\ e.oldsck = d.oldsck /\ e.mosi = d.mosi /\ e.miso = d.miso
  /\ e.sck = d.sck

(* Both reads and ClearIrqFlag. *)
LEMMA AccessFields ==
  ASSUME NEW d \in Interfaces
  PROVE  /\ Untouched(SpdrAccess(d), d)
         /\ Untouched(GetSPSR(d), d)
         /\ Untouched(ClearIrqFlag(d), d)
<1>1. Untouched(SpdrAccess(d), d)
  <2>1. PICK e : e = SpdrAccess(d)
    OBVIOUS
  <2>2. PICK f \in Flags : f = {}
    BY DEF Flags
  <2>3. e = IF d.spsr_read THEN [d EXCEPT !.spsr = f, !.spsr_read = FALSE] ELSE d
    BY <2>1, <2>2 DEF SpdrAccess
  <2>4. Untouched(e, d)
    BY <2>3, InterfacesDef DEF Untouched, Kept
  <2> QED
    BY <2>1, <2>4
<1>2. Untouched(GetSPSR(d), d)
  BY InterfacesDef DEF Untouched, Kept, GetSPSR
<1>3. Untouched(ClearIrqFlag(d), d)
  <2>1. PICK f \in Flags : f = d.spsr \ {"SPIF"}
    BY InterfacesDef DEF Flags
  <2>2. PICK e : e = ClearIrqFlag(d)
    OBVIOUS
  <2>3. e = [d EXCEPT !.spsr = f, !.queued = FALSE]
    BY <2>1, <2>2, InterfacesDef DEF ClearIrqFlag
  <2>4. Untouched(e, d)
    BY <2>3, InterfacesDef DEF Untouched, Kept
  <2> QED
    BY <2>2, <2>4
<1> QED
  BY <1>1, <1>2, <1>3

(* A write of SPDR: the byte to be sent, and a new transfer of a master    *)
(* that is not at one.                                                     *)
Written(e, d, v) ==
  /\ e \in Interfaces /\ e.SPE = d.SPE /\ e.MSTR = d.MSTR /\ e.data_write = v
  /\ e.shift_in = d.shift_in /\ e.oldsck = d.oldsck
  /\ e.mosi = d.mosi /\ e.miso = d.miso /\ e.sck = d.sck
  /\ d.MSTR /\ d.bitcnt = 8 => e.bitcnt = 0 /\ e.clkcnt = 0 /\ ~e.finished
  /\ ~d.MSTR \/ d.bitcnt < 8 =>
       e.bitcnt = d.bitcnt /\ e.clkcnt = d.clkcnt /\ e.finished = d.finished

(* What SetSPDR does. *)
LEMMA SetSPDRFields ==
  ASSUME mode \in Modes, NEW d \in Interfaces, NEW v \in Byte, NEW e, e = SetSPDR(d, v)
  PROVE  Written(e, d, v)
<1>1. PICK x : x = SpdrAccess(d)
  OBVIOUS
<1>2. Untouched(x, d)
  BY <1>1, AccessFields
<1>3. PICK y : y = [x EXCEPT !.data_write = v]
  OBVIOUS
<1>4. x \in Interfaces
  BY <1>2 DEF Untouched, Kept
<1>5. PICK f \in Flags : f = y.spsr \cup {"WCOL"}
  BY <1>3, <1>4, InterfacesDef DEF Flags
<1>6. d.bitcnt \in 0 .. 8 /\ 0 \in BitCounts /\ 0 \in ClockCounts
  BY InterfacesDef, ModeType DEF BitCounts, ClockCounts
<1>7. /\ y \in Interfaces /\ y.SPE = d.SPE /\ y.MSTR = d.MSTR /\ y.data_write = v
       /\ y.shift_in = d.shift_in /\ y.oldsck = d.oldsck
       /\ y.mosi = d.mosi /\ y.miso = d.miso /\ y.sck = d.sck
       /\ y.bitcnt = d.bitcnt /\ y.clkcnt = d.clkcnt /\ y.finished = d.finished
  BY <1>2, <1>3, <1>4, InterfacesDef DEF Untouched, Kept
<1>8. CASE ~d.MSTR
  <2>1. e = y
    BY <1>1, <1>3, <1>8 DEF SetSPDR
  <2> QED
    BY <1>8, <1>7, <2>1 DEF Written
<1>9. CASE d.MSTR /\ d.bitcnt < 8
  <2>1. e = [y EXCEPT !.spsr = f]
    BY <1>1, <1>3, <1>4, <1>5, <1>9, InterfacesDef DEF SetSPDR
  <2>2. /\ e \in Interfaces /\ e.SPE = y.SPE /\ e.MSTR = y.MSTR /\ e.data_write = y.data_write
        /\ e.shift_in = y.shift_in /\ e.oldsck = y.oldsck
        /\ e.mosi = y.mosi /\ e.miso = y.miso /\ e.sck = y.sck
        /\ e.bitcnt = y.bitcnt /\ e.clkcnt = y.clkcnt /\ e.finished = y.finished
    BY <1>5, <1>7, <2>1, InterfacesDef
  <2>3. /\ e \in Interfaces /\ e.SPE = d.SPE /\ e.MSTR = d.MSTR /\ e.data_write = v
        /\ e.shift_in = d.shift_in /\ e.oldsck = d.oldsck
        /\ e.mosi = d.mosi /\ e.miso = d.miso /\ e.sck = d.sck
    BY <1>7, <2>2
  <2>4. e.bitcnt = d.bitcnt /\ e.clkcnt = d.clkcnt /\ e.finished = d.finished
    BY <1>7, <2>2
  <2>5. ~(d.MSTR /\ d.bitcnt = 8)
    BY <1>6, <1>9
  <2> QED
    BY <2>3, <2>4, <2>5 DEF Written
<1>10. CASE d.MSTR /\ d.bitcnt = 8
  <2>1. e = [y EXCEPT !.bitcnt = 0, !.finished = FALSE, !.clkcnt = 0]
    BY <1>1, <1>3, <1>10 DEF SetSPDR
  <2>2. /\ e \in Interfaces /\ e.SPE = y.SPE /\ e.MSTR = y.MSTR /\ e.data_write = y.data_write
        /\ e.shift_in = y.shift_in /\ e.oldsck = y.oldsck
        /\ e.mosi = y.mosi /\ e.miso = y.miso /\ e.sck = y.sck
        /\ e.bitcnt = 0 /\ e.clkcnt = 0 /\ ~e.finished
    BY <1>6, <1>7, <2>1, InterfacesDef
  <2>3. /\ e \in Interfaces /\ e.SPE = d.SPE /\ e.MSTR = d.MSTR /\ e.data_write = v
        /\ e.shift_in = d.shift_in /\ e.oldsck = d.oldsck
        /\ e.mosi = d.mosi /\ e.miso = d.miso /\ e.sck = d.sck
    BY <1>7, <2>2
  <2>4. ~(~d.MSTR \/ d.bitcnt < 8)
    BY <1>10
  <2> QED
    BY <2>2, <2>3, <2>4 DEF Written
<1> QED
  BY <1>6, <1>8, <1>9, <1>10

(* The control register, and a reset, which switches off. *)
LEMMA ControlFields ==
  ASSUME mode \in Modes, NEW d \in Interfaces
  PROVE  /\ Switched(SetSPCR(d, TRUE, TRUE, TRUE), d, TRUE, TRUE)
         /\ Switched(SetSPCR(d, TRUE, FALSE, FALSE), d, TRUE, FALSE)
         /\ Switched(SetSPCR(d, FALSE, FALSE, FALSE), d, FALSE, FALSE)
         /\ Switched(Reset(d), d, FALSE, FALSE)
<1>1. Switched(SetSPCR(d, TRUE, TRUE, TRUE), d, TRUE, TRUE)
  <2>1. PICK e : e = SetSPCR(d, TRUE, TRUE, TRUE)
    OBVIOUS
  <2> QED
    BY <2>1, SetSPCRFields
<1>2. Switched(SetSPCR(d, TRUE, FALSE, FALSE), d, TRUE, FALSE)
  <2>1. PICK e : e = SetSPCR(d, TRUE, FALSE, FALSE)
    OBVIOUS
  <2> QED
    BY <2>1, SetSPCRFields
<1>3. PICK e : e = SetSPCR(d, FALSE, FALSE, FALSE)
  OBVIOUS
<1>4. Switched(e, d, FALSE, FALSE)
  BY <1>3, SetSPCRFields
<1>5. Switched(Reset(d), d, FALSE, FALSE)
  <2>1. PICK f \in Flags, b \in Byte : f = {} /\ b = {}
    BY DEF Flags, Byte
  <2>2. PICK r : r = Reset(d)
    OBVIOUS
  <2>3. r = [e EXCEPT !.spsr = f, !.data_write = b, !.data_read = b, !.shift_in = b]
    BY <1>3, <2>1, <2>2 DEF Reset
  <2>4. Switched(r, d, FALSE, FALSE)
    BY <1>4, <2>3, InterfacesDef DEF Switched
  <2> QED
    BY <2>2, <2>4
<1> QED
  BY <1>1, <1>2, <1>3, <1>4, <1>5
-----------------------------------------------------------------------------
(* Both interfaces for themselves, and the time of the master's byte a.    *)
MasterRight(d, a) ==
  /\ Masterlike(d) /\ a \in Nat
  /\ IF Sends(d) THEN a + Rest(d.bitcnt, d.clkcnt) <= 18 * mode.clkdiv ELSE a = 0

SlaveRight(d) == Slavelike(d) /\ Fresh(d)

(* What follows for the fields of a master. *)
LEMMA MasterTypes ==
  ASSUME mode \in Modes, NEW d, NEW a, MasterRight(d, a)
  PROVE  /\ d \in Interfaces /\ d.bitcnt \in 0 .. 8 /\ d.clkcnt \in ClockCounts
         /\ Masterlike(d) /\ a \in Nat /\ mode.clkdiv \in Nat /\ mode.clkdiv >= 2
         /\ Sends(d) => /\ Rest(d.bitcnt, d.clkcnt) \in Nat
                        /\ a + Rest(d.bitcnt, d.clkcnt) <= 18 * mode.clkdiv
         /\ ~Sends(d) => a = 0
<1>1. d \in Interfaces /\ d.bitcnt \in 0 .. 8 /\ d.clkcnt \in ClockCounts
  BY InterfacesDef DEF MasterRight, Masterlike, BitCounts
<1>2. ASSUME Sends(d) PROVE Rest(d.bitcnt, d.clkcnt) \in Nat
  <2>1. d.bitcnt = 8 => Late(d.clkcnt)
    BY <1>1, <1>2 DEF MasterRight, Masterlike, Sends
  <2> QED
    BY <1>1, <2>1, RestBound
<1> QED
  BY <1>1, <1>2, ModeType DEF MasterRight

(* A cycle of m keeps its bound, *)
LEMMA MasterClockRight ==
  ASSUME mode \in Modes, m \in Interfaces, NEW d, NEW a, MasterRight(d, a),
         NEW select, select \in BOOLEAN, NEW e, e = CpuCycle(d, select)
  PROVE  MasterRight(e, IF Sends(e) THEN a + 1 ELSE 0)
<1>1. Masterlike(d) /\ a \in Nat /\ mode.clkdiv \in Nat
  BY MasterTypes
<1>2. /\ Masterlike(e)
      /\ Sends(e) => /\ Sends(d)
                     /\ Rest(e.bitcnt, e.clkcnt) + 1 <= Rest(d.bitcnt, d.clkcnt)
  BY <1>1, MasterClock
<1>3. CASE ~Sends(e)
  BY <1>2, <1>3 DEF MasterRight
<1>4. CASE Sends(e)
  <2>1. e.bitcnt \in 0 .. 8 /\ e.clkcnt \in ClockCounts
    BY <1>2, InterfacesDef DEF Masterlike, BitCounts
  <2>2. e.bitcnt = 8 => Late(e.clkcnt)
    BY <1>2, <1>4, <2>1 DEF Masterlike, Sends
  <2>3. PICK x \in Nat : x = Rest(e.bitcnt, e.clkcnt)
    BY <2>1, <2>2, RestBound
  <2>4. PICK y \in Nat : y = Rest(d.bitcnt, d.clkcnt) /\ a + y <= 18 * mode.clkdiv
    BY <1>2, <1>4, MasterTypes
  <2>5. x + 1 <= y
    BY <1>2, <1>4, <2>3, <2>4
  <2>6. a + 1 + x <= 18 * mode.clkdiv
    BY <1>1, <2>4, <2>5
  <2> QED
    BY <1>1, <1>2, <1>4, <2>3, <2>6 DEF MasterRight
<1> QED
  BY <1>3, <1>4

(* Where the count of a byte begins: there is room for all of it. *)
LEMMA MasterBegins ==
  ASSUME mode \in Modes, NEW e, Masterlike(e)
  PROVE  MasterRight(e, 0)
<1>1. e.bitcnt \in 0 .. 8 /\ e.clkcnt \in ClockCounts
  BY InterfacesDef DEF Masterlike, BitCounts
<1>2. CASE Sends(e)
  <2>1. e.bitcnt = 8 => Late(e.clkcnt)
    BY <1>1, <1>2 DEF Masterlike, Sends
  <2> QED
    BY <1>1, <1>2, <2>1, RestBound, ModeType DEF MasterRight
<1> QED
  BY <1>2 DEF MasterRight

(* as does what touches neither switches nor counters, *)
LEMMA MasterSame ==
  ASSUME mode \in Modes, NEW d, NEW a, MasterRight(d, a), NEW e, e \in Interfaces,
         e.SPE = d.SPE, e.MSTR = d.MSTR, e.bitcnt = d.bitcnt, e.finished = d.finished,
         e.clkcnt = d.clkcnt
  PROVE  MasterRight(e, a)
<1>1. Masterlike(e)
  BY DEF MasterRight, Masterlike
<1>2. Sends(e) <=> Sends(d)
  BY DEF Sends
<1> QED
  BY <1>1, <1>2 DEF MasterRight

(* a write of SPDR, which begins a byte or collides, *)
LEMMA MasterWritten ==
  ASSUME mode \in Modes, NEW d, NEW a, MasterRight(d, a), NEW v, NEW e, Written(e, d, v)
  PROVE  MasterRight(e, IF Sends(d) /\ ~(d.bitcnt = 8) THEN a ELSE 0)
<1>1. d \in Interfaces /\ d.bitcnt \in 0 .. 8 /\ Masterlike(d) /\ (~Sends(d) => a = 0)
  BY MasterTypes
<1>2. CASE d.MSTR /\ d.bitcnt = 8
  <2>1. e \in Interfaces /\ e.SPE /\ e.MSTR /\ ~e.finished
    BY <1>1, <1>2 DEF Written, Masterlike
  <2> QED
    BY <1>2, <2>1, MasterBegins DEF Masterlike
<1>3. CASE ~d.MSTR \/ d.bitcnt < 8
  <2>1. MasterRight(e, a)
    BY <1>3, MasterSame DEF Written
  <2>2. (IF Sends(d) /\ ~(d.bitcnt = 8) THEN a ELSE 0) = a
    BY <1>1, <1>3 DEF Sends
  <2> QED
    BY <2>1, <2>2
<1> QED
  BY <1>1, <1>2, <1>3

(* and a write of the control register. *)
LEMMA MasterSwitched ==
  ASSUME mode \in Modes, NEW d, NEW a, MasterRight(d, a), NEW e,
         Switched(e, d, TRUE, TRUE) \/ Switched(e, d, FALSE, FALSE)
  PROVE  MasterRight(e, 0)
<1>1. Masterlike(d)
  BY MasterTypes
<1>2. CASE Switched(e, d, TRUE, TRUE)
  BY <1>1, <1>2, MasterBegins DEF Switched, Masterlike
<1>3. CASE Switched(e, d, FALSE, FALSE)
  BY <1>1, <1>3, MasterBegins DEF Switched, Masterlike
<1> QED
  BY <1>2, <1>3

(* The same for the slave: what touches neither switches nor counters, *)
LEMMA SlaveSame ==
  ASSUME NEW d, SlaveRight(d), NEW e, e \in Interfaces, e.MSTR = d.MSTR, e.bitcnt = d.bitcnt,
         e.finished = d.finished, e.oldsck = d.oldsck, e.shift_in = d.shift_in
  PROVE  SlaveRight(e)
  BY DEF SlaveRight, Slavelike, Fresh

(* and a write of the control register. *)
LEMMA SlaveSwitched ==
  ASSUME NEW d, SlaveRight(d), NEW e,
         Switched(e, d, TRUE, FALSE) \/ Switched(e, d, FALSE, FALSE)
  PROVE  SlaveRight(e)
<1>1. CASE Switched(e, d, TRUE, FALSE)
  BY <1>1 DEF Switched, SlaveRight, Slavelike, Fresh
<1>2. CASE Switched(e, d, FALSE, FALSE)
  BY <1>2 DEF Switched, SlaveRight, Slavelike, Fresh
<1> QED
  BY <1>1, <1>2

(* The invariant of both. *)
SurroundingsOK ==
  /\ ss \in BOOLEAN /\ mss \in BOOLEAN /\ mode \in Modes /\ turn \in {"m", "s"}
  /\ sent \in [m : Byte, s : Byte] /\ clean \in BOOLEAN
  /\ writes \in 0 .. MaxWrites /\ events \in 0 .. MaxEvents

(* Together: *)
Inv == SurroundingsOK /\ MasterRight(m, age) /\ SlaveRight(s)

(* Both interfaces are switched on and idle at the beginning. *)
LEMMA InitInv == Init => Inv
<1> SUFFICES ASSUME Init PROVE Inv
  OBVIOUS
<1>1. mode \in Modes
  BY DEF Init
<1>2. NewInterface \in Interfaces
  <2>1. {} \in Flags /\ {} \in Byte /\ 8 \in BitCounts /\ 0 \in ClockCounts
    BY <1>1, ModeType DEF Flags, Byte, BitCounts, ClockCounts
  <2> QED
    BY <2>1, InterfacesDef DEF NewInterface
<1>3. PICK n \in Interfaces : n = NewInterface
  BY <1>2
<1>4. n.bitcnt = 8 /\ ~n.finished
  BY <1>3 DEF NewInterface
<1>5. Switched(m, n, TRUE, TRUE) /\ Switched(s, n, TRUE, FALSE)
  <2>1. m = SetSPCR(n, TRUE, TRUE, TRUE) /\ s = SetSPCR(n, TRUE, FALSE, FALSE)
    BY <1>3 DEF Init
  <2> QED
    BY <1>1, <2>1, ControlFields
<1>6. MasterRight(m, age)
  <2>1. Masterlike(m)
    BY <1>4, <1>5 DEF Switched, Masterlike
  <2>2. age = 0
    BY DEF Init
  <2> QED
    BY <1>1, <2>1, <2>2, MasterBegins
<1>7. SlaveRight(s)
  BY <1>4, <1>5 DEF Switched, SlaveRight, Slavelike, Fresh
<1>8. SurroundingsOK
  <2>1. 0 \in 0 .. MaxWrites /\ 0 \in 0 .. MaxEvents
    BY SpiAssumption
  <2>2. [m |-> {}, s |-> {}] \in [m : Byte, s : Byte]
    BY DEF Byte
  <2> QED
    BY <1>1, <2>1, <2>2 DEF Init, SurroundingsOK
<1> QED
  BY <1>6, <1>7, <1>8 DEF Inv

(* The clock mode never changes. *)
LEMMA SameMode ==
  ASSUME mode' = mode
  PROVE  /\ MasterRight(m', age') => MasterRight(m, age)'
         /\ SlaveRight(s') => SlaveRight(s)'
<1>1. MasterRight(m', age') => MasterRight(m, age)'
  BY DEF MasterRight, Masterlike, Sends, Rest, HalfLeft, Late, Interfaces
<1>2. SlaveRight(s') => SlaveRight(s)'
  BY DEF SlaveRight, Slavelike, Fresh, Interfaces
<1> QED
  BY <1>1, <1>2

(* What belongs to neither interface keeps its types. *)
LEMMA NextSurroundings ==
  ASSUME SurroundingsOK, m \in Interfaces, s \in Interfaces, [Next]_vars
  PROVE  SurroundingsOK' /\ mode' = mode
<1>0. MaxWrites \in Nat /\ MaxEvents \in Nat
  BY SpiAssumption
<1>1. CASE CycleM
  <2>1. clean' \in BOOLEAN
    BY <1>1 DEF CycleM, SurroundingsOK
  <2>2. sent' \in [m : Byte, s : Byte]
    BY <1>1, InterfacesDef DEF CycleM, SurroundingsOK
  <2> QED
    BY <1>1, <2>1, <2>2 DEF CycleM, SurroundingsOK
<1>2. CASE CycleS
  BY <1>2 DEF CycleS, SurroundingsOK
<1>3. CASE WriteM
  <2>1. clean' \in BOOLEAN
    BY <1>3 DEF WriteM, SurroundingsOK
  <2> QED
    BY <1>0, <1>3, <2>1 DEF WriteM, SurroundingsOK
<1>4. ASSUME Disturb, turn' = turn, mode' = mode, sent' = sent, writes' = writes,
             ss' \in BOOLEAN, mss' \in BOOLEAN
      PROVE  SurroundingsOK'
  <2>1. clean' \in BOOLEAN
    BY <1>4 DEF Disturb, SurroundingsOK
  <2>2. events' \in 0 .. MaxEvents
    BY <1>0, <1>4 DEF Disturb, SurroundingsOK
  <2> QED
    BY <1>4, <2>1, <2>2 DEF SurroundingsOK
<1>5. CASE WriteS
  BY <1>4, <1>5 DEF WriteS, SurroundingsOK
<1>6. CASE ReadM \/ ReadS \/ HandlerM
  BY <1>6 DEF ReadM, ReadS, HandlerM, SurroundingsOK
<1>7. CASE Select
  BY <1>4, <1>7 DEF Select, SurroundingsOK
<1>8. CASE PullMss
  BY <1>4, <1>8 DEF PullMss, SurroundingsOK
<1>9. CASE SetUpM
  BY <1>4, <1>9 DEF SetUpM, SurroundingsOK
<1>10. CASE SetUpS
  BY <1>4, <1>10 DEF SetUpS, SurroundingsOK
<1>11. CASE UNCHANGED vars
  BY <1>11 DEF vars, SurroundingsOK
<1> QED
  BY <1>1, <1>2, <1>3, <1>5, <1>6, <1>7, <1>8, <1>9, <1>10, <1>11 DEF Next

(* Every action keeps the invariant. *)
LEMMA NextInv == Inv /\ [Next]_vars => Inv'
<1> SUFFICES ASSUME Inv, [Next]_vars PROVE Inv'
  OBVIOUS
<1>1. /\ SurroundingsOK /\ MasterRight(m, age) /\ SlaveRight(s)
      /\ mode \in Modes /\ mss \in BOOLEAN /\ ss \in BOOLEAN
      /\ m \in Interfaces /\ s \in Interfaces
  BY DEF Inv, SurroundingsOK, MasterRight, Masterlike, SlaveRight, Slavelike
<1>2. SurroundingsOK' /\ mode' = mode
  BY <1>1, NextSurroundings
<1>3. Busy = Sends(m) /\ Busy' = Sends(m')
  BY DEF Busy, Drives, Sends
<1> SUFFICES MasterRight(m', age') /\ SlaveRight(s')
  BY <1>2, SameMode DEF Inv
<1>4. CASE CycleM
  <2>1. MasterRight(m', IF Sends(m') THEN age + 1 ELSE 0)
    BY <1>1, <1>4, MasterClockRight DEF CycleM
  <2> QED
    BY <1>1, <1>3, <1>4, <2>1 DEF CycleM
<1>5. CASE CycleS
  <2>1. Slavelike(s') /\ (Fresh(s) => Fresh(s'))
    BY <1>1, <1>5, SlaveClock DEF CycleS, SlaveRight
  <2> QED
    BY <1>1, <1>5, <2>1 DEF CycleS, SlaveRight
<1>6. CASE WriteM
  <2>1. PICK v \in Bytes : m' = SetSPDR(m, v)
    BY <1>6 DEF WriteM
  <2>2. v \in Byte
    BY SpiAssumption DEF Byte
  <2>3. Written(m', m, v)
    BY <1>1, <2>1, <2>2, SetSPDRFields
  <2>4. MasterRight(m', IF Sends(m) /\ ~(m.bitcnt = 8) THEN age ELSE 0)
    BY <1>1, <2>3, MasterWritten
  <2> QED
    BY <1>1, <1>3, <1>6, <2>4 DEF WriteM
<1>7. CASE WriteS
  <2>1. PICK v \in Bytes : s' = SetSPDR(s, v)
    BY <1>7 DEF WriteS
  <2>2. v \in Byte
    BY SpiAssumption DEF Byte
  <2>3. Written(s', s, v)
    BY <1>1, <2>1, <2>2, SetSPDRFields
  <2>4. SlaveRight(s')
    BY <1>1, <2>3, SlaveSame DEF Written, SlaveRight, Slavelike
  <2> QED
    BY <1>1, <1>7, <2>4 DEF WriteS
<1>8. CASE ReadM \/ HandlerM
  <2>1. Untouched(m', m)
    BY <1>1, <1>8, AccessFields DEF ReadM, HandlerM, GetSPDR
  <2>2. MasterRight(m', age)
    BY <1>1, <2>1, MasterSame DEF Untouched, Kept
  <2> QED
    BY <1>1, <1>8, <2>2 DEF ReadM, HandlerM
<1>9. CASE ReadS
  <2>1. PICK x : x = GetSPSR(s)
    OBVIOUS
  <2>2. Untouched(x, s)
    BY <1>1, <2>1, AccessFields
  <2>3. Untouched(s', x)
    BY <1>9, <2>1, <2>2, AccessFields DEF ReadS, GetSPDR, Untouched, Kept
  <2>4. SlaveRight(s')
    BY <1>1, <2>2, <2>3, SlaveSame DEF Untouched, Kept
  <2> QED
    BY <1>1, <1>9, <2>4 DEF ReadS
<1>10. CASE Select \/ PullMss
  BY <1>1, <1>10 DEF Select, PullMss
<1>11. CASE SetUpM
  <2>1. Switched(m', m, TRUE, TRUE) \/ Switched(m', m, FALSE, FALSE)
    BY <1>1, <1>11, ControlFields DEF SetUpM
  <2>2. MasterRight(m', 0)
    BY <1>1, <2>1, MasterSwitched
  <2> QED
    BY <1>1, <1>11, <2>2 DEF SetUpM
<1>12. CASE SetUpS
  <2>1. Switched(s', s, TRUE, FALSE) \/ Switched(s', s, FALSE, FALSE)
    BY <1>1, <1>12, ControlFields DEF SetUpS
  <2>2. SlaveRight(s')
    BY <1>1, <2>1, SlaveSwitched
  <2> QED
    BY <1>1, <1>12, <2>2 DEF SetUpS
<1>13. CASE UNCHANGED vars
  BY <1>1, <1>13 DEF vars
<1> QED
  BY <1>4, <1>5, <1>6, <1>7, <1>8, <1>9, <1>10, <1>11, <1>12, <1>13 DEF Next

(* It always holds. *)
LEMMA Invariance == Spec => []Inv
  BY InitInv, NextInv, PTL DEF Spec

(* The fields of HWSpi keep their types in master and slave, whatever the  *)
(* programs write and when; bitcnt never passes 8.                         *)
THEOREM TypeCorrect == Spec => []TypeOK
<1>1. Inv => TypeOK
  BY DEF Inv, SurroundingsOK, MasterRight, Masterlike, SlaveRight, Slavelike, TypeOK
<1> QED
  BY <1>1, Invariance, PTL

(* Every byte of a master ends within nine bits, whatever collides with it *)
(* or switches the interface in the middle of it.                          *)
THEOREM BytesEnd == Spec => []DoneInTime
<1>1. Inv => DoneInTime
  <2> SUFFICES ASSUME Inv PROVE age <= 18 * mode.clkdiv
    BY DEF DoneInTime
  <2>1. mode \in Modes /\ MasterRight(m, age)
    BY DEF Inv, SurroundingsOK
  <2>2. CASE Sends(m)
    <3>1. PICK x \in Nat : x = Rest(m.bitcnt, m.clkcnt) /\ age + x <= 18 * mode.clkdiv
      BY <2>1, <2>2, MasterTypes
    <3> QED
      BY <2>1, <3>1, MasterTypes
  <2>3. CASE ~Sends(m)
    BY <2>1, <2>3, MasterTypes
  <2> QED
    BY <2>2, <2>3
<1> QED
  BY <1>1, Invariance, PTL

-----------------------------------------------------------------------------
(* A byte that nobody disturbs.  The first n of its bits:                  *)
First(n, byte) == {p \in byte : \E k \in 0 .. 7 : k < n /\ p = Bitpos(k)}

(* None, all, and one more. *)
LEMMA FirstFacts ==
  ASSUME mode \in Modes, NEW byte \in Byte
  PROVE  /\ First(0, byte) = {}
         /\ First(8, byte) = byte
         /\ \A n \in 0 .. 7 : TakenFrom(First(n, byte), n, Has(n, byte)) = First(n + 1, byte)
<1>1. First(0, byte) = {}
  BY DEF First
<1>2. First(8, byte) = byte
  <2> SUFFICES ASSUME NEW p \in byte PROVE \E k \in 0 .. 7 : k < 8 /\ p = Bitpos(k)
    BY DEF First
  <2>1. p \in 0 .. 7
    BY DEF Byte
  <2>2. CASE mode.DORD
    BY <2>1, <2>2 DEF Bitpos
  <2>3. CASE ~mode.DORD
    <3>1. PICK k \in 0 .. 7 : k = 7 - p
      BY <2>1
    <3>2. p = Bitpos(k) /\ k < 8
      BY <2>1, <2>3, <3>1 DEF Bitpos
    <3> QED
      BY <3>2
  <2> QED
    BY <2>2, <2>3
<1>3. ASSUME NEW n \in 0 .. 7
      PROVE  TakenFrom(First(n, byte), n, Has(n, byte)) = First(n + 1, byte)
  <2>1. \A p \in First(n + 1, byte) : p \in First(n, byte) \/ (p = Bitpos(n) /\ Has(n, byte))
    BY DEF First, Has
  <2>2. First(n, byte) \subseteq First(n + 1, byte)
    BY DEF First
  <2>3. Has(n, byte) => Bitpos(n) \in First(n + 1, byte)
    BY DEF First, Has
  <2> QED
    BY <2>1, <2>2, <2>3 DEF TakenFrom
<1> QED
  BY <1>1, <1>2, <1>3

(* How many bits are shifted in after the leading edge of bit n - 1. *)
Taken(n) == IF mode.CPHA THEN n - 1 ELSE n

(* A master with byte x before the leading edge of its bit, and behind     *)
(* that of the bit before; y is the byte it receives.                      *)
MasterLeads(d, x, y) ==
  /\ d.bitcnt < 8 /\ d.clkcnt \in 1 .. mode.clkdiv
  /\ d.sck = mode.CPOL /\ d.shift_in = First(d.bitcnt, y)
  /\ mode.CPHA /\ d.bitcnt > 0 => d.mosi = Has(d.bitcnt - 1, x)
  /\ ~mode.CPHA => d.mosi = Has(d.bitcnt, x)
(* Behind the leading edge, before the trailing one: *)
MasterTrails(d, x, y) ==
  /\ d.bitcnt > 0 /\ Late(d.clkcnt)
  /\ d.sck = ~mode.CPOL /\ d.shift_in = First(Taken(d.bitcnt), y)
  /\ d.mosi = Has(d.bitcnt - 1, x)

(* The same for a slave with byte y, when n is the bit of the master. *)
SlaveLeads(e, n, x) ==
  /\ e.bitcnt = n /\ e.oldsck = mode.CPOL /\ e.shift_in = First(n, x)
(* Behind the leading edge of the bit: *)
SlaveTrails(e, n, x, y) ==
  /\ n > 0 /\ e.bitcnt = n - 1 /\ e.oldsck = ~mode.CPOL
  /\ e.shift_in = First(Taken(n), x)
  /\ mode.CPHA => e.miso = Has(n - 1, y)

(* A slave between two bytes. *)
Waits(e) == e.bitcnt = 8 \/ (e.bitcnt = 0 /\ e.oldsck = mode.CPOL)

(* Master d sends x, slave e sends y: before the clock of the master the   *)
(* slave has seen the last edge,                                           *)
Exchanging(d, e, x, y) ==
  /\ d.SPE /\ d.MSTR /\ d.finished = (d.bitcnt = 8) /\ d.data_write = x
  /\ e.SPE /\ ~ss /\ e.data_write = y
BeforeMaster(d, e, x, y) ==
  /\ Exchanging(d, e, x, y)
  /\ \/ /\ MasterLeads(d, x, y) /\ SlaveLeads(e, d.bitcnt, x)
        /\ ~mode.CPHA /\ d.clkcnt > 1 => e.miso = Has(d.bitcnt, y)
     \/ MasterTrails(d, x, y) /\ SlaveTrails(e, d.bitcnt, x, y)

(* and before the clock of the slave an edge of this cycle is still to     *)
(* come, as is the first cycle of the byte.                                *)
BeforeSlave(d, e, x, y) ==
  /\ Exchanging(d, e, x, y)
  /\ \/ MasterLeads(d, x, y) /\ d.clkcnt = 1 /\ d.bitcnt = 0 /\ Waits(e)
     \/ MasterLeads(d, x, y) /\ d.clkcnt = 1 /\ SlaveTrails(e, d.bitcnt, x, y)
     \/ MasterLeads(d, x, y) /\ d.clkcnt > 1 /\ SlaveLeads(e, d.bitcnt, x)
     \/ MasterTrails(d, x, y) /\ d.clkcnt = mode.clkdiv + 1 /\ SlaveLeads(e, d.bitcnt - 1, x)
     \/ MasterTrails(d, x, y) /\ d.clkcnt # mode.clkdiv + 1 /\ SlaveTrails(e, d.bitcnt, x, y)

(* No byte is under way, or it has not begun. *)
Rests(d) ==
  /\ d.SPE /\ d.MSTR => d.sck = mode.CPOL
  /\ Sends(d) => d.bitcnt = 0 /\ d.clkcnt = 0
  /\ ~Sends(d) => d.bitcnt = 8

(* The last edge has still to reach the slave. *)
Ends(d, e, x, y) ==
  /\ d.SPE /\ d.MSTR /\ e.SPE /\ ~ss
  /\ SlaveTrails(e, 8, x, y)
  /\ mode.CPHA => d.mosi = Has(7, x)

(* Both together before a cycle of the master, and before one of the slave; *)
LinkedM(d, e, x, y) == BeforeMaster(d, e, x, y) \/ (Rests(d) /\ Waits(e))
LinkedS(d, e, x, y) == BeforeSlave(d, e, x, y) \/ (Rests(d) /\ (Waits(e) \/ Ends(d, e, x, y)))

(* that is so as long as nobody has disturbed the byte. *)
Linked ==
  clean => IF turn = "m" THEN LinkedM(m, s, sent.m, sent.s) ELSE mss /\ LinkedS(m, s, sent.m, sent.s)

(* Where the clock goes from the edges and from between them. *)
LEMMA NextClockFacts ==
  ASSUME mode \in Modes, NEW c \in ClockCounts
  PROVE  /\ c \in Nat /\ mode.clkdiv \in Nat /\ mode.clkdiv >= 2
         /\ c = 0 => NextClock(c) = 1
         /\ 0 < c /\ c < mode.clkdiv => NextClock(c) = c + 1
         /\ c = mode.clkdiv => NextClock(c) = mode.clkdiv + 1
         /\ c > mode.clkdiv => Late(NextClock(c)) /\ NextClock(c) # mode.clkdiv + 1
<1>1. PICK k \in Nat : k = mode.clkdiv /\ k >= 2
  BY ModeType
<1>2. c \in 0 .. 2 * k - 1
  BY <1>1 DEF ClockCounts
<1>3. NextClock(c) = IF c = 2 * k - 1 THEN 0 ELSE c + 1
  BY <1>1 DEF NextClock
<1>4. c > k => Late(NextClock(c)) /\ NextClock(c) # k + 1
  BY <1>1, <1>2, <1>3 DEF Late
<1> QED
  BY <1>1, <1>2, <1>3, <1>4

(* A cycle of the master in an undisturbed byte: between the edges, *)
LEMMA MasterCounts ==
  ASSUME mode \in Modes, m \in Interfaces, NEW x, NEW y, BeforeMaster(m, s, x, y),
         m.clkcnt # 0, m.clkcnt # mode.clkdiv, NEW e, e = CpuCycle(m, TRUE)
  PROVE  BeforeSlave(e, s, x, y)
<1>1. Exchanging(m, s, x, y)
  BY DEF BeforeMaster
<1>2. Ticked(e, m)
  BY <1>1, MasterStill DEF Exchanging
<1>3. PICK c \in ClockCounts : c = m.clkcnt
  BY InterfacesDef
<1>4. e.clkcnt = NextClock(c)
  BY <1>2, <1>3 DEF Ticked
<1>5. Exchanging(e, s, x, y)
  <2>1. /\ e.SPE = m.SPE /\ e.MSTR = m.MSTR /\ e.finished = m.finished /\ e.bitcnt = m.bitcnt
        /\ e.data_write = m.data_write
    BY <1>2 DEF Ticked, Kept
  <2> QED
    BY <1>1, <2>1 DEF Exchanging
<1>6. CASE MasterLeads(m, x, y) /\ SlaveLeads(s, m.bitcnt, x)
  <2>1. e.clkcnt > 1 /\ e.clkcnt \in 1 .. mode.clkdiv
    <3>1. 0 < c /\ c < mode.clkdiv
      BY <1>3, <1>6, NextClockFacts DEF MasterLeads
    <3>2. PICK k \in Nat : k = mode.clkdiv
      BY ModeType
    <3>3. c \in Nat /\ c + 1 > 1 /\ c + 1 \in 1 .. k
      BY <3>1, <3>2, NextClockFacts
    <3>4. e.clkcnt = c + 1
      BY <1>4, <3>1, NextClockFacts
    <3> QED
      BY ONLY <3>2, <3>3, <3>4
  <2>2. MasterLeads(e, x, y)
    BY <1>2, <1>6, <2>1 DEF MasterLeads, Ticked
  <2>3. e.bitcnt = m.bitcnt
    BY <1>2 DEF Ticked
  <2> QED
    BY <1>5, <1>6, <2>1, <2>2, <2>3 DEF BeforeSlave
<1>7. CASE MasterTrails(m, x, y) /\ SlaveTrails(s, m.bitcnt, x, y)
  <2>1. Late(e.clkcnt) /\ e.clkcnt # mode.clkdiv + 1
    <3>1. c > mode.clkdiv
      BY <1>3, <1>7 DEF MasterTrails, Late
    <3> QED
      BY <1>3, <1>4, <3>1, NextClockFacts
  <2>2. MasterTrails(e, x, y)
    BY <1>2, <1>7, <2>1 DEF MasterTrails, Ticked
  <2>3. e.bitcnt = m.bitcnt
    BY <1>2 DEF Ticked
  <2> QED
    BY <1>5, <1>7, <2>1, <2>2, <2>3 DEF BeforeSlave
<1> QED
  BY <1>6, <1>7 DEF BeforeMaster

(* at a leading edge, *)
LEMMA MasterRaises ==
  ASSUME mode \in Modes, m \in Interfaces, NEW x, NEW y \in Byte, BeforeMaster(m, s, x, y),
         m.clkcnt = mode.clkdiv, NEW e, e = CpuCycle(m, TRUE)
  PROVE  BeforeSlave(e, s, x, y)
<1>1. Exchanging(m, s, x, y)
  BY DEF BeforeMaster
<1>2. PICK k \in Nat : k = mode.clkdiv /\ k >= 2
  BY ModeType
<1>3. MasterLeads(m, x, y) /\ SlaveLeads(s, m.bitcnt, x) /\ (~mode.CPHA => s.miso = Has(m.bitcnt, y))
  BY <1>2 DEF BeforeMaster, MasterTrails, Late
<1>4. PICK n \in 0 .. 7 : n = m.bitcnt
  BY <1>3, InterfacesDef DEF MasterLeads, BitCounts
<1>5. AfterMasterLeading(e, m)
  BY <1>1, <1>3, MasterAtLeading DEF Exchanging, MasterLeads
<1>6. e.bitcnt = n + 1
  BY <1>4, <1>5 DEF AfterMasterLeading
<1>7. Exchanging(e, s, x, y)
  BY <1>1, <1>5 DEF AfterMasterLeading, Kept, Exchanging
<1>8. e.clkcnt = k + 1
  <2>1. PICK c \in ClockCounts : c = m.clkcnt
    BY InterfacesDef
  <2>2. e.clkcnt = NextClock(c)
    BY <1>5, <2>1 DEF AfterMasterLeading
  <2> QED
    BY <1>2, <2>1, <2>2, NextClockFacts
<1>9. e.shift_in = First(Taken(n + 1), y)
  <2>1. (IF n = 0 THEN {} ELSE m.shift_in) = First(n, y)
    BY <1>3, <1>4, FirstFacts DEF MasterLeads
  <2>2. CASE mode.CPHA
    <3>1. e.shift_in = First(n, y)
      BY <1>4, <1>5, <2>1, <2>2 DEF AfterMasterLeading
    <3>2. Taken(n + 1) = n
      BY <2>2 DEF Taken
    <3> QED
      BY <3>1, <3>2
  <2>3. CASE ~mode.CPHA
    <3>1. MisoLine = Has(n, y)
      BY <1>1, <1>3, <1>4, <2>3 DEF MisoLine, Exchanging
    <3>2. e.shift_in = TakenFrom(First(n, y), n, MisoLine)
      BY <1>4, <1>5, <2>1, <2>3 DEF AfterMasterLeading
    <3>3. Taken(n + 1) = n + 1
      BY <2>3 DEF Taken
    <3> QED
      BY <3>1, <3>2, <3>3, FirstFacts
  <2> QED
    BY <2>2, <2>3
<1>10. e.mosi = Has(n, x)
  BY <1>1, <1>3, <1>4, <1>5 DEF AfterMasterLeading, MasterLeads, Exchanging
<1>11. MasterTrails(e, x, y)
  <2>1. e.sck = ~mode.CPOL
    BY <1>5 DEF AfterMasterLeading
  <2>2. e.bitcnt > 0 /\ e.bitcnt - 1 = n
    <3>1. n + 1 > 0 /\ n + 1 - 1 = n
      BY <1>4
    <3> QED
      BY ONLY <1>6, <3>1
  <2>3. Late(e.clkcnt)
    <3>1. k + 1 > k
      BY <1>2
    <3> QED
      BY <1>2, <1>8, <3>1 DEF Late
  <2> QED
    BY <1>6, <1>9, <1>10, <2>1, <2>2, <2>3 DEF MasterTrails
<1>12. SlaveLeads(s, e.bitcnt - 1, x)
  <2>1. e.bitcnt - 1 = m.bitcnt
    <3>1. n + 1 - 1 = n /\ n = m.bitcnt
      BY <1>4
    <3> QED
      BY ONLY <1>6, <3>1
  <2> QED
    BY <1>3, <2>1
<1> QED
  BY <1>2, <1>7, <1>8, <1>11, <1>12 DEF BeforeSlave

(* at a trailing edge, *)
LEMMA MasterFalls ==
  ASSUME mode \in Modes, m \in Interfaces, NEW x, NEW y \in Byte, BeforeMaster(m, s, x, y),
         m.clkcnt = 0, m.bitcnt # 8, NEW e, e = CpuCycle(m, TRUE)
  PROVE  BeforeSlave(e, s, x, y)
<1>1. Exchanging(m, s, x, y)
  BY DEF BeforeMaster
<1>2. PICK k \in Nat : k = mode.clkdiv /\ k >= 2
  BY ModeType
<1>3. MasterTrails(m, x, y) /\ SlaveTrails(s, m.bitcnt, x, y)
  BY <1>2 DEF BeforeMaster, MasterLeads
<1>4. PICK n \in 1 .. 7 : n = m.bitcnt
  BY <1>3, InterfacesDef DEF MasterTrails, BitCounts
<1>5. AfterMasterTrailing(e, m)
  <2>1. m.SPE /\ m.MSTR /\ m.bitcnt < 8
    BY <1>1, <1>4 DEF Exchanging
  <2> QED
    BY <2>1, MasterAtTrailing
<1>6. e.SPE /\ e.MSTR /\ e.data_write = x /\ e.bitcnt = n /\ ~e.finished
  BY <1>1, <1>4, <1>5 DEF AfterMasterTrailing, Kept, Exchanging
<1>7. Exchanging(e, s, x, y)
  <2>1. e.finished = FALSE
    BY <1>5, InterfacesDef DEF AfterMasterTrailing, Kept
  <2>2. (e.bitcnt = 8) = FALSE
    BY <1>4, <1>6
  <2> QED
    BY <1>1, <1>6, <2>1, <2>2 DEF Exchanging
<1>8. e.clkcnt = 1
  <2>1. PICK c \in ClockCounts : c = m.clkcnt
    BY InterfacesDef
  <2>2. e.clkcnt = NextClock(c)
    BY <1>5, <2>1 DEF AfterMasterTrailing
  <2> QED
    BY <2>1, <2>2, NextClockFacts
<1>9. e.shift_in = First(n, y)
  <2>1. CASE mode.CPHA
    <3>1. MisoLine = Has(n - 1, y)
      BY <1>1, <1>3, <1>4, <2>1 DEF MisoLine, Exchanging, SlaveTrails
    <3>2. m.shift_in = First(n - 1, y)
      BY <1>3, <1>4, <2>1 DEF MasterTrails, Taken
    <3>3. e.shift_in = TakenFrom(m.shift_in, n - 1, MisoLine)
      <4>1. m.bitcnt # 0 /\ m.bitcnt - 1 = n - 1
        BY <1>4
      <4> QED
        BY <1>5, <2>1, <4>1 DEF AfterMasterTrailing
    <3>4. PICK j \in 0 .. 7 : j = n - 1
      BY <1>4
    <3>5. TakenFrom(First(j, y), j, Has(j, y)) = First(j + 1, y)
      BY FirstFacts
    <3>6. j + 1 = n /\ n - 1 = j
      BY <1>4, <3>4
    <3> QED
      BY <3>1, <3>2, <3>3, <3>5, <3>6
  <2>2. CASE ~mode.CPHA
    <3>1. m.bitcnt # 0
      BY <1>4
    <3>2. e.shift_in = m.shift_in
      BY <1>5, <2>2, <3>1 DEF AfterMasterTrailing
    <3> QED
      BY <1>3, <1>4, <2>2, <3>2 DEF MasterTrails, Taken
  <2> QED
    BY <2>1, <2>2
<1>10. MasterLeads(e, x, y)
  <2>1. e.sck = mode.CPOL
    BY <1>5 DEF AfterMasterTrailing
  <2>2. mode.CPHA => e.mosi = Has(n - 1, x)
    BY <1>3, <1>4, <1>5 DEF AfterMasterTrailing, MasterTrails
  <2>3. ~mode.CPHA => e.mosi = Has(n, x)
    BY <1>1, <1>4, <1>5 DEF AfterMasterTrailing, Exchanging
  <2>4. e.bitcnt < 8 /\ e.clkcnt \in 1 .. mode.clkdiv
    <3>1. e.bitcnt < 8
      <4>1. e.bitcnt = n
        BY <1>6
      <4>2. n < 8
        BY <1>4
      <4> QED
        BY ONLY <4>1, <4>2
    <3>2. 1 \in 1 .. k
      BY <1>2
    <3> QED
      BY <1>2, <1>8, <3>1, <3>2
  <2> QED
    BY <1>6, <1>9, <2>1, <2>2, <2>3, <2>4 DEF MasterLeads
<1> QED
  BY <1>3, <1>4, <1>6, <1>7, <1>8, <1>10 DEF BeforeSlave

(* and at the end of the byte. *)
LEMMA MasterStops ==
  ASSUME mode \in Modes, m \in Interfaces, NEW x, NEW y \in Byte, BeforeMaster(m, s, x, y),
         m.clkcnt = 0, m.bitcnt = 8, NEW e, e = CpuCycle(m, TRUE)
  PROVE  Rests(e) /\ Ends(e, s, x, y) /\ e.data_read = y
<1>1. Exchanging(m, s, x, y)
  BY DEF BeforeMaster
<1>2. MasterTrails(m, x, y) /\ SlaveTrails(s, 8, x, y)
  BY DEF BeforeMaster, MasterLeads
<1>3. m.SPE /\ m.MSTR /\ m.finished
  BY <1>1 DEF Exchanging
<1>4. AfterMasterEnd(e, m)
  BY <1>3, MasterAtEnd
<1>5. e.SPE /\ e.MSTR /\ e.bitcnt = 8 /\ ~e.finished /\ e.sck = mode.CPOL
  BY <1>3, <1>4 DEF AfterMasterEnd
<1>6. Rests(e)
  <2>1. ~(e.bitcnt < 8)
    <3>1. e.bitcnt = 8
      BY <1>5
    <3> QED
      BY ONLY <3>1
  <2>2. ~Sends(e)
    BY <1>5, <2>1 DEF Sends
  <2> QED
    BY <1>5, <2>2 DEF Rests
<1>7. Ends(e, s, x, y)
  <2>1. s.SPE /\ ~ss
    BY <1>1 DEF Exchanging
  <2>2. mode.CPHA => e.mosi = Has(7, x)
    <3>1. m.mosi = Has(8 - 1, x) /\ 8 - 1 = 7
      BY <1>2 DEF MasterTrails
    <3> QED
      BY <1>4, <3>1 DEF AfterMasterEnd
  <2> QED
    BY <1>2, <1>5, <2>1, <2>2 DEF Ends
<1>8. e.data_read = y
  <2>1. CASE mode.CPHA
    <3>1. MisoLine = Has(7, y)
      BY <1>1, <1>2, <2>1 DEF MisoLine, Exchanging, SlaveTrails
    <3>2. m.shift_in = First(7, y)
      BY <1>2, <2>1 DEF MasterTrails, Taken
    <3>3. e.data_read = TakenFrom(First(7, y), 7, Has(7, y))
      BY <1>4, <2>1, <3>1, <3>2 DEF AfterMasterEnd
    <3>4. PICK j \in 0 .. 7 : j = 7 /\ j + 1 = 8
      OBVIOUS
    <3>5. TakenFrom(First(j, y), j, Has(j, y)) = First(j + 1, y) /\ First(8, y) = y
      BY FirstFacts
    <3> QED
      BY <3>3, <3>4, <3>5
  <2>2. CASE ~mode.CPHA
    <3>1. m.shift_in = First(8, y)
      BY <1>2, <2>2 DEF MasterTrails, Taken
    <3> QED
      BY <1>4, <2>2, <3>1, FirstFacts DEF AfterMasterEnd
  <2> QED
    BY <2>1, <2>2
<1> QED
  BY <1>6, <1>7, <1>8

(* The first cycle of a byte, *)
LEMMA MasterStarts ==
  ASSUME mode \in Modes, m \in Interfaces, m.SPE, m.MSTR, m.bitcnt = 0, m.clkcnt = 0,
         s \in Interfaces, s.SPE, ~ss, Waits(s),
         NEW e, e = CpuCycle(m, TRUE)
  PROVE  BeforeSlave(e, s, m.data_write, s.data_write)
<1>1. PICK x \in Byte, y \in Byte : x = m.data_write /\ y = s.data_write
  BY InterfacesDef
<1>2. AfterMasterTrailing(e, m)
  <2>1. m.bitcnt < 8
    <3>1. 0 < 8
      OBVIOUS
    <3> QED
      BY ONLY <3>1, m.bitcnt = 0
  <2> QED
    BY <2>1, MasterAtTrailing
<1>3. e.SPE /\ e.MSTR /\ e.data_write = x /\ e.bitcnt = 0 /\ e.sck = mode.CPOL
  BY <1>1, <1>2 DEF AfterMasterTrailing, Kept
<1>4. Exchanging(e, s, x, y)
  <2>1. e.finished = FALSE
    BY <1>2, InterfacesDef DEF AfterMasterTrailing, Kept
  <2>2. (e.bitcnt = 8) = FALSE
    <3>1. e.bitcnt = 0
      BY <1>3
    <3>2. (0 = 8) = FALSE
      OBVIOUS
    <3> QED
      BY ONLY <3>1, <3>2
  <2> QED
    BY <1>1, <1>3, <2>1, <2>2 DEF Exchanging
<1>5. e.clkcnt = 1
  <2>1. PICK c \in ClockCounts : c = m.clkcnt
    BY InterfacesDef
  <2>2. e.clkcnt = NextClock(c)
    BY <1>2, <2>1 DEF AfterMasterTrailing
  <2> QED
    BY <2>1, <2>2, NextClockFacts
<1>6. e.shift_in = First(0, y)
  BY <1>2, FirstFacts DEF AfterMasterTrailing
<1>7. e.bitcnt < 8 /\ ~(e.bitcnt > 0)
  <2>1. 0 < 8 /\ ~(0 > 0)
    OBVIOUS
  <2>2. e.bitcnt = 0
    BY <1>3
  <2> QED
    BY ONLY <2>1, <2>2
<1>8. ~mode.CPHA => e.mosi = Has(0, x)
  BY <1>1, <1>2 DEF AfterMasterTrailing
<1>9. e.clkcnt \in 1 .. mode.clkdiv
  <2>1. PICK k \in Nat : k = mode.clkdiv /\ k >= 2
    BY ModeType
  <2>2. 1 \in 1 .. k
    BY <2>1
  <2> QED
    BY <1>5, <2>1, <2>2
<1>10. MasterLeads(e, x, y)
  BY <1>3, <1>6, <1>7, <1>8, <1>9 DEF MasterLeads
<1> QED
  BY <1>1, <1>3, <1>4, <1>5, <1>10 DEF BeforeSlave

(* and a master that is not at one. *)
LEMMA MasterRests ==
  ASSUME mode \in Modes, m \in Interfaces, Masterlike(m), Rests(m),
         ~(m.SPE /\ m.MSTR /\ m.bitcnt = 0 /\ m.clkcnt = 0),
         NEW e, e = CpuCycle(m, TRUE)
  PROVE  Rests(e)
<1>1. ~Sends(m) /\ m.bitcnt = 8
  BY DEF Rests, Sends
<1>2. CASE ~m.SPE
  BY <1>2 DEF CpuCycle
<1>3. CASE m.SPE /\ ~m.MSTR
  <2>1. PICK f : f = SlaveCycle(m, TRUE, SckLine, MosiLine)
    OBVIOUS
  <2>2. Selected(f, m)
    BY <2>1, SlaveSelect
  <2>3. e = Clocked(f)
    BY <1>3, <2>1 DEF CpuCycle
  <2>4. Ticked(e, f)
    BY <2>2, <2>3, ClockedFields DEF Selected, Kept
  <2>5. e.bitcnt = 8 /\ ~e.MSTR
    BY <1>3, <2>2, <2>4 DEF Selected, Ticked, Kept
  <2> QED
    BY <2>5 DEF Rests, Sends
<1>4. CASE m.SPE /\ m.MSTR
  <2>1. ~m.finished
    BY <1>1, <1>4 DEF Sends
  <2>2. Ticked(e, m)
    BY <1>1, <1>4, <2>1, MasterStill
  <2>3. e.bitcnt = m.bitcnt /\ ~e.finished /\ e.sck = m.sck /\ e.SPE /\ e.MSTR
    BY <1>4, <2>1, <2>2 DEF Ticked, Kept
  <2>4. e.sck = mode.CPOL
    BY <1>4, <2>3 DEF Rests
  <2>5. ~Sends(e)
    BY <1>1, <1>4, <2>3 DEF Sends
  <2> QED
    BY <1>1, <2>3, <2>4, <2>5 DEF Rests
<1> QED
  BY <1>2, <1>3, <1>4

(* A cycle of the slave. *)
LEMMA SlaveClocked ==
  ASSUME mode \in Modes, m \in Interfaces, m.SPE, m.MSTR, SlaveRight(s), s.SPE, ~ss,
         NEW f \in Interfaces, f = SlaveCycle(s, FALSE, m.sck, m.mosi),
         NEW e, e = CpuCycle(s, ss)
  PROVE  Ticked(e, f)
<1>1. SckLine = m.sck /\ MosiLine = m.mosi
  BY DEF SckLine, MosiLine, Drives
<1>2. ~s.MSTR
  BY DEF SlaveRight, Slavelike
<1>3. SlaveCycle(s, ss, m.sck, m.mosi) = f
  BY DEF SlaveCycle
<1>4. e = Clocked(f)
  BY <1>1, <1>2, <1>3 DEF CpuCycle
<1> QED
  BY <1>4, ClockedFields

(* What the count of the clock leaves as it is. *)
LEMMA TickedFollows ==
  ASSUME NEW x, NEW y, NEW f, NEW e, Ticked(e, f), BeforeMaster(m, f, x, y)
  PROVE  BeforeMaster(m, e, x, y)
<1>1. /\ e.SPE = f.SPE /\ e.data_write = f.data_write /\ e.bitcnt = f.bitcnt
      /\ e.oldsck = f.oldsck /\ e.shift_in = f.shift_in /\ e.miso = f.miso
  BY DEF Ticked, Kept
<1>2. Exchanging(m, e, x, y)
  BY <1>1 DEF BeforeMaster, Exchanging
<1>3. SlaveLeads(f, m.bitcnt, x) => SlaveLeads(e, m.bitcnt, x)
  BY <1>1 DEF SlaveLeads
<1>4. SlaveTrails(f, m.bitcnt, x, y) => SlaveTrails(e, m.bitcnt, x, y)
  BY <1>1 DEF SlaveTrails
<1> QED
  BY <1>1, <1>2, <1>3, <1>4 DEF BeforeMaster

(* The slave begins its byte, *)
LEMMA SlaveStarts ==
  ASSUME mode \in Modes, m \in Interfaces, SlaveRight(s), NEW x \in Byte, NEW y,
         Exchanging(m, s, x, y), MasterLeads(m, x, y), m.clkcnt = 1, m.bitcnt = 0, Waits(s),
         NEW f, f = SlaveCycle(s, FALSE, m.sck, m.mosi)
  PROVE  f \in Interfaces /\ BeforeMaster(m, f, x, y)
<1>1. s \in Interfaces /\ ~s.MSTR /\ ~s.finished /\ m.sck \in BOOLEAN /\ m.sck = mode.CPOL
  BY InterfacesDef DEF SlaveRight, Slavelike, MasterLeads
<1>2. Stilled(f, s, m.sck)
  BY <1>1, SlaveStill DEF Waits
<1>3. f.bitcnt = 0 /\ f.oldsck = mode.CPOL
  BY <1>1, <1>2 DEF Stilled, Waits
<1>4. f.shift_in = First(0, x)
  BY <1>2, FirstFacts DEF Stilled, Waits, SlaveRight, Fresh
<1>5. SlaveLeads(f, m.bitcnt, x)
  BY <1>3, <1>4 DEF SlaveLeads
<1>6. Exchanging(m, f, x, y) /\ f \in Interfaces
  BY <1>2 DEF Stilled, Kept, Exchanging
<1>7. ~(m.clkcnt > 1)
  <2>1. ~(1 > 1)
    OBVIOUS
  <2> QED
    BY ONLY <2>1, m.clkcnt = 1
<1> QED
  BY <1>5, <1>6, <1>7 DEF BeforeMaster

(* waits for an edge, *)
LEMMA SlaveHolds ==
  ASSUME mode \in Modes, m \in Interfaces, SlaveRight(s), NEW x \in Byte, NEW y,
         Exchanging(m, s, x, y), MasterLeads(m, x, y), SlaveLeads(s, m.bitcnt, x),
         NEW f, f = SlaveCycle(s, FALSE, m.sck, m.mosi)
  PROVE  f \in Interfaces /\ BeforeMaster(m, f, x, y)
<1>1. s \in Interfaces /\ ~s.MSTR /\ ~s.finished /\ m.sck \in BOOLEAN /\ m.sck = mode.CPOL
      /\ s.oldsck = mode.CPOL
  BY InterfacesDef DEF SlaveRight, Slavelike, MasterLeads, SlaveLeads
<1>2. Stilled(f, s, m.sck)
  BY <1>1, SlaveStill
<1>3. s.bitcnt # 8 /\ s.bitcnt = m.bitcnt
  <2>1. PICK n : n = m.bitcnt
    OBVIOUS
  <2>2. n < 8 /\ s.bitcnt = n
    BY <2>1 DEF MasterLeads, SlaveLeads
  <2>3. ~(8 < 8)
    OBVIOUS
  <2>4. n # 8
    BY ONLY <2>2, <2>3
  <2> QED
    BY <2>1, <2>2, <2>4
<1>4. SlaveLeads(f, m.bitcnt, x)
  BY <1>1, <1>2, <1>3 DEF SlaveLeads, Stilled
<1>5. Exchanging(m, f, x, y) /\ f \in Interfaces
  BY <1>2 DEF Stilled, Kept, Exchanging
<1>6. ~mode.CPHA => f.miso = Has(m.bitcnt, y)
  BY <1>2, <1>3 DEF Stilled, Exchanging
<1> QED
  BY <1>4, <1>5, <1>6 DEF BeforeMaster

(* also behind a leading edge, *)
LEMMA SlaveHoldsOn ==
  ASSUME mode \in Modes, m \in Interfaces, SlaveRight(s), NEW x \in Byte, NEW y,
         Exchanging(m, s, x, y), MasterTrails(m, x, y), SlaveTrails(s, m.bitcnt, x, y),
         NEW f, f = SlaveCycle(s, FALSE, m.sck, m.mosi)
  PROVE  f \in Interfaces /\ BeforeMaster(m, f, x, y)
<1>1. s \in Interfaces /\ ~s.MSTR /\ ~s.finished /\ m.sck \in BOOLEAN /\ s.oldsck = m.sck
  BY InterfacesDef DEF SlaveRight, Slavelike, MasterTrails, SlaveTrails
<1>2. Stilled(f, s, m.sck)
  BY <1>1, SlaveStill
<1>3. s.bitcnt # 8
  <2>1. PICK n \in 0 .. 8 : n = m.bitcnt
    BY InterfacesDef DEF BitCounts
  <2>2. s.bitcnt = n - 1
    BY <2>1 DEF SlaveTrails
  <2>3. n - 1 # 8
    BY <2>1
  <2> QED
    BY ONLY <2>2, <2>3
<1>4. SlaveTrails(f, m.bitcnt, x, y)
  BY <1>1, <1>2, <1>3 DEF SlaveTrails, Stilled, MasterTrails
<1>5. Exchanging(m, f, x, y) /\ f \in Interfaces
  BY <1>2 DEF Stilled, Kept, Exchanging
<1> QED
  BY <1>4, <1>5 DEF BeforeMaster

(* sees the leading edge, *)
LEMMA SlaveRises ==
  ASSUME mode \in Modes, m \in Interfaces, SlaveRight(s), NEW x \in Byte, NEW y,
         Exchanging(m, s, x, y), MasterTrails(m, x, y), SlaveLeads(s, m.bitcnt - 1, x),
         NEW f, f = SlaveCycle(s, FALSE, m.sck, m.mosi)
  PROVE  f \in Interfaces /\ BeforeMaster(m, f, x, y)
<1>1. /\ s \in Interfaces /\ ~s.MSTR /\ ~s.finished /\ m.sck \in BOOLEAN /\ s.oldsck # m.sck
      /\ m.sck # mode.CPOL /\ m.sck = ~mode.CPOL
  BY InterfacesDef, ModeType DEF SlaveRight, Slavelike, MasterTrails, SlaveLeads
<1>2. PICK n \in 1 .. 8, j \in 0 .. 7 : n = m.bitcnt /\ j = n - 1
  <2>1. PICK n \in 0 .. 8 : n = m.bitcnt
    BY InterfacesDef DEF BitCounts
  <2>2. n > 0
    BY <2>1 DEF MasterTrails
  <2>3. n \in 1 .. 8 /\ n - 1 \in 0 .. 7
    BY <2>1, <2>2
  <2> QED
    BY <2>1, <2>3
<1>3. s.bitcnt = j /\ s.shift_in = First(j, x) /\ m.mosi = Has(j, x)
  BY <1>2 DEF SlaveLeads, MasterTrails
<1>4. j # 8 /\ j + 1 = n /\ n > 0
  BY <1>2
<1>5. AfterLeading(f, s, m.sck, m.mosi)
  <2>1. s.bitcnt # 8
    BY <1>3, <1>4
  <2> QED
    BY <1>1, <2>1, SlaveAtLeading
<1>6. f.shift_in = First(Taken(n), x)
  <2>1. CASE mode.CPHA
    BY <1>2, <1>3, <1>5, <2>1 DEF AfterLeading, Taken
  <2>2. CASE ~mode.CPHA
    <3>1. f.shift_in = TakenFrom(First(j, x), j, Has(j, x))
      BY <1>3, <1>5, <2>2 DEF AfterLeading
    <3>2. f.shift_in = First(j + 1, x)
      BY <3>1, FirstFacts
    <3> QED
      BY <1>4, <2>2, <3>2 DEF Taken
  <2> QED
    BY <2>1, <2>2
<1>7. mode.CPHA => f.miso = Has(j, y)
  BY <1>3, <1>5 DEF AfterLeading, Exchanging
<1>8. f.bitcnt = j /\ f.oldsck = ~mode.CPOL
  BY <1>1, <1>3, <1>5 DEF AfterLeading
<1>9. SlaveTrails(f, n, x, y)
  BY <1>2, <1>4, <1>6, <1>7, <1>8 DEF SlaveTrails
<1>10. Exchanging(m, f, x, y) /\ f \in Interfaces
  BY <1>5 DEF AfterLeading, Kept, Exchanging
<1> QED
  BY <1>2, <1>9, <1>10 DEF BeforeMaster

(* and the trailing one, which ends the bit j. *)
LEMMA SlaveFalls ==
  ASSUME mode \in Modes, SlaveRight(s), NEW x \in Byte, NEW y, NEW j \in 0 .. 7,
         SlaveTrails(s, j + 1, x, y), NEW sck \in BOOLEAN, sck = mode.CPOL, NEW mosi,
         mode.CPHA => mosi = Has(j, x),
         NEW f, f = SlaveCycle(s, FALSE, sck, mosi)
  PROVE  AfterTrailing(f, s, sck, mosi) /\ SlaveLeads(f, j + 1, x)
<1>1. /\ s \in Interfaces /\ ~s.MSTR /\ ~s.finished /\ s.oldsck # sck
  BY InterfacesDef, ModeType DEF SlaveRight, Slavelike, SlaveTrails
<1>2. s.bitcnt = j
  <2>1. s.bitcnt = j + 1 - 1
    BY DEF SlaveTrails
  <2> QED
    BY <2>1
<1>3. AfterTrailing(f, s, sck, mosi)
  <2>1. s.bitcnt # 8
    BY <1>2
  <2> QED
    BY <1>1, <2>1, SlaveAtTrailing
<1>4. f.shift_in = First(j + 1, x)
  <2>1. CASE mode.CPHA
    <3>1. s.shift_in = First(j, x)
      <4>1. Taken(j + 1) = j
        BY <2>1 DEF Taken
      <4> QED
        BY <4>1 DEF SlaveTrails
    <3>2. f.shift_in = TakenFrom(First(j, x), j, Has(j, x))
      BY <1>2, <1>3, <2>1, <3>1 DEF AfterTrailing
    <3> QED
      BY <3>2, FirstFacts
  <2>2. CASE ~mode.CPHA
    BY <1>3, <2>2 DEF AfterTrailing, SlaveTrails, Taken
  <2> QED
    BY <2>1, <2>2
<1>5. f.bitcnt = j + 1 /\ f.oldsck = mode.CPOL
  BY <1>2, <1>3 DEF AfterTrailing
<1> QED
  BY <1>3, <1>4, <1>5 DEF SlaveLeads

(* as the slave sees it in the middle of a byte. *)
LEMMA SlaveEndsBit ==
  ASSUME mode \in Modes, m \in Interfaces, SlaveRight(s), NEW x \in Byte, NEW y,
         Exchanging(m, s, x, y), MasterLeads(m, x, y), m.clkcnt = 1, SlaveTrails(s, m.bitcnt, x, y),
         NEW f, f = SlaveCycle(s, FALSE, m.sck, m.mosi)
  PROVE  f \in Interfaces /\ BeforeMaster(m, f, x, y)
<1>1. PICK n \in 1 .. 7, j \in 0 .. 6 : n = m.bitcnt /\ n = j + 1
  <2>1. PICK n \in 0 .. 8 : n = m.bitcnt
    BY InterfacesDef DEF BitCounts
  <2>2. n > 0 /\ n < 8
    BY <2>1 DEF MasterLeads, SlaveTrails
  <2>3. n \in 1 .. 7 /\ n - 1 \in 0 .. 6 /\ n = (n - 1) + 1
    BY <2>1, <2>2
  <2> QED
    BY <2>1, <2>3
<1>2. j \in 0 .. 7 /\ n - 1 = j /\ n # 8 /\ n > 0
  BY <1>1
<1>3. m.sck \in BOOLEAN /\ m.sck = mode.CPOL /\ (mode.CPHA => m.mosi = Has(j, x))
  BY <1>1, <1>2, InterfacesDef DEF MasterLeads
<1>4. AfterTrailing(f, s, m.sck, m.mosi) /\ SlaveLeads(f, n, x)
  BY <1>1, <1>2, <1>3, SlaveFalls
<1>5. Exchanging(m, f, x, y) /\ f \in Interfaces
  <2>1. f.bitcnt # 8
    BY <1>2, <1>4 DEF SlaveLeads
  <2> QED
    BY <1>4, <2>1 DEF AfterTrailing, Exchanging
<1>6. ~(m.clkcnt > 1)
  <2>1. ~(1 > 1)
    OBVIOUS
  <2> QED
    BY ONLY <2>1, m.clkcnt = 1
<1> QED
  BY <1>1, <1>4, <1>5, <1>6 DEF BeforeMaster

(* In all of these cases the slave has seen the edge afterwards. *)
LEMMA SlaveFollows ==
  ASSUME mode \in Modes, m \in Interfaces, SlaveRight(s), NEW x \in Byte, NEW y,
         BeforeSlave(m, s, x, y), NEW e, e = CpuCycle(s, ss)
  PROVE  BeforeMaster(m, e, x, y)
<1>1. Exchanging(m, s, x, y) /\ m.SPE /\ m.MSTR /\ s.SPE /\ ~ss
  BY DEF BeforeSlave, Exchanging
<1>2. PICK f : f = SlaveCycle(s, FALSE, m.sck, m.mosi)
  OBVIOUS
<1>3. f \in Interfaces /\ BeforeMaster(m, f, x, y)
  <2>1. CASE MasterLeads(m, x, y) /\ m.clkcnt = 1 /\ m.bitcnt = 0 /\ Waits(s)
    BY <1>1, <1>2, <2>1, SlaveStarts
  <2>2. CASE MasterLeads(m, x, y) /\ m.clkcnt = 1 /\ SlaveTrails(s, m.bitcnt, x, y)
    BY <1>1, <1>2, <2>2, SlaveEndsBit
  <2>3. CASE MasterLeads(m, x, y) /\ SlaveLeads(s, m.bitcnt, x)
    BY <1>1, <1>2, <2>3, SlaveHolds
  <2>4. CASE MasterTrails(m, x, y) /\ SlaveLeads(s, m.bitcnt - 1, x)
    BY <1>1, <1>2, <2>4, SlaveRises
  <2>5. CASE MasterTrails(m, x, y) /\ SlaveTrails(s, m.bitcnt, x, y)
    BY <1>1, <1>2, <2>5, SlaveHoldsOn
  <2> QED
    BY <2>1, <2>2, <2>3, <2>4, <2>5 DEF BeforeSlave
<1>4. Ticked(e, f)
  BY <1>1, <1>2, <1>3, SlaveClocked
<1> QED
  BY <1>3, <1>4, TickedFollows

(* The last edge of the byte, *)
LEMMA SlaveStops ==
  ASSUME mode \in Modes, m \in Interfaces, SlaveRight(s), NEW x \in Byte, NEW y, Rests(m),
         Ends(m, s, x, y), NEW e, e = CpuCycle(s, ss)
  PROVE  Waits(e) /\ e.data_read = x
<1>1. m.SPE /\ m.MSTR /\ s.SPE /\ ~ss /\ SlaveTrails(s, 8, x, y) /\ (mode.CPHA => m.mosi = Has(7, x))
  BY DEF Ends
<1>2. PICK f : f = SlaveCycle(s, FALSE, m.sck, m.mosi)
  OBVIOUS
<1>3. m.sck \in BOOLEAN /\ m.sck = mode.CPOL
  BY <1>1, InterfacesDef DEF Rests
<1>4. PICK j \in 0 .. 7 : j = 7 /\ j + 1 = 8
  OBVIOUS
<1>5. AfterTrailing(f, s, m.sck, m.mosi) /\ SlaveLeads(f, j + 1, x)
  BY <1>1, <1>2, <1>3, <1>4, SlaveFalls
<1>6. f \in Interfaces /\ f.bitcnt = 8 /\ f.shift_in = First(8, x) /\ f.data_read = f.shift_in
  BY <1>4, <1>5 DEF AfterTrailing, SlaveLeads
<1>7. f.data_read = x
  BY <1>6, FirstFacts
<1>8. Ticked(e, f)
  BY <1>1, <1>2, <1>6, SlaveClocked
<1> QED
  BY <1>6, <1>7, <1>8 DEF Ticked, Kept, Waits

(* and a slave whose master is at none. *)
LEMMA SlaveRests ==
  ASSUME mode \in Modes, m \in Interfaces, SlaveRight(s), Rests(m), Waits(s), ss \in BOOLEAN,
         NEW e, e = CpuCycle(s, ss)
  PROVE  Waits(e)
<1>1. s \in Interfaces /\ ~s.MSTR /\ ~s.finished
  BY DEF SlaveRight, Slavelike
<1>2. SckLine = mode.CPOL /\ SckLine \in BOOLEAN
  BY ModeType DEF SckLine, Drives, Rests
<1>3. CASE ~s.SPE
  BY <1>3 DEF CpuCycle
<1>4. CASE s.SPE
  <2>1. PICK sck \in BOOLEAN : sck = SckLine /\ sck = mode.CPOL
    BY <1>2
  <2>2. PICK f : f = SlaveCycle(s, ss, sck, MosiLine)
    OBVIOUS
  <2>3. f \in Interfaces /\ Waits(f)
    <3>1. CASE ss
      <4>1. f = SlaveCycle(s, TRUE, sck, MosiLine)
        BY <2>2, <3>1
      <4>2. Selected(f, s)
        BY <1>1, <4>1, SlaveSelect
      <4> QED
        BY <4>2 DEF Selected, Kept, Waits
    <3>2. CASE ~ss
      <4>1. f = SlaveCycle(s, FALSE, sck, MosiLine)
        BY <2>2, <3>2
      <4>2. Stilled(f, s, sck)
        BY <1>1, <2>1, <4>1, SlaveStill DEF Waits
      <4> QED
        BY <2>1, <4>2 DEF Stilled, Kept, Waits
    <3> QED
      BY <3>1, <3>2
  <2>4. e = Clocked(f)
    BY <1>1, <1>4, <2>1, <2>2 DEF CpuCycle
  <2>5. Ticked(e, f)
    BY <2>3, <2>4, ClockedFields
  <2> QED
    BY <2>3, <2>5 DEF Ticked, Waits
<1> QED
  BY <1>3, <1>4
-----------------------------------------------------------------------------
(* The clocks of both, in an undisturbed byte and between two. *)
LEMMA MasterKeepsLink ==
  ASSUME Inv, NEW x \in Byte, NEW y \in Byte, LinkedM(m, s, x, y),
         ~(m.SPE /\ m.MSTR /\ m.bitcnt = 0 /\ m.clkcnt = 0), NEW e, e = CpuCycle(m, TRUE)
  PROVE  LinkedS(e, s, x, y) /\ (m.finished /\ ~e.finished => e.data_read = y)
<1>1. mode \in Modes /\ m \in Interfaces /\ Masterlike(m)
  BY DEF Inv, SurroundingsOK, MasterRight, Masterlike
<1>2. CASE Rests(m) /\ Waits(s)
  <2>1. Rests(e)
    BY <1>1, <1>2, MasterRests
  <2>2. ~m.finished
    <3>1. CASE Sends(m)
      BY <1>2, <3>1 DEF Rests, Sends
    <3>2. CASE ~Sends(m)
      BY <1>1, <3>2 DEF Masterlike, Sends
    <3> QED
      BY <3>1, <3>2
  <2> QED
    BY <1>2, <2>1, <2>2 DEF LinkedS
<1>3. CASE BeforeMaster(m, s, x, y)
  <2>1. CASE m.clkcnt # 0 /\ m.clkcnt # mode.clkdiv
    <3>1. BeforeSlave(e, s, x, y)
      BY <1>1, <1>3, <2>1, MasterCounts
    <3>2. Ticked(e, m)
      BY <1>1, <1>3, <2>1, MasterStill DEF BeforeMaster, Exchanging
    <3> QED
      BY <3>1, <3>2 DEF LinkedS, Ticked
  <2>2. CASE m.clkcnt = mode.clkdiv
    <3>1. BeforeSlave(e, s, x, y)
      BY <1>1, <1>3, <2>2, MasterRaises
    <3>2. ~m.finished
      <4>1. PICK k \in Nat : k = mode.clkdiv /\ k >= 2
        BY <1>1, ModeType
      <4>2. ~Late(m.clkcnt)
        <5>1. ~(k = 0 \/ k > k)
          BY <4>1
        <5> QED
          BY <2>2, <4>1, <5>1 DEF Late
      <4> QED
        BY <1>1, <4>2 DEF Masterlike
    <3> QED
      BY <3>1, <3>2 DEF LinkedS
  <2>3. CASE m.clkcnt = 0 /\ m.bitcnt # 8
    <3>1. BeforeSlave(e, s, x, y)
      BY <1>1, <1>3, <2>3, MasterFalls
    <3>2. ~m.finished
      BY <1>1, <2>3 DEF Masterlike
    <3> QED
      BY <3>1, <3>2 DEF LinkedS
  <2>4. CASE m.clkcnt = 0 /\ m.bitcnt = 8
    BY <1>1, <1>3, <2>4, MasterStops DEF LinkedS
  <2> QED
    BY <2>1, <2>2, <2>3, <2>4
<1> QED
  BY <1>2, <1>3 DEF LinkedM

(* The same for the slave, which at the end of the byte has read x. *)
LEMMA SlaveKeepsLink ==
  ASSUME Inv, NEW x \in Byte, NEW y, LinkedS(m, s, x, y), NEW e, e = CpuCycle(s, ss)
  PROVE  LinkedM(m, e, x, y) /\ (s.bitcnt = 7 /\ e.bitcnt = 8 => e.data_read = x)
<1>1. mode \in Modes /\ m \in Interfaces /\ SlaveRight(s) /\ ss \in BOOLEAN
  BY DEF Inv, SurroundingsOK, MasterRight, Masterlike
<1>2. CASE BeforeSlave(m, s, x, y)
  <2>1. BeforeMaster(m, e, x, y)
    BY <1>1, <1>2, SlaveFollows
  <2>2. e.bitcnt # 8
    <3>1. PICK n \in 0 .. 8 : n = m.bitcnt
      BY <1>1, InterfacesDef DEF BitCounts
    <3>2. CASE MasterLeads(m, x, y) /\ SlaveLeads(e, m.bitcnt, x)
      <4>1. n < 8 /\ e.bitcnt = n
        BY <3>1, <3>2 DEF MasterLeads, SlaveLeads
      <4>2. ~(8 < 8)
        OBVIOUS
      <4> QED
        BY ONLY <4>1, <4>2
    <3>3. CASE SlaveTrails(e, m.bitcnt, x, y)
      <4>1. e.bitcnt = n - 1
        BY <3>1, <3>3 DEF SlaveTrails
      <4>2. n - 1 # 8
        BY <3>1
      <4> QED
        BY ONLY <4>1, <4>2
    <3> QED
      BY <2>1, <3>2, <3>3 DEF BeforeMaster
  <2> QED
    BY <2>1, <2>2 DEF LinkedM
<1>3. CASE Rests(m) /\ Ends(m, s, x, y)
  BY <1>1, <1>3, SlaveStops DEF LinkedM
<1>4. CASE Rests(m) /\ Waits(s)
  <2>1. Waits(e)
    BY <1>1, <1>4, SlaveRests
  <2>2. s.bitcnt # 7
    <3>1. 8 # 7 /\ 0 # 7
      OBVIOUS
    <3>2. s.bitcnt = 8 \/ s.bitcnt = 0
      BY <1>4 DEF Waits
    <3> QED
      BY ONLY <3>1, <3>2
  <2> QED
    BY <1>4, <2>1, <2>2 DEF LinkedM
<1> QED
  BY <1>2, <1>3, <1>4 DEF LinkedS

(* In a byte under way the master is busy; when it is not, and the slave   *)
(* is at none of its bits, both wait.                                      *)
LEMMA BusyInByte ==
  ASSUME m \in Interfaces, NEW x, NEW y, Exchanging(m, s, x, y)
  PROVE  Busy
<1>1. m.bitcnt \in 0 .. 8
  BY InterfacesDef DEF BitCounts
<1>2. m.bitcnt < 8 \/ m.bitcnt = 8
  BY <1>1
<1> QED
  BY <1>2 DEF Busy, Drives, Exchanging

(* Nobody is at a bit when the byte is over. *)
LEMMA OverInLink ==
  ASSUME m \in Interfaces, NEW x, NEW y, LinkedM(m, s, x, y) \/ LinkedS(m, s, x, y)
  PROVE  /\ ~Busy => Rests(m) /\ (Waits(s) \/ Ends(m, s, x, y))
         /\ Over => Rests(m) /\ Waits(s)
<1>1. BeforeMaster(m, s, x, y) \/ BeforeSlave(m, s, x, y) => Busy
  BY BusyInByte DEF BeforeMaster, BeforeSlave
<1>2. Ends(m, s, x, y) => ~(s.bitcnt \in {0, 8})
  <2>1. ~(8 - 1 \in {0, 8})
    OBVIOUS
  <2>2. Ends(m, s, x, y) => s.bitcnt = 8 - 1
    BY DEF Ends, SlaveTrails
  <2> QED
    BY ONLY <2>1, <2>2
<1> QED
  BY <1>1, <1>2 DEF LinkedM, LinkedS, Over

(* Reads and the handler change nothing of it. *)
LEMMA UntouchedLink ==
  ASSUME NEW d, NEW e, Untouched(e, d), NEW x, NEW y
  PROVE  /\ LinkedS(d, s, x, y) => LinkedS(e, s, x, y)
         /\ LinkedM(m, d, x, y) => LinkedM(m, e, x, y)
<1>1. /\ e.SPE = d.SPE /\ e.MSTR = d.MSTR /\ e.data_write = d.data_write
      /\ e.shift_in = d.shift_in /\ e.bitcnt = d.bitcnt /\ e.finished = d.finished
      /\ e.clkcnt = d.clkcnt /\ e.oldsck = d.oldsck /\ e.mosi = d.mosi /\ e.miso = d.miso
      /\ e.sck = d.sck
  BY DEF Untouched, Kept
<1>2. /\ Exchanging(d, s, x, y) => Exchanging(e, s, x, y)
      /\ Exchanging(m, d, x, y) => Exchanging(m, e, x, y)
  BY <1>1 DEF Exchanging
<1>3. MasterLeads(d, x, y) => MasterLeads(e, x, y)
  BY <1>1 DEF MasterLeads
<1>4. MasterTrails(d, x, y) => MasterTrails(e, x, y)
  BY <1>1 DEF MasterTrails
<1>5. SlaveLeads(d, m.bitcnt, x) => SlaveLeads(e, m.bitcnt, x)
  BY <1>1 DEF SlaveLeads
<1>6. SlaveTrails(d, m.bitcnt, x, y) => SlaveTrails(e, m.bitcnt, x, y)
  BY <1>1 DEF SlaveTrails
<1>7. Rests(d) => Rests(e)
  BY <1>1 DEF Rests, Sends
<1>8. Waits(d) => Waits(e)
  BY <1>1 DEF Waits
<1>9. Ends(d, s, x, y) => Ends(e, s, x, y)
  BY <1>1 DEF Ends
<1>10. BeforeSlave(d, s, x, y) => BeforeSlave(e, s, x, y)
  BY <1>1, <1>2, <1>3, <1>4 DEF BeforeSlave
<1>11. BeforeMaster(m, d, x, y) => BeforeMaster(m, e, x, y)
  BY <1>1, <1>2, <1>5, <1>6 DEF BeforeMaster
<1> QED
  BY <1>7, <1>8, <1>9, <1>10, <1>11 DEF LinkedM, LinkedS

(* A new byte in SPDR of a master that is at none. *)
LEMMA WrittenLink ==
  ASSUME m \in Interfaces, Masterlike(m), ~Busy, Rests(m), NEW v, NEW e, Written(e, m, v),
         NEW x, NEW y
  PROVE  Rests(e) /\ (Ends(m, s, x, y) => Ends(e, s, x, y))
<1>1. ~Sends(m)
  BY DEF Sends, Busy, Drives
<1>2. m.bitcnt = 8
  BY <1>1 DEF Rests
<1>3. e.SPE = m.SPE /\ e.MSTR = m.MSTR /\ e.sck = m.sck /\ e.mosi = m.mosi
  BY DEF Written
<1>4. Ends(m, s, x, y) => Ends(e, s, x, y)
  BY <1>3 DEF Ends
<1>5. CASE m.MSTR
  <2>1. e.bitcnt = 0 /\ e.clkcnt = 0
    BY <1>2, <1>5 DEF Written
  <2>2. Sends(e)
    <3>1. 0 < 8
      OBVIOUS
    <3>2. e.bitcnt = 0
      BY <2>1
    <3>3. e.bitcnt < 8
      BY ONLY <3>1, <3>2
    <3> QED
      BY <1>3, <1>5, <3>3 DEF Sends, Masterlike
  <2> QED
    BY <1>3, <1>4, <2>1, <2>2 DEF Rests
<1>6. CASE ~m.MSTR
  <2>1. e.bitcnt = 8 /\ ~e.MSTR
    BY <1>2, <1>3, <1>6 DEF Written
  <2> QED
    BY <1>4, <2>1 DEF Rests, Sends
<1> QED
  BY <1>5, <1>6

(* The control register of either while both wait. *)
LEMMA SwitchedLink ==
  ASSUME m \in Interfaces, Masterlike(m), ~Busy, Rests(m), NEW e
  PROVE  /\ Switched(e, m, TRUE, TRUE) => Rests(e)
         /\ Switched(e, m, FALSE, FALSE) => Rests(e)
<1>1. ~Sends(m)
  BY DEF Sends, Busy, Drives
<1>2. m.bitcnt = 8 /\ ~m.finished
  BY <1>1 DEF Rests, Masterlike, Sends
<1>3. ASSUME Switched(e, m, TRUE, TRUE) PROVE Rests(e)
  <2>1. e.bitcnt = 8 /\ ~e.finished /\ e.sck = mode.CPOL
    BY <1>2, <1>3 DEF Switched
  <2>2. ~(e.bitcnt < 8)
    <3>1. ~(8 < 8)
      OBVIOUS
    <3>2. e.bitcnt = 8
      BY <2>1
    <3> QED
      BY ONLY <3>1, <3>2
  <2> QED
    BY <2>1, <2>2 DEF Rests, Sends
<1>4. ASSUME Switched(e, m, FALSE, FALSE) PROVE Rests(e)
  <2>1. e.bitcnt = 8 /\ ~e.SPE
    BY <1>4 DEF Switched
  <2> QED
    BY <2>1 DEF Rests, Sends
<1> QED
  BY <1>3, <1>4

(* The slave still waits. *)
LEMMA SlaveSwitchedLink ==
  ASSUME Waits(s), NEW e, Switched(e, s, TRUE, FALSE) \/ Switched(e, s, FALSE, FALSE)
  PROVE  Waits(e)
<1>1. CASE Switched(e, s, TRUE, FALSE)
  BY <1>1 DEF Switched, Waits
<1>2. CASE Switched(e, s, FALSE, FALSE)
  BY <1>2 DEF Switched, Waits
<1> QED
  BY <1>1, <1>2

(* A step leaves the clock mode, and all but one leave SS of the slave. *)
LEMMA LinkAgain ==
  ASSUME mode' = mode
  PROVE  /\ Rests(m') /\ Waits(s') => LinkedM(m, s, sent.m, sent.s)' /\ LinkedS(m, s, sent.m, sent.s)'
         /\ ss' = ss /\ LinkedM(m', s', sent'.m, sent'.s) => LinkedM(m, s, sent.m, sent.s)'
         /\ ss' = ss /\ LinkedS(m', s', sent'.m, sent'.s) => LinkedS(m, s, sent.m, sent.s)'
<1>1. Rests(m') = Rests(m)' /\ Waits(s') = Waits(s)'
  BY DEF Rests, Waits, Sends
<1>2. ASSUME ss' = ss
      PROVE  /\ LinkedM(m', s', sent'.m, sent'.s) = LinkedM(m, s, sent.m, sent.s)'
             /\ LinkedS(m', s', sent'.m, sent'.s) = LinkedS(m, s, sent.m, sent.s)'
  BY <1>2 DEF LinkedM, LinkedS, BeforeMaster, BeforeSlave, Exchanging, MasterLeads, MasterTrails,
     SlaveLeads, SlaveTrails, Waits, Rests, Sends, Ends, Has, First, Taken, Late, Bitpos
<1> QED
  BY <1>1, <1>2 DEF LinkedM, LinkedS

(* Every action keeps master and slave together. *)
LEMMA NextLinked == Inv /\ Linked /\ [Next]_vars => Linked'
<1> SUFFICES ASSUME Inv, Linked, [Next]_vars, clean'
             PROVE  IF turn' = "m" THEN LinkedM(m, s, sent.m, sent.s)'
                    ELSE mss' /\ LinkedS(m, s, sent.m, sent.s)'
  BY DEF Linked
<1>1. /\ SurroundingsOK /\ mode \in Modes /\ m \in Interfaces /\ Masterlike(m)
      /\ s \in Interfaces /\ SlaveRight(s) /\ sent.m \in Byte /\ sent.s \in Byte
      /\ mss \in BOOLEAN /\ turn \in {"m", "s"}
  BY DEF Inv, SurroundingsOK, MasterRight, Masterlike, SlaveRight, Slavelike
<1>2. mode' = mode
  BY <1>1, NextSurroundings
<1>3. ASSUME clean PROVE /\ turn = "m" => LinkedM(m, s, sent.m, sent.s)
                         /\ turn = "s" => mss /\ LinkedS(m, s, sent.m, sent.s)
  BY <1>1, <1>3 DEF Linked
<1>4. CASE CycleM
  <2>1. mss /\ mss' = mss /\ ss' = ss /\ s' = s /\ turn = "m" /\ turn' = "s" /\ m' = CpuCycle(m, mss)
    BY <1>4 DEF CycleM
  <2>2. m' = CpuCycle(m, TRUE)
    <3>1. mss = TRUE
      BY <1>1, <2>1
    <3> QED
      BY <2>1, <3>1
  <2>3. CASE Begins
    <3>1. m.SPE /\ m.MSTR /\ m.bitcnt = 0 /\ m.clkcnt = 0
      BY <2>3 DEF Begins, Drives
    <3>2. s.SPE /\ ~ss /\ Waits(s)
      BY <1>4, <2>3 DEF CycleM, Ready, Waits
    <3>3. BeforeSlave(m', s, m.data_write, s.data_write)
      BY <1>1, <2>2, <3>1, <3>2, MasterStarts
    <3>4. sent'.m = m.data_write /\ sent'.s = s.data_write
      BY <1>4, <2>3 DEF CycleM
    <3>5. LinkedS(m', s', sent'.m, sent'.s)
      BY <2>1, <3>3, <3>4 DEF LinkedS
    <3> QED
      BY <1>2, <2>1, <3>5, LinkAgain
  <2>4. CASE ~Begins
    <3>1. clean /\ sent' = sent
      BY <1>4, <2>4 DEF CycleM
    <3>2. ~(m.SPE /\ m.MSTR /\ m.bitcnt = 0 /\ m.clkcnt = 0)
      BY <2>4 DEF Begins, Drives
    <3>3. LinkedM(m, s, sent.m, sent.s)
      BY <1>3, <2>1, <3>1
    <3>4. LinkedS(m', s, sent.m, sent.s)
      BY <1>1, <2>2, <3>2, <3>3, MasterKeepsLink
    <3> QED
      BY <1>2, <2>1, <3>1, <3>4, LinkAgain
  <2> QED
    BY <2>3, <2>4
<1>5. CASE CycleS
  <2>1. /\ m' = m /\ ss' = ss /\ sent' = sent /\ clean /\ turn = "s" /\ turn' = "m"
        /\ s' = CpuCycle(s, ss)
    BY <1>5 DEF CycleS
  <2>2. LinkedS(m, s, sent.m, sent.s)
    BY <1>3, <2>1
  <2>3. LinkedM(m, s', sent.m, sent.s)
    BY <1>1, <2>1, <2>2, SlaveKeepsLink
  <2> QED
    BY <1>2, <2>1, <2>3, LinkAgain
<1>6. CASE WriteM
  <2>1. /\ clean /\ ~Busy /\ turn = "s" /\ turn' = turn /\ s' = s /\ ss' = ss /\ mss' = mss
        /\ sent' = sent
    BY <1>6 DEF WriteM
  <2>2. PICK v \in Bytes : m' = SetSPDR(m, v)
    BY <1>6 DEF WriteM
  <2>3. v \in Byte
    BY SpiAssumption DEF Byte
  <2>4. Written(m', m, v)
    BY <1>1, <2>2, <2>3, SetSPDRFields
  <2>5. mss /\ LinkedS(m, s, sent.m, sent.s)
    BY <1>3, <2>1
  <2>6. Rests(m) /\ (Waits(s) \/ Ends(m, s, sent.m, sent.s))
    BY <1>1, <2>1, <2>5, OverInLink
  <2>7. Rests(m') /\ (Ends(m, s, sent.m, sent.s) => Ends(m', s, sent.m, sent.s))
    BY <1>1, <2>1, <2>4, <2>6, WrittenLink
  <2>8. LinkedS(m', s', sent'.m, sent'.s)
    BY <2>1, <2>6, <2>7 DEF LinkedS
  <2> QED
    BY <1>2, <2>1, <2>5, <2>8, LinkAgain
<1>7. CASE ReadM \/ HandlerM
  <2>1. /\ clean /\ turn = "s" /\ turn' = turn /\ s' = s /\ ss' = ss /\ mss' = mss /\ sent' = sent
    BY <1>7 DEF ReadM, HandlerM
  <2>2. Untouched(m', m)
    BY <1>1, <1>7, AccessFields DEF ReadM, HandlerM, GetSPDR
  <2>3. mss /\ LinkedS(m, s, sent.m, sent.s)
    BY <1>3, <2>1
  <2>4. LinkedS(m', s, sent.m, sent.s)
    BY <2>2, <2>3, UntouchedLink
  <2> QED
    BY <1>2, <2>1, <2>3, <2>4, LinkAgain
<1>8. CASE ReadS
  <2>1. clean /\ turn = "m" /\ turn' = turn /\ m' = m /\ ss' = ss /\ sent' = sent
    BY <1>8 DEF ReadS
  <2>2. PICK z : z = GetSPSR(s)
    OBVIOUS
  <2>3. Untouched(z, s)
    BY <1>1, <2>2, AccessFields
  <2>4. Untouched(s', z)
    BY <1>8, <2>2, <2>3, AccessFields DEF ReadS, GetSPDR, Untouched, Kept
  <2>5. LinkedM(m, s, sent.m, sent.s)
    BY <1>3, <2>1
  <2>6. LinkedM(m, z, sent.m, sent.s)
    BY <2>3, <2>5, UntouchedLink
  <2>7. LinkedM(m, s', sent.m, sent.s)
    BY <2>4, <2>6, UntouchedLink
  <2> QED
    BY <1>2, <2>1, <2>7, LinkAgain
<1>9. ASSUME Disturb
      PROVE  /\ Rests(m) /\ Waits(s) /\ ~Busy
             /\ turn = "s" => mss
  <2>1. clean /\ Over
    BY <1>9 DEF Disturb
  <2>2. Rests(m) /\ Waits(s)
    BY <1>1, <1>3, <2>1, OverInLink
  <2> QED
    BY <1>3, <2>1, <2>2 DEF Over
<1>10. CASE WriteS
  <2>1. Disturb /\ turn = "m" /\ turn' = turn /\ m' = m
    BY <1>10 DEF WriteS
  <2>2. PICK v \in Bytes : s' = SetSPDR(s, v)
    BY <1>10 DEF WriteS
  <2>3. v \in Byte
    BY SpiAssumption DEF Byte
  <2>4. Written(s', s, v)
    BY <1>1, <2>2, <2>3, SetSPDRFields
  <2>5. Waits(s')
    BY <1>1, <1>9, <2>1, <2>4 DEF Written, SlaveRight, Slavelike, Waits
  <2> QED
    BY <1>2, <1>9, <2>1, <2>5, LinkAgain
<1>11. CASE Select
  <2>1. Disturb /\ turn = "s" /\ turn' = turn /\ m' = m /\ s' = s /\ mss' = mss
    BY <1>11 DEF Select
  <2> QED
    BY <1>2, <1>9, <2>1, LinkAgain
<1>12. CASE PullMss
  <2>1. Disturb /\ turn = "m" /\ turn' = turn /\ m' = m /\ s' = s
    BY <1>12 DEF PullMss
  <2> QED
    BY <1>2, <1>9, <2>1, LinkAgain
<1>13. CASE SetUpM
  <2>1. Disturb /\ turn = "s" /\ turn' = turn /\ s' = s /\ mss' = mss
    BY <1>13 DEF SetUpM
  <2>2. Switched(m', m, TRUE, TRUE) \/ Switched(m', m, FALSE, FALSE)
    BY <1>1, <1>13, ControlFields DEF SetUpM
  <2>3. Rests(m')
    BY <1>1, <1>9, <2>1, <2>2, SwitchedLink
  <2> QED
    BY <1>2, <1>9, <2>1, <2>3, LinkAgain
<1>14. CASE SetUpS
  <2>1. Disturb /\ turn = "m" /\ turn' = turn /\ m' = m
    BY <1>14 DEF SetUpS
  <2>2. Switched(s', s, TRUE, FALSE) \/ Switched(s', s, FALSE, FALSE)
    BY <1>1, <1>14, ControlFields DEF SetUpS
  <2>3. Waits(s')
    BY <1>9, <2>1, <2>2, SlaveSwitchedLink
  <2> QED
    BY <1>2, <1>9, <2>1, <2>3, LinkAgain
<1>15. CASE UNCHANGED vars
  <2>1. /\ clean /\ turn' = turn /\ m' = m /\ s' = s /\ ss' = ss /\ mss' = mss /\ sent' = sent
    BY <1>15 DEF vars
  <2> QED
    BY <1>1, <1>2, <1>3, <2>1, LinkAgain
<1> QED
  BY <1>4, <1>5, <1>6, <1>7, <1>8, <1>10, <1>11, <1>12, <1>13, <1>14, <1>15 DEF Next

(* They always are. *)
LEMMA AlwaysLinked == Spec => [](Inv /\ Linked)
<1>1. Init => Linked
  BY DEF Init, Linked
<1> QED
  BY <1>1, InitInv, NextInv, NextLinked, PTL DEF Spec

(* Master and slave count the same bits of every byte that nobody          *)
(* disturbs, in every clock mode and with every divisor from 2 on.         *)
THEOREM BitsInStep == Spec => []InStep
<1>1. Inv /\ Linked => InStep
  <2> SUFFICES ASSUME Inv, Linked, turn = "m", clean
               PROVE  IF Busy /\ m.bitcnt > 0 THEN s.bitcnt = m.bitcnt - 1 \/ s.bitcnt = m.bitcnt
                      ELSE s.bitcnt \in {0, 8}
    BY DEF InStep
  <2>1. LinkedM(m, s, sent.m, sent.s) /\ m \in Interfaces
    BY DEF Linked, Inv, MasterRight, Masterlike
  <2>2. PICK n \in 0 .. 8 : n = m.bitcnt
    BY <2>1, InterfacesDef DEF BitCounts
  <2>3. CASE BeforeMaster(m, s, sent.m, sent.s)
    <3>1. Busy
      BY <2>1, <2>3, BusyInByte DEF BeforeMaster
    <3>2. s.bitcnt = n \/ (n > 0 /\ s.bitcnt = n - 1)
      BY <2>2, <2>3 DEF BeforeMaster, SlaveLeads, SlaveTrails
    <3>3. n > 0 \/ n = 0
      BY <2>2
    <3>4. n = 0 => ~(n > 0) /\ n \in {0, 8}
      OBVIOUS
    <3> QED
      BY <2>2, <3>1, <3>2, <3>3, <3>4
  <2>4. CASE Rests(m) /\ Waits(s)
    <3>1. s.bitcnt \in {0, 8}
      BY <2>4 DEF Waits
    <3>2. Busy => m.bitcnt = 0
      BY <2>4 DEF Busy, Drives, Rests, Sends
    <3>3. Busy => ~(m.bitcnt > 0)
      <4>1. ~(0 > 0)
        OBVIOUS
      <4> QED
        BY ONLY <3>2, <4>1
    <3> QED
      BY <3>1, <3>3
  <2> QED
    BY <2>1, <2>3, <2>4 DEF LinkedM
<1> QED
  BY <1>1, AlwaysLinked, PTL

(* An undisturbed byte is exchanged: each side reads what the other had in *)
(* data_write when the master began.                                       *)
THEOREM BytesExchanged == Spec => Exchange
<1>1. ASSUME Inv, Linked, [Next]_vars, turn = "m", turn' = "s", clean', m.finished, ~m'.finished
      PROVE  m'.data_read = sent.s
  <2>1. /\ m \in Interfaces /\ Masterlike(m) /\ sent.m \in Byte /\ sent.s \in Byte /\ mss \in BOOLEAN
    BY <1>1 DEF Inv, SurroundingsOK, MasterRight, Masterlike
  <2>2. CycleM
    BY <1>1 DEF Next, CycleS, WriteM, WriteS, ReadM, ReadS, HandlerM, Select, PullMss, SetUpM, SetUpS, vars
  <2>3. m.bitcnt # 0
    BY <1>1, <2>1 DEF Masterlike
  <2>4. ~Begins
    BY <2>3 DEF Begins
  <2>5. mss /\ clean /\ m' = CpuCycle(m, mss)
    BY <1>1, <2>2, <2>4 DEF CycleM
  <2>6. m' = CpuCycle(m, TRUE)
    <3>1. mss = TRUE
      BY <2>1, <2>5
    <3> QED
      BY <2>5, <3>1
  <2>7. LinkedM(m, s, sent.m, sent.s)
    BY <1>1, <2>5 DEF Linked
  <2> QED
    BY <1>1, <2>1, <2>3, <2>6, <2>7, MasterKeepsLink
<1>2. ASSUME Inv, Linked, [Next]_vars, turn = "s", turn' = "m", clean', s.bitcnt = 7, s'.bitcnt = 8
      PROVE  s'.data_read = sent.m
  <2>1. sent.m \in Byte
    BY <1>2 DEF Inv, SurroundingsOK
  <2>2. CycleS
    BY <1>2 DEF Next, CycleM, WriteM, WriteS, ReadM, ReadS, HandlerM, Select, PullMss, SetUpM, SetUpS, vars
  <2>3. clean /\ s' = CpuCycle(s, ss)
    BY <1>2, <2>2 DEF CycleS
  <2>4. LinkedS(m, s, sent.m, sent.s)
    BY <1>2, <2>3 DEF Linked
  <2> QED
    BY <1>2, <2>1, <2>3, <2>4, SlaveKeepsLink
<1>3. Inv /\ Linked /\ [Next]_vars =>
        [/\ turn = "m" /\ turn' = "s" /\ clean' /\ m.finished /\ ~m'.finished => m'.data_read = sent.s
         /\ turn = "s" /\ turn' = "m" /\ clean' /\ s.bitcnt = 7 /\ s'.bitcnt = 8 => s'.data_read = sent.m]_vars
  BY <1>1, <1>2
<1> QED
  BY <1>3, AlwaysLinked, PTL DEF Spec, Exchange
=============================================================================
