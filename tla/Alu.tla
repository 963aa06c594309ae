--------------------------------- MODULE Alu ---------------------------------
(***************************************************************************)
(* Results and status flags of the arithmetic instructions (decoder.cpp),  *)
(* as functions of the operands: bytes with their width of 8 bits, flags   *)
(* by the bit formulas of the code, which look at the result and at the    *)
(* operands and never at a wider sum.                                      *)
(***************************************************************************)
EXTENDS Integers

Byte == 0 .. 255
Word == 0 .. 65535

Flags == [C : BOOLEAN, Z : BOOLEAN, N : BOOLEAN, V : BOOLEAN, S : BOOLEAN,
          H : BOOLEAN, T : BOOLEAN, I : BOOLEAN]

Bit(x, p) == (x \div p) % 2 = 1      \* p = 2^b, the value of bit b
Num(b) == IF b THEN 1 ELSE 0
Signed(x) == IF x < 128 THEN x ELSE x - 256
Signed16(w) == IF w < 32768 THEN w ELSE w - 65536

get_add_carry(res, rd, rr, p) ==
  \/ Bit(rd, p) /\ Bit(rr, p)
  \/ Bit(rr, p) /\ ~Bit(res, p)
  \/ ~Bit(res, p) /\ Bit(rd, p)

get_add_overflow(res, rd, rr) ==
  \/ Bit(rd, 128) /\ Bit(rr, 128) /\ ~Bit(res, 128)
  \/ ~Bit(rd, 128) /\ ~Bit(rr, 128) /\ Bit(res, 128)

(* get_compare_carry and get_compare_overflow are the same formulas. *)
get_sub_carry(res, rd, rr, p) ==
  \/ ~Bit(rd, p) /\ Bit(rr, p)
  \/ Bit(rr, p) /\ Bit(res, p)
  \/ Bit(res, p) /\ ~Bit(rd, p)

(* Mutant of get_sub_overflow: what the data sheet says, by the comment on *)
(* get_compare_overflow.                                                   *)
get_sub_overflow_sheet(res, rd, rr) ==
  \/ Bit(rd, 128) /\ ~Bit(rr, 128) /\ ~Bit(res, 128)
  \/ ~Bit(rd, 128) /\ ~Bit(rd, 128) /\ Bit(res, 128)

get_sub_overflow(res, rd, rr) ==
  \/ Bit(rd, 128) /\ ~Bit(rr, 128) /\ ~Bit(res, 128)
  \/ ~Bit(rd, 128) /\ Bit(rr, 128) /\ Bit(res, 128)

(* N, Z and S of an eight bit result, with V and C as given. *)
Status(f, res, v, c) ==
  LET n == Bit(res, 128)
  IN  [f EXCEPT !.N = n, !.V = v, !.S = (n # v), !.Z = (res = 0), !.C = c]

(* ADD and, with the carry c, ADC. *)
AddResult(rd, rr, c) == (rd + rr + Num(c)) % 256
AddFlags(f, rd, rr, c) ==
  LET res == AddResult(rd, rr, c)
  IN  [Status(f, res, get_add_overflow(res, rd, rr), get_add_carry(res, rd, rr, 128))
         EXCEPT !.H = get_add_carry(res, rd, rr, 8)]

(* SUB, SUBI, CP and CPI. *)
SubResult(rd, rr, c) == (rd - rr - Num(c)) % 256
SubFlags(f, rd, rr, c) ==
  LET res == SubResult(rd, rr, c)
  IN  [Status(f, res, get_sub_overflow(res, rd, rr), get_sub_carry(res, rd, rr, 128))
         EXCEPT !.H = get_sub_carry(res, rd, rr, 8)]

(* SBC, SBCI and CPC: Z stays clear when it was. *)
SbcFlags(f, rd, rr) ==
  [SubFlags(f, rd, rr, f.C) EXCEPT !.Z = (f.Z /\ SubResult(rd, rr, f.C) = 0)]

LogicFlags(f, res) == Status(f, res, FALSE, f.C)

(* ASR, LSR and ROR: the bit shifted out of rd is the carry. *)
ShiftFlags(f, res, rd) == Status(f, res, Bit(res, 128) # Bit(rd, 1), Bit(rd, 1))

NegFlags(f, rd) ==
  LET res == (0 - rd) % 256
  IN  [Status(f, res, res = 128, res # 0) EXCEPT !.H = (Bit(res, 8) \/ Bit(rd, 8))]

(* ADIW and SBIW on words. *)
WordFlags(f, res, v, c) ==
  LET n == Bit(res, 32768)
  IN  [f EXCEPT !.N = n, !.V = v, !.S = (n # v), !.Z = (res = 0), !.C = c]

AdiwFlags(f, rd, k) ==
  LET res == (rd + k) % 65536
  IN  WordFlags(f, res, ~Bit(rd, 32768) /\ Bit(res, 32768), ~Bit(res, 32768) /\ Bit(rd, 32768))

SbiwFlags(f, rd, k) ==
  LET res == (rd - k) % 65536
  IN  WordFlags(f, res, Bit(rd, 32768) /\ ~Bit(res, 32768), Bit(res, 32768) /\ ~Bit(rd, 32768))

(* Products: Z of the 16 bit result, C is bit 15 of the product. *)
MulFlags(f, product, res) == [f EXCEPT !.Z = (res = 0), !.C = Bit(product, 32768)]
=============================================================================
