------------------------------ MODULE Decoder ------------------------------
(***************************************************************************)
(* The instructions of the AVR core (decoder.cpp), executed one by one as  *)
(* AvrDevice::Step does.  Every instruction is an operator that maps the   *)
(* state of the core to the next one; the opcode is already decoded, an    *)
(* instruction is <<name, operand, operand>>.  Registers, I/O and RAM are  *)
(* one data space, in which SREG and SPMCR have their addresses; the flash *)
(* is part of the state, because SPM writes it.  WDR, SLEEP and the thread *)
(* list are left to the components behind them.                            *)
(***************************************************************************)
EXTENDS FlashProg, Alu

CONSTANTS Data,         \* the data addresses that the program uses
          FlashWords,   \* Flash->GetSize() / 2
          stackCeil     \* the stack pointer wraps around here

ASSUME DecoderAssumption ==
  /\ 0 .. 31 \subseteq Data /\ Data \subseteq Word
  /\ FlashWords \in 1 .. 65536 /\ stackCeil \in 1 .. 65536

VARIABLES c,        \* the state of the core
          cycles    \* cycles used so far

vars == <<c, cycles>>

(* The kind of core: how many bytes a return address has, and which        *)
(* instructions are faster.                                                *)
Devices == [PC_size : {2, 3}, flagXMega : BOOLEAN, flagTiny10 : BOOLEAN]
PCRange == 16777216
Cores == [mem : [Data -> Byte], sreg : Flags, PC : 0 .. PCRange - 1, SP : 0 .. stackCeil - 1,
          rampz : Byte, eind : Byte, clks : 0 .. 5, dev : Devices,
          flash : Seq(STRING \X Int \X Int), spm : Programmers]
-----------------------------------------------------------------------------
(* Memory.  What is beyond it reads as 0 and is not written. *)
SREG == 95
SPMCR == 87
FlagOrder == <<"C", "Z", "N", "V", "S", "H", "T", "I">>
Packed(f) == LET b(i) == Num(f[FlagOrder[i]])
             IN  b(1) + 2 * b(2) + 4 * b(3) + 8 * b(4) + 16 * b(5) + 32 * b(6) + 64 * b(7) + 128 * b(8)
Unpacked(v) == [n \in {FlagOrder[i] : i \in 1 .. 8} |->
                  Bit(v, 2 ^ ((CHOOSE i \in 1 .. 8 : FlagOrder[i] = n) - 1))]

GetRWMem(x, a) ==
  CASE a = SREG  -> Packed(x.sreg)
    [] a = SPMCR -> x.spm.spmcr_val
    [] a \in Data \ {SREG, SPMCR} -> x.mem[a]
    [] OTHER -> 0
SetRWMem(x, a, v) ==
  CASE a = SREG  -> [x EXCEPT !.sreg = Unpacked(v)]
    [] a = SPMCR -> [x EXCEPT !.spm = SetSpmcr(@, v)]
    [] a \in Data \ {SREG, SPMCR} -> [x EXCEPT !.mem[a] = v]
    [] OTHER -> x

Reg(x, r) == x.mem[r]
SetReg(x, r, v) == [x EXCEPT !.mem[r] = v]
Pair(x, r) == 256 * x.mem[r + 1] + x.mem[r]
SetPair(x, r, v) == [x EXCEPT !.mem[r] = v % 256, !.mem[r + 1] = (v \div 256) % 256]
RX == 26
RY == 28
RZ == 30
IO(a) == a + 32

(* The instruction ends after n clocks. *)
Clks(x, n) == [x EXCEPT !.clks = n]
Short(x) == x.dev.flagXMega \/ x.dev.flagTiny10
Result(x, r, v, f) == Clks([x EXCEPT !.mem[r] = v, !.sreg = f], 1)
Compared(x, f) == Clks([x EXCEPT !.sreg = f], 1)
Product(x, product, res) ==
  Clks([SetPair(x, 0, res) EXCEPT !.sreg = MulFlags(x.sreg, product, res)], 2)

(* Step adds 1 to the program counter after the instruction. *)
Wrap(n) == n % 65536
GoTo(x, a, n) == Clks([x EXCEPT !.PC = a % PCRange], n)
Masked(n) == (n % PCRange) & (FlashWords - 1)
(* Words of flash; below the lock they read as 0. *)
ReadMemWord(x, a) ==
  IF x.flash[a + 1][1] = "WORD" /\ ~IsRWWLock(x.spm, 2 * a) THEN x.flash[a + 1][2] ELSE 0
ReadMem(x, a) ==
  LET w == ReadMemWord(x, a \div 2) IN IF a % 2 = 0 THEN w % 256 ELSE w \div 256
TwoWords == {"CALL", "JMP", "LDS", "STS"}
Skips(x, cond) ==
  LET skip == IF x.PC + 2 <= Len(x.flash) /\ x.flash[x.PC + 2][1] \in TwoWords THEN 3 ELSE 2
  IN  IF cond THEN GoTo(x, x.PC + skip - 1, skip) ELSE Clks(x, 1)
Branch(x, cond, k) == IF cond THEN GoTo(x, x.PC + k, 2) ELSE Clks(x, 1)

(* The stack: the low byte of an address is pushed first. *)
Push(x, v) == [SetRWMem(x, x.SP, v) EXCEPT !.SP = (x.SP - 1) % stackCeil]
Popped(x) == [x EXCEPT !.SP = (@ + 1) % stackCeil]
Top(x) == GetRWMem(Popped(x), Popped(x).SP)
PushAddr(x, a) ==
  LET two == Push(Push(x, a % 256), (a \div 256) % 256)
  IN  IF x.dev.PC_size = 3 THEN Push(two, a \div 65536) ELSE two

(* Mutant of PopAddr: the low byte comes first. *)
PopAddrLowFirst(x) ==
  [a |-> Top(x) + 256 * Top(Popped(x)), x |-> Popped(Popped(x))]

PopAddr(x) ==
  LET y == Popped(x)
      z == Popped(y)
      two == 256 * Top(x) + Top(y)
  IN  IF x.dev.PC_size = 3 THEN [a |-> 256 * two + Top(z), x |-> Popped(z)]
      ELSE [a |-> two, x |-> z]
-----------------------------------------------------------------------------
(* Arithmetic and logic. *)
avr_op_ADC(x, d, r) ==
  Result(x, d, AddResult(Reg(x, d), Reg(x, r), x.sreg.C), AddFlags(x.sreg, Reg(x, d), Reg(x, r), x.sreg.C))
avr_op_ADD(x, d, r) ==
  Result(x, d, AddResult(Reg(x, d), Reg(x, r), FALSE), AddFlags(x.sreg, Reg(x, d), Reg(x, r), FALSE))
avr_op_ADIW(x, d, k) ==
  Clks([SetPair(x, d, Wrap(Pair(x, d) + k)) EXCEPT !.sreg = AdiwFlags(x.sreg, Pair(x, d), k)], 2)
avr_op_AND(x, d, r) == LET res == Reg(x, d) & Reg(x, r) IN Result(x, d, res, LogicFlags(x.sreg, res))
avr_op_ANDI(x, d, k) == LET res == Reg(x, d) & k IN Result(x, d, res, LogicFlags(x.sreg, res))
avr_op_ASR(x, d, r) ==
  LET res == (Reg(x, d) \div 2) + (Reg(x, d) & 128) IN Result(x, d, res, ShiftFlags(x.sreg, res, Reg(x, d)))
avr_op_BCLR(x, b, r) == Compared(x, Unpacked(Packed(x.sreg) & (255 - 2 ^ b)))
avr_op_BLD(x, d, b) ==
  Clks(SetReg(x, d, IF x.sreg.T THEN Reg(x, d) | 2 ^ b ELSE Reg(x, d) & (255 - 2 ^ b)), 1)
avr_op_BSET(x, b, r) == Compared(x, Unpacked(Packed(x.sreg) | 2 ^ b))
avr_op_BST(x, d, b) == Compared(x, [x.sreg EXCEPT !.T = Bit(Reg(x, d), 2 ^ b)])
avr_op_COM(x, d, r) == LET res == 255 - Reg(x, d) IN Result(x, d, res, Status(x.sreg, res, FALSE, TRUE))
avr_op_CP(x, d, r) == Compared(x, SubFlags(x.sreg, Reg(x, d), Reg(x, r), FALSE))
avr_op_CPC(x, d, r) == Compared(x, SbcFlags(x.sreg, Reg(x, d), Reg(x, r)))
avr_op_CPI(x, d, k) == Compared(x, SubFlags(x.sreg, Reg(x, d), k, FALSE))
avr_op_DEC(x, d, r) ==
  LET res == (Reg(x, d) - 1) % 256 IN Result(x, d, res, Status(x.sreg, res, res = 127, x.sreg.C))
avr_op_EOR(x, d, r) == LET res == Reg(x, d) ^^ Reg(x, r) IN Result(x, d, res, LogicFlags(x.sreg, res))
avr_op_FMUL(x, d, r) ==
  LET p == Wrap(Reg(x, d) * Reg(x, r)) IN Product(x, p, Wrap(2 * p))
avr_op_FMULS(x, d, r) ==
  LET p == Wrap(Signed(Reg(x, d)) * Signed(Reg(x, r))) IN Product(x, p, Wrap(2 * p))
avr_op_FMULSU(x, d, r) ==
  LET p == Wrap(Signed(Reg(x, d)) * Reg(x, r)) IN Product(x, p, Wrap(2 * p))
avr_op_INC(x, d, r) ==
  LET res == (Reg(x, d) + 1) % 256 IN Result(x, d, res, Status(x.sreg, res, Reg(x, d) = 127, x.sreg.C))
avr_op_LSR(x, d, r) ==
  LET res == Reg(x, d) \div 2 IN Result(x, d, res, ShiftFlags(x.sreg, res, Reg(x, d)))
avr_op_MOV(x, d, r) == Clks(SetReg(x, d, Reg(x, r)), 1)
avr_op_MOVW(x, d, r) == Clks(SetPair(x, d, Pair(x, r)), 1)
avr_op_MUL(x, d, r) == LET p == Reg(x, d) * Reg(x, r) IN Product(x, p, p)
avr_op_MULS(x, d, r) == LET p == Wrap(Signed(Reg(x, d)) * Signed(Reg(x, r))) IN Product(x, p, p)

(* Mutant of avr_op_MULSU: both operands are signed. *)
avr_op_MULSU_SS(x, d, r) == avr_op_MULS(x, d, r)

avr_op_MULSU(x, d, r) == LET p == Wrap(Signed(Reg(x, d)) * Reg(x, r)) IN Product(x, p, p)
avr_op_NEG(x, d, r) == Result(x, d, (0 - Reg(x, d)) % 256, NegFlags(x.sreg, Reg(x, d)))
avr_op_NOP(x, d, r) == Clks(x, 1)
avr_op_OR(x, d, r) == LET res == Reg(x, d) | Reg(x, r) IN Result(x, d, res, LogicFlags(x.sreg, res))
avr_op_ORI(x, d, k) == LET res == Reg(x, d) | k IN Result(x, d, res, LogicFlags(x.sreg, res))
avr_op_ROR(x, d, r) ==
  LET res == (Reg(x, d) \div 2) + 128 * Num(x.sreg.C) IN Result(x, d, res, ShiftFlags(x.sreg, res, Reg(x, d)))
avr_op_SBC(x, d, r) ==
  Result(x, d, SubResult(Reg(x, d), Reg(x, r), x.sreg.C), SbcFlags(x.sreg, Reg(x, d), Reg(x, r)))
avr_op_SBCI(x, d, k) ==
  Result(x, d, SubResult(Reg(x, d), k, x.sreg.C), SbcFlags(x.sreg, Reg(x, d), k))
avr_op_SBIW(x, d, k) ==
  Clks([SetPair(x, d, Wrap(Pair(x, d) - k)) EXCEPT !.sreg = SbiwFlags(x.sreg, Pair(x, d), k)], 2)
avr_op_SUB(x, d, r) ==
  Result(x, d, SubResult(Reg(x, d), Reg(x, r), FALSE), SubFlags(x.sreg, Reg(x, d), Reg(x, r), FALSE))
avr_op_SUBI(x, d, k) ==
  Result(x, d, SubResult(Reg(x, d), k, FALSE), SubFlags(x.sreg, Reg(x, d), k, FALSE))
avr_op_SWAP(x, d, r) == Clks(SetReg(x, d, 16 * (Reg(x, d) % 16) + (Reg(x, d) \div 16)), 1)
-----------------------------------------------------------------------------
(* Branches, skips, jumps, calls and returns. *)
avr_op_BRBC(x, b, k) == Branch(x, ~Bit(Packed(x.sreg), 2 ^ b), k)
avr_op_BRBS(x, b, k) == Branch(x, Bit(Packed(x.sreg), 2 ^ b), k)
avr_op_CALL(x, kh, r) ==
  GoTo(PushAddr(x, x.PC + 2), 65536 * kh + ReadMemWord(x, x.PC + 1) - 1,
       x.dev.PC_size + (IF x.dev.flagXMega THEN 1 ELSE 2))
avr_op_CPSE(x, d, r) == Skips(x, Reg(x, d) = Reg(x, r))
avr_op_EICALL(x, d, r) ==
  GoTo(PushAddr(x, x.PC + 1), 65536 * x.eind + Pair(x, RZ), IF x.dev.flagXMega THEN 3 ELSE 4)
avr_op_EIJMP(x, d, r) == GoTo(x, 65536 * x.eind + Pair(x, RZ), 2)
avr_op_ICALL(x, d, r) ==
  GoTo(PushAddr(x, x.PC + 1), Pair(x, RZ) - 1, x.dev.PC_size + (IF x.dev.flagXMega THEN 0 ELSE 1))
avr_op_IJMP(x, d, r) == GoTo(x, Pair(x, RZ) - 1, 2)
avr_op_JMP(x, kh, r) == GoTo(x, 65536 * kh + ReadMemWord(x, x.PC + 1) - 1, 3)
avr_op_RCALL(x, k, r) ==
  GoTo(PushAddr(x, x.PC + 1), Masked(x.PC + k),
       IF x.dev.flagTiny10 THEN 4 ELSE x.dev.PC_size + (IF x.dev.flagXMega THEN 0 ELSE 1))
avr_op_RET(x, d, r) == GoTo(PopAddr(x).x, PopAddr(x).a - 1, x.dev.PC_size + 2)
avr_op_RETI(x, d, r) == [avr_op_RET(x, d, r) EXCEPT !.sreg.I = TRUE]
avr_op_RJMP(x, k, r) == GoTo(x, Masked(x.PC + k), 2)
avr_op_SBRC(x, d, b) == Skips(x, ~Bit(Reg(x, d), 2 ^ b))
avr_op_SBRS(x, d, b) == Skips(x, Bit(Reg(x, d), 2 ^ b))
avr_op_SBIC(x, a, b) ==
  LET y == Skips(x, ~Bit(GetRWMem(x, IO(a)), 2 ^ b)) IN Clks(y, y.clks + Num(x.dev.flagXMega))
avr_op_SBIS(x, a, b) ==
  LET y == Skips(x, Bit(GetRWMem(x, IO(a)), 2 ^ b)) IN Clks(y, y.clks + Num(x.dev.flagXMega))
-----------------------------------------------------------------------------
(* Loads and stores.  The pointer is changed after the access of a load,   *)
(* and before that of a store that decrements it.                          *)
avr_op_CBI(x, a, b) ==
  Clks(SetRWMem(x, IO(a), GetRWMem(x, IO(a)) & (255 - 2 ^ b)), IF Short(x) THEN 1 ELSE 2)
avr_op_SBI(x, a, b) ==
  Clks(SetRWMem(x, IO(a), GetRWMem(x, IO(a)) | 2 ^ b), IF Short(x) THEN 1 ELSE 2)
avr_op_IN(x, d, a) == Clks(SetReg(x, d, GetRWMem(x, IO(a))), 1)
avr_op_OUT(x, a, r) == Clks(SetRWMem(x, IO(a), Reg(x, r)), 1)
avr_op_LDI(x, d, k) == Clks(SetReg(x, d, k), 1)

Load(x, d, p, k, n) == Clks(SetReg(x, d, GetRWMem(x, Pair(x, p) + k)), n)
LoadIncr(x, d, p) ==
  SetPair(Load(x, d, p, 0, IF x.dev.flagXMega THEN 1 ELSE 2), p, Wrap(Pair(x, p) + 1))
LoadDecr(x, d, p) ==
  LET a == Wrap(Pair(x, p) - 1)
  IN  SetPair(Clks(SetReg(x, d, GetRWMem(x, a)), IF x.dev.flagTiny10 THEN 3 ELSE 2), p, a)
avr_op_LDD_Y(x, d, k) == Load(x, d, RY, k, IF Short(x) /\ k = 0 THEN 1 ELSE 2)
avr_op_LDD_Z(x, d, k) == Load(x, d, RZ, k, IF Short(x) /\ k = 0 THEN 1 ELSE 2)
avr_op_LD_X(x, d, r) == Load(x, d, RX, 0, IF Short(x) THEN 1 ELSE 2)
avr_op_LD_X_decr(x, d, r) == LoadDecr(x, d, RX)
avr_op_LD_X_incr(x, d, r) == LoadIncr(x, d, RX)
avr_op_LD_Y_decr(x, d, r) == LoadDecr(x, d, RY)
avr_op_LD_Y_incr(x, d, r) == LoadIncr(x, d, RY)
avr_op_LD_Z_decr(x, d, r) == LoadDecr(x, d, RZ)
avr_op_LD_Z_incr(x, d, r) == LoadIncr(x, d, RZ)
avr_op_LDS(x, d, r) == GoTo(SetReg(x, d, GetRWMem(x, ReadMemWord(x, x.PC + 1))), x.PC + 1, 2)

Store(x, r, p, k, n) == Clks(SetRWMem(x, Pair(x, p) + k, Reg(x, r)), n)
StoreIncr(x, r, p) ==
  LET y == Store(x, r, p, 0, IF Short(x) THEN 1 ELSE 2) IN SetPair(y, p, Wrap(Pair(x, p) + 1))

(* Mutant of StoreDecr: the pointer is decremented after the access. *)
StoreDecrAfter(x, r, p) == SetPair(Store(x, r, p, 0, 2), p, Wrap(Pair(x, p) - 1))

StoreDecr(x, r, p) ==
  LET y == SetPair(x, p, Wrap(Pair(x, p) - 1)) IN Store(y, r, p, 0, 2)
avr_op_STD_Y(x, r, k) == Store(x, r, RY, k, IF Short(x) /\ k = 0 THEN 1 ELSE 2)
avr_op_STD_Z(x, r, k) == Store(x, r, RZ, k, IF Short(x) /\ k = 0 THEN 1 ELSE 2)
avr_op_ST_X(x, r, k) == Store(x, r, RX, 0, IF Short(x) THEN 1 ELSE 2)
avr_op_ST_X_decr(x, r, k) == StoreDecr(x, r, RX)
avr_op_ST_X_incr(x, r, k) == StoreIncr(x, r, RX)
avr_op_ST_Y_decr(x, r, k) == StoreDecr(x, r, RY)
avr_op_ST_Y_incr(x, r, k) == StoreIncr(x, r, RY)
avr_op_ST_Z_decr(x, r, k) == StoreDecr(x, r, RZ)
avr_op_ST_Z_incr(x, r, k) == StoreIncr(x, r, RZ)
avr_op_STS(x, r, k) == GoTo(SetRWMem(x, ReadMemWord(x, x.PC + 1), Reg(x, r)), x.PC + 1, 2)
avr_op_POP(x, d, r) == Clks(SetReg(Popped(x), d, Top(x)), 2)
avr_op_PUSH(x, d, r) == Clks(Push(x, Reg(x, d)), IF x.dev.flagXMega THEN 1 ELSE 2)

(* Reads of the program memory; the extended ones put RAMPZ in front of Z. *)
Extended(x) == 65536 * x.rampz + Pair(x, RZ)
avr_op_ELPM(x, d, r) == Clks(SetReg(x, 0, ReadMem(x, Extended(x))), 3)
avr_op_ELPM_Z(x, d, r) == Clks(SetReg(x, d, ReadMem(x, Extended(x))), 3)
avr_op_ELPM_Z_incr(x, d, r) ==
  LET z == Extended(x) + 1
  IN  [SetPair(Clks(SetReg(x, d, ReadMem(x, Extended(x))), 3), RZ, z) EXCEPT !.rampz = (z \div 65536) % 256]
avr_op_LPM(x, d, r) == Clks(SetReg(x, 0, ReadMem(x, Pair(x, RZ))), 3)
avr_op_LPM_Z(x, d, r) == Clks(SetReg(x, d, ReadMem(x, Pair(x, RZ))), 3)
avr_op_LPM_Z_incr(x, d, r) == SetPair(avr_op_LPM_Z(x, d, r), RZ, Wrap(Pair(x, RZ) + 1))

(* SPM writes R1:R0 to the page buffer, or the buffer to the flash; the    *)
(* address is RAMPZ:Z, which only ESPM moves on.                           *)
avr_op_SPM(x, d, r) ==
  LET y == SPM_action(x.spm, x.flash, x.PC, Pair(x, 0), Extended(x))
  IN  Clks([x EXCEPT !.spm = y.spm, !.flash = y.flash], 1 + y.clks)
avr_op_ESPM(x, d, r) ==
  LET z == Pair(x, RZ) + 1
  IN  [SetPair(avr_op_SPM(x, d, r), RZ, z) EXCEPT !.rampz = z \div 65536]
-----------------------------------------------------------------------------
(* The instruction i at the state x. *)
Execute(x, i) ==
  LET n == i[1] d == i[2] r == i[3] IN
  CASE n = "ADC" -> avr_op_ADC(x, d, r)
    [] n = "ADD" -> avr_op_ADD(x, d, r)
    [] n = "ADIW" -> avr_op_ADIW(x, d, r)
    [] n = "AND" -> avr_op_AND(x, d, r)
    [] n = "ANDI" -> avr_op_ANDI(x, d, r)
    [] n = "ASR" -> avr_op_ASR(x, d, r)
    [] n = "BCLR" -> avr_op_BCLR(x, d, r)
    [] n = "BLD" -> avr_op_BLD(x, d, r)
    [] n = "BRBC" -> avr_op_BRBC(x, d, r)
    [] n = "BRBS" -> avr_op_BRBS(x, d, r)
    [] n = "BSET" -> avr_op_BSET(x, d, r)
    [] n = "BST" -> avr_op_BST(x, d, r)
    [] n = "CALL" -> avr_op_CALL(x, d, r)
    [] n = "CBI" -> avr_op_CBI(x, d, r)
    [] n = "COM" -> avr_op_COM(x, d, r)
    [] n = "CP" -> avr_op_CP(x, d, r)
    [] n = "CPC" -> avr_op_CPC(x, d, r)
    [] n = "CPI" -> avr_op_CPI(x, d, r)
    [] n = "CPSE" -> avr_op_CPSE(x, d, r)
    [] n = "DEC" -> avr_op_DEC(x, d, r)
    [] n = "EICALL" -> avr_op_EICALL(x, d, r)
    [] n = "EIJMP" -> avr_op_EIJMP(x, d, r)
    [] n = "ELPM" -> avr_op_ELPM(x, d, r)
    [] n = "ELPM_Z" -> avr_op_ELPM_Z(x, d, r)
    [] n = "ELPM_Z_incr" -> avr_op_ELPM_Z_incr(x, d, r)
    [] n = "EOR" -> avr_op_EOR(x, d, r)
    [] n = "FMUL" -> avr_op_FMUL(x, d, r)
    [] n = "FMULS" -> avr_op_FMULS(x, d, r)
    [] n = "FMULSU" -> avr_op_FMULSU(x, d, r)
    [] n = "ICALL" -> avr_op_ICALL(x, d, r)
    [] n = "IJMP" -> avr_op_IJMP(x, d, r)
    [] n = "IN" -> avr_op_IN(x, d, r)
    [] n = "INC" -> avr_op_INC(x, d, r)
    [] n = "JMP" -> avr_op_JMP(x, d, r)
    [] n = "LDD_Y" -> avr_op_LDD_Y(x, d, r)
    [] n = "LDD_Z" -> avr_op_LDD_Z(x, d, r)
    [] n = "LDI" -> avr_op_LDI(x, d, r)
    [] n = "LDS" -> avr_op_LDS(x, d, r)
    [] n = "LD_X" -> avr_op_LD_X(x, d, r)
    [] n = "LD_X_decr" -> avr_op_LD_X_decr(x, d, r)
    [] n = "LD_X_incr" -> avr_op_LD_X_incr(x, d, r)
    [] n = "LD_Y_decr" -> avr_op_LD_Y_decr(x, d, r)
    [] n = "LD_Y_incr" -> avr_op_LD_Y_incr(x, d, r)
    [] n = "LD_Z_decr" -> avr_op_LD_Z_decr(x, d, r)
    [] n = "LD_Z_incr" -> avr_op_LD_Z_incr(x, d, r)
    [] n = "LPM" -> avr_op_LPM(x, d, r)
    [] n = "LPM_Z" -> avr_op_LPM_Z(x, d, r)
    [] n = "LPM_Z_incr" -> avr_op_LPM_Z_incr(x, d, r)
    [] n = "LSR" -> avr_op_LSR(x, d, r)
    [] n = "MOV" -> avr_op_MOV(x, d, r)
    [] n = "MOVW" -> avr_op_MOVW(x, d, r)
    [] n = "MUL" -> avr_op_MUL(x, d, r)
    [] n = "MULS" -> avr_op_MULS(x, d, r)
    [] n = "MULSU" -> avr_op_MULSU(x, d, r)
    [] n = "NEG" -> avr_op_NEG(x, d, r)
    [] n = "NOP" -> avr_op_NOP(x, d, r)
    [] n = "OR" -> avr_op_OR(x, d, r)
    [] n = "ORI" -> avr_op_ORI(x, d, r)
    [] n = "OUT" -> avr_op_OUT(x, d, r)
    [] n = "POP" -> avr_op_POP(x, d, r)
    [] n = "PUSH" -> avr_op_PUSH(x, d, r)
    [] n = "RCALL" -> avr_op_RCALL(x, d, r)
    [] n = "RET" -> avr_op_RET(x, d, r)
    [] n = "RETI" -> avr_op_RETI(x, d, r)
    [] n = "RJMP" -> avr_op_RJMP(x, d, r)
    [] n = "ROR" -> avr_op_ROR(x, d, r)
    [] n = "SBC" -> avr_op_SBC(x, d, r)
    [] n = "SBCI" -> avr_op_SBCI(x, d, r)
    [] n = "SBI" -> avr_op_SBI(x, d, r)
    [] n = "SBIC" -> avr_op_SBIC(x, d, r)
    [] n = "SBIS" -> avr_op_SBIS(x, d, r)
    [] n = "SBIW" -> avr_op_SBIW(x, d, r)
    [] n = "SBRC" -> avr_op_SBRC(x, d, r)
    [] n = "SBRS" -> avr_op_SBRS(x, d, r)
    [] n = "SPM" -> avr_op_SPM(x, d, r)
    [] n = "ESPM" -> avr_op_ESPM(x, d, r)
    [] n = "STD_Y" -> avr_op_STD_Y(x, d, r)
    [] n = "STD_Z" -> avr_op_STD_Z(x, d, r)
    [] n = "STS" -> avr_op_STS(x, d, r)
    [] n = "ST_X" -> avr_op_ST_X(x, d, r)
    [] n = "ST_X_decr" -> avr_op_ST_X_decr(x, d, r)
    [] n = "ST_X_incr" -> avr_op_ST_X_incr(x, d, r)
    [] n = "ST_Y_decr" -> avr_op_ST_Y_decr(x, d, r)
    [] n = "ST_Y_incr" -> avr_op_ST_Y_incr(x, d, r)
    [] n = "ST_Z_decr" -> avr_op_ST_Z_decr(x, d, r)
    [] n = "ST_Z_incr" -> avr_op_ST_Z_incr(x, d, r)
    [] n = "SUB" -> avr_op_SUB(x, d, r)
    [] n = "SUBI" -> avr_op_SUBI(x, d, r)
    [] n = "SWAP" -> avr_op_SWAP(x, d, r)

(* An instruction of Step; a BREAK hands over to the debugger, and beyond  *)
(* the flash, below its lock, or at something that is no instruction, the  *)
(* simulation ends.                                                        *)
Runs ==
  /\ c.PC < Len(c.flash) /\ c.PC < FlashWords
  /\ ~IsRWWLock(c.spm, 2 * c.PC)
  /\ c.flash[c.PC + 1][1] \notin {"BREAK", "WORD"}

(* The programming engine sees every cycle until the next instruction.     *)
Step ==
  /\ Runs
  /\ LET x == Execute(c, c.flash[c.PC + 1])
     IN  /\ c' = [x EXCEPT !.PC = (@ + 1) % PCRange, !.spm = CpuCycle(@, x.clks)]
         /\ cycles' = cycles + x.clks
=============================================================================
