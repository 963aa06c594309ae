------------------------------ MODULE Routines ------------------------------
(***************************************************************************)
(* The instructions of Decoder at work: the short routines that compilers  *)
(* build 16 bit arithmetic, comparisons, calls and pointer accesses from,  *)
(* each run to its BREAK from every choice of operands, on every kind of   *)
(* core, and interrupted once at every instruction by a handler that saves *)
(* what it uses.  An instruction by itself can hardly be wrong in a way    *)
(* that shows: the flags of one are what the next ones rely on.            *)
(***************************************************************************)
EXTENDS Decoder

CONSTANTS Operands,     \* words for the operands a and b
          Cpus,         \* kinds of core
          Buffer,       \* address of two bytes of RAM, on either side of a page border
          StackTop,     \* where the stack begins
          MaxIrqs       \* bound on the interrupts of one execution

ASSUME RoutinesAssumption ==
  /\ Operands \subseteq Word /\ Cpus \subseteq Devices
  /\ {Buffer, Buffer + 1} \subseteq Data /\ StackTop \in Data /\ MaxIrqs \in 0 .. 9

VARIABLES in,       \* what the execution started from
          irqs      \* interrupts taken

allVars == <<vars, in, irqs>>

Hi(w) == w \div 256
Lo(w) == w % 256
-----------------------------------------------------------------------------
(* The handler, at address 0: it destroys R0 and the flags, and gives them *)
(* back.  After it a page of flash, and the routine.                       *)
Handler == << <<"PUSH", 0, 0>>, <<"IN", 0, 63>>, <<"PUSH", 0, 0>>, <<"EOR", 0, 0>>,
              <<"INC", 0, 0>>, <<"POP", 0, 0>>, <<"OUT", 63, 0>>, <<"POP", 0, 0>>,
              <<"RETI", 0, 0>>, <<"NOP", 0, 0>> >>
Page == Len(Handler)
Start == Page + pageSize
Break == <<"BREAK", 0, 0>>
Address(n) == <<"WORD", Start + n, 0>>     \* of instruction n of the routine

(* Arithmetic: a in R25:R24, b in R23:R22, the result in R25:R24. *)
Arithmetic ==
  [add    |-> << <<"ADD", 24, 22>>, <<"ADC", 25, 23>> >>,
   sub    |-> << <<"SUB", 24, 22>>, <<"SBC", 25, 23>> >>,
   subi   |-> << <<"SUBI", 24, 232>>, <<"SBCI", 25, 3>> >>,
   adiw   |-> << <<"ADIW", 24, 63>> >>,
   sbiw   |-> << <<"SBIW", 24, 63>> >>,
   neg    |-> << <<"COM", 25, 0>>, <<"NEG", 24, 0>>, <<"SBCI", 25, 255>> >>,
   lsl    |-> << <<"ADD", 24, 24>>, <<"ADC", 25, 25>> >>,
   lsr    |-> << <<"LSR", 25, 0>>, <<"ROR", 24, 0>> >>,
   asr    |-> << <<"ASR", 25, 0>>, <<"ROR", 24, 0>> >>,
   plus   |-> << <<"BSET", 0, 0>>, <<"ADC", 24, 22>>, <<"ADC", 25, 23>> >>,
   minus  |-> << <<"BCLR", 0, 0>>, <<"SBC", 24, 22>>, <<"SBC", 25, 23>> >>,
   swap   |-> << <<"EOR", 24, 22>>, <<"EOR", 22, 24>>, <<"EOR", 24, 22>>, <<"EOR", 25, 23>>,
                 <<"EOR", 23, 25>>, <<"EOR", 25, 23>> >>,
   demorg |-> << <<"COM", 24, 0>>, <<"COM", 22, 0>>, <<"OR", 24, 22>>, <<"COM", 24, 0>>,
                 <<"MOV", 18, 25>>, <<"AND", 25, 23>>, <<"COM", 18, 0>>, <<"COM", 23, 0>>,
                 <<"OR", 18, 23>>, <<"COM", 18, 0>>, <<"EOR", 25, 18>> >>,
   digit  |-> << <<"BST", 25, 7>>, <<"ANDI", 24, 15>>, <<"ORI", 24, 48>>, <<"SWAP", 24, 0>>,
                 <<"EOR", 25, 25>>, <<"BLD", 25, 3>> >>,
   mul    |-> << <<"MUL", 24, 22>>, <<"MOVW", 18, 0>>, <<"MUL", 24, 23>>, <<"ADD", 19, 0>>,
                 <<"MUL", 25, 22>>, <<"ADD", 19, 0>>, <<"MOVW", 24, 18>> >>,
   muls   |-> << <<"MOVW", 20, 24>>, <<"MULS", 21, 23>>, <<"MOVW", 18, 0>>, <<"MUL", 20, 22>>,
                 <<"MOVW", 16, 0>>, <<"MULSU", 21, 22>>, <<"SBC", 19, 2>>, <<"ADD", 17, 0>>,
                 <<"ADC", 18, 1>>, <<"ADC", 19, 2>>, <<"MULSU", 23, 20>>, <<"SBC", 19, 2>>,
                 <<"ADD", 17, 0>>, <<"ADC", 18, 1>>, <<"ADC", 19, 2>> >>,
   fmul   |-> << <<"MOVW", 20, 24>>, <<"FMUL", 20, 22>>, <<"MOVW", 24, 0>> >>,
   fmuls  |-> << <<"MOVW", 20, 24>>, <<"FMULS", 21, 23>>, <<"MOVW", 24, 0>> >>,
   fmulsu |-> << <<"MOVW", 20, 24>>, <<"FMULSU", 21, 22>>, <<"MOVW", 24, 0>> >>]

(* Comparisons: R24 is 1 when the branch on flag bit b is taken. *)
Compare == << <<"CP", 24, 22>>, <<"CPC", 25, 23>> >>
CompareImmediate == << <<"CPI", 24, 128>>, <<"LDI", 18, 127>>, <<"CPC", 25, 18>> >>
Limit == 32640      \* the constant of CompareImmediate
Decide(branch, b) ==
  << <<"LDI", 24, 1>>, <<branch, b, 1>>, <<"LDI", 24, 0>> >>
Comparisons ==
  [lower  |-> Compare \o Decide("BRBS", 0),          same    |-> Compare \o Decide("BRBC", 0),
   equal  |-> Compare \o Decide("BRBS", 1),          differ  |-> Compare \o Decide("BRBC", 1),
   less   |-> Compare \o Decide("BRBS", 4),          greater |-> Compare \o Decide("BRBC", 4),
   loweri |-> CompareImmediate \o Decide("BRBS", 0), lessi   |-> CompareImmediate \o Decide("BRBS", 4),
   equali |-> CompareImmediate \o Decide("BRBS", 1)]

(* Control: skips of one and of two words, calls inside calls, a loop. *)
Control ==
  [skip   |-> << <<"CPSE", 24, 22>>, <<"JMP", 0, 0>>, Address(5), <<"LDI", 18, 1>>, Break,
                 <<"LDI", 18, 2>> >>,
   skipr  |-> << <<"SBRC", 24, 7>>, <<"INC", 18, 0>>, <<"SBRS", 24, 0>>, <<"INC", 18, 0>> >>,
   skipio |-> << <<"OUT", 16, 24>>, <<"SBIC", 16, 7>>, <<"STS", 22, 0>>, <<"WORD", Buffer, 0>>,
                 <<"SBIS", 16, 0>>, <<"LDS", 18, 0>>, <<"WORD", Buffer, 0>> >>,
   bits   |-> << <<"OUT", 16, 24>>, <<"SBI", 16, 3>>, <<"CBI", 16, 4>>, <<"IN", 18, 16>> >>,
   calls  |-> << <<"CALL", 0, 0>>, Address(8), <<"RCALL", 5, 0>>, <<"LDI", 30, Start + 8>>,
                 <<"LDI", 31, 0>>, <<"ICALL", 0, 0>>, <<"RJMP", 8, 0>>, <<"NOP", 0, 0>>,
                 <<"PUSH", 18, 0>>, <<"RCALL", 3, 0>>, <<"POP", 18, 0>>, <<"INC", 18, 0>>, <<"RET", 0, 0>>,
                 <<"INC", 18, 0>>, <<"RET", 0, 0>>,
                 <<"LDI", 30, Start + 18>>, <<"IJMP", 0, 0>>, <<"NOP", 0, 0>> >>,
   delay  |-> << <<"MOV", 16, 24>>, <<"ANDI", 16, 3>>, <<"INC", 16, 0>>, <<"DEC", 16, 0>>,
                 <<"BRBC", 1, -2>> >>]

(* Pointers: the result in R18 (high) and R19 (low). *)
Point(p, a) == << <<"LDI", p, Lo(a)>>, <<"LDI", p + 1, Hi(a)>> >>
There(st, ld, p, a) ==      \* a goes to memory and comes back the other way
  Point(p, a) \o << <<st, 24, 0>>, <<st, 25, 0>>, <<ld, 18, 0>>, <<ld, 19, 0>> >>
Constant == 51966
Table(n) == 2 * (Start + n)     \* address of a word of flash, in bytes
Pointers ==
  [upx    |-> There("ST_X_incr", "LD_X_decr", RX, Buffer),
   upy    |-> There("ST_Y_incr", "LD_Y_decr", RY, Buffer),
   upz    |-> There("ST_Z_incr", "LD_Z_decr", RZ, Buffer),
   downx  |-> There("ST_X_decr", "LD_X_incr", RX, Buffer + 2),
   downy  |-> There("ST_Y_decr", "LD_Y_incr", RY, Buffer + 2),
   downz  |-> There("ST_Z_decr", "LD_Z_incr", RZ, Buffer + 2),
   stack  |-> << <<"PUSH", 24, 0>>, <<"PUSH", 25, 0>>, <<"POP", 18, 0>>, <<"POP", 19, 0>> >>,
   displ  |-> Point(RY, Buffer - 1) \o Point(RZ, Buffer) \o
              << <<"STD_Y", 24, 1>>, <<"STD_Z", 25, 1>>, <<"LDD_Y", 18, 2>>, <<"LDD_Z", 19, 0>> >>,
   direct |-> Point(RX, Buffer) \o
              << <<"ST_X", 24, 0>>, <<"STS", 25, 0>>, <<"WORD", Buffer + 1, 0>>, <<"LD_X", 19, 0>>,
                 <<"LDS", 18, 0>>, <<"WORD", Buffer + 1, 0>> >>,
   sum    |-> Point(RX, Buffer + 2) \o << <<"ST_X_decr", 25, 0>>, <<"ST_X_decr", 24, 0>> >> \o
              Point(RZ, Buffer + 4) \o << <<"ST_Z_decr", 23, 0>>, <<"ST_Z_decr", 22, 0>> >> \o
              << <<"LDI", 16, 2>>, <<"BCLR", 0, 0>>, <<"LD_X", 18, 0>>, <<"LD_Z_incr", 19, 0>>,
                 <<"ADC", 18, 19>>, <<"ST_X_incr", 18, 0>>, <<"DEC", 16, 0>>, <<"BRBC", 1, -6>>,
                 <<"LD_X_decr", 18, 0>>, <<"LD_X_decr", 19, 0>> >>,
   lpm    |-> Point(RZ, Table(6)) \o
              << <<"LPM_Z_incr", 19, 0>>, <<"LPM", 0, 0>>, <<"LPM_Z", 18, 0>>, Break, <<"WORD", Constant, 0>> >>,
   elpm   |-> Point(RZ, Table(6)) \o
              << <<"ELPM_Z_incr", 19, 0>>, <<"ELPM", 0, 0>>, <<"ELPM_Z", 18, 0>>, Break, <<"WORD", Constant, 0>> >>]

(* Self programming, from the section behind the page: erase it, fill the  *)
(* buffer with a and b, write it, open the section again and read a.       *)
(* Interrupts are off, since one in the window of an SPM makes it void.    *)
(* In the others the SPM that erases comes n instructions after the OUT.   *)
Does(spm, v) == << <<"LDI", 18, v>>, <<"OUT", SPMCR - 32, 18>>, <<spm, 0, 0>> >>
Command(v) == Does("SPM", v)
EraseAfter(n) ==
  << <<"BCLR", 7, 0>>, <<"LDI", 18, 3>>, <<"OUT", SPMCR - 32, 18>> >>
    \o [i \in 1 .. n |-> <<"NOP", 0, 0>>] \o << <<"SPM", 0, 0>> >>
Programming ==
  [boot   |-> << <<"BCLR", 7, 0>> >> \o Point(RZ, 2 * Page) \o Command(3) \o
              << <<"MOVW", 0, 24>> >> \o Does("ESPM", 1) \o << <<"ADIW", 30, 1>>, <<"MOVW", 0, 22>> >> \o
              Command(1) \o Command(5) \o Command(17) \o
              << <<"SBIW", 30, 2>>, <<"LPM_Z_incr", 19, 0>>, <<"LPM_Z", 18, 0>> >>,
   erase  |-> Point(RZ, 2 * Page) \o EraseAfter(2),
   late   |-> Point(RZ, 2 * Page) \o EraseAfter(3)]

(* Jumps, by instruction: to the BREAK, and the relative ones also to 0. *)
Jump(i, k) == Point(RZ, Start + 4) \o << <<i, k, 0>>, <<"NOP", 0, 0>> >>
Jumps ==
  [rjmp |-> Jump("RJMP", 1), rjmp0 |-> Jump("RJMP", -(Start + 3)), rcall0 |-> Jump("RCALL", -(Start + 3)),
   ijmp |-> Jump("IJMP", 0), icall |-> Jump("ICALL", 0), eijmp |-> Jump("EIJMP", 0), eicall |-> Jump("EICALL", 0)]
-----------------------------------------------------------------------------
Routine(n) ==
  CASE n \in DOMAIN Arithmetic  -> Arithmetic[n]
    [] n \in DOMAIN Comparisons -> Comparisons[n]
    [] n \in DOMAIN Control     -> Control[n]
    [] n \in DOMAIN Pointers    -> Pointers[n]
    [] n \in DOMAIN Programming -> Programming[n]
    [] n \in DOMAIN Jumps       -> Jumps[n]

OldPage == [i \in 1 .. pageSize |-> <<"WORD", i, 0>>]
Registers(a, b) ==
  [r \in Data |-> CASE r = 24 -> Lo(a) [] r = 25 -> Hi(a) [] r = 22 -> Lo(b) [] r = 23 -> Hi(b) [] OTHER -> 0]

Begin(names, operands) ==
  /\ in \in [name : names, a : operands, b : operands, dev : Cpus, flag : BOOLEAN]
  /\ c = [mem |-> Registers(in.a, in.b), sreg |-> [n \in DOMAIN Unpacked(0) |-> in.flag], PC |-> Start,
          SP |-> StackTop, rampz |-> 0, eind |-> 0, clks |-> 0, dev |-> in.dev,
          flash |-> Handler \o OldPage \o Routine(in.name) \o <<Break>>, spm |-> NewProgrammer]
  /\ cycles = 0 /\ irqs = 0

(* Step enters the handler before the next instruction. *)
Interrupt ==
  /\ Runs /\ c.sreg.I /\ irqs < MaxIrqs
  /\ c' = [PushAddr(c, c.PC) EXCEPT !.sreg.I = FALSE, !.PC = 0, !.spm = CpuCycle(@, 4)]
  /\ cycles' = cycles + 4
  /\ irqs' = irqs + 1
  /\ UNCHANGED in

Instruction == Step /\ UNCHANGED <<in, irqs>>
Held == ~Runs /\ UNCHANGED allVars      \* the debugger has it

Init == Begin(DOMAIN Arithmetic \cup DOMAIN Comparisons \cup DOMAIN Control
              \cup DOMAIN Pointers \cup DOMAIN Programming, Operands)
InitJumps == Begin(DOMAIN Jumps, {0})
Next == Instruction \/ Interrupt \/ Held

Spec == Init /\ [][Next]_allVars
SpecJumps == InitJumps /\ [][Next]_allVars
-----------------------------------------------------------------------------
(* The core keeps to its widths: bytes in memory, a stack pointer below    *)
(* the ceiling, and an instruction that takes at most five cycles.         *)
TypeOK == c \in Cores /\ cycles \in Nat /\ irqs \in 0 .. MaxIrqs

Ended == ~Runs
A == in.a
B == in.b
R == Pair(c, 24)
C == c.sreg.C

(* The flags after a 16 bit sum or difference that is x without wrapping   *)
(* and y when it is taken as signed.                                       *)
FlagsOf(x, y) == C = (x \notin Word) /\ c.sreg.S = (y < 0)

(* Sixteen bit arithmetic put together from eight bit instructions gives   *)
(* the sum, difference, negation, shift or product of the operands, with   *)
(* the carry of the whole and S its sign without overflow: the flag        *)
(* formulas of decoder.cpp carry from one instruction to the next, also    *)
(* when an interrupt comes between them.                                   *)
WideArithmetic ==
  Ended /\ in.name \in DOMAIN Arithmetic =>
  CASE in.name = "add"   -> R = Wrap(A + B) /\ FlagsOf(A + B, Signed16(A) + Signed16(B))
    [] in.name = "plus"  -> R = Wrap(A + B + 1) /\ FlagsOf(A + B + 1, Signed16(A) + Signed16(B) + 1)
    [] in.name = "sub"   -> /\ R = Wrap(A - B) /\ FlagsOf(A - B, Signed16(A) - Signed16(B))
                            /\ c.sreg.Z = (A = B)
    [] in.name = "minus" -> R = Wrap(A - B) /\ FlagsOf(A - B, Signed16(A) - Signed16(B))
    [] in.name = "subi"  -> /\ R = Wrap(A - 1000) /\ FlagsOf(A - 1000, Signed16(A) - 1000)
                            /\ c.sreg.Z = (A = 1000)
    [] in.name = "adiw"  -> R = Wrap(A + 63) /\ FlagsOf(A + 63, Signed16(A) + 63) /\ c.sreg.Z = (R = 0)
    [] in.name = "sbiw"  -> R = Wrap(A - 63) /\ FlagsOf(A - 63, Signed16(A) - 63) /\ c.sreg.Z = (R = 0)
    [] in.name = "neg"   -> R = Wrap(0 - A)
    [] in.name = "lsl"   -> R = Wrap(2 * A) /\ FlagsOf(2 * A, 2 * Signed16(A))
    [] in.name = "lsr"   -> R = A \div 2 /\ C = (A % 2 = 1)
    [] in.name = "asr"   -> R = Wrap(Signed16(A) \div 2) /\ C = (A % 2 = 1)
    [] in.name = "swap"  -> R = B /\ Pair(c, 22) = A
    [] in.name = "demorg" -> R = (Lo(A) & Lo(B))
    [] in.name = "digit" -> R = 256 * (8 * (A \div 32768)) + 16 * (A % 16) + 3
    [] in.name = "mul"   -> R = Wrap((Lo(A) * Lo(B)) + 256 * ((Hi(A) * Lo(B) + Lo(A) * Hi(B)) % 256))
    [] in.name = "muls"  -> Signed16(Pair(c, 18)) * 65536 + Pair(c, 16) = Signed16(A) * Signed16(B)
    [] in.name = "fmul"  -> 65536 * Num(C) + R = 2 * Lo(A) * Lo(B)
    [] in.name = "fmuls" -> R = Wrap(2 * Signed(Hi(A)) * Signed(Hi(B)))
    [] in.name = "fmulsu" -> R = Wrap(2 * Signed(Hi(A)) * Lo(B))

(* After CP and CPC, or CPI and CPC, a branch on C is taken exactly when   *)
(* the first operand is lower, on Z when they are equal, and on S when it  *)
(* is less as a signed number: get_sub_carry, get_sub_overflow and the Z   *)
(* that CPC only ever clears agree on every pair of words.                 *)
BranchesRight ==
  Ended /\ in.name \in DOMAIN Comparisons =>
  LET taken(cond) == c.mem[24] = Num(cond) IN
  CASE in.name = "lower"   -> taken(A < B)
    [] in.name = "same"    -> taken(A >= B)
    [] in.name = "equal"   -> taken(A = B)
    [] in.name = "differ"  -> taken(A # B)
    [] in.name = "less"    -> taken(Signed16(A) < Signed16(B))
    [] in.name = "greater" -> taken(Signed16(A) >= Signed16(B))
    [] in.name = "loweri"  -> taken(A < Limit)
    [] in.name = "lessi"   -> taken(Signed16(A) < Limit)
    [] in.name = "equali"  -> taken(A = Limit)

(* Control comes back: every routine ends at a BREAK with the stack where  *)
(* it was, after skips that jump over one or two words, calls of calls in  *)
(* which what was pushed is popped, with return addresses of two or three  *)
(* bytes, and a loop that takes three cycles a turn.                       *)
ControlRight ==
  Ended =>
  /\ c.PC < Len(c.flash) /\ c.flash[c.PC + 1] = Break /\ c.SP = StackTop
  /\ CASE in.name = "skip"   -> c.mem[18] = IF Lo(A) = Lo(B) THEN 1 ELSE 2
       [] in.name = "skipr"  -> c.mem[18] = Num(Bit(A, 128)) + Num(~Bit(A, 1))
       [] in.name = "skipio" -> c.mem[18] = IF Bit(A, 128) /\ ~Bit(A, 1) THEN Lo(B) ELSE 0
       [] in.name = "bits"   -> c.mem[18] = ((Lo(A) | 8) & 239)
       [] in.name = "calls"  -> c.mem[18] = 3
       [] in.name = "delay"  -> irqs = 0 => cycles = 3 * (A % 4) + 5
       [] OTHER -> TRUE

(* What goes to memory by a pointer that is incremented after, or          *)
(* decremented before, comes back the other way, across a page, by X, Y, Z *)
(* and the stack; and the bytes of a word of flash come in their order.    *)
PointersRight ==
  Ended /\ in.name \in DOMAIN Pointers =>
  LET is(w) == c.mem[18] = Hi(w) /\ c.mem[19] = Lo(w) IN
  CASE in.name = "sum" -> is(Wrap(A + B))
    [] in.name \in {"lpm", "elpm"} -> is(Constant)
    [] OTHER -> is(A)

(* A page that is erased, filled and written holds the words that were put *)
(* into it and can be read once the section is open again; the rest of the *)
(* flash is as it was.  An SPM acts in the three cycles after the write to *)
(* SPMCR in which opr_enable_count is not yet 0, and not after them.       *)
ProgramsPage ==
  LET old == Handler \o OldPage \o Routine(in.name) \o <<Break>>
      page == [i \in 1 .. pageSize |-> c.flash[Page + i][2]]
  IN  /\ \A i \in 1 .. Len(old) : i \in Page + 1 .. Page + pageSize \/ c.flash[i] = old[i]
      /\ Ended =>
         CASE in.name = "boot"  -> page = <<A, B>> /\ c.mem[18] = Hi(A) /\ c.mem[19] = Lo(A)
           [] in.name = "erase" -> page = <<Erased, Erased>>
           [] OTHER             -> page = <<1, 2>>

(* Where the comment on each instruction in decoder.h says that it goes. *)
Target(x, i) ==
  CASE i[1] \in {"RJMP", "RCALL"}   -> x.PC + i[2] + 1
    [] i[1] \in {"IJMP", "ICALL"}   -> Pair(x, RZ)
    [] i[1] \in {"EIJMP", "EICALL"} -> 65536 * x.eind + Pair(x, RZ)

(* A jump goes where its comment in decoder.h says: "PC <- PC + k + 1" for *)
(* RJMP and RCALL, "PC(15:0) <- Z, PC(21:16) <- EIND" for EICALL.  The     *)
(* code leaves out the - 1 that makes up for the PC++ of Step in EICALL    *)
(* and EIJMP, and masks before it in RJMP and RCALL.                       *)
JumpTarget ==
  [][LET i == c.flash[c.PC + 1]
     IN  i[1] \in {"RJMP", "RCALL", "IJMP", "ICALL", "EIJMP", "EICALL"} /\ irqs' = irqs
           => c'.PC = Target(c, i)]_allVars
=============================================================================
