----------------------------- MODULE FlashProg -----------------------------
(***************************************************************************)
(* Flash self programming (flashprog.cpp): SPMCR, the window in which an   *)
(* SPM does what was written to it (a count of four, the last of which     *)
(* closes it, so that an SPM in the three cycles after the write acts),    *)
(* the hidden page buffer, and the lock on the section that cannot be read *)
(* while it is being written.  An engine is a record; the flash is a       *)
(* sequence of words, each an instruction or <<"WORD", w, 0>>.  The end of *)
(* a write is the first cycle after it: the CPU is held until then.        *)
(***************************************************************************)
EXTENDS Naturals, Sequences, Bitwise

CONSTANTS pageSize,     \* in words, a power of 2
          nrww_addr,    \* first word of the section that can be read while writing
          isATMega

ASSUME FlashProgAssumption ==
  pageSize \in {2, 4, 8, 16, 32, 64, 128} /\ nrww_addr \in 0 .. 65536 /\ isATMega \in BOOLEAN

Operations == {"NOOP", "STOREBUFFER", "WRITEBUFFER", "ERASE", "LOCKBITS", "UNLOCKRWW", "CLEARBUFFER"}
Programmers ==
  [spmcr_val : 0 .. 255, opr_enable_count : 0 .. 4, action : {"NOOP", "PREPARE", "LOCKCPU"},
   spm_opr : Operations, tempBuffer : [0 .. pageSize - 1 -> 0 .. 65535], rww_lock : 0 .. 131072]

spmcr_opr_bits == 31        \* without the signature operation
spmcr_valid_bits == IF isATMega THEN spmcr_opr_bits + 128 ELSE spmcr_opr_bits
Erased == 65535

NewProgrammer ==
  [spmcr_val |-> 0, opr_enable_count |-> 0, action |-> "NOOP", spm_opr |-> "NOOP",
   tempBuffer |-> [i \in 0 .. pageSize - 1 |-> Erased], rww_lock |-> 0]

IsRWWLock(s, addr) == addr < s.rww_lock

ClearOperationBits(s) ==
  [s EXCEPT !.spmcr_val = @ & (255 - spmcr_opr_bits), !.action = "NOOP", !.spm_opr = "NOOP"]

SetRWWLock(s, addr) ==
  IF isATMega /\ addr < 2 * nrww_addr
  THEN [s EXCEPT !.spmcr_val = @ | 64, !.rww_lock = 2 * nrww_addr] ELSE s

(* A value written to SPMCR starts an operation when none is prepared. *)
SetSpmcr(s, v) ==
  LET val == (s.spmcr_val & (255 - spmcr_valid_bits)) + (v & spmcr_valid_bits)
      opr == CASE val & spmcr_opr_bits = 1  -> "STOREBUFFER"
               [] val & spmcr_opr_bits = 3  -> "ERASE"
               [] val & spmcr_opr_bits = 5  -> "WRITEBUFFER"
               [] val & spmcr_opr_bits = 9  -> "LOCKBITS"
               [] val & spmcr_opr_bits = 17 -> IF isATMega THEN "UNLOCKRWW" ELSE "CLEARBUFFER"
               [] OTHER -> "NOOP"
  IN  IF s.action # "NOOP" THEN [s EXCEPT !.spmcr_val = val]
      ELSE IF opr = "NOOP" /\ val % 2 = 0
      THEN [s EXCEPT !.spmcr_val = val, !.spm_opr = "NOOP", !.opr_enable_count = 0]
      ELSE [s EXCEPT !.spmcr_val = val, !.spm_opr = opr, !.opr_enable_count = 4, !.action = "PREPARE"]

(* Mutant of CpuCycle: the window does not close. *)
CpuCycleOpen(s, n) == IF s.action = "LOCKCPU" THEN ClearOperationBits(s) ELSE s

(* n cycles: the window closes, and the CPU goes on after a write. *)
CpuCycle(s, n) ==
  LET left == IF s.opr_enable_count > n THEN s.opr_enable_count - n ELSE 0
      t == [s EXCEPT !.opr_enable_count = left]
  IN  IF (s.opr_enable_count > 0 /\ left = 0) \/ s.action = "LOCKCPU" THEN ClearOperationBits(t) ELSE t

(* The buffer goes to the page of addr, as data. *)
PageOf(addr) == (addr \div 2) - ((addr \div 2) % pageSize)
WriteMem(flash, buffer, page) ==
  [i \in DOMAIN flash |->
     IF i - 1 \in page .. page + pageSize - 1 THEN <<"WORD", buffer[i - 1 - page], 0>> ELSE flash[i]]

(* SPM at pc with the word data and the byte address addr: only from the   *)
(* section that is not written, and only when SPMCR has just been.  The    *)
(* engine and the flash after it, and the cycles that it adds.             *)
SPM_action(s, flash, pc, data, addr) ==
  LET t == [s EXCEPT !.opr_enable_count = 0]
      offset == (addr \div 2) % pageSize
      blank == [i \in 0 .. pageSize - 1 |-> Erased]
      hold == SetRWWLock([t EXCEPT !.action = "LOCKCPU"], 2 * PageOf(addr))
  IN  CASE pc < nrww_addr \/ s.action # "PREPARE" -> [spm |-> s, flash |-> flash, clks |-> 0]
        [] OTHER ->
      CASE s.spm_opr = "UNLOCKRWW" ->
             [spm |-> [ClearOperationBits(t) EXCEPT !.spmcr_val = @ & 191, !.rww_lock = 0],
              flash |-> flash, clks |-> 0]
        [] s.spm_opr = "STOREBUFFER" ->
             [spm |-> [ClearOperationBits(t) EXCEPT !.tempBuffer[offset] = data], flash |-> flash, clks |-> 2]
        [] s.spm_opr = "WRITEBUFFER" ->
             [spm |-> hold, flash |-> WriteMem(flash, s.tempBuffer, PageOf(addr)), clks |-> 0]
        [] s.spm_opr = "ERASE" ->
             [spm |-> [hold EXCEPT !.tempBuffer = blank], flash |-> WriteMem(flash, blank, PageOf(addr)), clks |-> 0]
        [] OTHER -> [spm |-> ClearOperationBits(t), flash |-> flash, clks |-> 0]
=============================================================================
