----------------------------- MODULE MCDecoder -----------------------------
(***************************************************************************)
(* Instance of Routines: three kinds of core, operands around the borders  *)
(* of a byte and of a word, a stack of 14 bytes.                           *)
(***************************************************************************)
EXTENDS Routines

MCData == 0 .. 31 \cup {48} \cup 254 .. 258 \cup 498 .. 511
MCOperands == {0, 1, 128, 255, 256, 1000, 32640, 32767, 32768, 43605, 65535}
MCCpus ==
  {[PC_size |-> 2, flagXMega |-> FALSE, flagTiny10 |-> FALSE],
   [PC_size |-> 2, flagXMega |-> FALSE, flagTiny10 |-> TRUE],
   [PC_size |-> 3, flagXMega |-> TRUE, flagTiny10 |-> FALSE]}
=============================================================================
