----------------------------- MODULE MCAvrCore -----------------------------
(* Instances of AvrCore for TLC: two vectors, the first of which is held   *)
(* by its hardware when it is taken.                                       *)
EXTENDS AvrCore

MCVectors == {1, 2}
MCSticky == {1}
=============================================================================
