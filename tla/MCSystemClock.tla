--------------------------- MODULE MCSystemClock ---------------------------
(* Instances of SystemClock for TLC. *)
EXTENDS SystemClock

(* The member is dropped, yields, or steps one or two time units later. *)
MCDelays == {-1, 0, 1, 2}
=============================================================================
