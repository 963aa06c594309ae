----------------------------- MODULE TimeTable -----------------------------
(***************************************************************************)
(* What SystemClock promises its simulation members: a time table.  Every  *)
(* member has at most one place in the table, a step runs a member whose   *)
(* place is the earliest, and the member moves to a later place or leaves. *)
(***************************************************************************)
EXTENDS Naturals

CONSTANT Members

VARIABLES now,    \* simulation time
          table   \* set of places [key : Nat, val : Members]

vars == <<now, table>>

Earliest(e) == e \in table /\ \A f \in table : e.key <= f.key

Init == now = 0 /\ table = {}

(* A member takes its first place, at the current time. *)
Join(m) ==
  /\ \A e \in table : e.val # m
  /\ table' = table \cup {[key |-> now, val |-> m]}
  /\ UNCHANGED now

(* The earliest place is taken out and time moves to it. *)
Leave(e) ==
  /\ Earliest(e)
  /\ now' = e.key
  /\ table' = table \ {e}

(* The earliest member runs and takes a later place. *)
Move(e) ==
  /\ Earliest(e)
  /\ now' = e.key
  /\ \E f \in table' :
       /\ f.val = e.val
       /\ f.key \in Nat /\ f.key > e.key
       /\ table' = (table \ {e}) \cup {f}

(* The clock is reset for a new simulation. *)
Clear == now' = 0 /\ table' = {}

Next ==
  \/ \E m \in Members : Join(m)
  \/ \E e \in table : Leave(e) \/ Move(e)
  \/ Clear

Spec == Init /\ [][Next]_vars
=============================================================================
