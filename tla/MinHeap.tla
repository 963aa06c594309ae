------------------------------ MODULE MinHeap ------------------------------
(***************************************************************************)
(* MinHeap<Key, Value> of systemclock.h / systemclock.cpp: a binary heap   *)
(* in a std::vector of (key, value) pairs.  A heap is a sequence of        *)
(* records [key, val]; position i of the sequence is element i - 1 of the  *)
(* vector.  The C++ loops are the recursive functions `up' and `down': a   *)
(* loop reads only positions it has not written yet, so the original heap  *)
(* h can be read at every iteration.                                       *)
(***************************************************************************)
EXTENDS Naturals, Sequences

Entry(k, v) == [key |-> k, val |-> v]

Put(h, i, k, v) == [h EXCEPT ![i] = Entry(k, v)]

(* Mutant of InsertInternal: the entry stays where it was appended. *)
InsertWithoutSift(h, k, v, pos) == Put(h, pos, k, v)

(* The loop of InsertInternal: (k, v) goes up from position i, and every   *)
(* larger entry on its way comes down to where it was.                     *)
SiftUp(h, k, v) ==
  LET up[i \in 1 .. Len(h)] ==
        LET parent == i \div 2
        IN  IF parent = 0 \/ h[parent].key <= k
            THEN Put(h, i, k, v)
            ELSE [up[parent] EXCEPT ![i] = h[parent]]
  IN  up

(* InsertInternal: sift (k, v) up from the 1-based position pos. *)
InsertInternal(h, k, v, pos) == SiftUp(h, k, v)[pos]

Smaller(h, j, limit) == j <= Len(h) /\ h[j].key < limit

(* The smallest of k at position i and of the children of i. *)
Smallest(h, k, i) ==
  IF Smaller(h, 2 * i + 1, k) /\ Smaller(h, 2 * i + 1, h[2 * i].key) THEN 2 * i + 1
  ELSE IF Smaller(h, 2 * i, k) THEN 2 * i
  ELSE i

(* The loop of RemoveAtPositionAndInsertInternal: (k, v) goes down from    *)
(* position i, and the smallest child of every step comes up.              *)
SiftDown(h, k, v) ==
  LET down[i \in 1 .. Len(h)] ==
        LET smallest == Smallest(h, k, i)
        IN  IF smallest = i THEN Put(h, i, k, v)
            ELSE [down[smallest] EXCEPT ![i] = h[smallest]]
  IN  down

(* RemoveAtPositionAndInsertInternal: sift (k, v) down from the 0-based   *)
(* position pos, whose entry is overwritten.                              *)
RemoveAtPositionAndInsertInternal(h, k, v, pos) == SiftDown(h, k, v)[pos + 1]

(* Insert: grow the vector by one and sift up from its new last place. *)
Insert(h, k, v) ==
  InsertInternal(Append(h, Entry(k, v)), k, v, Len(h) + 1)

(* Mutant of RemoveMinimum: the vector is shortened before the last entry *)
(* is put in place of the root.                                           *)
RemoveLast(h) == SubSeq(h, 1, Len(h) - 1)

(* RemoveMinimum: re-insert the last entry at the root, then drop the last. *)
RemoveMinimum(h) ==
  LET last == h[Len(h)]
      sifted == RemoveAtPositionAndInsertInternal(h, last.key, last.val, 0)
  IN  SubSeq(sifted, 1, Len(h) - 1)

Entries(h) == {h[i] : i \in DOMAIN h}

Holds(h, v) == \E i \in DOMAIN h : h[i].val = v

(* The binary heap invariant. *)
IsHeap(h) == \A i \in 2 .. Len(h) : h[i \div 2].key <= h[i].key
=============================================================================
