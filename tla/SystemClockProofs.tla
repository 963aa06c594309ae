------------------------- MODULE SystemClockProofs -------------------------
(***************************************************************************)
(* Proofs about SystemClock and its MinHeap for any members, answers and   *)
(* time bound: the heap stays ordered and no member has two places in it,  *)
(* the clock implements TimeTable, and simulation time never runs          *)
(* backwards.  The first part shows that the two sifts are well defined    *)
(* and what they compute, by looking at a least position where they would  *)
(* not.                                                                    *)
(***************************************************************************)
EXTENDS SystemClock, FiniteSetTheorems, WellFoundedInduction, TLAPS

Places == [key : Nat, val : Members]

(* A nonempty set of numbers has a least one. *)
LEMMA LeastExists ==
  ASSUME NEW S, S \subseteq Nat, S # {}
  PROVE  \E x \in S : \A y \in S : x <= y
<1> DEFINE R == OpToRel(<, Nat)
<1>1. PICK x \in S : \A y \in S : <<y, x>> \notin R
  <2> HIDE DEF R
  <2>1. IsWellFoundedOn(R, Nat)
    BY NatLessThanWellFounded DEF R
  <2> QED
    BY <2>1, WFMin
<1>2. ASSUME NEW y \in S PROVE x <= y
  <2>1. x \in Nat /\ y \in Nat
    OBVIOUS
  <2>2. y < x => <<y, x>> \in R
    BY <2>1, <<y, x>>[1] = y, <<y, x>>[2] = x, <<y, x>> \in Nat \X Nat DEF OpToRel
  <2>3. ~(y < x)
    <3> HIDE DEF R
    <3> QED
      BY <1>1, <2>2
  <2> QED
    BY <2>1, <2>3
<1> QED
  BY <1>2

(* The parent of a position. *)
LEMMA Half ==
  ASSUME NEW i \in Nat
  PROVE  /\ i \div 2 \in Nat
         /\ i = 2 * (i \div 2) \/ i = 2 * (i \div 2) + 1
         /\ i > 0 => i \div 2 < i
         /\ i >= 2 => i \div 2 >= 1
  OBVIOUS

-----------------------------------------------------------------------------
(* One turn of the loop in InsertInternal, where up is what follows it. *)
UpTurn(up, h, k, v, i) ==
  IF i \div 2 = 0 \/ h[i \div 2].key <= k
  THEN Put(h, i, k, v)
  ELSE [up[i \div 2] EXCEPT ![i] = h[i \div 2]]

UpLoop(up, h, k, v) == up = [i \in 1 .. Len(h) |-> UpTurn(up, h, k, v, i)]

(* There is a function that the loop computes, because a parent is before  *)
(* its children.                                                           *)
LEMMA UpExists ==
  ASSUME NEW h, Len(h) \in Nat, NEW k, NEW v
  PROVE  \E up : UpLoop(up, h, k, v)
<1>1. PICK n \in Nat : n = Len(h)
  OBVIOUS
<1> DEFINE Upto(m) == \E f : /\ f = [i \in 1 .. n |-> f[i]]
                             /\ \A i \in 1 .. n : i <= m => f[i] = UpTurn(f, h, k, v, i)
<1>2. Upto(0)
  <2> DEFINE f == [i \in 1 .. n |-> 0]
  <2>1. f = [i \in 1 .. n |-> f[i]]
    OBVIOUS
  <2>2. \A i \in 1 .. n : ~(i <= 0)
    OBVIOUS
  <2> QED
    BY <2>1, <2>2
<1>3. ASSUME NEW m \in Nat, Upto(m) PROVE Upto(m + 1)
  <2>1. PICK f : /\ f = [i \in 1 .. n |-> f[i]]
                 /\ \A i \in 1 .. n : i <= m => f[i] = UpTurn(f, h, k, v, i)
    BY <1>3
  <2> DEFINE g == [i \in 1 .. n |-> IF i = m + 1 THEN UpTurn(f, h, k, v, i) ELSE f[i]]
  <2>2. g = [i \in 1 .. n |-> g[i]]
    OBVIOUS
  <2>3. ASSUME NEW i \in 1 .. n, i <= m + 1 PROVE g[i] = UpTurn(g, h, k, v, i)
    <3>1. i \in Nat /\ i > 0 /\ i \div 2 \in Nat /\ i \div 2 < i
      BY Half
    <3>2. UpTurn(g, h, k, v, i) = UpTurn(f, h, k, v, i)
      <4>1. CASE i \div 2 = 0
        BY <4>1 DEF UpTurn
      <4>2. CASE i \div 2 # 0
        <5>1. i \div 2 \in 1 .. n /\ i \div 2 # m + 1
          BY <2>3, <3>1, <4>2
        <5>2. g[i \div 2] = f[i \div 2]
          BY <5>1
        <5> HIDE DEF g
        <5> QED
          BY <5>2 DEF UpTurn
      <4> QED
        BY <4>1, <4>2
    <3>3. CASE i = m + 1
      BY <3>2, <3>3
    <3>4. CASE i # m + 1
      BY <2>1, <2>3, <3>1, <3>2, <3>4
    <3> QED
      BY <3>3, <3>4
  <2> HIDE DEF g
  <2> QED
    BY <2>2, <2>3
<1>4. Upto(n)
  <2> SUFFICES ASSUME ~Upto(n) PROVE FALSE
    OBVIOUS
  <2> DEFINE bad == {m \in Nat : ~Upto(m)}
  <2> HIDE DEF Upto
  <2>1. PICK x \in bad : \A y \in bad : x <= y
    BY LeastExists
  <2>2. x \in Nat /\ ~Upto(x) /\ x # 0
    BY <1>2
  <2>3. x - 1 \in Nat /\ (x - 1) + 1 = x /\ x - 1 \notin bad
    BY <2>1, <2>2
  <2> QED
    BY <1>3, <2>2, <2>3
<1>5. PICK f : /\ f = [i \in 1 .. n |-> f[i]]
               /\ \A i \in 1 .. n : i <= n => f[i] = UpTurn(f, h, k, v, i)
  BY <1>4
<1>6. \A i \in 1 .. n : f[i] = UpTurn(f, h, k, v, i)
  BY <1>5
<1>7. f = [i \in 1 .. n |-> UpTurn(f, h, k, v, i)]
  BY <1>5, <1>6
<1>8. UpLoop(f, h, k, v)
  BY <1>1, <1>7 DEF UpLoop
<1> QED
  BY <1>8

(* InsertInternal does what its loop says. *)
LEMMA UpDef ==
  ASSUME NEW h, Len(h) \in Nat, NEW k, NEW v, NEW i \in 1 .. Len(h)
  PROVE  SiftUp(h, k, v)[i] = UpTurn(SiftUp(h, k, v), h, k, v, i)
<1>1. \E up : UpLoop(up, h, k, v)
  BY UpExists
<1>2. SiftUp(h, k, v) = CHOOSE up : UpLoop(up, h, k, v)
  BY DEF SiftUp, UpLoop, UpTurn
<1>3. UpLoop(SiftUp(h, k, v), h, k, v)
  BY <1>1, <1>2, Zenon
<1> QED
  BY <1>3 DEF UpLoop

(* g holds the entries of h in another order, with (k, v) in place of the  *)
(* one at i.                                                               *)
Arranged(g, h, k, v, i, p) ==
  \A j \in DOMAIN h : g[j] = IF p[j] = i THEN Entry(k, v) ELSE h[p[j]]

Injective(p) == \A a, b \in DOMAIN p : p[a] = p[b] => a = b

(* The entries before position i are in order. *)
OrderedBefore(h, i) == \A j \in DOMAIN h : j >= 2 /\ j < i => h[j \div 2].key <= h[j].key

(* What InsertInternal has made of h from position i: behind i nothing     *)
(* has changed, at i is the new entry or the parent's, keys before i have  *)
(* only become smaller, and the entries up to i are in order.              *)
SiftedUp(g, h, k, v, i) ==
  /\ g \in [DOMAIN h -> Places]
  /\ \A j \in DOMAIN h : j > i => g[j] = h[j]
  /\ g[i].key = k \/ (i >= 2 /\ g[i] = h[i \div 2])
  /\ \A j \in DOMAIN h : j < i => g[j].key <= h[j].key
  /\ \A j \in DOMAIN h : j >= 2 /\ j <= i => g[j \div 2].key <= g[j].key
  /\ \E p \in [DOMAIN h -> DOMAIN h] :
       /\ Injective(p) /\ Arranged(g, h, k, v, i, p)
       /\ \A j \in DOMAIN h : j > i => p[j] = j

LEMMA PutFacts ==
  ASSUME NEW h, NEW n \in Nat, DOMAIN h = 1 .. n, h \in [1 .. n -> Places],
         NEW k \in Nat, NEW v \in Members, NEW i \in 1 .. n
  PROVE  /\ Put(h, i, k, v) \in [1 .. n -> Places]
         /\ Put(h, i, k, v)[i] = Entry(k, v)
         /\ Entry(k, v) \in Places /\ Entry(k, v).key = k
         /\ \A j \in 1 .. n : j # i => Put(h, i, k, v)[j] = h[j]
  BY DEF Put, Entry, Places

(* The loop ends at once. *)
LEMMA UpEnds ==
  ASSUME NEW n \in Nat, NEW h \in [1 .. n -> Places], NEW k \in Nat, NEW v \in Members,
         NEW i \in 1 .. n, OrderedBefore(h, i), i \div 2 = 0 \/ h[i \div 2].key <= k
  PROVE  SiftedUp(Put(h, i, k, v), h, k, v, i)
<1>1. PICK g : g = Put(h, i, k, v)
  OBVIOUS
<1>2. DOMAIN h = 1 .. n /\ i \in Nat
  OBVIOUS
<1>3. /\ g \in [1 .. n -> Places] /\ g[i] = Entry(k, v) /\ Entry(k, v).key = k
      /\ \A j \in 1 .. n : j # i => g[j] = h[j]
  BY <1>1, <1>2, PutFacts
<1>4. /\ \A j \in 1 .. n : j > i => g[j] = h[j]
      /\ \A j \in 1 .. n : j < i => g[j] = h[j]
  BY <1>3
<1>5. \A j \in 1 .. n : h[j].key \in Nat
  BY DEF Places
<1>6. g[i].key = k /\ \A j \in 1 .. n : j < i => g[j].key <= h[j].key
  BY <1>3, <1>4, <1>5
<1>7. ASSUME NEW j \in 1 .. n, j >= 2, j <= i
      PROVE  g[j \div 2].key <= g[j].key
  <2>1. j \div 2 \in 1 .. n /\ j \div 2 < j /\ j \div 2 # i /\ j \div 2 # 0
    BY <1>7, Half
  <2>2. g[j \div 2] = h[j \div 2]
    BY <1>3, <2>1
  <2>3. CASE j = i
    BY <1>3, <2>1, <2>2, <2>3
  <2>4. CASE j # i
    <3>1. j < i /\ g[j] = h[j]
      BY <1>3, <1>7, <2>4
    <3> QED
      BY <1>2, <1>7, <2>2, <3>1 DEF OrderedBefore
  <2> QED
    BY <2>3, <2>4
<1>8. \E p \in [1 .. n -> 1 .. n] : /\ Injective(p) /\ Arranged(g, h, k, v, i, p)
                                    /\ \A j \in 1 .. n : j > i => p[j] = j
  <2> DEFINE p == [j \in 1 .. n |-> j]
  <2>1. p \in [1 .. n -> 1 .. n] /\ \A j \in 1 .. n : p[j] = j
    OBVIOUS
  <2> HIDE DEF p
  <2>2. Injective(p)
    BY <2>1 DEF Injective
  <2>3. Arranged(g, h, k, v, i, p)
    BY <1>2, <1>3, <2>1 DEF Arranged
  <2> QED
    BY <2>1, <2>2, <2>3
<1>9. SiftedUp(g, h, k, v, i)
  BY <1>2, <1>3, <1>4, <1>6, <1>7, <1>8 DEF SiftedUp
<1> QED
  BY <1>1, <1>9

(* The loop takes a turn: the parent comes down to i. *)
LEMMA UpGoesOn ==
  ASSUME NEW n \in Nat, NEW h \in [1 .. n -> Places], NEW k \in Nat, NEW v \in Members,
         NEW i \in 1 .. n, NEW q \in 1 .. n, q = i \div 2, h[q].key > k,
         OrderedBefore(h, i), NEW f, SiftedUp(f, h, k, v, q)
  PROVE  SiftedUp([f EXCEPT ![i] = h[q]], h, k, v, i)
<1>1. DOMAIN h = 1 .. n /\ i \in Nat /\ q \in Nat /\ q < i /\ (i = 2 * q \/ i = 2 * q + 1)
      /\ q >= 1
  BY Half
<1>2. /\ f \in [1 .. n -> Places]
      /\ \A j \in 1 .. n : j > q => f[j] = h[j]
      /\ f[q].key = k \/ (q >= 2 /\ f[q] = h[q \div 2])
      /\ \A j \in 1 .. n : j < q => f[j].key <= h[j].key
      /\ \A j \in 1 .. n : j >= 2 /\ j <= q => f[j \div 2].key <= f[j].key
      /\ \E p \in [1 .. n -> 1 .. n] :
           /\ Injective(p) /\ Arranged(f, h, k, v, q, p)
           /\ \A j \in 1 .. n : j > q => p[j] = j
  BY <1>1 DEF SiftedUp
<1>3. PICK g : g = [f EXCEPT ![i] = h[q]]
  OBVIOUS
<1>4. g \in [1 .. n -> Places] /\ g[i] = h[q] /\ \A j \in 1 .. n : j # i => g[j] = f[j]
  BY <1>2, <1>3
<1>5. /\ \A j \in 1 .. n : h[j].key \in Nat
      /\ \A j \in 1 .. n : f[j].key \in Nat
  BY <1>2 DEF Places
<1>6. \A j \in 1 .. n : j > i => g[j] = h[j]
  BY <1>1, <1>2, <1>4
<1>6a. \A j \in 1 .. n : j >= 2 /\ j < i => h[j \div 2].key <= h[j].key
  BY <1>1 DEF OrderedBefore
<1>6b. f[q].key <= h[q].key
  <2>1. CASE f[q].key = k
    BY <1>5, <2>1
  <2>2. CASE q >= 2 /\ f[q] = h[q \div 2]
    BY <1>1, <1>6a, <2>2
  <2> QED
    BY <1>2, <2>1, <2>2
<1>7. ASSUME NEW j \in 1 .. n, j < i PROVE g[j].key <= h[j].key
  <2>1. g[j] = f[j] /\ j \in Nat
    BY <1>4, <1>7
  <2>2. CASE j < q
    BY <1>2, <2>1, <2>2
  <2>3. CASE j = q
    BY <1>6b, <2>1, <2>3
  <2>4. CASE j > q
    BY <1>2, <1>5, <2>1, <2>4
  <2> QED
    BY <1>1, <2>1, <2>2, <2>3, <2>4
<1>8. ASSUME NEW j \in 1 .. n, j >= 2, j <= i
      PROVE  g[j \div 2].key <= g[j].key
  <2> DEFINE b == j \div 2
  <2>1. b \in 1 .. n /\ b < j /\ (j = 2 * b \/ j = 2 * b + 1) /\ b \in Nat /\ j \in Nat
    BY <1>8, Half
  <2> HIDE DEF b
  <2>2. b # i /\ g[b] = f[b] /\ b <= q
    BY <1>1, <1>4, <1>8, <2>1
  <2>3. CASE j = i
    <3>1. b = q
      BY <2>3 DEF b
    <3> QED
      BY <1>4, <1>6b, <2>2, <2>3, <3>1 DEF b
  <2>4. CASE j < i /\ j > q
    <3>1. g[j] = h[j] /\ h[b].key <= h[j].key
      BY <1>2, <1>4, <1>8, <1>6a, <2>4 DEF b
    <3>2. f[b].key <= h[b].key
      <4>1. CASE b < q
        BY <1>2, <2>1, <4>1
      <4>2. CASE b = q
        BY <1>6b, <4>2
      <4> QED
        BY <1>1, <2>1, <2>2, <4>1, <4>2
    <3>3. h[b].key \in Nat /\ f[b].key \in Nat /\ h[j].key \in Nat
      BY <1>5, <2>1
    <3> QED
      BY <2>2, <3>1, <3>2, <3>3 DEF b
  <2>5. CASE j <= q
    <3>1. f[j \div 2].key <= f[j].key
      BY <1>2, <1>8, <2>5
    <3>2. g[j] = f[j]
      BY <1>1, <1>4, <2>1, <2>5
    <3> QED
      BY <2>2, <3>1, <3>2 DEF b
  <2> QED
    BY <1>1, <1>8, <2>1, <2>3, <2>4, <2>5
<1>9. \E p \in [1 .. n -> 1 .. n] : /\ Injective(p) /\ Arranged(g, h, k, v, i, p)
                                    /\ \A j \in 1 .. n : j > i => p[j] = j
  <2>1. PICK p \in [1 .. n -> 1 .. n] : /\ Injective(p) /\ Arranged(f, h, k, v, q, p)
                                        /\ \A j \in 1 .. n : j > q => p[j] = j
    BY <1>2
  <2> DEFINE r == [j \in 1 .. n |-> IF j = i THEN q ELSE IF p[j] = q THEN i ELSE p[j]]
  <2>2. r \in [1 .. n -> 1 .. n] /\ DOMAIN r = 1 .. n
        /\ \A j \in 1 .. n : r[j] = IF j = i THEN q ELSE IF p[j] = q THEN i ELSE p[j]
    OBVIOUS
  <2>3. p[i] = i /\ DOMAIN p = 1 .. n /\ q # i
    BY <1>1, <2>1
  <2>4. \A j \in 1 .. n : j # i => p[j] # i
    BY <2>1, <2>3 DEF Injective
  <2> HIDE DEF r
  <2>5. Injective(r)
    <3> SUFFICES ASSUME NEW a \in 1 .. n, NEW b \in 1 .. n, r[a] = r[b] PROVE a = b
      BY <2>2 DEF Injective
    <3>1. \A c \in 1 .. n : c # i => r[c] # q
      BY <2>2, <2>3
    <3>2. ASSUME a # i, b # i PROVE p[a] = p[b]
      BY <2>2, <2>3, <2>4, <3>2
    <3> QED
      BY <2>1, <2>2, <2>3, <3>1, <3>2 DEF Injective
  <2>6. Arranged(g, h, k, v, i, r)
    <3> SUFFICES ASSUME NEW j \in 1 .. n
                 PROVE  g[j] = IF r[j] = i THEN Entry(k, v) ELSE h[r[j]]
      BY <1>1 DEF Arranged
    <3>1. f[j] = IF p[j] = q THEN Entry(k, v) ELSE h[p[j]]
      BY <1>1, <2>1 DEF Arranged
    <3>2. CASE j = i
      BY <1>4, <2>2, <2>3, <3>2
    <3>3. CASE j # i
      BY <1>4, <2>2, <2>4, <3>1, <3>3
    <3> QED
      BY <3>2, <3>3
  <2>7. \A j \in 1 .. n : j > i => r[j] = j
    <3> SUFFICES ASSUME NEW j \in 1 .. n, j > i PROVE r[j] = j
      OBVIOUS
    <3>1. j > q /\ j # i /\ j # q
      BY <1>1
    <3> QED
      BY <2>1, <2>2, <3>1
  <2> QED
    BY <2>2, <2>5, <2>6, <2>7
<1>10. i >= 2 /\ g[i] = h[i \div 2]
  BY <1>1, <1>4
<1> QED
  BY <1>1, <1>3, <1>4, <1>6, <1>7, <1>8, <1>9, <1>10 DEF SiftedUp
(* InsertInternal, from any position before which the heap is in order. *)
LEMMA UpFacts ==
  ASSUME NEW n \in Nat, NEW h \in [1 .. n -> Places], Len(h) = n,
         NEW k \in Nat, NEW v \in Members, NEW pos \in 1 .. n, OrderedBefore(h, pos)
  PROVE  SiftedUp(SiftUp(h, k, v)[pos], h, k, v, pos)
<1> DEFINE up == SiftUp(h, k, v)
<1> DEFINE bad == {i \in 1 .. pos : ~SiftedUp(up[i], h, k, v, i)}
<1> SUFFICES ASSUME pos \in bad PROVE FALSE
  OBVIOUS
<1>1. bad \subseteq Nat
  OBVIOUS
<1>2. PICK i \in bad : \A j \in bad : i <= j
  BY <1>1, LeastExists
<1>3. i \in 1 .. pos /\ i \in 1 .. n /\ i \in Nat /\ ~SiftedUp(up[i], h, k, v, i)
  OBVIOUS
<1>4. \A j \in 1 .. pos : j < i => SiftedUp(up[j], h, k, v, j)
  BY <1>2, <1>3
<1>5. up[i] = UpTurn(up, h, k, v, i)
  BY <1>3, UpDef
<1>6. OrderedBefore(h, i)
  BY <1>3 DEF OrderedBefore
<1> HIDE DEF up, bad
<1>7. CASE i \div 2 = 0 \/ h[i \div 2].key <= k
  BY <1>3, <1>5, <1>6, <1>7, UpEnds DEF UpTurn
<1>8. CASE ~(i \div 2 = 0 \/ h[i \div 2].key <= k)
  <2>1. PICK q : q = i \div 2
    OBVIOUS
  <2>2. q \in Nat /\ q < i /\ q # 0
    BY <1>3, <1>8, <2>1, Half
  <2>3. q \in 1 .. n /\ q \in 1 .. pos
    BY <1>3, <2>2
  <2>4. h[q].key > k
    <3>1. h[q].key \in Nat /\ ~(h[q].key <= k)
      BY <1>8, <2>1, <2>3 DEF Places
    <3> QED
      BY <3>1
  <2>5. PICK f : f = up[q]
    OBVIOUS
  <2>6. SiftedUp(f, h, k, v, q)
    BY <1>4, <2>2, <2>3, <2>5
  <2>7. SiftedUp([f EXCEPT ![i] = h[q]], h, k, v, i)
    BY <1>3, <1>6, <2>1, <2>3, <2>4, <2>6, UpGoesOn
  <2>8. up[i] = [f EXCEPT ![i] = h[q]]
    BY <1>5, <1>8, <2>1, <2>5 DEF UpTurn
  <2> QED
    BY <1>3, <2>7, <2>8
<1> QED
  BY <1>7, <1>8

-----------------------------------------------------------------------------
(* One turn of the loop in RemoveAtPositionAndInsertInternal. *)
DownTurn(down, h, k, v, i) ==
  IF Smallest(h, k, i) = i THEN Put(h, i, k, v)
  ELSE [down[Smallest(h, k, i)] EXCEPT ![i] = h[Smallest(h, k, i)]]

DownLoop(down, h, k, v) == down = [i \in 1 .. Len(h) |-> DownTurn(down, h, k, v, i)]

(* The entry that comes up to i: a child of i within the heap that is      *)
(* smaller than k and not greater than the other child.                    *)
LEMMA SmallestFacts ==
  ASSUME NEW n \in Nat, NEW h, Len(h) = n, NEW k, NEW i \in 1 .. n
  PROVE  LET s == Smallest(h, k, i)
         IN  s # i => /\ s \in 1 .. n /\ s \in Nat /\ s > i /\ (s = 2 * i \/ s = 2 * i + 1)
                      /\ h[s].key < k
  BY DEF Smallest, Smaller

(* There is a function that the loop computes, because children are behind *)
(* their parent.                                                           *)
LEMMA DownExists ==
  ASSUME NEW h, Len(h) \in Nat, NEW k, NEW v
  PROVE  \E down : DownLoop(down, h, k, v)
<1>1. PICK n \in Nat : n = Len(h)
  OBVIOUS
<1> DEFINE From(m) == \E f : /\ f = [i \in 1 .. n |-> f[i]]
                             /\ \A i \in 1 .. n : i + m > n => f[i] = DownTurn(f, h, k, v, i)
<1>2. From(0)
  <2> DEFINE f == [i \in 1 .. n |-> 0]
  <2>1. f = [i \in 1 .. n |-> f[i]]
    OBVIOUS
  <2>2. \A i \in 1 .. n : ~(i + 0 > n)
    OBVIOUS
  <2> QED
    BY <2>1, <2>2
<1>3. ASSUME NEW m \in Nat, From(m) PROVE From(m + 1)
  <2>1. PICK f : /\ f = [i \in 1 .. n |-> f[i]]
                 /\ \A i \in 1 .. n : i + m > n => f[i] = DownTurn(f, h, k, v, i)
    BY <1>3
  <2> DEFINE g == [i \in 1 .. n |-> IF i + m = n THEN DownTurn(f, h, k, v, i) ELSE f[i]]
  <2>2. g = [i \in 1 .. n |-> g[i]]
    OBVIOUS
  <2>3. ASSUME NEW i \in 1 .. n, i + (m + 1) > n PROVE g[i] = DownTurn(g, h, k, v, i)
    <3>1. PICK s : s = Smallest(h, k, i)
      OBVIOUS
    <3>2. DownTurn(g, h, k, v, i) = DownTurn(f, h, k, v, i)
      <4>1. CASE s = i
        BY <3>1, <4>1 DEF DownTurn
      <4>2. CASE s # i
        <5>1. s \in 1 .. n /\ s \in Nat /\ s > i
          BY <1>1, <3>1, <4>2, SmallestFacts
        <5>2. s + m # n
          BY <2>3, <5>1
        <5>3. g[s] = f[s]
          BY <5>1, <5>2
        <5> HIDE DEF g
        <5> QED
          BY <3>1, <5>3 DEF DownTurn
      <4> QED
        BY <4>1, <4>2
    <3>3. CASE i + m = n
      BY <3>2, <3>3
    <3>4. CASE i + m # n
      <4>1. i + m > n
        BY <2>3, <3>4
      <4> QED
        BY <2>1, <3>2, <3>4, <4>1
    <3> QED
      BY <3>3, <3>4
  <2> HIDE DEF g
  <2> QED
    BY <2>2, <2>3
<1>4. From(n)
  <2> SUFFICES ASSUME ~From(n) PROVE FALSE
    OBVIOUS
  <2> DEFINE bad == {m \in Nat : ~From(m)}
  <2> HIDE DEF From
  <2>1. PICK x \in bad : \A y \in bad : x <= y
    BY LeastExists
  <2>2. x \in Nat /\ ~From(x) /\ x # 0
    BY <1>2
  <2>3. x - 1 \in Nat /\ (x - 1) + 1 = x /\ x - 1 \notin bad
    BY <2>1, <2>2
  <2> QED
    BY <1>3, <2>2, <2>3
<1>5. PICK f : /\ f = [i \in 1 .. n |-> f[i]]
               /\ \A i \in 1 .. n : i + n > n => f[i] = DownTurn(f, h, k, v, i)
  BY <1>4
<1>6. \A i \in 1 .. n : f[i] = DownTurn(f, h, k, v, i)
  BY <1>5
<1>7. f = [i \in 1 .. n |-> DownTurn(f, h, k, v, i)]
  BY <1>5, <1>6
<1>8. DownLoop(f, h, k, v)
  BY <1>1, <1>7 DEF DownLoop
<1> QED
  BY <1>8

(* RemoveAtPositionAndInsertInternal does what its loop says. *)
LEMMA DownDef ==
  ASSUME NEW h, Len(h) \in Nat, NEW k, NEW v, NEW i \in 1 .. Len(h)
  PROVE  SiftDown(h, k, v)[i] = DownTurn(SiftDown(h, k, v), h, k, v, i)
<1>1. \E down : DownLoop(down, h, k, v)
  BY DownExists
<1>2. SiftDown(h, k, v) = CHOOSE down : DownLoop(down, h, k, v)
  BY DEF SiftDown, DownLoop, DownTurn
<1>3. DownLoop(SiftDown(h, k, v), h, k, v)
  BY <1>1, <1>2, Zenon
<1> QED
  BY <1>3 DEF DownLoop
(* No child is smaller than what goes to i. *)
LEMMA SmallestIsLeast ==
  ASSUME NEW n \in Nat, NEW h \in [1 .. n -> Places], Len(h) = n, NEW k \in Nat,
         NEW i \in 1 .. n, NEW j \in 1 .. n, j \div 2 = i
  PROVE  LET s == Smallest(h, k, i)
         IN  IF s = i THEN k <= h[j].key ELSE h[s].key <= h[j].key
<1>1. j = 2 * i \/ j = 2 * i + 1
  BY Half
<1>2. \A a \in 1 .. n : h[a].key \in Nat
  BY DEF Places
<1>3. 2 * i \in 1 .. n
  BY <1>1
<1>4. 2 * i # i /\ 2 * i + 1 # i /\ i \in Nat
  OBVIOUS
<1>5. PICK left \in Nat : left = h[2 * i].key
  BY <1>2, <1>3
<1>6. CASE 2 * i + 1 \in 1 .. n
  <2>1. PICK right \in Nat : right = h[2 * i + 1].key
    BY <1>2, <1>6
  <2>2. Smaller(h, 2 * i, k) = (left < k) /\ Smaller(h, 2 * i + 1, k) = (right < k)
        /\ Smaller(h, 2 * i + 1, h[2 * i].key) = (right < left)
    BY <1>3, <1>5, <1>6, <2>1 DEF Smaller
  <2>3. CASE right < k /\ right < left
    <3>1. Smallest(h, k, i) = 2 * i + 1
      BY <2>2, <2>3 DEF Smallest
    <3> QED
      BY <1>1, <1>4, <1>5, <2>1, <2>3, <3>1
  <2>4. CASE ~(right < k /\ right < left) /\ left < k
    <3>1. Smallest(h, k, i) = 2 * i
      BY <2>2, <2>4 DEF Smallest
    <3> QED
      BY <1>1, <1>4, <1>5, <2>1, <2>4, <3>1
  <2>5. CASE ~(right < k /\ right < left) /\ ~(left < k)
    <3>1. Smallest(h, k, i) = i
      BY <2>2, <2>5 DEF Smallest
    <3> QED
      BY <1>1, <1>4, <1>5, <2>1, <2>5, <3>1
  <2> QED
    BY <2>3, <2>4, <2>5
<1>7. CASE 2 * i + 1 \notin 1 .. n
  <2>1. ~Smaller(h, 2 * i + 1, k) /\ j = 2 * i
    BY <1>1, <1>7 DEF Smaller
  <2>2. Smaller(h, 2 * i, k) = (left < k)
    BY <1>3, <1>5 DEF Smaller
  <2>3. CASE left < k
    <3>1. Smallest(h, k, i) = 2 * i
      BY <2>1, <2>2, <2>3 DEF Smallest
    <3> QED
      BY <1>4, <1>5, <2>1, <3>1
  <2>4. CASE ~(left < k)
    <3>1. Smallest(h, k, i) = i
      BY <2>1, <2>2, <2>4 DEF Smallest
    <3> QED
      BY <1>4, <1>5, <2>1, <2>4, <3>1
  <2> QED
    BY <2>3, <2>4
<1> QED
  BY <1>6, <1>7

(* The entries behind the children of i are in order. *)
OrderedBehind(h, i) == \A j \in DOMAIN h : j \div 2 > i => h[j \div 2].key <= h[j].key

LastStays(h, n, k, p) == h[n].key >= k => p[n] = n

(* What RemoveAtPositionAndInsertInternal has made of h from position i:   *)
(* before i and up to its children nothing has changed, at i is the new    *)
(* entry or one of a child, from i on the entries are in order, and the    *)
(* last entry is where it was unless it is smaller than k.                 *)
SiftedDown(g, h, k, v, i) ==
  /\ g \in [DOMAIN h -> Places]
  /\ \A j \in DOMAIN h : j < i \/ (i < j /\ j < 2 * i) => g[j] = h[j]
  /\ g[i].key = k \/ \E c \in DOMAIN h : c \div 2 = i /\ g[i] = h[c]
  /\ \A j \in DOMAIN h : j \div 2 >= i => g[j \div 2].key <= g[j].key
  /\ \E p \in [DOMAIN h -> DOMAIN h] :
       /\ Injective(p) /\ Arranged(g, h, k, v, i, p)
       /\ \A j \in DOMAIN h : j < i => p[j] = j
       /\ LastStays(h, Len(h), k, p)

(* The loop ends at once. *)
LEMMA DownEnds ==
  ASSUME NEW n \in Nat, NEW h \in [1 .. n -> Places], Len(h) = n, NEW k \in Nat,
         NEW v \in Members, NEW i \in 1 .. n, OrderedBehind(h, i), Smallest(h, k, i) = i
  PROVE  SiftedDown(Put(h, i, k, v), h, k, v, i)
<1>1. PICK g : g = Put(h, i, k, v)
  OBVIOUS
<1>2. DOMAIN h = 1 .. n /\ i \in Nat
  OBVIOUS
<1>3. /\ g \in [1 .. n -> Places] /\ g[i] = Entry(k, v) /\ Entry(k, v).key = k
      /\ \A j \in 1 .. n : j # i => g[j] = h[j]
  BY <1>1, <1>2, PutFacts
<1>4. \A j \in 1 .. n : j < i \/ (i < j /\ j < 2 * i) => g[j] = h[j]
  BY <1>3
<1>5. ASSUME NEW j \in 1 .. n, j \div 2 >= i PROVE g[j \div 2].key <= g[j].key
  <2>1. j \in Nat /\ j \div 2 \in Nat /\ j \div 2 < j /\ j \div 2 \in 1 .. n /\ j # i
    BY <1>5, Half
  <2>2. g[j] = h[j]
    BY <1>3, <2>1
  <2>3. CASE j \div 2 = i
    BY <1>3, <2>2, <2>3, SmallestIsLeast
  <2>4. CASE j \div 2 > i
    <3>1. g[j \div 2] = h[j \div 2]
      BY <1>3, <2>1, <2>4
    <3> QED
      BY <1>2, <2>2, <2>4, <3>1 DEF OrderedBehind
  <2> QED
    BY <1>2, <1>5, <2>1, <2>3, <2>4
<1>6. \E p \in [1 .. n -> 1 .. n] : /\ Injective(p) /\ Arranged(g, h, k, v, i, p)
                                    /\ \A j \in 1 .. n : j < i => p[j] = j
                                    /\ LastStays(h, n, k, p)
  <2> DEFINE p == [j \in 1 .. n |-> j]
  <2>1. p \in [1 .. n -> 1 .. n] /\ \A j \in 1 .. n : p[j] = j
    OBVIOUS
  <2>2. n \in 1 .. n
    OBVIOUS
  <2> HIDE DEF p
  <2>3. Injective(p)
    BY <2>1 DEF Injective
  <2>4. Arranged(g, h, k, v, i, p)
    BY <1>2, <1>3, <2>1 DEF Arranged
  <2>5. LastStays(h, n, k, p)
    BY <2>1, <2>2 DEF LastStays
  <2> QED
    BY <2>1, <2>3, <2>4, <2>5
<1>7. g[i].key = k
  BY <1>3
<1>8. SiftedDown(g, h, k, v, i)
  <2>1. /\ g \in [DOMAIN h -> Places]
        /\ \A j \in DOMAIN h : j < i \/ (i < j /\ j < 2 * i) => g[j] = h[j]
        /\ \A j \in DOMAIN h : j \div 2 >= i => g[j \div 2].key <= g[j].key
    BY <1>2, <1>3, <1>4, <1>5
  <2>2. \E p \in [DOMAIN h -> DOMAIN h] :
          /\ Injective(p) /\ Arranged(g, h, k, v, i, p)
          /\ \A j \in DOMAIN h : j < i => p[j] = j
          /\ LastStays(h, Len(h), k, p)
    BY <1>2, <1>6
  <2> QED
    BY <1>7, <2>1, <2>2, Zenon DEF SiftedDown
<1> QED
  BY <1>1, <1>8

(* The loop takes a turn: the smallest child comes up to i. *)
LEMMA DownGoesOn ==
  ASSUME NEW n \in Nat, NEW h \in [1 .. n -> Places], Len(h) = n, NEW k \in Nat,
         NEW v \in Members, NEW i \in 1 .. n, OrderedBehind(h, i),
         NEW s, s = Smallest(h, k, i), s # i, NEW f, SiftedDown(f, h, k, v, s)
  PROVE  SiftedDown([f EXCEPT ![i] = h[s]], h, k, v, i)
<1>1. /\ DOMAIN h = 1 .. n /\ i \in Nat /\ s \in 1 .. n /\ s \in Nat /\ s > i /\ i >= 1
      /\ s = 2 * i \/ s = 2 * i + 1
      /\ h[s].key < k
  BY SmallestFacts
<1>2. /\ f \in [1 .. n -> Places]
      /\ \A j \in 1 .. n : j < s \/ (s < j /\ j < 2 * s) => f[j] = h[j]
      /\ f[s].key = k \/ \E c \in 1 .. n : c \div 2 = s /\ f[s] = h[c]
      /\ \A j \in 1 .. n : j \div 2 >= s => f[j \div 2].key <= f[j].key
      /\ \E p \in [1 .. n -> 1 .. n] :
           /\ Injective(p) /\ Arranged(f, h, k, v, s, p)
           /\ \A j \in 1 .. n : j < s => p[j] = j
           /\ LastStays(h, n, k, p)
  BY <1>1 DEF SiftedDown
<1>3. PICK g : g = [f EXCEPT ![i] = h[s]]
  OBVIOUS
<1>4. g \in [1 .. n -> Places] /\ g[i] = h[s] /\ \A j \in 1 .. n : j # i => g[j] = f[j]
  <2>1. h[s] \in Places /\ f \in [1 .. n -> Places]
    BY <1>1, <1>2
  <2> QED
    BY <1>3, <2>1
<1>5. \A j \in 1 .. n : h[j].key \in Nat /\ f[j].key \in Nat
  BY <1>2 DEF Places
<1>6. ASSUME NEW j \in 1 .. n, j < i \/ (i < j /\ j < 2 * i) PROVE g[j] = h[j]
  <2>1. j < s /\ j # i
    BY <1>1, <1>6
  <2> QED
    BY <1>2, <1>4, <2>1
<1>7. s \div 2 = i
  BY <1>1, Half
<1>8. h[s].key <= f[s].key
  <2>1. CASE f[s].key = k
    BY <1>1, <1>5, <2>1
  <2>2. ASSUME NEW c \in 1 .. n, c \div 2 = s, f[s] = h[c] PROVE h[s].key <= f[s].key
    BY <1>1, <2>2 DEF OrderedBehind
  <2> QED
    BY <1>2, <2>1, <2>2
<1>9. ASSUME NEW j \in 1 .. n, j \div 2 >= i PROVE g[j \div 2].key <= g[j].key
  <2>1. PICK b : b = j \div 2
    OBVIOUS
  <2>2. b \in Nat /\ j \in Nat /\ b < j /\ b \in 1 .. n /\ (j = 2 * b \/ j = 2 * b + 1) /\ b >= i
        /\ j # i
    BY <1>1, <1>9, <2>1, Half
  <2>3. g[j] = f[j]
    BY <1>4, <2>2
  <2>4. CASE b = i /\ j = s
    BY <1>4, <1>8, <2>1, <2>3, <2>4
  <2>5. CASE b = i /\ j # s
    <3>1. h[s].key <= h[j].key
      BY <1>1, <2>1, <2>5, SmallestIsLeast
    <3>2. j < s \/ (s < j /\ j < 2 * s)
      BY <1>1, <2>2, <2>5
    <3> QED
      BY <1>2, <1>4, <2>1, <2>3, <2>5, <3>1, <3>2
  <2>6. CASE b > i /\ b >= s
    <3>1. f[j \div 2].key <= f[j].key
      BY <1>2, <2>1, <2>6
    <3>2. g[b] = f[b]
      BY <1>4, <2>2, <2>6
    <3> QED
      BY <2>1, <2>3, <3>1, <3>2
  <2>7. CASE b > i /\ b < s
    <3>1. f[b] = h[b] /\ g[b] = f[b]
      BY <1>2, <1>4, <2>2, <2>7
    <3>2. j # s /\ j < 2 * s
      BY <1>1, <2>2, <2>7
    <3>3. f[j] = h[j]
      BY <1>1, <1>2, <2>2, <3>2
    <3>4. h[b].key <= h[j].key
      BY <1>1, <2>1, <2>7 DEF OrderedBehind
    <3> QED
      BY <2>1, <2>3, <3>1, <3>3, <3>4
  <2> QED
    BY <1>1, <2>2, <2>4, <2>5, <2>6, <2>7
<1>10. \E p \in [1 .. n -> 1 .. n] : /\ Injective(p) /\ Arranged(g, h, k, v, i, p)
                                     /\ \A j \in 1 .. n : j < i => p[j] = j
                                     /\ LastStays(h, n, k, p)
  <2>1. PICK p \in [1 .. n -> 1 .. n] : /\ Injective(p) /\ Arranged(f, h, k, v, s, p)
                                        /\ \A j \in 1 .. n : j < s => p[j] = j
                                        /\ LastStays(h, n, k, p)
    BY <1>2
  <2> DEFINE r == [j \in 1 .. n |-> IF j = i THEN s ELSE IF p[j] = s THEN i ELSE p[j]]
  <2>2. r \in [1 .. n -> 1 .. n] /\ DOMAIN r = 1 .. n
        /\ \A j \in 1 .. n : r[j] = IF j = i THEN s ELSE IF p[j] = s THEN i ELSE p[j]
    BY <1>1
  <2>3. p[i] = i /\ DOMAIN p = 1 .. n /\ s # i
    BY <1>1, <2>1
  <2>4. \A j \in 1 .. n : j # i => p[j] # i
    BY <2>1, <2>3 DEF Injective
  <2> HIDE DEF r
  <2>5. Injective(r)
    <3> SUFFICES ASSUME NEW a \in 1 .. n, NEW b \in 1 .. n, r[a] = r[b] PROVE a = b
      BY <2>2 DEF Injective
    <3>1. \A c \in 1 .. n : c # i => r[c] # s
      BY <2>2
    <3>2. ASSUME a # i, b # i PROVE p[a] = p[b]
      BY <2>2, <2>3, <2>4, <3>2
    <3> QED
      BY <2>1, <2>2, <2>3, <3>1, <3>2 DEF Injective
  <2>6. Arranged(g, h, k, v, i, r)
    <3> SUFFICES ASSUME NEW j \in 1 .. n
                 PROVE  g[j] = IF r[j] = i THEN Entry(k, v) ELSE h[r[j]]
      BY <1>1 DEF Arranged
    <3>1. f[j] = IF p[j] = s THEN Entry(k, v) ELSE h[p[j]]
      BY <1>1, <2>1 DEF Arranged
    <3>2. CASE j = i
      BY <1>4, <2>2, <2>3, <3>2
    <3>3. CASE j # i
      BY <1>4, <2>2, <2>4, <3>1, <3>3
    <3> QED
      BY <3>2, <3>3
  <2>7. \A j \in 1 .. n : j < i => r[j] = j
    <3> SUFFICES ASSUME NEW j \in 1 .. n, j < i PROVE r[j] = j
      OBVIOUS
    <3>1. j \in Nat /\ i \in Nat /\ s \in Nat /\ s > i
      BY <1>1
    <3>2. j < s /\ j # i /\ j # s
      BY <3>1
    <3>3. p[j] = j
      BY <2>1, <3>2
    <3> QED
      BY <2>2, <3>2, <3>3
  <2>8. LastStays(h, n, k, r)
    <3> SUFFICES ASSUME h[n].key >= k PROVE r[n] = n
      BY DEF LastStays
    <3>1. n \in 1 .. n
      BY <1>1
    <3>2. n # s
      BY <1>1, <1>5
    <3>3. n # i
      BY <1>1, <3>2
    <3>4. p[n] = n
      BY <2>1 DEF LastStays
    <3> QED
      BY <2>2, <3>1, <3>2, <3>3, <3>4
  <2> QED
    BY <2>2, <2>5, <2>6, <2>7, <2>8
<1>11. \E c \in 1 .. n : c \div 2 = i /\ g[i] = h[c]
  BY <1>1, <1>4, <1>7
<1>12. SiftedDown(g, h, k, v, i)
  <2>1. /\ g \in [DOMAIN h -> Places]
        /\ \A j \in DOMAIN h : j < i \/ (i < j /\ j < 2 * i) => g[j] = h[j]
        /\ \E c \in DOMAIN h : c \div 2 = i /\ g[i] = h[c]
        /\ \A j \in DOMAIN h : j \div 2 >= i => g[j \div 2].key <= g[j].key
    BY <1>1, <1>4, <1>6, <1>9, <1>11
  <2>2. \E p \in [DOMAIN h -> DOMAIN h] :
          /\ Injective(p) /\ Arranged(g, h, k, v, i, p)
          /\ \A j \in DOMAIN h : j < i => p[j] = j
          /\ LastStays(h, Len(h), k, p)
    BY <1>1, <1>10
  <2> QED
    BY <2>1, <2>2, Zenon DEF SiftedDown
<1> QED
  BY <1>3, <1>12

(* RemoveAtPositionAndInsertInternal, from any position behind whose        *)
(* children the heap is in order.                                           *)
LEMMA DownFacts ==
  ASSUME NEW n \in Nat, NEW h \in [1 .. n -> Places], Len(h) = n,
         NEW k \in Nat, NEW v \in Members, NEW pos \in 1 .. n, OrderedBehind(h, pos)
  PROVE  SiftedDown(SiftDown(h, k, v)[pos], h, k, v, pos)
<1> DEFINE down == SiftDown(h, k, v)
<1> DEFINE Bad(i) == ~SiftedDown(down[i], h, k, v, i)
<1> DEFINE bad == {m \in 0 .. (n - pos) : Bad(n - m)}
<1> SUFFICES ASSUME Bad(pos) PROVE FALSE
  OBVIOUS
<1> HIDE DEF Bad
<1>1. bad \subseteq Nat /\ n - pos \in bad
  <2>1. n - pos \in 0 .. (n - pos) /\ n - (n - pos) = pos
    OBVIOUS
  <2> QED
    BY <2>1
<1>2. PICK m \in bad : \A y \in bad : m <= y
  BY <1>1, LeastExists
<1>3. PICK i : i = n - m
  OBVIOUS
<1>4. m \in 0 .. (n - pos) /\ Bad(i)
  BY <1>3
<1>5. i \in pos .. n /\ i \in 1 .. n /\ i \in Nat
  BY <1>3, <1>4
<1>6. ASSUME NEW j \in pos .. n, j > i PROVE SiftedDown(down[j], h, k, v, j)
  <2>1. n - j \in 0 .. (n - pos) /\ n - j < m /\ n - (n - j) = j
    BY <1>3, <1>4, <1>6
  <2>2. n - j \notin bad
    BY <1>2, <1>4, <2>1
  <2>3. ~Bad(j)
    BY <2>1, <2>2
  <2> QED
    BY <2>3 DEF Bad
<1>7. down[i] = DownTurn(down, h, k, v, i)
  BY <1>5, DownDef
<1>8. OrderedBehind(h, i)
  <2>1. DOMAIN h = 1 .. n
    OBVIOUS
  <2> SUFFICES ASSUME NEW j \in 1 .. n, j \div 2 > i PROVE h[j \div 2].key <= h[j].key
    BY <2>1 DEF OrderedBehind
  <2>2. j \div 2 > pos
    BY <1>5, Half
  <2> QED
    BY <2>1, <2>2 DEF OrderedBehind
<1> HIDE DEF down, bad
<1>9. PICK s : s = Smallest(h, k, i)
  OBVIOUS
<1>10. CASE s = i
  <2>1. SiftedDown(Put(h, i, k, v), h, k, v, i)
    BY <1>5, <1>8, <1>9, <1>10, DownEnds
  <2> QED
    BY <1>4, <1>7, <1>9, <1>10, <2>1 DEF DownTurn, Bad
<1>11. CASE s # i
  <2>1. s \in 1 .. n /\ s > i
    BY <1>5, <1>9, <1>11, SmallestFacts
  <2>2. PICK f : f = down[s]
    OBVIOUS
  <2>3. s \in pos .. n
    BY <1>5, <2>1
  <2>4. SiftedDown(f, h, k, v, s)
    BY <1>6, <2>1, <2>2, <2>3
  <2>5. SiftedDown([f EXCEPT ![i] = h[s]], h, k, v, i)
    BY <1>5, <1>8, <1>9, <1>11, <2>4, DownGoesOn
  <2>6. down[i] = [f EXCEPT ![i] = h[s]]
    BY <1>7, <1>9, <1>11, <2>2 DEF DownTurn
  <2> QED
    BY <1>4, <2>5, <2>6 DEF Bad
<1> QED
  BY <1>10, <1>11

-----------------------------------------------------------------------------
(* A one-to-one rearrangement reaches every position. *)
LEMMA Onto ==
  ASSUME NEW n \in Nat, NEW p \in [1 .. n -> 1 .. n], Injective(p), NEW b \in 1 .. n
  PROVE  \E a \in 1 .. n : p[a] = b
<1>1. p \in Injection(1 .. n, 1 .. n)
  BY DEF Injective, Injection, IsInjective
<1>2. IsFiniteSet(1 .. n)
  BY FS_Interval
<1>3. p \in Surjection(1 .. n, 1 .. n)
  BY <1>1, <1>2, FS_Injection
<1> QED
  BY <1>3 DEF Surjection

LEMMA FunctionIsSequence ==
  ASSUME NEW n \in Nat, NEW g \in [1 .. n -> Places]
  PROVE  g \in Seq(Places) /\ Len(g) = n /\ DOMAIN g = 1 .. n
  OBVIOUS

LEMMA SequenceIsFunction ==
  ASSUME NEW h \in Seq(Places)
  PROVE  Len(h) \in Nat /\ h \in [1 .. Len(h) -> Places] /\ DOMAIN h = 1 .. Len(h)
  OBVIOUS

(* No member has two places. *)
Distinct(h) == \A i, j \in DOMAIN h : h[i].val = h[j].val => i = j

(* Insert keeps the heap and arranges the entries and the new one anew. *)
InsertArranged(g, b, n) ==
  \E p \in [1 .. n -> 1 .. n] : Injective(p) /\ \A j \in 1 .. n : g[j] = b[p[j]]

Appended(b, h, e, n) == b[n] = e /\ \A j \in 1 .. Len(h) : b[j] = h[j]

LEMMA InsertArranges ==
  ASSUME NEW h \in Seq(Places), IsHeap(h), NEW k \in Nat, NEW v \in Members,
         NEW g, g = Insert(h, k, v), NEW e, e = Entry(k, v), NEW b, b = Append(h, e),
         NEW n \in Nat, n = Len(h) + 1
  PROVE  /\ g \in Seq(Places) /\ IsHeap(g) /\ DOMAIN g = 1 .. n
         /\ Appended(b, h, e, n) /\ InsertArranged(g, b, n)
<1>1. e = Entry(k, v)
  OBVIOUS
<1>2. e \in Places /\ e.key = k /\ e.val = v
  BY <1>1 DEF Entry, Places
<1>3. b = Append(h, e)
  OBVIOUS
<1>4. n \in Nat /\ n = Len(h) + 1 /\ n >= 1
  BY SequenceIsFunction
<1>5. /\ b \in [1 .. n -> Places] /\ Len(b) = n /\ DOMAIN b = 1 .. n /\ b[n] = e
      /\ \A j \in 1 .. Len(h) : b[j] = h[j]
  <2>1. b \in Seq(Places) /\ Len(b) = n
    BY <1>2, <1>3, <1>4
  <2>2. b \in [1 .. n -> Places] /\ DOMAIN b = 1 .. n
    BY <2>1, SequenceIsFunction
  <2>3. b[Len(h) + 1] = e /\ \A j \in 1 .. Len(h) : b[j] = h[j]
    BY <1>2, <1>3
  <2> QED
    BY <1>4, <2>1, <2>2, <2>3
<1>6. n \in 1 .. n /\ DOMAIN h = 1 .. Len(h) /\ Len(h) \in Nat
  BY <1>4
<1>7. OrderedBefore(b, n)
  <2> SUFFICES ASSUME NEW j \in 1 .. n, j >= 2, j < n PROVE b[j \div 2].key <= b[j].key
    BY <1>5 DEF OrderedBefore
  <2>1. j \in 2 .. Len(h) /\ j \in 1 .. Len(h) /\ j \div 2 \in 1 .. Len(h)
    BY <1>4, <1>6, Half
  <2>2. h[j \div 2].key <= h[j].key
    BY <2>1 DEF IsHeap
  <2> QED
    BY <1>5, <2>1, <2>2
<1>8. SiftedUp(g, b, k, v, n)
  <2>1. g = SiftUp(b, k, v)[n]
    BY <1>1, <1>3, <1>4 DEF Insert, InsertInternal
  <2> QED
    BY <1>5, <1>6, <1>7, <2>1, UpFacts
<1>9. g \in [1 .. n -> Places] /\ \A j \in 1 .. n : j >= 2 /\ j <= n => g[j \div 2].key <= g[j].key
  BY <1>5, <1>8 DEF SiftedUp
<1>10. PICK p \in [1 .. n -> 1 .. n] : Injective(p) /\ Arranged(g, b, k, v, n, p)
  BY <1>5, <1>8 DEF SiftedUp
<1>11. g \in Seq(Places) /\ Len(g) = n /\ DOMAIN g = 1 .. n
  BY <1>9, FunctionIsSequence
<1>12. IsHeap(g)
  BY <1>9, <1>11 DEF IsHeap
<1>13. \A j \in 1 .. n : g[j] = b[p[j]]
  BY <1>1, <1>5, <1>10 DEF Arranged
<1>14. InsertArranged(g, b, n)
  BY <1>10, <1>13 DEF InsertArranged
<1> QED
  BY <1>5, <1>11, <1>12, <1>14 DEF Appended

(* Insert adds one place and keeps the heap. *)
Adds(g, h, e) == Entries(g) = Entries(h) \cup {e}

LEMMA InsertFacts ==
  ASSUME NEW h \in Seq(Places), IsHeap(h), NEW k \in Nat, NEW v \in Members,
         NEW g, g = Insert(h, k, v)
  PROVE  g \in Seq(Places) /\ IsHeap(g) /\ Adds(g, h, Entry(k, v))
<1>1. PICK e : e = Entry(k, v)
  OBVIOUS
<1>2. e \in Places /\ e.key = k /\ e.val = v
  BY <1>1 DEF Entry, Places
<1>3. PICK b : b = Append(h, e)
  OBVIOUS
<1>4. PICK n \in Nat : n = Len(h) + 1 /\ n >= 1
  BY SequenceIsFunction
<1>5. /\ g \in Seq(Places) /\ IsHeap(g) /\ DOMAIN g = 1 .. n
      /\ b[n] = e /\ \A j \in 1 .. Len(h) : b[j] = h[j]
      /\ InsertArranged(g, b, n)
  <2>1. /\ g \in Seq(Places) /\ IsHeap(g) /\ DOMAIN g = 1 .. n
        /\ Appended(b, h, e, n) /\ InsertArranged(g, b, n)
    BY <1>1, <1>3, <1>4, InsertArranges
  <2> QED
    BY <2>1 DEF Appended
<1>6. n \in 1 .. n /\ DOMAIN h = 1 .. Len(h) /\ Len(h) \in Nat
  BY <1>4, SequenceIsFunction
<1>7. PICK p \in [1 .. n -> 1 .. n] : Injective(p) /\ \A j \in 1 .. n : g[j] = b[p[j]]
  BY <1>5 DEF InsertArranged
<1>8. Injective(p) /\ \A j \in 1 .. n : g[j] = b[p[j]]
  BY <1>7
<1>9. Entries(g) = Entries(h) \cup {e}
  <2>1. ASSUME NEW x \in Entries(g) PROVE x \in Entries(h) \cup {e}
    <3>1. PICK j \in 1 .. n : x = g[j]
      BY <1>5 DEF Entries
    <3>2. x = b[p[j]] /\ p[j] \in 1 .. n
      BY <1>8, <3>1
    <3>3. p[j] = n \/ p[j] \in 1 .. Len(h)
      BY <1>4, <1>6, <3>2
    <3> QED
      BY <1>5, <1>6, <3>2, <3>3 DEF Entries
  <2>2. ASSUME NEW c \in 1 .. n PROVE b[c] \in Entries(g)
    <3>1. PICK a \in 1 .. n : p[a] = c
      BY <1>8, Onto
    <3> QED
      BY <1>5, <1>8, <3>1 DEF Entries
  <2>3. ASSUME NEW x \in Entries(h) PROVE x \in Entries(g)
    <3>1. PICK j \in 1 .. Len(h) : x = h[j]
      BY <1>6 DEF Entries
    <3>2. j \in 1 .. n /\ x = b[j]
      BY <1>4, <1>5, <1>6, <3>1
    <3> QED
      BY <2>2, <3>2
  <2>4. e \in Entries(g)
    BY <1>5, <1>6, <2>2
  <2> QED
    BY <2>1, <2>3, <2>4
<1> QED
  BY <1>1, <1>5, <1>9 DEF Adds

(* It gives a member that has no place yet no second one. *)
LEMMA InsertKeepsDistinct ==
  ASSUME NEW h \in Seq(Places), IsHeap(h), NEW k \in Nat, NEW v \in Members,
         NEW g, g = Insert(h, k, v), Distinct(h), ~Holds(h, v)
  PROVE  Distinct(g)
<1>1. PICK e : e = Entry(k, v)
  OBVIOUS
<1>2. e \in Places /\ e.key = k /\ e.val = v
  BY <1>1 DEF Entry, Places
<1>3. PICK b : b = Append(h, e)
  OBVIOUS
<1>4. PICK n \in Nat : n = Len(h) + 1 /\ n >= 1
  BY SequenceIsFunction
<1>5. /\ g \in Seq(Places) /\ IsHeap(g) /\ DOMAIN g = 1 .. n
      /\ b[n] = e /\ \A j \in 1 .. Len(h) : b[j] = h[j]
      /\ InsertArranged(g, b, n)
  <2>1. /\ g \in Seq(Places) /\ IsHeap(g) /\ DOMAIN g = 1 .. n
        /\ Appended(b, h, e, n) /\ InsertArranged(g, b, n)
    BY <1>1, <1>3, <1>4, InsertArranges
  <2> QED
    BY <2>1 DEF Appended
<1>6. n \in 1 .. n /\ DOMAIN h = 1 .. Len(h) /\ Len(h) \in Nat
  BY <1>4, SequenceIsFunction
<1>7. PICK p \in [1 .. n -> 1 .. n] : Injective(p) /\ \A j \in 1 .. n : g[j] = b[p[j]]
  BY <1>5 DEF InsertArranged
<1>8. Injective(p) /\ \A j \in 1 .. n : g[j] = b[p[j]]
  BY <1>7
<1>9. Distinct(g)
  <2>1. ASSUME NEW c \in 1 .. n, NEW d \in 1 .. n, b[c].val = b[d].val PROVE c = d
    <3>1. \A j \in 1 .. n : j = n \/ j \in 1 .. Len(h)
      BY <1>4, <1>6
    <3>2. \A j \in 1 .. Len(h) : b[j].val # v
      BY <1>5, <1>6 DEF Holds
    <3>3. CASE c = n
      BY <1>2, <1>5, <2>1, <3>1, <3>2, <3>3
    <3>4. CASE d = n
      BY <1>2, <1>5, <2>1, <3>1, <3>2, <3>4
    <3>5. CASE c \in 1 .. Len(h) /\ d \in 1 .. Len(h)
      BY <1>5, <1>6, <2>1, <3>5 DEF Distinct
    <3> QED
      BY <3>1, <3>3, <3>4, <3>5
  <2> SUFFICES ASSUME NEW i \in 1 .. n, NEW j \in 1 .. n, g[i].val = g[j].val PROVE i = j
    BY <1>5 DEF Distinct
  <2>2. p[i] \in 1 .. n /\ p[j] \in 1 .. n /\ b[p[i]].val = b[p[j]].val
    BY <1>8
  <2>3. p[i] = p[j]
    BY <2>1, <2>2
  <2> QED
    BY <1>8, <2>3 DEF Injective
<1> QED
  BY <1>9

(* The root of a heap has the smallest key. *)
LEMMA FirstIsLeast ==
  ASSUME NEW h \in Seq(Places), IsHeap(h), NEW j \in 1 .. Len(h)
  PROVE  h[1].key <= h[j].key
<1>1. PICK n \in Nat : n = Len(h)
  BY SequenceIsFunction
<1>2. h \in [1 .. n -> Places]
  BY <1>1, SequenceIsFunction
<1>3. \A i \in 1 .. n : h[i].key \in Nat
  BY <1>2 DEF Places
<1> DEFINE bad == {i \in 1 .. n : ~(h[1].key <= h[i].key)}
<1> SUFFICES ASSUME j \in bad PROVE FALSE
  BY <1>1
<1>4. PICK i \in bad : \A y \in bad : i <= y
  <2>1. bad \subseteq Nat /\ bad # {}
    OBVIOUS
  <2> QED
    BY <2>1, LeastExists
<1>5. i \in 1 .. n /\ ~(h[1].key <= h[i].key) /\ 1 \in 1 .. n
  OBVIOUS
<1>6. i # 1
  BY <1>3, <1>5
<1>7. PICK b : b = i \div 2
  OBVIOUS
<1>8. b \in 1 .. n /\ b < i /\ i \in 2 .. n
  BY <1>5, <1>6, <1>7, Half
<1>9. h[1].key <= h[b].key
  BY <1>4, <1>8
<1>10. h[b].key <= h[i].key
  BY <1>1, <1>7, <1>8 DEF IsHeap
<1>11. h[1].key \in Nat /\ h[b].key \in Nat /\ h[i].key \in Nat
  BY <1>3, <1>5, <1>8
<1> QED
  BY <1>5, <1>9, <1>10, <1>11

(* RemoveMinimum takes out the root and keeps the heap. *)
LEMMA RemoveFacts ==
  ASSUME NEW h \in Seq(Places), h # <<>>, IsHeap(h), Distinct(h),
         NEW g, g = RemoveMinimum(h)
  PROVE  /\ g \in Seq(Places) /\ IsHeap(g) /\ Distinct(g)
         /\ Entries(g) = Entries(h) \ {h[1]}
<1>1. PICK n \in Nat : n = Len(h)
  BY SequenceIsFunction
<1>2. n >= 1 /\ n \in 1 .. n /\ 1 \in 1 .. n /\ n - 1 \in Nat
  BY <1>1
<1>3. h \in [1 .. n -> Places] /\ DOMAIN h = 1 .. n
  BY <1>1, SequenceIsFunction
<1>4. PICK k \in Nat : k = h[n].key
  BY <1>2, <1>3 DEF Places
<1>5. PICK v \in Members : v = h[n].val
  BY <1>2, <1>3 DEF Places
<1>6. Entry(k, v) = h[n]
  BY <1>2, <1>3, <1>4, <1>5 DEF Entry, Places
<1>7. PICK f : f = SiftDown(h, k, v)[1]
  OBVIOUS
<1>8. g = SubSeq(f, 1, n - 1)
  BY <1>1, <1>4, <1>5, <1>7 DEF RemoveMinimum, RemoveAtPositionAndInsertInternal
<1>9. OrderedBehind(h, 1)
  <2> SUFFICES ASSUME NEW j \in 1 .. n, j \div 2 > 1 PROVE h[j \div 2].key <= h[j].key
    BY <1>3 DEF OrderedBehind
  <2>1. j \in 2 .. n
    BY Half
  <2> QED
    BY <1>1, <2>1 DEF IsHeap
<1>10. SiftedDown(f, h, k, v, 1)
  BY <1>1, <1>2, <1>3, <1>7, <1>9, DownFacts
<1>11. f \in [1 .. n -> Places] /\ \A j \in 1 .. n : j \div 2 >= 1 => f[j \div 2].key <= f[j].key
  BY <1>3, <1>10 DEF SiftedDown
<1>12. PICK p \in [1 .. n -> 1 .. n] : /\ Injective(p) /\ Arranged(f, h, k, v, 1, p)
                                       /\ LastStays(h, Len(h), k, p)
  BY <1>3, <1>10 DEF SiftedDown
<1>13. p[n] = n /\ DOMAIN p = 1 .. n
  <2>1. h[n].key >= k
    BY <1>4
  <2> QED
    BY <1>1, <1>12, <2>1 DEF LastStays
<1>14. f \in Seq(Places) /\ Len(f) = n
  BY <1>11, FunctionIsSequence
<1>15. g \in Seq(Places) /\ Len(g) = n - 1 /\ DOMAIN g = 1 .. (n - 1)
       /\ \A j \in 1 .. (n - 1) : g[j] = f[j]
  BY <1>2, <1>8, <1>14
<1>16. IsHeap(g)
  <2> SUFFICES ASSUME NEW j \in 2 .. (n - 1) PROVE g[j \div 2].key <= g[j].key
    BY <1>15 DEF IsHeap
  <2>1. j \in 1 .. n /\ j \in 1 .. (n - 1) /\ j \div 2 >= 1 /\ j \div 2 \in 1 .. (n - 1)
    BY <1>2, Half
  <2> QED
    BY <1>11, <1>15, <2>1
<1> DEFINE Src(j) == IF p[j] = 1 THEN n ELSE p[j]
<1>17. ASSUME NEW j \in 1 .. (n - 1)
       PROVE  g[j] = h[Src(j)] /\ Src(j) \in 2 .. n /\ j \in 1 .. n /\ p[j] # n /\ p[j] \in 1 .. n
  <2>1. j \in 1 .. n /\ j # n
    BY <1>2
  <2>2. p[j] # n /\ p[j] \in 1 .. n
    BY <1>2, <1>12, <1>13, <2>1 DEF Injective
  <2>3. f[j] = IF p[j] = 1 THEN h[n] ELSE h[p[j]]
    BY <1>3, <1>6, <1>12, <2>1 DEF Arranged
  <2>4. n >= 2
    BY <1>2
  <2>5. Src(j) \in 2 .. n
    BY <2>2, <2>4
  <2>6. g[j] = h[Src(j)]
    BY <1>15, <2>3
  <2> QED
    BY <2>1, <2>2, <2>5, <2>6
<1>18. Distinct(g)
  <2> SUFFICES ASSUME NEW i \in 1 .. (n - 1), NEW j \in 1 .. (n - 1), g[i].val = g[j].val
               PROVE  i = j
    BY <1>15 DEF Distinct
  <2>1. Src(i) \in 1 .. n /\ Src(j) \in 1 .. n /\ h[Src(i)].val = h[Src(j)].val
    BY <1>2, <1>17
  <2>2. Src(i) = Src(j)
    BY <1>3, <2>1 DEF Distinct
  <2>3. p[i] = p[j]
    BY <1>17, <2>2
  <2> QED
    BY <1>12, <1>13, <1>17, <2>3 DEF Injective
<1>19. Entries(g) = Entries(h) \ {h[1]}
  <2>1. \A c \in 2 .. n : h[c] \in Entries(h) /\ h[c] # h[1]
    <3> SUFFICES ASSUME NEW c \in 2 .. n PROVE h[c] \in Entries(h) /\ h[c] # h[1]
      OBVIOUS
    <3>1. c \in 1 .. n /\ c # 1
      BY <1>2
    <3> QED
      BY <1>2, <1>3, <3>1 DEF Entries, Distinct
  <2>2. ASSUME NEW x \in Entries(g) PROVE x \in Entries(h) \ {h[1]}
    <3>1. PICK j \in 1 .. (n - 1) : x = g[j]
      BY <1>15 DEF Entries
    <3> QED
      BY <1>17, <2>1, <3>1
  <2>3. ASSUME NEW x \in Entries(h), x # h[1] PROVE x \in Entries(g)
    <3>1. PICK c \in 1 .. n : x = h[c]
      BY <1>3 DEF Entries
    <3>2. c # 1 /\ (c = n => n # 1)
      BY <2>3, <3>1
    <3>3. PICK t \in 1 .. n : t = IF c = n THEN 1 ELSE c
      BY <1>2
    <3>4. PICK a \in 1 .. n : p[a] = t
      BY <1>12, Onto
    <3>5. a # n
      BY <1>13, <3>2, <3>3, <3>4
    <3>6. a \in 1 .. (n - 1)
      BY <1>2, <3>5
    <3>7. Src(a) = c
      BY <3>2, <3>3, <3>4
    <3>8. g[a] = x
      BY <1>17, <3>1, <3>6, <3>7
    <3> QED
      BY <1>15, <3>6, <3>8 DEF Entries
  <2> QED
    BY <2>2, <2>3
<1> QED
  BY <1>15, <1>16, <1>18, <1>19

-----------------------------------------------------------------------------
(* No member has a place before the current time. *)
NothingOverdue == \A e \in Entries(syncMembers) : currentTime <= e.key

(* The inductive invariant. *)
Inv == TypeOK /\ HeapOrdered /\ NothingOverdue

LEMMA TableFacts ==
  ASSUME Inv
  PROVE  /\ syncMembers \in Seq(Places) /\ IsHeap(syncMembers) /\ Distinct(syncMembers)
         /\ currentTime \in Nat
         /\ Entries(syncMembers) \subseteq Places
<1>1. /\ syncMembers \in Seq(Places) /\ IsHeap(syncMembers) /\ Distinct(syncMembers)
      /\ currentTime \in Nat
  BY DEF Inv, TypeOK, HeapOrdered, Places, Distinct
<1>2. Entries(syncMembers) \subseteq Places
  BY <1>1 DEF Entries
<1> QED
  BY <1>1, <1>2

(* The place of a member that stays in the table is a later one: whatever  *)
(* the member answered, and "behind the following" too.                    *)
LEMMA NextPlaceIsLater ==
  ASSUME NEW d \in Int, NEW t \in Nat, NEW rest \in Seq(Places),
         \A e \in Entries(rest) : t <= e.key,
         NextPlace(d, t, rest) > 0
  PROVE  NextPlace(d, t, rest) \in Nat /\ NextPlace(d, t, rest) > t
<1>1. CASE d = 0 /\ rest = <<>>
  BY <1>1 DEF NextPlace
<1>2. CASE d = 0 /\ rest # <<>>
  <2>1. 1 \in DOMAIN rest /\ rest[1] \in Places
    BY <1>2
  <2>2. PICK x : x = rest[1].key
    OBVIOUS
  <2>3. x \in Nat /\ t <= x
    BY <2>1, <2>2 DEF Entries, Places
  <2>4. NextPlace(d, t, rest) = 1 + x
    BY <1>2, <2>2 DEF NextPlace
  <2> QED
    BY <2>3, <2>4
<1>3. CASE d > 0
  <2>1. NextPlace(d, t, rest) = t + d
    BY <1>3 DEF NextPlace
  <2> QED
    BY <1>3, <2>1
<1>4. CASE d < 0
  <2>1. NextPlace(d, t, rest) = d
    BY <1>4 DEF NextPlace
  <2> QED
    BY <1>4, <2>1
<1> QED
  BY <1>1, <1>2, <1>3, <1>4

(* What one Step does to the table, e being the place that is run. *)
Ran(e) ==
  /\ e \in Entries(syncMembers)
  /\ \A f \in Entries(syncMembers) : e.key <= f.key
  /\ currentTime' = e.key
  /\ \/ Entries(syncMembers') = Entries(syncMembers) \ {e}
     \/ \E f \in Places : /\ f.val = e.val /\ f.key > e.key
                          /\ Entries(syncMembers') = (Entries(syncMembers) \ {e}) \cup {f}

LEMMA StepFacts ==
  ASSUME Inv, NEW d \in Delays, NEW stop \in BOOLEAN, StepMember(d, stop)
  PROVE  /\ syncMembers' \in Seq(Places) /\ IsHeap(syncMembers') /\ Distinct(syncMembers')
         /\ \E e : Ran(e)
<1>1. PICK h : h = syncMembers
  OBVIOUS
<1>2. h \in Seq(Places) /\ h # <<>> /\ IsHeap(h) /\ Distinct(h)
  BY <1>1, TableFacts DEF StepMember
<1>3. PICK rest : rest = RemoveMinimum(h)
  OBVIOUS
<1>4. rest \in Seq(Places) /\ IsHeap(rest) /\ Distinct(rest) /\ Entries(rest) = Entries(h) \ {h[1]}
  BY <1>2, <1>3, RemoveFacts
<1>5. PICK e : e = h[1]
  OBVIOUS
<1>6. e \in Places /\ e \in Entries(h) /\ 1 \in DOMAIN h
  BY <1>2, <1>5 DEF Entries
<1>7. PICK t \in Nat : t = e.key
  BY <1>6 DEF Places
<1>8. PICK v \in Members : v = e.val
  BY <1>6 DEF Places
<1>9. \A f \in Entries(h) : t <= f.key
  BY <1>2, <1>5, <1>7, FirstIsLeast DEF Entries
<1>10. PICK place : place = NextPlace(d, t, rest)
  OBVIOUS
<1>11. /\ currentTime' = t
       /\ syncMembers' = IF place > 0 THEN Insert(rest, place, v) ELSE rest
  BY <1>1, <1>3, <1>5, <1>7, <1>8, <1>10 DEF StepMember
<1>12. CASE ~(place > 0)
  <2>1. syncMembers' = rest
    BY <1>11, <1>12
  <2>2. Ran(e)
    BY <1>1, <1>4, <1>5, <1>6, <1>7, <1>9, <1>11, <2>1 DEF Ran
  <2> QED
    BY <1>4, <2>1, <2>2
<1>13. CASE place > 0
  <2>1. d \in Int
    BY DelaysAssumption DEF DelaysAssumption
  <2>2. place \in Nat /\ place > t
    <3>1. \A f \in Entries(rest) : t <= f.key
      BY <1>4, <1>9
    <3> QED
      BY <1>4, <1>10, <1>13, <2>1, <3>1, NextPlaceIsLater
  <2>3. ~Holds(rest, v)
    <3> SUFFICES ASSUME NEW i \in DOMAIN rest, rest[i].val = v PROVE FALSE
      BY DEF Holds
    <3>1. rest[i] \in Entries(h) /\ rest[i] # h[1]
      BY <1>4 DEF Entries
    <3>2. PICK j \in DOMAIN h : rest[i] = h[j]
      BY <3>1 DEF Entries
    <3>3. j = 1
      BY <1>2, <1>5, <1>6, <1>8, <3>2 DEF Distinct
    <3> QED
      BY <3>1, <3>2, <3>3
  <2>4. PICK g : g = Insert(rest, place, v)
    OBVIOUS
  <2>5. /\ g \in Seq(Places) /\ IsHeap(g) /\ Distinct(g)
        /\ Entries(g) = Entries(rest) \cup {Entry(place, v)}
    <3>1. PICK k \in Nat : k = place
      BY <2>2
    <3>2. g \in Seq(Places) /\ IsHeap(g)
      BY <1>4, <2>4, <3>1, InsertFacts
    <3>3. Distinct(g)
      BY <1>4, <2>3, <2>4, <3>1, InsertKeepsDistinct
    <3>4. Adds(g, rest, Entry(k, v))
      BY <1>4, <2>4, <3>1, InsertFacts
    <3> QED
      BY <3>1, <3>2, <3>3, <3>4 DEF Adds
  <2>6. syncMembers' = g
    BY <1>11, <1>13, <2>4
  <2>7. Entry(place, v) \in Places /\ Entry(place, v).key = place /\ Entry(place, v).val = v
    BY <2>2 DEF Entry, Places
  <2>8. Ran(e)
    BY <1>1, <1>4, <1>5, <1>6, <1>7, <1>8, <1>9, <1>11, <2>2, <2>5, <2>6, <2>7 DEF Ran
  <2> QED
    BY <2>5, <2>6, <2>8
<1> QED
  BY <1>12, <1>13

(* Taking the earliest place, and every other step of the program, leaves  *)
(* no place in the past.                                                   *)
LEMMA RanKeepsTime ==
  ASSUME Inv, NEW e, Ran(e)
  PROVE  /\ currentTime' \in Nat /\ currentTime' >= currentTime
         /\ NothingOverdue'
<1>1. e \in Places /\ e.key \in Nat /\ currentTime \in Nat
  BY TableFacts DEF Ran, Places
<1>2. currentTime' = e.key /\ currentTime <= e.key
  BY DEF Ran, Inv, NothingOverdue
<1>3. ASSUME NEW f \in Entries(syncMembers') PROVE e.key <= f.key
  <2>1. CASE f \in Entries(syncMembers)
    BY <2>1 DEF Ran
  <2>2. CASE f \notin Entries(syncMembers)
    <3>1. f \in Places /\ f.key > e.key
      BY <1>3, <2>2 DEF Ran
    <3>2. f.key \in Nat
      BY <3>1 DEF Places
    <3> QED
      BY <1>1, <3>1, <3>2
  <2> QED
    BY <2>1, <2>2
<1> QED
  BY <1>1, <1>2, <1>3 DEF NothingOverdue

LEMMA AddFacts ==
  ASSUME Inv, NEW m \in Members, Add(m)
  PROVE  /\ syncMembers' \in Seq(Places) /\ IsHeap(syncMembers') /\ Distinct(syncMembers')
         /\ Adds(syncMembers', syncMembers, Entry(currentTime, m))
<1>1. PICK h : h = syncMembers
  OBVIOUS
<1>2. PICK k \in Nat : k = currentTime
  BY TableFacts
<1>3. h \in Seq(Places) /\ IsHeap(h) /\ Distinct(h) /\ ~Holds(h, m)
  BY <1>1, TableFacts DEF Add
<1>4. PICK g : g = Insert(h, k, m)
  OBVIOUS
<1>5. g \in Seq(Places) /\ IsHeap(g) /\ Adds(g, h, Entry(k, m))
  BY <1>3, <1>4, InsertFacts
<1>6. Distinct(g)
  BY <1>3, <1>4, InsertKeepsDistinct
<1>7. syncMembers' = g
  BY <1>1, <1>2, <1>4 DEF Add
<1> QED
  BY <1>1, <1>2, <1>5, <1>6, <1>7

LEMMA EmptyTable ==
  ASSUME NEW h, h = <<>>
  PROVE  /\ h \in Seq([key : Nat, val : Members]) /\ IsHeap(h)
         /\ DOMAIN h = {} /\ Entries(h) = {}
  BY DEF IsHeap, Entries

LEMMA InvInit ==
  ASSUME Init
  PROVE  Inv
<1>1. syncMembers = <<>>
  BY DEF Init
<1>2. HeapOrdered /\ NothingOverdue /\ syncMembers \in Seq([key : Nat, val : Members])
  BY <1>1, EmptyTable DEF HeapOrdered, NothingOverdue
<1> QED
  BY <1>2 DEF Init, Inv, TypeOK

(* What Inv says of the time table, put together again. *)
LEMMA TableAgain ==
  ASSUME syncMembers' \in Seq(Places), IsHeap(syncMembers'), Distinct(syncMembers')
  PROVE  syncMembers' \in Seq([key : Nat, val : Members]) /\ HeapOrdered'
  BY DEF HeapOrdered, Places, Distinct

(* The table part of Inv is kept by a step that leaves the table alone. *)
LEMMA Untouched ==
  ASSUME Inv, UNCHANGED <<currentTime, syncMembers>>
  PROVE  /\ currentTime' \in Nat /\ syncMembers' \in Seq([key : Nat, val : Members])
         /\ HeapOrdered' /\ NothingOverdue'
  BY DEF Inv, TypeOK, HeapOrdered, NothingOverdue

LEMMA InvNext ==
  ASSUME Inv, [Next]_vars
  PROVE  Inv'
<1> USE DEF Inv
<1>1. ASSUME NEW d \in Delays, NEW stop \in BOOLEAN, StepMember(d, stop)
      PROVE  /\ currentTime' \in Nat /\ syncMembers' \in Seq([key : Nat, val : Members])
             /\ HeapOrdered' /\ NothingOverdue' /\ breakMessage' \in BOOLEAN
  <2>1. PICK e : Ran(e)
    BY <1>1, StepFacts
  <2>2. currentTime' \in Nat /\ NothingOverdue'
    BY <2>1, RanKeepsTime
  <2>3. syncMembers' \in Seq([key : Nat, val : Members]) /\ HeapOrdered'
    BY <1>1, StepFacts, TableAgain
  <2>4. breakMessage' \in BOOLEAN
    BY <1>1 DEF StepMember, TypeOK
  <2> QED
    BY <2>2, <2>3, <2>4
<1>2. ASSUME NEW d \in Delays, NEW stop \in BOOLEAN, Step(d, stop) PROVE Inv'
  BY <1>1, <1>2 DEF Step, TypeOK
<1>3. ASSUME NEW m \in Members, Add(m) PROVE Inv'
  <2>1. syncMembers' \in Seq([key : Nat, val : Members]) /\ HeapOrdered'
    BY <1>3, AddFacts, TableAgain
  <2>2. NothingOverdue'
    <3>1. Entries(syncMembers') = Entries(syncMembers) \cup {Entry(currentTime, m)}
      BY <1>3, AddFacts DEF Adds
    <3>2. currentTime' = currentTime /\ currentTime \in Nat
      BY <1>3, TableFacts DEF Add
    <3>3. Entry(currentTime, m).key = currentTime
      BY DEF Entry
    <3> QED
      BY <3>1, <3>2, <3>3 DEF NothingOverdue
  <2> QED
    BY <1>3, <2>1, <2>2 DEF Add, TypeOK
<1>4. CASE ResetClock
  <2>1. syncMembers' = <<>>
    BY <1>4 DEF ResetClock
  <2>2. HeapOrdered' /\ NothingOverdue' /\ syncMembers' \in Seq([key : Nat, val : Members])
    BY <2>1, EmptyTable DEF HeapOrdered, NothingOverdue
  <2> QED
    BY <1>4, <2>2 DEF ResetClock, TypeOK
<1>5. CASE Stop
  BY <1>5, Untouched DEF Stop, TypeOK
<1>6. CASE Signal
  BY <1>6, Untouched DEF Signal, TypeOK
<1>7. CASE Endless
  BY <1>7, Untouched DEF Endless, Enter, TypeOK
<1>8. ASSUME NEW t \in 0 .. MaxTime, Run(t) PROVE Inv'
  <2>1. t \in Nat
    BY DelaysAssumption DEF DelaysAssumption
  <2> QED
    BY <1>8, <2>1, Untouched DEF Run, Enter, TypeOK
<1>9. ASSUME NEW t \in 0 .. (MaxTime - currentTime), RunTimeRange(t) PROVE Inv'
  <2>1. t + currentTime \in Nat
    BY TableFacts
  <2> QED
    BY <1>9, <2>1, Untouched DEF RunTimeRange, Enter, TypeOK
<1>10. CASE LoopExit
  BY <1>10, Untouched DEF LoopExit, TypeOK
<1>11. ASSUME NEW d \in Delays, NEW rc \in {0, -1}, NEW stop \in BOOLEAN, LoopStep(d, rc, stop)
       PROVE  Inv'
  BY <1>1, <1>11 DEF LoopStep, TypeOK
<1>12. CASE UNCHANGED vars
  BY <1>12, Untouched DEF vars, TypeOK
<1> QED
  BY <1>2, <1>3, <1>4, <1>5, <1>6, <1>7, <1>8, <1>9, <1>10, <1>11, <1>12 DEF Next, LoopTurn

LEMMA InvHolds == Spec => []Inv
  BY InvInit, InvNext, PTL DEF Spec

(* Every variable of SystemClock keeps its type. *)
THEOREM TypeCorrect == Spec => []TypeOK
  BY InvHolds, PTL DEF Inv

(* The heap invariant of MinHeap survives every Insert and RemoveMinimum   *)
(* of Add and Step, and no SimulationMember is ever scheduled twice.       *)
THEOREM HeapStaysOrdered == Spec => []HeapOrdered
  BY InvHolds, PTL DEF Inv

-----------------------------------------------------------------------------
(* A Step of the clock is a Leave or a Move of the abstract table. *)
LEMMA RanImplements ==
  ASSUME NEW e, Ran(e)
  PROVE  Table!Next
<1>1. Table!Earliest(e) /\ e \in Entries(syncMembers) /\ currentTime' = e.key
  BY DEF Ran, Table!Earliest
<1>2. CASE Entries(syncMembers') = Entries(syncMembers) \ {e}
  <2>1. Table!Leave(e)
    BY <1>1, <1>2 DEF Table!Leave
  <2> QED
    BY <1>1, <2>1 DEF Table!Next
<1>3. ASSUME NEW f \in Places, f.val = e.val, f.key > e.key,
             Entries(syncMembers') = (Entries(syncMembers) \ {e}) \cup {f}
      PROVE  Table!Next
  <2>1. f \in Entries(syncMembers') /\ f.key \in Nat
    BY <1>3 DEF Places
  <2>2. Table!Move(e)
    BY <1>1, <1>3, <2>1 DEF Table!Move
  <2> QED
    BY <1>1, <2>2 DEF Table!Next
<1> QED
  BY <1>2, <1>3 DEF Ran

(* Every step of the clock is a step of the abstract table or stutters. *)
LEMMA NextImplements ==
  ASSUME Inv, [Next]_vars
  PROVE  [Table!Next]_(Table!vars)
<1>1. ASSUME UNCHANGED <<currentTime, syncMembers>> PROVE UNCHANGED Table!vars
  BY <1>1 DEF Table!vars
<1>2. ASSUME NEW d \in Delays, NEW stop \in BOOLEAN, StepMember(d, stop) PROVE Table!Next
  BY <1>2, StepFacts, RanImplements
<1>3. ASSUME NEW m \in Members, Add(m) PROVE Table!Next
  <2>1. Entries(syncMembers') = Entries(syncMembers) \cup {[key |-> currentTime, val |-> m]}
    BY <1>3, AddFacts DEF Adds, Entry
  <2>2. \A e \in Entries(syncMembers) : e.val # m
    BY <1>3 DEF Add, Holds, Entries
  <2>3. Table!Join(m)
    BY <1>3, <2>1, <2>2 DEF Table!Join, Add
  <2> QED
    BY <2>3 DEF Table!Next
<1>4. CASE ResetClock
  <2>1. Entries(syncMembers') = {} /\ currentTime' = 0
    BY <1>4, EmptyTable DEF ResetClock
  <2> QED
    BY <2>1 DEF Table!Next, Table!Clear
<1>5. CASE Stop \/ Signal \/ Endless \/ (\E t : Run(t)) \/ (\E t : RunTimeRange(t)) \/ LoopExit
           \/ UNCHANGED vars
  BY <1>1, <1>5 DEF Stop, Signal, Endless, Run, RunTimeRange, Enter, LoopExit, vars
<1>6. ASSUME NEW d \in Delays, NEW stop \in BOOLEAN, Step(d, stop) PROVE Table!Next
  BY <1>2, <1>6 DEF Step
<1>7. ASSUME NEW d \in Delays, NEW rc, NEW stop \in BOOLEAN, LoopStep(d, rc, stop)
      PROVE  Table!Next
  BY <1>2, <1>7 DEF LoopStep
<1> QED
  BY <1>3, <1>4, <1>5, <1>6, <1>7 DEF Next, LoopTurn

(* SystemClock with its MinHeap implements TimeTable: a Step runs a member *)
(* whose place is an earliest one and moves it to a later place or drops   *)
(* it, Add gives a member its first place, and nothing else in the program *)
(* touches the table or the time.                                          *)
THEOREM ClockIsTimeTable == Spec => ImplementsTimeTable
<1>1. Init => Table!Init
  BY EmptyTable DEF Init, Table!Init
<1>2. Inv /\ [Next]_vars => [Table!Next]_(Table!vars)
  BY NextImplements
<1> QED
  BY <1>1, <1>2, InvHolds, PTL DEF Spec, ImplementsTimeTable, Table!Spec

(* SystemClock::currentTime never runs backwards, whatever the members     *)
(* answer and whoever adds members: only ResetClock sets it back.          *)
THEOREM TimeRunsForward == Spec => [][ResetClock \/ currentTime' >= currentTime]_vars
<1>1. ASSUME Inv, [Next]_vars PROVE [ResetClock \/ currentTime' >= currentTime]_vars
  <2>1. currentTime \in Nat
    BY <1>1, TableFacts
  <2>2. ASSUME NEW d \in Delays, NEW stop \in BOOLEAN, StepMember(d, stop)
        PROVE  currentTime' >= currentTime
    BY <1>1, <2>2, StepFacts, RanKeepsTime
  <2>3. ASSUME currentTime' = currentTime PROVE currentTime' >= currentTime
    BY <2>1, <2>3
  <2>4. CASE Stop \/ Signal \/ Endless \/ (\E t : Run(t)) \/ (\E t : RunTimeRange(t)) \/ LoopExit
             \/ (\E m : Add(m))
    BY <2>3, <2>4 DEF Stop, Signal, Endless, Run, RunTimeRange, Enter, LoopExit, Add
  <2>5. ASSUME NEW d \in Delays, NEW stop \in BOOLEAN, Step(d, stop)
        PROVE  currentTime' >= currentTime
    BY <2>2, <2>5 DEF Step
  <2>6. ASSUME NEW d \in Delays, NEW rc, NEW stop \in BOOLEAN, LoopStep(d, rc, stop)
        PROVE  currentTime' >= currentTime
    BY <2>2, <2>6 DEF LoopStep
  <2> QED
    BY <1>1, <2>4, <2>5, <2>6 DEF Next, LoopTurn
<1> QED
  BY <1>1, InvHolds, PTL DEF Spec
=============================================================================
