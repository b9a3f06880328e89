----------------------------- MODULE FoldProofs -----------------------------
(***************************************************************************)
(* Induction over the positions of a sequence, from the least element of a *)
(* set of naturals: a fold, written as a recursive function on 0..N, is    *)
(* defined and keeps what each of its steps keeps.                         *)
(***************************************************************************)
EXTENDS FiniteSetTheorems, Sequences, TLAPS

(* A non-empty set of naturals has a least element. *)
LEMMA LeastPosition ==
  ASSUME NEW T \in SUBSET Nat, T # {}
  PROVE  \E n \in T : \A m \in T : n <= m
<1> DEFINE less == {ss \in Nat \X Nat : ss[1] < ss[2]}
<1>1. OpToRel(<, Nat) = less
  BY Zenon DEF OpToRel
<1>2. IsWellFoundedOn(less, Nat)
  BY <1>1, NatLessThanWellFounded, Zenon
<1>3. PICK n \in T : \A m \in T : <<m, n>> \notin less
  <2> HIDE DEF less
  <2> QED BY <1>2, WFMin, Zenon
<1>4. ASSUME NEW m \in T PROVE ~(m < n)
  <2>1. <<m, n>> \in Nat \X Nat /\ <<m, n>>[1] = m /\ <<m, n>>[2] = n
    OBVIOUS
  <2> QED BY <1>3, <2>1, Zenon
<1> QED BY <1>4

(* What holds at 0, and at each position if at the one before, holds at    *)
(* all of them.                                                            *)
LEMMA EveryPosition ==
  ASSUME NEW N \in Nat, NEW G \in SUBSET (0..N), 0 \in G,
         \A n \in 1..N : n - 1 \in G => n \in G
  PROVE  G = 0..N
<1>1. CASE (0..N) \ G # {}
  <2>0. (0..N) \ G \in SUBSET Nat
    OBVIOUS
  <2>1. PICK n \in (0..N) \ G : \A m \in (0..N) \ G : n <= m
    BY <1>1, <2>0, LeastPosition
  <2>2. n \in 1..N /\ n - 1 \in 0..N /\ n - 1 \in G
    BY <2>1
  <2> QED BY <2>1, <2>2
<1> QED BY <1>1

(* What every step of a fold keeps holds of all its values.                *)
LEMMA FoldKeeps ==
  ASSUME NEW N \in Nat, NEW good, NEW h, h[0] \in good[0],
         \A n \in 1..N : h[n - 1] \in good[n - 1] => h[n] \in good[n]
  PROVE  \A n \in 0..N : h[n] \in good[n]
<1> DEFINE G == {n \in 0..N : h[n] \in good[n]}
<1>1. \A n \in 1..N : n \in 0..N /\ n - 1 \in 0..N
  OBVIOUS
<1>2. G \in SUBSET (0..N) /\ 0 \in G /\ \A n \in 1..N : n - 1 \in G => n \in G
  BY <1>1
<1>3. G = 0..N
  <2> HIDE DEF G
  <2> QED BY <1>2, EveryPosition
<1> QED BY <1>3

\* Every step leads from one set of values to the next.
Leads(N, good, step) ==
  \A n \in 1..N : \A x \in good[n - 1] : step[n][x] \in good[n]

\* h holds the values of the fold of the steps, from base.
IsFold(N, good, step, base, h) ==
  /\ h = [n \in 0..N |-> h[n]] /\ h[0] = base
  /\ \A n \in 1..N : h[n] = step[n][h[n - 1]]
  /\ \A n \in 0..N : h[n] \in good[n]

LEMMA FoldExists ==
  ASSUME NEW N \in Nat, NEW good, NEW step, NEW base, base \in good[0], Leads(N, good, step)
  PROVE  \E h : IsFold(N, good, step, base, h)
<1> DEFINE Fold(m, h) == IsFold(m, good, step, base, h)
           G == {m \in 0..N : \E h : Fold(m, h)}
<1>1. 0 \in G
  <2> DEFINE h == [n \in 0..0 |-> base]
  <2>1. Fold(0, h)
    BY DEF IsFold
  <2> HIDE DEF Fold
  <2> QED BY <2>1
<1>2. ASSUME NEW m \in 1..N, m - 1 \in G PROVE m \in G
  <2>1. PICK h : Fold(m - 1, h)
    BY <1>2
  <2> DEFINE k == [n \in 0..m |-> IF n = m THEN step[m][h[m - 1]] ELSE h[n]]
  <2>2. m - 1 \in 0..(m - 1) /\ h[m - 1] \in good[m - 1]
    BY <2>1 DEF IsFold
  <2>3. k[m] = step[m][h[m - 1]] /\ k[m] \in good[m]
    BY <2>2 DEF Leads
  <2>4. ASSUME NEW n \in 0..m, n # m PROVE n \in 0..(m - 1) /\ k[n] = h[n]
    BY <2>4
  <2>5. k[0] = base
    BY <2>1, <2>4 DEF IsFold
  <2>6. ASSUME NEW n \in 1..m PROVE k[n] = step[n][k[n - 1]]
    <3>1. n - 1 \in 0..m /\ n - 1 # m
      OBVIOUS
    <3>2. k[n - 1] = h[n - 1]
      BY <3>1, <2>4
    <3>3. CASE n = m
      BY <3>3, <3>2, <2>3
    <3>4. CASE n # m
      <4>1. n \in 1..(m - 1) /\ k[n] = h[n]
        BY <3>4, <2>4
      <4> HIDE DEF k
      <4> QED BY <4>1, <3>2, <2>1 DEF IsFold
    <3> HIDE DEF k
    <3> QED BY <3>3, <3>4
  <2>7. ASSUME NEW n \in 0..m PROVE k[n] \in good[n]
    <3> HIDE DEF k
    <3> QED BY <2>1, <2>3, <2>4 DEF IsFold
  <2>8. k = [n \in 0..m |-> k[n]]
    OBVIOUS
  <2> HIDE DEF k
  <2>9. Fold(m, k)
    BY <2>5, <2>6, <2>7, <2>8 DEF IsFold
  <2> HIDE DEF Fold
  <2> QED BY <2>9
<1> HIDE DEF Fold
<1>3. N \in G
  <2> HIDE DEF G
  <2>1. G \in SUBSET (0..N)
    BY DEF G
  <2>2. \A n \in 1..N : n - 1 \in G => n \in G
    BY <1>2
  <2>3. G = 0..N
    BY <1>1, <2>1, <2>2, EveryPosition
  <2> QED BY <2>3
<1> QED BY <1>3 DEF Fold

(* A sequence without repetitions is no longer than what it is made of.    *)
LEMMA DistinctFits ==
  ASSUME NEW N \in Nat, NEW s, Len(s) \in Nat, s \in [1..Len(s) -> 1..N],
         \A i, j \in 1..Len(s) : s[i] = s[j] => i = j
  PROVE  Len(s) <= N
<1>1. Len(s) \in Nat /\ s \in [1..Len(s) -> 1..N]
  OBVIOUS
<1>2. /\ IsFiniteSet(1..N) /\ Cardinality(1..N) = N
      /\ IsFiniteSet(1..Len(s)) /\ Cardinality(1..Len(s)) = Len(s)
  <2>1. \A n \in Nat : IsFiniteSet(1..n) /\ Cardinality(1..n) = n
    <3> SUFFICES ASSUME NEW n \in Nat PROVE IsFiniteSet(1..n) /\ Cardinality(1..n) = n
      OBVIOUS
    <3>1. 1 \in Int /\ n \in Int /\ (1 > n => n = 0)
      OBVIOUS
    <3>2. IsFiniteSet(1..n) /\ Cardinality(1..n) = IF 1 > n THEN 0 ELSE n - 1 + 1
      BY <3>1, FS_Interval
    <3> QED BY <3>1, <3>2
  <2> QED BY <1>1, <2>1
<1>3. CASE N < Len(s)
  BY <1>1, <1>2, <1>3, FS_PigeonHole
<1> QED BY <1>1, <1>3
=============================================================================
