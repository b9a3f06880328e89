------------------------ MODULE ShareVersionProofs ------------------------
(***************************************************************************)
(* What the proofs about versions use of vector clocks (src/clock.rs).     *)
(***************************************************************************)
EXTENDS ShareVersion, TLAPS

LEMMA MergeClock ==
  ASSUME NEW c \in Clocks, NEW d \in Clocks
  PROVE  /\ merge(c, d) \in Clocks
         /\ \A q \in Peers : /\ merge(c, d)[q] \in {c[q], d[q]}
                             /\ merge(c, d)[q] >= c[q]
                             /\ merge(c, d)[q] >= d[q]
BY DEF merge, Clocks

LEMMA IncrementClock ==
  ASSUME NEW c \in Clocks, NEW p \in Peers
  PROVE  /\ increment(c, p) \in Clocks
         /\ increment(c, p)[p] = c[p] + 1
         /\ \A q \in Peers \ {p} : increment(c, p)[q] = c[q]
BY DEF increment, Clocks

LEMMA ZeroIsClock == ZeroClock \in Clocks /\ \A q \in Peers : ZeroClock[q] = 0
BY DEF ZeroClock, Clocks

(* merge leaves the larger clock as it is: the state that results from an  *)
(* announce that dominates is that announce.                               *)
LEMMA MergeDominated ==
  ASSUME NEW c \in Clocks, NEW d \in Clocks, ~Ahead(c, d)
  PROVE  merge(c, d) = d
BY DEF merge, Clocks, Ahead

LEMMA CompareCases ==
  ASSUME NEW c \in Clocks, NEW d \in Clocks
  PROVE  /\ compare(c, d) \in {"Equal", "SelfDominates"} <=> ~Ahead(d, c)
         /\ compare(c, d) = "Concurrent" <=> Ahead(c, d) /\ Ahead(d, c)
BY DEF compare

LEMMA MergedNonZero ==
  ASSUME NEW c \in Clocks, NEW d \in Clocks, d # ZeroClock
  PROVE  merge(c, d) \in Clocks \ {ZeroClock}
<1>1. PICK q \in Peers : d[q] # 0
  BY DEF Clocks, ZeroClock
<1>2. merge(c, d)[q] # 0
  BY <1>1, MergeClock DEF Clocks
<1> QED BY <1>2, MergeClock, ZeroIsClock
=============================================================================
