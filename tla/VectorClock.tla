---------------------------- MODULE VectorClock ----------------------------
(***************************************************************************)
(* The vector clock of a share version (src/clock.rs).  The code keeps a   *)
(* map from peer id to counter in which a missing peer counts as zero; the *)
(* model keeps the total function that map denotes.                        *)
(***************************************************************************)
EXTENDS Naturals

CONSTANT Peers

Clocks == [Peers -> Nat]

\* VectorClock::new: the empty map.
ZeroClock == [q \in Peers |-> 0]

increment(c, p) == [c EXCEPT ![p] = @ + 1]

merge(c, d) == [q \in Peers |-> IF d[q] > c[q] THEN d[q] ELSE c[q]]

\* The two flags that VectorClock::compare collects over all keys.
Ahead(c, d) == \E q \in Peers : c[q] > d[q]

compare(c, d) ==
  IF Ahead(c, d)
  THEN IF Ahead(d, c) THEN "Concurrent" ELSE "SelfDominates"
  ELSE IF Ahead(d, c) THEN "OtherDominates" ELSE "Equal"
=============================================================================
