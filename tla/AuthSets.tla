------------------------------ MODULE AuthSets ------------------------------
(***************************************************************************)
(* What the other parts rely on of the auth log of a share: every peer has *)
(* a set of operations that only grows, by an operation that nobody has    *)
(* yet or by all that another peer had when it published.  KeyRotation     *)
(* treats auth logs this way.                                              *)
(***************************************************************************)
CONSTANTS Peers, Ops

VARIABLES
  known,        \* the operations in each peer's auth.log
  published     \* sets of operations handed to others, by gossip or in a ticket

vars == <<known, published>>

Init ==
  /\ \E p \in Peers, o \in Ops : known = [q \in Peers |-> IF q = p THEN {o} ELSE {}]
  /\ published = {}

Hand(p) == published' \in {published, published \cup {known'[p]}}

Author(p, o) ==
  /\ known[p] # {} /\ o \notin UNION {known[q] : q \in Peers}
  /\ known' = [known EXCEPT ![p] = @ \cup {o}]
  /\ Hand(p)

Publish(p) == UNCHANGED known /\ Hand(p)

Learn(p, S) ==
  /\ known' = [known EXCEPT ![p] = @ \cup S]
  /\ UNCHANGED published

Next ==
  \E p \in Peers :
    \/ \E o \in Ops : Author(p, o)
    \/ Publish(p)
    \/ \E S \in published : Learn(p, S)

Spec == Init /\ [][Next]_vars
=============================================================================
