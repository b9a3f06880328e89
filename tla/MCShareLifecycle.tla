-------------------------- MODULE MCShareLifecycle --------------------------
(* ShareLifecycle with up to two shares and four method calls.             *)
EXTENDS ShareLifecycle, TLC

CONSTANTS s1, s2, c1, c2, c3, c4

CallSymmetry == Permutations(Calls) \cup Permutations(Shares)
=============================================================================
