----------------------------- MODULE MCAuthLog -----------------------------
(* AuthLog with the creator and up to three other peers.                   *)
EXTENDS AuthLog, TLC

CONSTANTS c, m1, m2, m3

OthersSymmetry == Permutations({m1, m2, m3})
=============================================================================
