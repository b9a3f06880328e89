--------------------------- MODULE MCKeyRotation ---------------------------
(* KeyRotation with the creator and up to four other peers.                *)
EXTENDS KeyRotation, TLC

CONSTANTS c, m1, m2, m3, m4

MemberSymmetry == Permutations({m1, m2})
=============================================================================
