--------------------------- MODULE MCVersionSync ---------------------------
(* VersionSync on a small instance; the peers are interchangeable.         *)
EXTENDS VersionSync, TLC

PeerSymmetry == Permutations(Peers)
=============================================================================
