---------------------------- MODULE MCSeedLeech ----------------------------
(* SeedLeech with two seeds and a leech.  The two folders differ in the    *)
(* content of both files, so that a mixture of them would show.            *)
EXTENDS SeedLeech, TLC

CONSTANTS s1, s2, l1

MCVersions == {<<1, 1>>, <<2, 2>>}
=============================================================================
