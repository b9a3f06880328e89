---------------------------- MODULE MCFolderSync ----------------------------
(* FolderSync on two peers with one or two files.  The peers are symmetric *)
(* in the runs in which both users edit.  Different folders have different *)
(* hashes: a folder is read as a number in base NumContents + 1.           *)
EXTENDS FolderSync, TLC, Functions

PeerSymmetry == Permutations(Peers)

FolderNumber ==
  [d \in Folder |-> SumFunction([f \in Paths |-> d[f] * (NumContents + 1)^(f - 1)])]
=============================================================================
