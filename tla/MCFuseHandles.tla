--------------------------- MODULE MCFuseHandles ---------------------------
(* Instances of FuseHandles for TLC: every client opens the same inode.    *)
EXTENDS FuseHandles, TLC

CONSTANTS t1, t2

OneInode == [f \in Files |-> 2]

Symmetry == Permutations(Threads)
=============================================================================
