--------------------------- MODULE MCSourceEdits ----------------------------
(* Edits of source files on small instances. *)
EXTENDS SourceEdits, TLC

CONSTANTS t1, t2, a, b

ThreadSymmetry == Permutations(Threads)
=============================================================================
