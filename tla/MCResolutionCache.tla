------------------------- MODULE MCResolutionCache -------------------------
(* Instances of ResolutionCache for TLC.                                   *)
EXTENDS ResolutionCache, TLC

CONSTANTS src, lib, main, view, t1, t2

(* view is the companion of src/main.                                      *)
ViewOfMain == [c \in Companions |-> <<src, main>>]

(* Clients look main up in lib and list the companion.                     *)
SomeKeys == {[dir |-> lib, name |-> main], [dir |-> view, name |-> Everything]}

(* The workers are alike.                                                  *)
Symmetry == Permutations(Threads)
=============================================================================
