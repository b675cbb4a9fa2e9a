---------------------------- MODULE MCInodeMap ----------------------------
(* Instances of InodeMap for TLC.                                          *)
EXTENDS InodeMap, TLC

CONSTANTS f, d, e, file, other, dir, dir2

(* A file f, and a directory d that two names can be made in.            *)
FlatPaths == {<<f>>, <<d>>, <<d, f>>, <<d, e>>}
FlatTree ==
    [p \in FlatPaths |-> IF p = <<f>> THEN file ELSE IF p = <<d>> THEN dir ELSE Nothing]

(* A file f, and a directory d/e to move it to.                            *)
DeepPaths == {<<f>>, <<e>>, <<d>>, <<d, e>>, <<d, e, f>>}
DeepTree ==
    [p \in DeepPaths |-> IF p = <<f>> THEN file ELSE IF p = <<d>> THEN dir
                         ELSE IF p = <<d, e>> THEN dir2 ELSE Nothing]

ThreadSymmetry == Permutations(Threads)
=============================================================================
