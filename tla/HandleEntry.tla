---------------------------- MODULE HandleEntry ----------------------------
(* One entry of the FUSE handle table (nyne/src/fuse/handles/mod.rs) as a  *)
(* pure data type: how a handle is built, and what write, truncate, flush  *)
(* and read do to it.  The backing descriptor of a direct handle is not    *)
(* part of the entry: operators that read it take its content as `fd'.     *)
EXTENDS Integers, Sequences

CONSTANTS
    Bytes,      \* the values a byte of content can take
    NUL         \* the byte Vec::resize fills a gap with

ASSUME BytesAssumption == NUL \in Bytes

Content == Seq(Bytes)
Sources == {"Preloaded", "DirectFd", "Truncated", "Materialized"}
Truncations == {"None", "Pending", "Done"}

(* HandleEntry.  `inode' is 0 in a vacant slab slot: FUSE never uses 0.    *)
Entries(Inodes) ==
    [inode : Inodes \cup {0}, buffer : Content, source : Sources,
     dirty_gen : Nat, append : BOOLEAN, truncation : Truncations]

Vacant == [inode |-> 0, buffer |-> << >>, source |-> "Preloaded",
           dirty_gen |-> 0, append |-> FALSE, truncation |-> "None"]

-----------------------------------------------------------------------------
(* Content: what Vec::truncate and Vec::resize + copy_from_slice compute.  *)

Cut(c, n) == [i \in 1 .. (IF n < Len(c) THEN n ELSE Len(c)) |-> c[i]]

Spliced(c, off, data) ==
    LET end == off + Len(data) IN
    [i \in 1 .. (IF end > Len(c) THEN end ELSE Len(c)) |->
        IF off < i /\ i <= end THEN data[i - off]
        ELSE IF i <= Len(c) THEN c[i] ELSE NUL]

-----------------------------------------------------------------------------
(* The two open paths.                                                     *)

NewBuffered(ino, content, trunc, app) ==
    LET emptied == trunc /\ content # << >> IN
    [inode |-> ino,
     buffer |-> IF trunc THEN << >> ELSE content,
     source |-> "Preloaded",
     dirty_gen |-> IF emptied THEN 1 ELSE 0,
     append |-> app,
     truncation |-> IF emptied THEN "Pending" ELSE IF trunc THEN "Done" ELSE "None"]

NewDirect(ino, trunc, app) ==
    [inode |-> ino, buffer |-> << >>,
     source |-> IF trunc THEN "Truncated" ELSE "DirectFd",
     dirty_gen |-> 0, append |-> app,
     truncation |-> IF trunc THEN "Pending" ELSE "None"]

-----------------------------------------------------------------------------
(* HandleTable::write.  Populated is the buffer after the lazy population  *)
(* from the descriptor; only a DirectFd handle is populated.               *)

Populated(e, fd) == IF e.source = "DirectFd" THEN fd ELSE e.buffer

(* Mutant: an append lands at the offset the kernel took from its inode.   *)
WriteOffsetOfKernel(e, off, fd) == off

WriteOffset(e, off, fd) == IF e.append THEN Len(Populated(e, fd)) ELSE off

(* WriteOutcome::Replacement: the caller flushes before it replies.        *)
IsReplacement(e) == e.truncation = "Pending"

Consumed(e) == IF IsReplacement(e) THEN "Done" ELSE e.truncation

Written(e, off, data, fd) ==
    [e EXCEPT
        !.buffer = Spliced(Populated(e, fd), WriteOffset(e, off, fd), data),
        !.source = IF @ \in {"DirectFd", "Truncated"} THEN "Materialized" ELSE @,
        !.dirty_gen = IF data = << >> THEN @ ELSE @ + 1,
        !.truncation = Consumed(e)]

(* The populate failed: the descriptor was taken out of the entry before   *)
(* it was read, so the entry is left Preloaded.  Its buffer is empty when  *)
(* the file's length could not be read (n = 0), and as many NUL bytes as   *)
(* the file is long when the content could not: resize comes first.        *)
Unread(n) == [i \in 1 .. n |-> NUL]

WriteFailed(e, n) ==
    [e EXCEPT !.buffer = Unread(n), !.source = "Preloaded", !.truncation = Consumed(e)]

(* Mutant: a preloaded handle that loses content is not marked dirty.      *)
TruncatedClean(e, size, fd) ==
    [e EXCEPT !.buffer = Cut(IF e.source = "DirectFd" /\ size > 0 THEN fd ELSE @, size),
              !.source = IF e.source = "DirectFd" THEN "Truncated" ELSE @]

(* truncate_entry.  `fd' is what the populate of a non-zero size left in   *)
(* the buffer: the content, or what a failed populate leaves, for the      *)
(* failure is only logged.                                                 *)
TruncatedTo(e, size, fd) ==
    LET direct == e.source = "DirectFd"
        loses  == e.source = "Preloaded" /\ size < Len(e.buffer)
    IN [e EXCEPT
        !.buffer = Cut(IF direct /\ size > 0 THEN fd ELSE @, size),
        !.source = IF direct THEN "Truncated" ELSE @,
        !.dirty_gen = IF loses THEN @ + 1 ELSE @,
        !.truncation = IF direct \/ loses THEN "Pending" ELSE @]

-----------------------------------------------------------------------------
(* DirtySnapshot, and the two ways do_flush returns without writing: the   *)
(* handle is clean, or an eager flush finds an emptied buffer and leaves   *)
(* it to release.                                                          *)
IsDirty(e) == e.dirty_gen > 0

(* Mutant: an emptied buffer is not deferred.                              *)
DeferredNever(e, mode) == FALSE

Deferred(e, mode) ==
    mode = "Eager" /\ e.buffer = << >> /\ e.truncation # "None"

MustFlush(e, mode) == IsDirty(e) /\ ~Deferred(e, mode)

(* Mutants: the generation is not compared; it is subtracted.              *)
ClearedAlways(e, gen) == [e EXCEPT !.dirty_gen = 0]
ClearedBySubtraction(e, gen) == [e EXCEPT !.dirty_gen = @ - gen]

Cleared(e, gen) == [e EXCEPT !.dirty_gen = IF @ = gen THEN 0 ELSE @]

(* What a read of the whole file returns: pread on the descriptor of a     *)
(* DirectFd handle, the buffer of any other.                               *)
View(e, fd) == IF e.source = "DirectFd" THEN fd ELSE e.buffer
=============================================================================
