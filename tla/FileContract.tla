---------------------------- MODULE FileContract ----------------------------
(* What one open file owes the client whose requests it serves, one after  *)
(* the other, apart from descriptors, lazy buffers, dirty generations and  *)
(* deferred flushes: each request has the effect its own arguments name,   *)
(* and what is due reaches the store when the file is flushed or closed.   *)
EXTENDS Integers, Sequences

CONSTANTS Bytes, NUL

VARIABLES
    request,    \* the request just served, as the client sent it
    turn,       \* flips with every request: none is served by a stutter
    flags,      \* how the client opened the file: appending, loaded whole
    file,       \* the content a read of the open file returns
    saved,      \* the content of the file in the store
    due         \* the next flush has something to store

vars == <<request, turn, flags, file, saved, due>>

Fill(n) == [i \in 1 .. n |-> NUL]

(* pwrite: a gap before the data reads as NUL bytes.                       *)
Overwritten(c, off, data) ==
    LET head == IF off <= Len(c) THEN SubSeq(c, 1, off)
                                 ELSE c \o Fill(off - Len(c))
        tail == SubSeq(c, off + Len(data) + 1, Len(c))
    IN head \o data \o tail

Init == file = saved /\ saved \in Seq(Bytes) /\ turn \in BOOLEAN /\ due = FALSE

Served(op) == request'.op = op /\ turn' = ~turn

Stored == saved' = file' /\ due' = FALSE
Kept == saved' = saved /\ due' = due

(* Opening shows the store; the client's flags hold until it closes.       *)
Open ==
    /\ Served("open")
    /\ flags' = [append |-> request'.append, whole |-> request'.whole]
    /\ file' = file
    /\ Kept

(* The bytes land where the request says, or behind all others when the    *)
(* client appends.  They are due, unless the same call stores them: a      *)
(* refusal of the store is the client's to see, and leaves them due.       *)
Write ==
    LET at == IF flags.append THEN Len(file) ELSE request'.at IN
    /\ Served("write")
    /\ file' = Overwritten(file, at, request'.data)
    /\ \/ saved' = saved /\ due' = TRUE
       \/ request'.ok /\ Stored
    /\ UNCHANGED flags

(* A truncation shortens, and never extends: Vec::truncate.  It makes the  *)
(* loss due only for a client whose file was loaded whole.                 *)
Truncate ==
    LET size == request'.at IN
    /\ Served("truncate")
    /\ file' = IF size < Len(file) THEN SubSeq(file, 1, size) ELSE file
    /\ due' = (due \/ (flags.whole /\ size < Len(file)))
    /\ UNCHANGED <<saved, flags>>

(* A duplicate is closed: what is due is stored, unless it is an empty     *)
(* content, which may wait, or the store refuses it.                       *)
Flush ==
    /\ Served("flush")
    /\ file' = file
    /\ \/ due /\ request'.ok /\ Stored
       \/ ~(due /\ request'.ok /\ file # << >>) /\ Kept
    /\ UNCHANGED flags

(* The last descriptor is closed: nothing waits any longer, and the next   *)
(* opener sees the store.                                                  *)
Close ==
    /\ Served("release")
    /\ saved' = IF due /\ request'.ok THEN file ELSE saved
    /\ file' = saved' /\ due' = FALSE
    /\ UNCHANGED flags

Next == Open \/ Write \/ Truncate \/ Flush \/ Close

Spec == Init /\ [][Next]_vars
=============================================================================
