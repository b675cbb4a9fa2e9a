---------------------------- MODULE SingleHandle ----------------------------
(* One client, one file, one handle at a time: open, write, ftruncate,     *)
(* flush (close of a duplicate) and release, each handler whole, as        *)
(* nyne/src/fuse/ops.rs runs them when nothing else touches the inode.     *)
(* FuseHandles has the interleavings; here the bytes matter.               *)
EXTENDS HandleEntry

CONSTANTS
    Inode,          \* the inode number of the file
    MaxSize,        \* bound: no content grows longer than this
    MaxGeneration   \* bound: no dirty generation grows larger than this

ASSUME SingleHandleAssumption ==
    Inode \in Nat \ {0} /\ MaxSize \in Nat /\ MaxGeneration \in Nat

VARIABLES
    entry,      \* the handle's entry, Vacant when the file is closed
    store,      \* the file's content in the real filesystem
    rejected,   \* the last flush of this handle failed (validation, I/O)
    tail,       \* history: the handle is direct and was truncated after its
                \* last non-empty write
    request,    \* history: the request last served, as its client sent it
    turn,       \* history: flips with every request
    flags       \* history: the flags of the client's open

singlevars == <<entry, store, rejected, tail, request, turn, flags>>

StoredContents == UNION {[1 .. n -> Bytes] : n \in 0 .. MaxSize}

(* The requests, as the kernel hands them over; `ok' is whether the store  *)
(* would take what the call may write through.                             *)
OpenRequest(app, whole) == [op |-> "open", append |-> app, whole |-> whole]
WriteRequest(off, data, ok) == [op |-> "write", at |-> off, data |-> data, ok |-> ok]
TruncateRequest(size) == [op |-> "truncate", at |-> size]
CloseRequest(op, ok) == [op |-> op, ok |-> ok]

Requested(r) == request' = r /\ turn' = ~turn

SingleInit ==
    /\ entry = Vacant
    /\ store \in StoredContents
    /\ rejected = FALSE
    /\ tail = FALSE
    /\ request = CloseRequest("release", TRUE) /\ turn = FALSE
    /\ flags = [append |-> FALSE, whole |-> FALSE]

(* The flags the client opens with, and whether its file is loaded whole.  *)
OpensWith(app, whole) ==
    /\ Requested(OpenRequest(app, whole))
    /\ flags' = [append |-> app, whole |-> whole]

Opened == entry.inode # 0
Closed == entry = Vacant /\ rejected = FALSE /\ tail = FALSE

(* open: a real file is opened by descriptor, its O_TRUNC stripped by the  *)
(* kernel, which sends setattr(size = 0) instead.                          *)
OpenDescriptor(app) ==
    /\ Closed
    /\ entry' = NewDirect(Inode, FALSE, app)
    /\ OpensWith(app, FALSE)
    /\ UNCHANGED <<store, rejected, tail>>

(* open: a virtual file is loaded whole.                                   *)
OpenWhole(app) ==
    /\ Closed
    /\ entry' = NewBuffered(Inode, store, FALSE, app)
    /\ OpensWith(app, TRUE)
    /\ UNCHANGED <<store, rejected, tail>>

(* do_create: CREATE carries its O_TRUNC through; the file it has just     *)
(* made is empty.                                                          *)
CreateNew(trunc, app) ==
    /\ Closed
    /\ store = << >>
    /\ entry' = NewBuffered(Inode, << >>, trunc, app)
    /\ OpensWith(app, TRUE)
    /\ UNCHANGED <<store, rejected, tail>>

(* do_flush with nobody else about: write the buffer through the chain and *)
(* clear the dirty generation, or record the error and stay dirty.         *)
FlushOf(e, mode, ok) ==
    IF ~MustFlush(e, mode)
    THEN entry' = e /\ UNCHANGED <<store, rejected>>
    ELSE /\ entry' = IF ok THEN Cleared(e, e.dirty_gen) ELSE e
         /\ store' = IF ok THEN e.buffer ELSE store
         /\ rejected' = ~ok

(* write: buffered, or after a truncation flushed before the reply.        *)
WriteAt(off, data, ok) ==
    LET e == Written(entry, off, data, store) IN
    /\ Opened
    /\ Len(e.buffer) <= MaxSize /\ entry.dirty_gen < MaxGeneration
    /\ tail' = FALSE
    /\ IF IsReplacement(entry) THEN FlushOf(e, "Final", ok)
       ELSE entry' = e /\ UNCHANGED <<store, rejected>>
    /\ Requested(WriteRequest(off, data, ok)) /\ UNCHANGED flags

(* setattr(size) on the open file.                                         *)
Truncate(size) ==
    /\ Opened
    /\ entry.dirty_gen < MaxGeneration
    /\ entry' = TruncatedTo(entry, size, store)
    /\ tail' = (tail \/ entry.source # "Preloaded")
    /\ Requested(TruncateRequest(size))
    /\ UNCHANGED <<store, rejected, flags>>

CloseDuplicate(ok) ==
    /\ Opened
    /\ FlushOf(entry, "Eager", ok)
    /\ Requested(CloseRequest("flush", ok))
    /\ UNCHANGED <<tail, flags>>

(* release: a final flush, whose error is dropped, then the entry.         *)
CloseLast(ok) ==
    LET flushes == MustFlush(entry, "Final") IN
    /\ Opened
    /\ store' = IF flushes /\ ok THEN entry.buffer ELSE store
    /\ entry' = Vacant
    /\ rejected' = FALSE
    /\ tail' = FALSE
    /\ Requested(CloseRequest("release", ok)) /\ UNCHANGED flags

SingleNext ==
    \/ \E app \in BOOLEAN :
        \/ OpenDescriptor(app)
        \/ OpenWhole(app)
        \/ \E trunc \in BOOLEAN : CreateNew(trunc, app)
    \/ \E off \in 0 .. MaxSize, b \in Bytes, ok \in BOOLEAN : WriteAt(off, <<b>>, ok)
    \/ \E size \in 0 .. MaxSize : Truncate(size)
    \/ \E ok \in BOOLEAN : CloseDuplicate(ok) \/ CloseLast(ok)

SingleSpec == SingleInit /\ [][SingleNext]_singlevars

-----------------------------------------------------------------------------
SingleTypeOK ==
    /\ entry \in Entries({Inode})
    /\ store \in Content
    /\ rejected \in BOOLEAN /\ tail \in BOOLEAN
    /\ turn \in BOOLEAN /\ flags \in [append : BOOLEAN, whole : BOOLEAN]

Content0 == View(entry, store)

(* Every request has the effect its arguments name on what an open handle  *)
(* shows and on what the store holds (FileContract): lazy population, the  *)
(* clamping of appends to the buffer's end, deferred empty flushes and the *)
(* eager flush of a replacement change neither.                            *)
Shown == IF Opened THEN Content0 ELSE store
Due == Opened /\ IsDirty(entry)

Contract == INSTANCE FileContract WITH file <- Shown, saved <- store, due <- Due

RefinesContract == Contract!Spec

(* A clean handle has nothing the store lacks, unless it was truncated by  *)
(* descriptor after its last write: release, which flushes only a dirty    *)
(* handle, then loses nothing.                                             *)
CleanIsSaved ==
    Opened /\ ~IsDirty(entry) /\ ~tail => Content0 = store

(* A virtual file being rewritten (truncate, then data) is never stored    *)
(* empty before its data arrives: only release stores an emptied buffer.   *)
EmptyWaitsForRelease ==
    [][Opened /\ entry.source = "Preloaded" /\ store # << >> /\ store' = << >>
        => entry'.inode = 0]_singlevars
=============================================================================
