---------------------------- MODULE FuseHandles ----------------------------
(* The FUSE handle table and its flush pipeline under concurrent requests: *)
(* HandleTable (nyne/src/fuse/handles/mod.rs), do_flush and the open,      *)
(* write, setattr, flush and release handlers (ops.rs), do_create          *)
(* (mutations.rs) and the per-inode write locks and errors                  *)
(* (inode_state.rs).  A handler is split where it lets go of a lock; each  *)
(* critical section is one action.                                         *)
(*                                                                         *)
(* The kernel's part: it serialises writes and setattr of one inode, sends *)
(* flush for every close of a descriptor, and sends release once nothing   *)
(* else is in flight on the open file.                                     *)
EXTENDS HandleEntry

CONSTANTS
    Threads,            \* the FUSE session's worker threads
    Files,              \* open-file slots of the clients
    InodeOf,            \* [Files -> inode number]: the file each slot opens
    RealInodes,         \* inodes with a backing path; the others are virtual
    MaxHandles,         \* bound: the slab holds handles 0 .. MaxHandles - 1
    Locks,              \* mutex identities, positive numbers
    Appends,            \* the O_APPEND flags files are opened with
    MaxLen,             \* bound: length of a content
    MaxGen,             \* bound: dirty generation of a handle
    OverlappingFlushes, \* two flushes of one open file may be in flight at
                        \* once: two duplicates of its descriptor are closed
    KernelPassthrough   \* the kernel accepts a backing descriptor

Inodes == {InodeOf[f] : f \in Files}
Fhs == 0 .. MaxHandles - 1

(* What a backing file or a virtual node may hold when it is read.         *)
Contents == {[i \in 1 .. n |-> NUL] : n \in 0 .. MaxLen}

NoFh == -1

ASSUME FuseHandlesAssumption ==
    /\ Files # {} /\ InodeOf \in [Files -> Nat \ {0}]
    /\ RealInodes \subseteq Inodes
    /\ MaxHandles \in Nat \ {0}
    /\ Locks \subseteq Nat \ {0}
    /\ Appends \subseteq BOOLEAN
    /\ MaxLen \in Nat /\ MaxGen \in Nat
    /\ OverlappingFlushes \in BOOLEAN /\ KernelPassthrough \in BOOLEAN

Steps == {"idle", "snap", "getlock", "lock", "flush", "clear", "drop",
          "check", "evict"}

VARIABLES
    handles,        \* HandleTable: slab of entries, Vacant where free
    ffh,            \* the fh the kernel holds for each open file, or NoFh
    passthrough,    \* passthrough_enabled
    direct_io,      \* files the kernel serves itself (opened_passthrough)
    write_locks,    \* InodeState: inode -> mutex, 0 when there is none
    write_errors,   \* InodeState: inodes with a recorded write error
    pc,             \* where each worker is in its handler
    req,            \* the request each worker serves
    unstored,       \* history: handles with an accepted write that what they
                    \* last stored lacks
    stale           \* history: workers whose snapshot lacks a write accepted
                    \* since it was taken

kernelvars == <<ffh, direct_io>>
history == <<unstored, stale>>
inodevars == <<write_locks, write_errors>>
vars == <<handles, ffh, passthrough, direct_io, write_locks, write_errors,
          pc, req, unstored, stale>>

(* A worker's locals: the request, the generation of its dirty snapshot,   *)
(* the mutex it fetched and the flush's outcome.  The snapshot's data is   *)
(* known by the writes it lacks: see stale.                                *)
Requests ==
    [op : {"none", "write", "flush", "release"}, file : Files, ino : Inodes,
     fh : Fhs, gen : Nat, lock : Locks \cup {0}, ok : BOOLEAN]

(* A worker between requests; only its op is ever read.                    *)
AnyFile == CHOOSE f \in Files : TRUE
IdleReq ==
    [op |-> "none", file |-> AnyFile, ino |-> InodeOf[AnyFile], fh |-> 0,
     gen |-> 0, lock |-> 0, ok |-> TRUE]

Request(op, f) == [IdleReq EXCEPT !.op = op, !.file = f, !.ino = InodeOf[f]]

Init ==
    /\ handles = [h \in Fhs |-> Vacant]
    /\ ffh = [f \in Files |-> NoFh]
    /\ passthrough = TRUE
    /\ direct_io = {}
    /\ write_locks = [i \in Inodes |-> 0]
    /\ write_errors = {}
    /\ pc = [t \in Threads |-> "idle"]
    /\ req = [t \in Threads |-> IdleReq]
    /\ unstored = {}
    /\ stale = {}

-----------------------------------------------------------------------------
(* What the kernel lets happen at the same time.                           *)

IsOpen(f) == ffh[f] # NoFh
InFlight(f) ==
    \E t \in Threads : req[t].op \in {"write", "flush"} /\ req[t].file = f
Writing(i) == \E t \in Threads : req[t].op = "write" /\ req[t].ino = i
MayFlush(f) == OverlappingFlushes \/ ~InFlight(f)
SomeWorkerIdle == \E t \in Threads : pc[t] = "idle"

(* Slab::insert: some vacant index.                                        *)
VacantFh(h) == handles[h] = Vacant

InsertHandle(f, h, e) ==
    /\ VacantFh(h)
    /\ handles' = [handles EXCEPT ![h] = e]
    /\ ffh' = [ffh EXCEPT ![f] = h]

-----------------------------------------------------------------------------
(* open and create.                                                        *)

(* open of a real file the kernel takes over: the reply names fh 0 and no  *)
(* handle is made.                                                         *)
OpenPassthrough(f) ==
    /\ SomeWorkerIdle /\ ~IsOpen(f)
    /\ InodeOf[f] \in RealInodes /\ passthrough /\ KernelPassthrough
    /\ ffh' = [ffh EXCEPT ![f] = 0]
    /\ direct_io' = direct_io \cup {f}
    /\ UNCHANGED <<handles, passthrough, inodevars, pc, req, history>>

(* open of a real file by descriptor; a refused backing descriptor turns   *)
(* passthrough off for good.                                               *)
OpenDirect(f, h, app) ==
    /\ SomeWorkerIdle /\ ~IsOpen(f)
    /\ InodeOf[f] \in RealInodes
    /\ passthrough' = FALSE
    /\ InsertHandle(f, h, NewDirect(InodeOf[f], FALSE, app))
    /\ UNCHANGED <<direct_io, inodevars, pc, req, history>>

(* open of a virtual file: load_content runs the chain with no lock held;  *)
(* what it loads is any content by the time the handle is inserted.        *)
OpenBuffered(f, h, app) ==
    /\ SomeWorkerIdle /\ ~IsOpen(f)
    /\ InodeOf[f] \notin RealInodes
    /\ \E content \in Contents :
        InsertHandle(f, h, NewBuffered(InodeOf[f], content, FALSE, app))
    /\ UNCHANGED <<passthrough, direct_io, inodevars, pc, req, history>>

(* do_create: a buffered handle over the empty file just made.             *)
Create(f, h, trunc, app) ==
    /\ SomeWorkerIdle /\ ~IsOpen(f)
    /\ InsertHandle(f, h, NewBuffered(InodeOf[f], << >>, trunc, app))
    /\ UNCHANGED <<passthrough, direct_io, inodevars, pc, req, history>>

-----------------------------------------------------------------------------
(* write and setattr.                                                      *)

HasSnapshot(t) == pc[t] \in {"getlock", "lock", "flush", "clear"}
GenBelowBound(h) == handles[h].dirty_gen < MaxGen

(* handles.write under the table's lock.  A replacement goes on to flush   *)
(* before it replies; any other write replies at once.                     *)
Write(t, f, off, fd) ==
    LET h == ffh[f]
        e == Written(handles[h], off, <<NUL>>, fd)
    IN
    /\ pc[t] = "idle" /\ IsOpen(f) /\ f \notin direct_io
    /\ ~Writing(InodeOf[f]) /\ handles[h] # Vacant
    /\ Len(e.buffer) <= MaxLen
    /\ GenBelowBound(h)
    /\ handles' = [handles EXCEPT ![h] = e]
    /\ unstored' = unstored \cup {h}
    /\ stale' = stale \cup {u \in Threads : HasSnapshot(u) /\ req[u].fh = h}
    /\ IF IsReplacement(handles[h])
       THEN /\ MayFlush(f)
            /\ pc' = [pc EXCEPT ![t] = "snap"]
            /\ req' = [req EXCEPT ![t] = [Request("write", f) EXCEPT !.fh = h]]
       ELSE UNCHANGED <<pc, req>>
    /\ UNCHANGED <<kernelvars, passthrough, inodevars>>

(* handles.write whose populate from the descriptor fails: EIO.            *)
WriteFails(f, n) ==
    LET h == ffh[f] IN
    /\ SomeWorkerIdle /\ IsOpen(f) /\ f \notin direct_io
    /\ ~Writing(InodeOf[f])
    /\ handles[h].source = "DirectFd"
    /\ handles' = [handles EXCEPT ![h] = WriteFailed(@, n)]
    /\ UNCHANGED <<kernelvars, passthrough, inodevars, pc, req, history>>

(* setattr(size) on an open file: HandleTable::truncate of the named fh.   *)
TruncateFile(f, size, fd) ==
    /\ SomeWorkerIdle /\ IsOpen(f) /\ ~Writing(InodeOf[f])
    /\ handles[ffh[f]] # Vacant /\ GenBelowBound(ffh[f])
    /\ handles' = [handles EXCEPT ![ffh[f]] = TruncatedTo(@, size, fd)]
    /\ UNCHANGED <<kernelvars, passthrough, inodevars, pc, req, history>>

(* setattr(size) without a file handle, from truncate(2) and from an open  *)
(* with O_TRUNC: HandleTable::truncate_by_inode.                           *)
TruncateInode(i, size, fd) ==
    /\ SomeWorkerIdle /\ ~Writing(i)
    /\ \A h \in Fhs : GenBelowBound(h)
    /\ handles' = [h \in Fhs |-> IF handles[h].inode = i
                                 THEN TruncatedTo(handles[h], size, fd)
                                 ELSE handles[h]]
    /\ UNCHANGED <<kernelvars, passthrough, inodevars, pc, req, history>>

-----------------------------------------------------------------------------
(* do_flush.  The snapshot is taken before the inode's mutex is fetched.   *)

(* Where the handler goes when its flush is over.                          *)
AfterFlush(op) == IF op = "release" THEN "drop" ELSE "idle"

(* dirty_snapshot and the early returns, for request r of worker t.        *)
Snapshot(t, r, mode) ==
    LET e == handles[r.fh]
        flushes == MustFlush(e, mode)
    IN
    /\ pc' = [pc EXCEPT ![t] = IF flushes THEN "getlock" ELSE AfterFlush(r.op)]
    /\ req' = [req EXCEPT ![t] =
        IF flushes
        THEN [r EXCEPT !.gen = e.dirty_gen]
        ELSE IF r.op = "release" THEN r ELSE IdleReq]

(* The flush of a replacement write, inside the write handler.             *)
FlushWrite(t) ==
    /\ pc[t] = "snap"
    /\ Snapshot(t, req[t], "Final")
    /\ UNCHANGED <<handles, kernelvars, passthrough, inodevars, history>>

(* flush: some descriptor of the open file is closed.                      *)
Flush(t, f) ==
    /\ pc[t] = "idle" /\ IsOpen(f) /\ MayFlush(f)
    /\ Snapshot(t, [Request("flush", f) EXCEPT !.fh = ffh[f]], "Eager")
    /\ UNCHANGED <<handles, kernelvars, passthrough, inodevars, history>>

(* release: the last descriptor is gone and nothing else is in flight on   *)
(* the open file; the kernel forgets it.                                   *)
(* Mutant: release defers an emptied buffer as flush does.                 *)
ReleaseEagerly(t, f) ==
    /\ pc[t] = "idle" /\ IsOpen(f) /\ ~InFlight(f)
    /\ Snapshot(t, [Request("release", f) EXCEPT !.fh = ffh[f]], "Eager")
    /\ ffh' = [ffh EXCEPT ![f] = NoFh]
    /\ direct_io' = direct_io \ {f}
    /\ UNCHANGED <<handles, passthrough, inodevars, history>>

Release(t, f) ==
    /\ pc[t] = "idle" /\ IsOpen(f) /\ ~InFlight(f)
    /\ Snapshot(t, [Request("release", f) EXCEPT !.fh = ffh[f]], "Final")
    /\ ffh' = [ffh EXCEPT ![f] = NoFh]
    /\ direct_io' = direct_io \ {f}
    /\ UNCHANGED <<handles, passthrough, inodevars, history>>

(* InodeState::write_lock: the inode's mutex, created when there is none.  *)
(* A created mutex is one nobody knows; the lowest keeps the model small.  *)
UnknownLock(m) ==
    /\ \A i \in Inodes : write_locks[i] # m
    /\ \A t \in Threads : req[t].lock # m

GetLock(t) ==
    LET i == req[t].ino IN
    /\ pc[t] = "getlock"
    /\ \E m \in Locks :
        /\ IF write_locks[i] # 0 THEN m = write_locks[i]
           ELSE /\ UnknownLock(m)
                /\ \A k \in Locks : UnknownLock(k) => m <= k
        /\ write_locks' = [write_locks EXCEPT ![i] = m]
        /\ req' = [req EXCEPT ![t].lock = m]
    /\ pc' = [pc EXCEPT ![t] = "lock"]
    /\ UNCHANGED <<handles, kernelvars, passthrough, write_errors, history>>

Holding == {"flush", "clear"}
(* Mutant: a worker that waits for the mutex already counts as holding it. *)
HeldByWaiter(m) ==
    \E t \in Threads : pc[t] \in Holding \cup {"lock"} /\ req[t].lock = m

Held(m) == \E t \in Threads : pc[t] \in Holding /\ req[t].lock = m

(* lock.lock(): block while another worker holds the mutex.                *)
Lock(t) ==
    /\ pc[t] = "lock" /\ ~Held(req[t].lock)
    /\ pc' = [pc EXCEPT ![t] = "flush"]
    /\ UNCHANGED <<handles, kernelvars, passthrough, inodevars, req, history>>

(* flush_content succeeds: the snapshot is the content behind the inode.   *)
StoreWrite(t) ==
    /\ pc[t] = "flush"
    /\ unstored' = IF t \in stale THEN unstored \cup {req[t].fh}
                                   ELSE unstored \ {req[t].fh}
    /\ pc' = [pc EXCEPT ![t] = "clear"]
    /\ UNCHANGED <<handles, kernelvars, passthrough, inodevars, req, stale>>

(* Leaving do_flush drops the mutex guard and the worker's reference.      *)
Finish(t, ok) ==
    /\ pc' = [pc EXCEPT ![t] = AfterFlush(req[t].op)]
    /\ req' = [req EXCEPT ![t] =
        IF @.op = "release" THEN [@ EXCEPT !.gen = 0, !.lock = 0, !.ok = ok]
        ELSE IdleReq]
    /\ stale' = stale \ {t}
    /\ UNCHANGED unstored

(* Then clear_dirty and clear_write_error.                                 *)
ClearDirty(t) ==
    LET h == req[t].fh IN
    /\ pc[t] = "clear"
    /\ handles' = [handles EXCEPT ![h] = Cleared(@, req[t].gen)]
    /\ write_errors' = write_errors \ {req[t].ino}
    /\ Finish(t, TRUE)
    /\ UNCHANGED <<kernelvars, passthrough, write_locks>>

(* flush_content failed: path not resolved, not writable, validation, I/O. *)
FlushFails(t) ==
    /\ pc[t] = "flush"
    /\ write_errors' = write_errors \cup {req[t].ino}
    /\ Finish(t, FALSE)
    /\ UNCHANGED <<handles, kernelvars, passthrough, write_locks>>

-----------------------------------------------------------------------------
(* The rest of release.                                                    *)

(* Mutant: release drops every handle of the inode.                        *)
DropInode(t) ==
    /\ pc[t] = "drop"
    /\ handles' = [h \in Fhs |-> IF handles[h].inode = req[t].ino THEN Vacant
                                 ELSE handles[h]]
    /\ unstored' = {h \in unstored : handles[h].inode # req[t].ino}
    /\ pc' = [pc EXCEPT ![t] = "check"]
    /\ UNCHANGED <<kernelvars, passthrough, inodevars, req, stale>>

(* handles.release(fh).                                                    *)
DropHandle(t) ==
    /\ pc[t] = "drop"
    /\ handles' = [handles EXCEPT ![req[t].fh] = Vacant]
    /\ unstored' = unstored \ {req[t].fh}
    /\ pc' = [pc EXCEPT ![t] = "check"]
    /\ UNCHANGED <<kernelvars, passthrough, inodevars, req, stale>>

HasHandlesForInode(i) == \E h \in Fhs : handles[h].inode = i

CheckLastHandle(t) ==
    LET last == ~HasHandlesForInode(req[t].ino) IN
    /\ pc[t] = "check"
    /\ pc' = [pc EXCEPT ![t] = IF last THEN "evict" ELSE "idle"]
    /\ req' = [req EXCEPT ![t] = IF last THEN @ ELSE IdleReq]
    /\ UNCHANGED <<handles, kernelvars, passthrough, inodevars, history>>

(* Mutant: evict forgets the errors.                                       *)
EvictLockOnly(t) ==
    /\ pc[t] = "evict"
    /\ write_locks' = [write_locks EXCEPT ![req[t].ino] = 0]
    /\ pc' = [pc EXCEPT ![t] = "idle"]
    /\ req' = [req EXCEPT ![t] = IdleReq]
    /\ UNCHANGED <<handles, kernelvars, passthrough, write_errors, history>>

(* notify_close ran since the check; InodeState::evict.                    *)
Evict(t) ==
    LET i == req[t].ino IN
    /\ pc[t] = "evict"
    /\ write_locks' = [write_locks EXCEPT ![i] = 0]
    /\ write_errors' = write_errors \ {i}
    /\ pc' = [pc EXCEPT ![t] = "idle"]
    /\ req' = [req EXCEPT ![t] = IdleReq]
    /\ UNCHANGED <<handles, kernelvars, passthrough, history>>

-----------------------------------------------------------------------------
(* The steps of a request once a worker has taken it.                      *)
Proceed(t) ==
    \/ FlushWrite(t) \/ GetLock(t) \/ Lock(t)
    \/ StoreWrite(t) \/ ClearDirty(t) \/ FlushFails(t)
    \/ DropHandle(t) \/ CheckLastHandle(t) \/ Evict(t)

Begin(t) ==
    \E f \in Files :
        \/ Flush(t, f) \/ Release(t, f)
        \/ \E off \in 0 .. MaxLen, fd \in Contents : Write(t, f, off, fd)

AtOnce ==
    \/ \E f \in Files :
        \/ OpenPassthrough(f)
        \/ \E n \in 0 .. MaxLen : WriteFails(f, n)
        \/ \E h \in Fhs, app \in Appends :
            \/ OpenDirect(f, h, app) \/ OpenBuffered(f, h, app)
            \/ \E trunc \in BOOLEAN : Create(f, h, trunc, app)
        \/ \E size \in 0 .. MaxLen, fd \in Contents : TruncateFile(f, size, fd)
    \/ \E i \in Inodes, size \in 0 .. MaxLen, fd \in Contents :
        TruncateInode(i, size, fd)

Next == AtOnce \/ \E t \in Threads : Begin(t) \/ Proceed(t)

Spec == Init /\ [][Next]_vars

(* A worker that has taken a request finishes it: its steps are fair.  The *)
(* mutex (parking_lot) hands itself to a waiter eventually.                *)
FairSpec ==
    Spec /\ \A t \in Threads : WF_vars(Proceed(t)) /\ SF_vars(Lock(t))

-----------------------------------------------------------------------------
TypeOK ==
    /\ handles \in [Fhs -> Entries(Inodes)]
    /\ ffh \in [Files -> Fhs \cup {NoFh}]
    /\ passthrough \in BOOLEAN
    /\ direct_io \subseteq Files
    /\ write_locks \in [Inodes -> Locks \cup {0}]
    /\ write_errors \subseteq Inodes
    /\ pc \in [Threads -> Steps]
    /\ req \in [Threads -> Requests]
    /\ unstored \subseteq Fhs
    /\ stale \subseteq Threads

(* Slab indices are reused as soon as a handle is released, so an fh must  *)
(* never outlive its handle.  Every fh the kernel holds, and every fh a    *)
(* request in progress still uses, names the entry made for that open      *)
(* file: no flush stores one file's buffer under another file's inode.     *)
Uses(t) == req[t].op \in {"write", "flush", "release"} /\ pc[t] \notin {"check", "evict"}

HandleIdentity ==
    /\ \A f \in Files : IsOpen(f) => handles[ffh[f]].inode = InodeOf[f]
    /\ \A f, g \in Files : IsOpen(f) /\ ffh[f] = ffh[g] => f = g
    /\ \A t \in Threads : Uses(t) => handles[req[t].fh].inode = req[t].ino
    /\ \A t \in Threads, f \in Files :
        Uses(t) /\ IsOpen(f) /\ ffh[f] = req[t].fh
            => req[t].op # "release" /\ req[t].file = f
    /\ \A t, u \in Threads :
        Uses(t) /\ Uses(u) /\ req[t].fh = req[u].fh /\ req[t].op = "release"
            => t = u

(* handles/mod.rs:158-160, 521-523: clear_dirty, told the snapshot's       *)
(* generation, never loses a concurrent write.  A clean handle has had its *)
(* last accepted write stored, and stored last.                            *)
CleanMeansStored ==
    \A f \in Files :
        IsOpen(f) /\ ~IsDirty(handles[ffh[f]])
            => ffh[f] \notin unstored

(* A handle leaves the table with a write that was never stored only when  *)
(* the flush of this very release was refused.                             *)
NoSilentDrop ==
    [][\A h \in Fhs :
        /\ handles[h].inode # 0 /\ handles'[h].inode = 0
        /\ h \in unstored
        => \E t \in Threads : pc[t] = "drop" /\ req[t].fh = h /\ ~req[t].ok]_vars

(* inode_state.rs:71-72: with every file of an inode closed and every      *)
(* request on it served, neither a mutex nor an error is kept for it,      *)
(* however releases, opens and late flushes raced.                         *)
NoResidue ==
    \A i \in Inodes :
        /\ \A f \in Files : InodeOf[f] = i => ~IsOpen(f)
        /\ \A t \in Threads : req[t].op # "none" => req[t].ino # i
        => write_locks[i] = 0 /\ i \notin write_errors

(* Every request a worker has taken is answered.                           *)
RequestsAnswered == \A t \in Threads : pc[t] # "idle" ~> pc[t] = "idle"
=============================================================================
