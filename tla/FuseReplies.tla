---------------------------- MODULE FuseReplies ----------------------------
(***************************************************************************)
(* What the FUSE callbacks answer about one inode (nyne/src/fuse: ops.rs,  *)
(* attrs, mode, xattr.rs, inode_state.rs, the bound nodes of inode_map and *)
(* mod.rs), the pages of a directory, and the invalidations sent to the    *)
(* kernel (notify).  Buffers are in FuseHandles, the map of names in       *)
(* InodeMap, the chain in Routing.                                         *)
(*                                                                         *)
(* A state s is the inode's: the clock now; slot, its binding; chain, what *)
(* a dispatch finds under its name; meta, what the backing filesystem says *)
(* of it; error and atime, its entries in InodeState; handles, how many    *)
(* are open.  Option<T> is a sequence of none or one.                      *)
(***************************************************************************)
EXTENDS Integers, Sequences, FiniteSets, SequencesExt

None == <<>>
Some(v) == <<v>>

TTL == 1
BLKSIZE == 4096
EPOCH == 0
READ_BITS == 256
WRITE_BITS == 128
EXECUTE_BITS == 64
DIR_FALLBACK == READ_BITS + EXECUTE_BITS

Default == [policy |-> "default", d |-> 0]
NoCache == [policy |-> "nocache", d |-> 0]
Ttl(d) == [policy |-> "ttl", d |-> d]

(* The permissions a node was given, or those its kind and capabilities    *)
(* give it.                                                                *)
permissions(node) ==
    CASE node.given # None -> node.given[1]
      [] node.given = None /\ node.kind = "dir" ->
            {"r", "x"} \cup {p \in {"w"} : node.writable \/ node.unlinkable}
      [] node.given = None /\ node.kind = "link" -> {"r", "w", "x"}
      [] node.given = None /\ node.kind = "file" ->
            {p \in {"r"} : node.readable # "no"} \cup {p \in {"w"} : node.writable}

to_mode_bits(perms) ==
    (IF "r" \in perms THEN READ_BITS ELSE 0) + (IF "w" \in perms THEN WRITE_BITS ELSE 0)
    + (IF "x" \in perms THEN EXECUTE_BITS ELSE 0)
BitsSet(mode, bit) == (mode \div bit) % 2 = 1
narrow(mode) == mode % 4096

resolve_attr_ttl(policy, default) == IF policy.policy = "default" THEN default ELSE policy.d
expires_at_from_policy(policy, now) == IF policy.policy = "ttl" THEN Some(now + policy.d) ELSE None

Reply(v) == [errno |-> "ok", v |-> v]
Error(errno) == [errno |-> errno, v |-> None]

----------------------------------------------------------------------------
(* Bound nodes.                                                            *)
Unbound == [node |-> None, expires |-> None]
bind_node(s, node) ==
    [s EXCEPT !.slot = [node |-> Some(node), expires |-> expires_at_from_policy(node.cache, s.now)]]

Expired(s) == s.slot.expires # None /\ s.now > s.slot.expires[1]
bound_node(s) == IF Expired(s) THEN None ELSE s.slot.node
(* Mutant: an expired binding is left in its slot.                         *)
LookedOnly(s) == s

(* A lookup clears a binding that has expired.                             *)
Looked(s) == IF Expired(s) THEN [s EXCEPT !.slot = Unbound] ELSE s

touch(s) ==
    IF s.slot.node = None \/ s.slot.node[1].cache.policy # "ttl" THEN s
    ELSE [s EXCEPT !.slot.expires = expires_at_from_policy(s.slot.node[1].cache, s.now)]

lookup_node(s) == IF bound_node(s) # None THEN bound_node(s) ELSE s.chain

(* evict, after the last handle's release.                                 *)
evict(s) == [s EXCEPT !.error = None, !.atime = None]

(* on_create gave a node for the name: it is bound, and opened at once.    *)
do_create(s, sink) == touch([bind_node(s, sink) EXCEPT !.handles = @ + 1])
(* open comes in two parts: the node is looked up, and the binding touched *)
(* when it was found.                                                      *)
notify_open(s, found) == [IF found THEN touch(s) ELSE s EXCEPT !.handles = @ + 1]
flush_content(s, accepted) ==
    LET found == lookup_node(s)
    IN IF found # None /\ found[1].writable /\ accepted THEN [Looked(s) EXCEPT !.error = None]
       ELSE [Looked(s) EXCEPT !.error = Some("why")]
release(s) ==
    IF s.handles > 1 THEN [s EXCEPT !.handles = @ - 1]
    ELSE evict([IF lookup_node(s) # None THEN touch(Looked(s)) ELSE Looked(s) EXCEPT !.handles = 0])

----------------------------------------------------------------------------
(* Attributes and permissions.                                             *)
make_attr(size, kind, perm, atime, mtime) ==
    [size |-> size, kind |-> kind, perm |-> perm, atime |-> atime, mtime |-> mtime,
     nlink |-> IF kind = "dir" THEN 2 ELSE 1]

Backed(node) == node.readable = "backed"
node_attr(s, node) ==
    IF Backed(node) /\ s.meta # None
    THEN [attr |-> make_attr(s.meta[1].size, node.kind, narrow(s.meta[1].mode),
                             IF s.atime # None THEN s.atime[1] ELSE s.meta[1].atime, s.meta[1].mtime),
          ttl |-> resolve_attr_ttl(node.cache, TTL)]
    ELSE [attr |-> make_attr(IF node.readable = "no" THEN 0
                             ELSE IF node.size # None THEN node.size[1]
                             ELSE IF node.kind = "file" THEN BLKSIZE ELSE 0,
                             node.kind, to_mode_bits(permissions(node)), EPOCH, EPOCH),
          ttl |-> resolve_attr_ttl(node.cache, 0)]

root_attr(meta) ==
    IF meta = None THEN make_attr(0, "dir", DIR_FALLBACK, EPOCH, EPOCH)
    ELSE make_attr(meta[1].size, "dir", narrow(meta[1].mode), meta[1].atime, meta[1].mtime)

resolve_attr(s) == IF lookup_node(s) = None THEN None ELSE Some(node_attr(s, lookup_node(s)[1]))
reply_attr(s) == IF resolve_attr(s) = None THEN Error("ENOENT") ELSE Reply(resolve_attr(s)[1])
is_writable_dir(s) == resolve_attr(s) # None /\ BitsSet(resolve_attr(s)[1].attr.perm, WRITE_BITS)

setattr(s, atime) == [Looked(s) EXCEPT !.atime = Some(atime)]

access(s, mask) ==
    IF lookup_node(s) = None THEN Error("ENOENT")
    ELSE IF mask \subseteq permissions(lookup_node(s)[1]) THEN Reply(None) ELSE Error("EACCES")

readlink(s) ==
    IF lookup_node(s) = None THEN Error("ENOENT")
    ELSE IF lookup_node(s)[1].kind # "link" THEN Error("EINVAL") ELSE Reply(lookup_node(s)[1].target)

----------------------------------------------------------------------------
(* Extended attributes; a name is a sequence of its two parts.             *)
XATTR_ERROR == <<"user", "error">>

reply_xattr_data(size, data) ==
    IF size = 0 THEN Reply(Len(data)) ELSE IF Len(data) > size THEN Error("ERANGE") ELSE Reply(data)

do_getxattr(s, name, size) ==
    IF name[1] # "user" THEN Error("ENODATA")
    ELSE IF name = XATTR_ERROR THEN IF s.error = None THEN Error("ENODATA") ELSE reply_xattr_data(size, s.error)
    ELSE IF lookup_node(s) = None THEN Error("ENOENT")
    ELSE IF name \in DOMAIN lookup_node(s)[1].attributable
         THEN reply_xattr_data(size, lookup_node(s)[1].attributable[name]) ELSE Error("ENODATA")

(* Each name is as long as its parts, and a null byte behind it.           *)
ListedNames(s) ==
    (IF lookup_node(s) = None THEN {} ELSE DOMAIN lookup_node(s)[1].attributable)
    \cup {name \in {XATTR_ERROR} : s.error # None}
do_listxattr(s, size) ==
    reply_xattr_data(size, FoldSeq(LAMBDA name, buf : buf \o name \o <<0>>, <<>>, SetToSeq(ListedNames(s))))

----------------------------------------------------------------------------
(* A page of a directory: the entries behind the offset, as many as there  *)
(* is room for.                                                            *)
OFFSET_DOT == 1
OFFSET_DOTDOT == 2
OFFSET_ENTRIES == 3
readdir_offset(index) == OFFSET_ENTRIES + index
readdir_skip(last_offset) == IF last_offset < OFFSET_ENTRIES THEN 0 ELSE last_offset - OFFSET_ENTRIES + 1

Dots(offset, shown) ==
    SelectSeq(<<[at |-> OFFSET_DOT, name |-> "."], [at |-> OFFSET_DOTDOT, name |-> ".."]>>,
              LAMBDA e : offset < e.at /\ e.name \in shown)
Behind(nodes, offset) ==
    [i \in 1 .. Len(nodes) - readdir_skip(offset) |->
        [at |-> readdir_offset(readdir_skip(offset) + i - 1), name |-> nodes[readdir_skip(offset) + i]]]
Fit(entries, room) == SubSeq(entries, 1, IF room < Len(entries) THEN room ELSE Len(entries))

readdir(nodes, offset, room) == Fit(Dots(offset, {".", ".."}) \o Behind(nodes, offset), room)
(* . and .. come with attributes, and not at all when there are none.      *)
readdirplus(nodes, offset, room, shown) == Fit(Dots(offset, shown) \o Behind(nodes, offset), room)

----------------------------------------------------------------------------
(* Invalidations.  A path is a sequence of names; inodes maps some paths   *)
(* to their numbers, never the root: a name in it is not invalidated.      *)
InvalInode(ino) == [msg |-> "inode", ino |-> ino, name |-> None]
InvalEntry(ino, name) == [msg |-> "entry", ino |-> ino, name |-> Some(name)]

invalidate_inode_at(path, inodes) ==
    IF path = <<>> THEN <<>>
    ELSE (IF path \in DOMAIN inodes THEN <<InvalInode(inodes[path])>> ELSE <<>>)
         \o (IF Front(path) # <<>> /\ Front(path) \in DOMAIN inodes
             THEN <<InvalEntry(inodes[Front(path)], Last(path))>> ELSE <<>>)

propagate_source_changes(affected, events, inodes) ==
    FoldLeft(LAMBDA sent, path : sent \o invalidate_inode_at(path, inodes), <<>>,
             IF affected = <<>> THEN <<>> ELSE affected \o events)

(* AsyncNotifier: what does not fit is dropped.                            *)
try_send(queue, msg, capacity) == IF Len(queue) < capacity THEN Append(queue, msg) ELSE queue

----------------------------------------------------------------------------
(* Courses of requests to one inode.                                       *)

(* An open between its two parts, whether a request since the last create  *)
(* was told there is no such node, and the handles' last flush.            *)
Start(s) == [s |-> s, opening |-> None, gone |-> FALSE, failed |-> FALSE]

ServesFiles(s) == s.chain = None \/ s.chain[1].kind = "file"
Asked(w) == [w EXCEPT !.s = Looked(w.s), !.gone = @ \/ lookup_node(w.s) = None]

Ticked(w) == [w EXCEPT !.s.now = @ + 1]
Created(w, sink) == [w EXCEPT !.s = do_create(Looked(w.s), sink), !.gone = FALSE]
OpenBegun(w) == [Asked(w) EXCEPT !.opening = Some(lookup_node(w.s) # None)]
OpenDone(w) == [w EXCEPT !.s = notify_open(w.s, w.opening[1]), !.opening = None]
FlushDone(w, ok) ==
    [Asked(w) EXCEPT !.s = flush_content(w.s, ok), !.failed = flush_content(w.s, ok).error # None]
Released(w) ==
    IF w.s.handles = 1 THEN [Asked(w) EXCEPT !.s = release(w.s), !.failed = FALSE]
    ELSE [w EXCEPT !.s = release(w.s)]
Timed(w) == [Asked(w) EXCEPT !.s = setattr(w.s, 5)]

(* A request, or a tick; the clock goes to last, and as many handles are   *)
(* open at once as most says.  A created node is a sink.                   *)
When(guard, w) == IF guard THEN {w} ELSE {}
OneRequest(w, sink, last, most) ==
    UNION {{Asked(w)},
           When(w.s.now < last, Ticked(w)),
           When(w.s.handles < most /\ lookup_node(w.s) = None, Created(w, sink)),
           When(w.opening = None /\ ServesFiles(w.s), OpenBegun(w)),
           When(w.opening # None /\ w.s.handles < most, OpenDone(w)),
           When(w.s.handles > 0, FlushDone(w, TRUE)),
           When(w.s.handles > 0, FlushDone(w, FALSE)),
           When(w.s.handles > 0, Released(w)),
           When(w.s.atime = None, Timed(w))}

----------------------------------------------------------------------------
(* A name that was found to be gone stays so until it is created again,    *)
(* though another request may refresh the binding it had found before.     *)
GoneStaysGone(w) == w.gone /\ w.s.chain = None => lookup_node(w.s) = None

(* An endpoint answers until its time has passed since its creation or the *)
(* last open or close: at any request what is left of the binding is at    *)
(* most the node's time.  A stat is answered with the whole of that time   *)
(* whatever is left, so the kernel may keep the attributes for longer than *)
(* the binding answers.                                                    *)
BindingHolds(w) ==
    lookup_node(w.s) # None /\ w.s.chain = None =>
        /\ w.s.now <= w.s.slot.expires[1] /\ w.s.slot.expires[1] - w.s.now <= resolve_attr(w.s)[1].ttl

(* What a node may be asked for is what its mode says, but a real file or  *)
(* directory, whose mode is the backing file's.                            *)
Bit == [r |-> READ_BITS, w |-> WRITE_BITS, x |-> EXECUTE_BITS]
AccessMatchesMode(s) ==
    LET reply == reply_attr(s) IN
    /\ (reply.errno = "ok") = (access(s, {}).errno = "ok")
    /\ reply.errno = "ok" /\ (~Backed(lookup_node(s)[1]) \/ s.meta = None) =>
          \A mask \in SUBSET {"r", "w", "x"} :
              (access(s, mask).errno = "ok") = \A p \in mask : BitsSet(reply.v.attr.perm, Bit[p])
    /\ (readlink(s).errno = "ok") = (reply.errno = "ok" /\ reply.v.attr.kind = "link")
    /\ is_writable_dir(s) = (reply.errno = "ok" /\ BitsSet(reply.v.attr.perm, WRITE_BITS))
=============================================================================
