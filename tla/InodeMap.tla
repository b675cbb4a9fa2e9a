------------------------------ MODULE InodeMap ------------------------------
(* Inode numbers and the names they stand for: InodeMap (nyne/src/fuse/    *)
(* inode_map/mod.rs), ensure_inode (ops.rs) and the create, remove and     *)
(* rename handlers (mutations.rs), against the kernel's name cache.  The   *)
(* map's lock is let go between find_inode and allocate or update, so each *)
(* is an action.  Bound nodes and parent_inode are not modelled.           *)
(*                                                                         *)
(* The kernel's part: it knows files by inode, sends a name and the inode  *)
(* of its directory, holds a directory alone while it changes its entries, *)
(* and moves its own cache along with a rename.                            *)
EXTENDS Naturals, Sequences, FiniteSets, SequencesExt

CONSTANTS
    Threads,            \* FUSE workers
    Paths,              \* the paths names can form, as sequences of names
    Objects,            \* files and directories that may exist
    Directories,        \* those of them that are directories
    InitialTree,        \* [Paths -> Objects or Nothing]
    Nothing,            \* no object
    MaxInodes,          \* bound: inodes the map can hold
    OverlappingLookups, \* one name is resolved by two requests at once: a
                        \* lookup and a readdirplus of its directory
    DirectoryRenames,   \* directories are renamed
    NestingRenames      \* a name is moved, unchanged, further down its tree

ROOT_INODE == 1
Inodes == 2 .. MaxInodes + 1

Names == UNION {Range(p) : p \in Paths}

ASSUME InodeMapAssumption ==
    /\ Paths \subseteq Seq(Names)
    /\ \A p \in Paths : p # << >> /\ (Len(p) > 1 => Front(p) \in Paths)
    /\ Directories \subseteq Objects
    /\ InitialTree \in [Paths -> Objects \cup {Nothing}] /\ Nothing \notin Objects
    /\ MaxInodes \in Nat

VARIABLES
    tree,       \* what the chain behind the filesystem really holds
    slab,       \* InodeMapInner: inode -> the path of its entry, << >> if free
    by_path,    \* InodeMapInner: path -> inode, 0 if there is none
    dentry,     \* the kernel's name cache: path -> inode, or 0
    seen,       \* history: the object each name in the cache was found to be
    pc,         \* where each worker is
    req         \* its request's locals

mapvars == <<slab, by_path>>
kernelvars == <<dentry, seen>>
vars == <<tree, slab, by_path, dentry, seen, pc, req>>

(* A request's locals: the path the kernel names (and a rename's target),  *)
(* the paths the handler makes of them, and the inode it has found.        *)
Requests == [name : Paths \cup {<< >>}, to : Paths \cup {<< >>},
             path : Paths \cup {<< >>}, dst : Paths \cup {<< >>},
             ino : Inodes \cup {0}]
NoRequest == [name |-> << >>, to |-> << >>, path |-> << >>, dst |-> << >>, ino |-> 0]

Init ==
    /\ tree = InitialTree
    /\ slab = [i \in Inodes |-> << >>]
    /\ by_path = [p \in Paths |-> 0]
    /\ dentry = [p \in Paths |-> 0]
    /\ seen = [p \in Paths |-> Nothing]
    /\ pc = [t \in Threads |-> "idle"]
    /\ req = [t \in Threads |-> NoRequest]

-----------------------------------------------------------------------------
(* What the kernel lets happen at the same time.                           *)

Within(p, q) == IsStrictPrefix(q, p)
HasChildren(p) == \E q \in Paths : Within(q, p) /\ dentry[q] # 0

(* The directories a request holds alone, a renamed one among them, and    *)
(* those whose entries it reads.                                           *)
Changes(t) ==
    LET r == req[t] IN
    IF r.to = << >> THEN {} ELSE {Front(r.name), Front(r.to), r.name, r.to}
Reads(t) == IF pc[t] = "idle" THEN {} ELSE {Front(req[t].name)}

MayRead(d) == \A t \in Threads : d \notin Changes(t)
MayChange(ds) == \A t \in Threads : ds \cap (Changes(t) \cup Reads(t)) = {}

(* The kernel may ask about a name in a directory it knows.                *)
InodeOf(d) == IF d = << >> THEN ROOT_INODE ELSE dentry[d]
Known(p) == IF Len(p) = 1 THEN TRUE ELSE seen[Front(p)] \in Directories

-----------------------------------------------------------------------------
(* InodeMap.                                                               *)

(* dir_path_for and full_path.                                             *)
PathFor(ino) == IF ino = ROOT_INODE THEN << >> ELSE slab[ino]

(* The path a handler works on: its directory's path, and the name.        *)
HandlerPath(p) == Append(PathFor(InodeOf(Front(p))), Last(p))

find_inode(path) == by_path[path]

allocate(path, ino) ==
    /\ slab[ino] = << >> /\ \A i \in Inodes : i < ino => slab[i] # << >>
    /\ slab' = [slab EXCEPT ![ino] = path]
    /\ by_path' = [by_path EXCEPT ![path] = ino]

(* Mutants: the entry is not moved; its old reverse index entry stays.     *)
update_nothing(ino, path) == UNCHANGED mapvars
update_keeping(ino, path) ==
    /\ slab' = [slab EXCEPT ![ino] = path]
    /\ by_path' = [by_path EXCEPT ![path] = ino]

update(ino, path) ==
    /\ slab' = [slab EXCEPT ![ino] = path]
    /\ by_path' = [p \in Paths |->
        IF p = path THEN ino ELSE IF p = slab[ino] THEN 0 ELSE by_path[p]]

-----------------------------------------------------------------------------
(* lookup and readdirplus: resolve_inode, then ensure_inode.               *)

(* The chain's answer, and find_inode.                                     *)
Resolve(t, p) ==
    LET path == HandlerPath(p) IN
    /\ pc[t] = "idle" /\ Known(p) /\ MayRead(Front(p))
    /\ OverlappingLookups \/ \A u \in Threads : req[u].name # p
    /\ path \in Paths /\ tree[path] # Nothing
    /\ pc' = [pc EXCEPT ![t] = IF find_inode(path) = 0 THEN "allocate" ELSE "reply"]
    /\ req' = [req EXCEPT ![t] =
        [NoRequest EXCEPT !.name = p, !.path = path, !.ino = find_inode(path)]]
    /\ UNCHANGED <<tree, mapvars, kernelvars>>

(* Op::Create or Op::Mkdir through the chain, then as a lookup.  The       *)
(* request holds the directory; the kernel knows no such name.             *)
Create(t, p, o) ==
    LET path == HandlerPath(p) IN
    /\ pc[t] = "idle" /\ Known(p) /\ dentry[p] = 0 /\ MayChange({Front(p)})
    /\ path \in Paths /\ tree[path] = Nothing
    /\ \A q \in Paths : tree[q] # o /\ seen[q] # o
    /\ tree' = [tree EXCEPT ![path] = o]
    /\ pc' = [pc EXCEPT ![t] = IF find_inode(path) = 0 THEN "allocate" ELSE "reply"]
    /\ req' = [req EXCEPT ![t] =
        [NoRequest EXCEPT !.name = p, !.to = p, !.path = path, !.ino = find_inode(path)]]
    /\ UNCHANGED <<mapvars, kernelvars>>

Allocate(t) ==
    /\ pc[t] = "allocate"
    /\ \E ino \in Inodes :
        /\ allocate(req[t].path, ino)
        /\ req' = [req EXCEPT ![t].ino = ino]
    /\ pc' = [pc EXCEPT ![t] = "reply"]
    /\ UNCHANGED <<tree, kernelvars>>

(* The kernel learns the name; another inode for it replaces the first.    *)
Reply(t) ==
    LET r == req[t] IN
    /\ pc[t] = "reply"
    /\ dentry' = [dentry EXCEPT ![r.name] = r.ino]
    /\ seen' = [seen EXCEPT ![r.name] = tree[r.path]]
    /\ pc' = [pc EXCEPT ![t] = "idle"]
    /\ req' = [req EXCEPT ![t] = NoRequest]
    /\ UNCHANGED <<tree, mapvars>>

(* A name's timeout, an invalidation, or memory pressure.                  *)
Forget(p) ==
    /\ dentry[p] # 0 /\ ~HasChildren(p)
    /\ \A t \in Threads : Front(p) \notin Changes(t) /\ p \notin Changes(t) \cup Reads(t)
    /\ dentry' = [dentry EXCEPT ![p] = 0]
    /\ seen' = [seen EXCEPT ![p] = Nothing]
    /\ UNCHANGED <<tree, mapvars, pc, req>>

(* unlink and rmdir: the map is left alone.                                *)
Unlink(p) ==
    LET path == HandlerPath(p) IN
    /\ dentry[p] # 0 /\ MayChange({Front(p), p})
    /\ path \in Paths /\ tree[path] # Nothing
    /\ \A q \in Paths : Within(q, path) => tree[q] = Nothing
    /\ ~HasChildren(p)
    /\ tree' = [tree EXCEPT ![path] = Nothing]
    /\ dentry' = [dentry EXCEPT ![p] = 0]
    /\ seen' = [seen EXCEPT ![p] = Nothing]
    /\ UNCHANGED <<mapvars, pc, req>>

-----------------------------------------------------------------------------
(* do_rename.                                                              *)

(* Where the subtree at `from' goes when it is moved to `to'.              *)
Moved(from, to, f, none) ==
    [p \in Paths |->
        IF IsPrefix(to, p)
        THEN LET q == from \o SubSeq(p, Len(to) + 1, Len(p)) IN
             IF q \in Paths THEN f[q] ELSE none
        ELSE IF IsPrefix(from, p) THEN none ELSE f[p]]

(* The path the chain is asked to move to.  A name moved unchanged below   *)
(* its own directory is taken for `mv' onto a directory, and moved to the  *)
(* directory's name instead.                                               *)
Nests(p, q, src_dir, dst_dir) ==
    /\ Front(p) # Front(q) /\ Last(p) = Last(q)
    /\ IsPrefix(src_dir, dst_dir)

Destination(p, q, src_dir, dst_dir) ==
    IF Nests(p, q, src_dir, dst_dir)
    THEN Append(src_dir, Last(dst_dir))
    ELSE Append(dst_dir, Last(q))

(* What rename(2) on the backing filesystem accepts.                       *)
Movable(from, to) ==
    /\ tree[from] # Nothing /\ from # to /\ ~IsPrefix(from, to)
    /\ Len(to) > 1 => Front(to) \in Paths /\ tree[Front(to)] \in Directories
    /\ tree[to] # Nothing =>
        /\ tree[from] \in Directories <=> tree[to] \in Directories
        /\ \A p \in Paths : Within(p, to) => tree[p] = Nothing

(* The chain moves the file.                                               *)
Rename(t, p, q) ==
    LET src_dir == PathFor(InodeOf(Front(p)))
        dst_dir == PathFor(InodeOf(Front(q)))
        src == Append(src_dir, Last(p))
        dst == Destination(p, q, src_dir, dst_dir)
        path == Append(dst_dir, Last(q))
    IN
    /\ pc[t] = "idle" /\ dentry[p] # 0 /\ Known(q) /\ p # q
    /\ ~IsPrefix(p, q) /\ ~IsPrefix(q, p) /\ ~HasChildren(q)
    /\ MayChange({Front(p), Front(q), p, q})
    /\ NestingRenames \/ ~Nests(p, q, src_dir, dst_dir)
    /\ DirectoryRenames \/ seen[p] \notin Directories
    /\ {src, dst, path} \subseteq Paths
    /\ Movable(src, dst)
    /\ tree' = Moved(src, dst, tree, Nothing)
    /\ pc' = [pc EXCEPT ![t] = "find"]
    /\ req' = [req EXCEPT ![t] =
        [NoRequest EXCEPT !.name = p, !.to = q, !.path = src, !.dst = path]]
    /\ UNCHANGED <<mapvars, kernelvars>>

Find(t) ==
    /\ pc[t] = "find"
    /\ req' = [req EXCEPT ![t].ino = find_inode(req[t].path)]
    /\ pc' = [pc EXCEPT ![t] = "update"]
    /\ UNCHANGED <<tree, mapvars, kernelvars>>

(* The map takes the path the kernel asked for.  The kernel moves the name *)
(* and all it knows below it.                                              *)
Update(t) ==
    LET r == req[t] IN
    /\ pc[t] = "update"
    /\ IF r.ino # 0 THEN update(r.ino, r.dst) ELSE UNCHANGED mapvars
    /\ dentry' = Moved(r.name, r.to, dentry, 0)
    /\ seen' = Moved(r.name, r.to, seen, Nothing)
    /\ pc' = [pc EXCEPT ![t] = "idle"]
    /\ req' = [req EXCEPT ![t] = NoRequest]
    /\ UNCHANGED tree

-----------------------------------------------------------------------------
Next ==
    \/ \E t \in Threads, p \in Paths :
        \/ Resolve(t, p)
        \/ \E o \in Objects : Create(t, p, o)
        \/ \E q \in Paths : Rename(t, p, q)
    \/ \E t \in Threads : Allocate(t) \/ Reply(t) \/ Find(t) \/ Update(t)
    \/ \E p \in Paths : Forget(p) \/ Unlink(p)

Spec == Init /\ [][Next]_vars

-----------------------------------------------------------------------------
TypeOK ==
    /\ tree \in [Paths -> Objects \cup {Nothing}]
    /\ slab \in [Inodes -> Paths \cup {<< >>}]
    /\ by_path \in [Paths -> Inodes \cup {0}]
    /\ dentry \in [Paths -> Inodes \cup {0}]
    /\ seen \in [Paths -> Objects \cup {Nothing}]
    /\ pc \in [Threads -> {"idle", "allocate", "reply", "find", "update"}]
    /\ req \in [Threads -> Requests]

(* inode_map/mod.rs:1-4, "bidirectional".  The inode the index gives for a *)
(* path has an entry that says so: however lookups, creates and renames    *)
(* interleave, find_inode never returns an inode that lives elsewhere.     *)
IndexMatchesEntries == \A p \in Paths : by_path[p] # 0 => slab[by_path[p]] = p

(* An inode the kernel holds under a name resolves, in every later         *)
(* request, to that name.                                                  *)
KernelAgrees == \A p \in Paths : dentry[p] # 0 => slab[dentry[p]] = p

(* mutations.rs:99-105, 128.  A name in the kernel's cache is the file it  *)
(* was found to be, wherever renames moved it; requests on it do not reach *)
(* another file or nothing.                                                *)
NamesReachTheirFile ==
    \A p \in Paths :
        dentry[p] # 0 /\ (\A t \in Threads : pc[t] \notin {"find", "update"})
            => tree[slab[dentry[p]]] = seen[p]
=============================================================================
