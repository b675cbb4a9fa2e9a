--------------------------- MODULE InodeMapProofs ---------------------------
(* Proofs about InodeMap, for any number of workers, names and inodes, and *)
(* with every interleaving the switches allow: overlapping lookups,        *)
(* renames of directories, and renames that are redirected.  Where the     *)
(* kernel's cache is concerned (Cache) the switches are off, as it is not  *)
(* true otherwise.                                                         *)
EXTENDS InodeMap, SequenceTheorems, TLAPS

(* A request that resolves a name has a path to resolve.                   *)
PathsChosen ==
    \A t \in Threads : pc[t] \in {"allocate", "reply", "find"} => req[t].path \in Paths

Inv == TypeOK /\ PathsChosen /\ IndexMatchesEntries

LEMMA ConstantFacts ==
    /\ \A p \in Paths : p # << >>
    /\ \A i \in Inodes : i # 0
    /\ InitialTree \in [Paths -> Objects \cup {Nothing}]
BY InodeMapAssumption DEF Inodes

LEMMA RequestFacts ==
    /\ NoRequest \in Requests
    /\ \A p, path \in Paths, q \in Paths \cup {<< >>}, dst \in Paths \cup {<< >>},
          ino \in Inodes \cup {0} :
        LET r == [name |-> p, to |-> q, path |-> path, dst |-> dst, ino |-> ino]
        IN r \in Requests /\ r.path \in Paths
BY DEF NoRequest, Requests

(* A found or given inode number leaves a request a request for its path.  *)
LEMMA SlotFacts ==
    ASSUME NEW f \in [Threads -> Requests], NEW t \in Threads, NEW ino \in Inodes \cup {0}
    PROVE  /\ [f EXCEPT ![t].ino = ino] \in [Threads -> Requests]
           /\ \A u \in Threads : [f EXCEPT ![t].ino = ino][u].path = f[u].path
<1> DEFINE r == [f[t] EXCEPT !.ino = ino]
<1>1. r \in Requests /\ r.path = f[t].path
  <2>1. f[t] \in Requests
    OBVIOUS
  <2> QED
    BY <2>1 DEF Requests
<1>2. [f EXCEPT ![t].ino = ino] = [f EXCEPT ![t] = r]
  OBVIOUS
<1> HIDE DEF r
<1>3. [f EXCEPT ![t] = r] \in [Threads -> Requests]
  BY <1>1
<1> QED
  BY <1>1, <1>2, <1>3

(* A subtree moved in a total function of paths leaves one.                *)
LEMMA MovedType ==
    ASSUME NEW S, NEW f \in [Paths -> S], NEW from, NEW to, NEW none \in S
    PROVE  Moved(from, to, f, none) \in [Paths -> S]
<1>1. ASSUME NEW p \in Paths PROVE Moved(from, to, f, none)[p] \in S
  <2> DEFINE q == from \o SubSeq(p, Len(to) + 1, Len(p))
  <2>1. Moved(from, to, f, none)[p] =
          IF IsPrefix(to, p) THEN (IF q \in Paths THEN f[q] ELSE none)
          ELSE IF IsPrefix(from, p) THEN none ELSE f[p]
    BY DEF Moved
  <2> HIDE DEF q
  <2> QED
    BY <2>1
<1>2. Moved(from, to, f, none) = [p \in Paths |-> Moved(from, to, f, none)[p]]
  BY DEF Moved
<1> QED
  BY <1>1, <1>2

(* What the map's two writers do, in one step under its lock.              *)
LEMMA AllocateFacts ==
    ASSUME TypeOK, IndexMatchesEntries, NEW path \in Paths, NEW ino \in Inodes,
           allocate(path, ino)
    PROVE  /\ slab' \in [Inodes -> Paths \cup {<< >>}]
           /\ by_path' \in [Paths -> Inodes \cup {0}]
           /\ IndexMatchesEntries'
<1>1. /\ slab[ino] = << >>
      /\ \A i \in Inodes : slab'[i] = IF i = ino THEN path ELSE slab[i]
      /\ \A p \in Paths : by_path'[p] = IF p = path THEN ino ELSE by_path[p]
      /\ slab' \in [Inodes -> Paths \cup {<< >>}]
      /\ by_path' \in [Paths -> Inodes \cup {0}]
  BY DEF allocate, TypeOK
<1>2. \A p \in Paths : by_path[p] # ino
  BY <1>1, ConstantFacts DEF IndexMatchesEntries
<1>3. IndexMatchesEntries'
  BY <1>1, <1>2 DEF IndexMatchesEntries, TypeOK
<1> QED
  BY <1>1, <1>3

LEMMA UpdateFacts ==
    ASSUME TypeOK, IndexMatchesEntries, NEW path \in Paths \cup {<< >>},
           NEW ino \in Inodes, update(ino, path)
    PROVE  /\ slab' \in [Inodes -> Paths \cup {<< >>}]
           /\ by_path' \in [Paths -> Inodes \cup {0}]
           /\ IndexMatchesEntries'
<1>1. /\ \A i \in Inodes : slab'[i] = IF i = ino THEN path ELSE slab[i]
      /\ \A p \in Paths : by_path'[p] =
            IF p = path THEN ino ELSE IF p = slab[ino] THEN 0 ELSE by_path[p]
      /\ slab' \in [Inodes -> Paths \cup {<< >>}]
      /\ by_path' \in [Paths -> Inodes \cup {0}]
  BY DEF update, TypeOK
<1>2. \A p \in Paths : by_path[p] = ino => p = slab[ino]
  BY ConstantFacts DEF IndexMatchesEntries
<1>3. IndexMatchesEntries'
  BY <1>1, <1>2 DEF IndexMatchesEntries, TypeOK
<1> QED
  BY <1>1, <1>3

LEMMA Initial == Init => Inv
BY ConstantFacts, RequestFacts
DEF Init, Inv, TypeOK, PathsChosen, IndexMatchesEntries

LEMMA Step ==
    ASSUME Inv, [Next]_vars
    PROVE  Inv'
<1> USE ConstantFacts
<1>1. TypeOK /\ PathsChosen /\ IndexMatchesEntries
  BY DEF Inv
<1>2. ASSUME NEW t \in Threads, NEW p \in Paths, Resolve(t, p) PROVE Inv'
  <2> DEFINE path == HandlerPath(p)
             r == [NoRequest EXCEPT !.name = p, !.path = path, !.ino = find_inode(path)]
  <2>1. path \in Paths /\ find_inode(path) \in Inodes \cup {0}
    BY <1>1, <1>2 DEF Resolve, find_inode, TypeOK
  <2>2. r \in Requests /\ r.path \in Paths
    BY <2>1 DEF NoRequest, Requests
  <2>3. /\ req' = [req EXCEPT ![t] = r]
        /\ \E s \in {"allocate", "reply"} : pc' = [pc EXCEPT ![t] = s]
        /\ UNCHANGED <<tree, slab, by_path, dentry, seen>>
    BY <1>2 DEF Resolve, mapvars, kernelvars
  <2> HIDE DEF r
  <2>4. TypeOK' /\ PathsChosen'
    BY <1>1, <2>2, <2>3 DEF TypeOK, PathsChosen
  <2> QED
    BY <1>1, <2>3, <2>4 DEF Inv, IndexMatchesEntries
<1>3. ASSUME NEW t \in Threads, NEW p \in Paths, NEW o \in Objects, Create(t, p, o)
      PROVE  Inv'
  <2> DEFINE path == HandlerPath(p)
             r == [NoRequest EXCEPT !.name = p, !.to = p, !.path = path,
                                    !.ino = find_inode(path)]
  <2>1. path \in Paths /\ find_inode(path) \in Inodes \cup {0}
    BY <1>1, <1>3 DEF Create, find_inode, TypeOK
  <2>2. r \in Requests /\ r.path \in Paths
    BY <2>1 DEF NoRequest, Requests
  <2>3. /\ req' = [req EXCEPT ![t] = r]
        /\ \E s \in {"allocate", "reply"} : pc' = [pc EXCEPT ![t] = s]
        /\ tree' = [tree EXCEPT ![path] = o]
        /\ UNCHANGED <<slab, by_path, dentry, seen>>
    BY <1>3 DEF Create, mapvars, kernelvars
  <2> HIDE DEF r
  <2>4. TypeOK' /\ PathsChosen'
    BY <1>1, <2>1, <2>2, <2>3 DEF TypeOK, PathsChosen
  <2> QED
    BY <1>1, <2>3, <2>4 DEF Inv, IndexMatchesEntries
<1>4. ASSUME NEW t \in Threads, NEW p \in Paths, NEW q \in Paths, Rename(t, p, q)
      PROVE  Inv'
  <2> DEFINE src_dir == PathFor(InodeOf(Front(p)))
             dst_dir == PathFor(InodeOf(Front(q)))
             src == Append(src_dir, Last(p))
             dst == Destination(p, q, src_dir, dst_dir)
             path == Append(dst_dir, Last(q))
             r == [NoRequest EXCEPT !.name = p, !.to = q, !.path = src, !.dst = path]
  <2>1. /\ {src, dst, path} \subseteq Paths
        /\ tree' = Moved(src, dst, tree, Nothing)
        /\ pc' = [pc EXCEPT ![t] = "find"]
        /\ req' = [req EXCEPT ![t] = r]
        /\ UNCHANGED <<slab, by_path, dentry, seen>>
    BY <1>4 DEF Rename, mapvars, kernelvars
  <2> HIDE DEF src, dst, path
  <2>2. r \in Requests /\ r.path \in Paths
    BY <2>1 DEF NoRequest, Requests
  <2>3. req' = [req EXCEPT ![t] = r]
    BY <2>1
  <2> HIDE DEF r
  <2>4. tree' \in [Paths -> Objects \cup {Nothing}]
    BY <1>1, <2>1, MovedType DEF TypeOK
  <2>5. TypeOK' /\ PathsChosen'
    BY <1>1, <2>1, <2>2, <2>3, <2>4 DEF TypeOK, PathsChosen
  <2> QED
    BY <1>1, <2>1, <2>5 DEF Inv, IndexMatchesEntries
<1>5. ASSUME NEW t \in Threads, Allocate(t) PROVE Inv'
  <2>1. PICK ino \in Inodes : /\ allocate(req[t].path, ino)
                              /\ req' = [req EXCEPT ![t].ino = ino]
    BY <1>5 DEF Allocate
  <2>2. /\ req[t].path \in Paths /\ pc' = [pc EXCEPT ![t] = "reply"]
        /\ UNCHANGED <<tree, dentry, seen>>
    BY <1>1, <1>5 DEF Allocate, PathsChosen, kernelvars
  <2>3. /\ slab' \in [Inodes -> Paths \cup {<< >>}]
        /\ by_path' \in [Paths -> Inodes \cup {0}]
        /\ IndexMatchesEntries'
    BY <1>1, <2>1, <2>2, AllocateFacts
  <2>4. /\ req' \in [Threads -> Requests]
        /\ \A u \in Threads : req'[u].path = req[u].path
    BY <1>1, <2>1, SlotFacts DEF TypeOK
  <2>5. TypeOK' /\ PathsChosen'
    BY <1>1, <2>2, <2>3, <2>4 DEF TypeOK, PathsChosen
  <2> QED
    BY <2>3, <2>5 DEF Inv
<1>6. ASSUME NEW t \in Threads, Reply(t) PROVE Inv'
  <2>1. /\ req[t].path \in Paths /\ req[t] \in Requests
        /\ UNCHANGED <<tree, slab, by_path>>
    BY <1>1, <1>6 DEF Reply, PathsChosen, TypeOK, mapvars
  <2>2. tree[req[t].path] \in Objects \cup {Nothing} /\ req[t].ino \in Inodes \cup {0}
    BY <1>1, <2>1 DEF TypeOK, Requests
  <2>3. TypeOK' /\ PathsChosen'
    BY <1>1, <1>6, <2>1, <2>2, RequestFacts DEF Reply, TypeOK, PathsChosen
  <2> QED
    BY <1>1, <2>1, <2>3 DEF Inv, IndexMatchesEntries
<1>7. ASSUME NEW p \in Paths, Forget(p) \/ Unlink(p) PROVE Inv'
  <2>1. TypeOK' /\ PathsChosen'
    BY <1>1, <1>7 DEF Forget, Unlink, TypeOK, PathsChosen, mapvars
  <2> QED
    BY <1>1, <1>7, <2>1 DEF Forget, Unlink, Inv, IndexMatchesEntries, mapvars
<1>8. ASSUME NEW t \in Threads, Find(t) PROVE Inv'
  <2>1. /\ req' = [req EXCEPT ![t].ino = by_path[req[t].path]]
        /\ pc' = [pc EXCEPT ![t] = "update"]
        /\ UNCHANGED <<tree, slab, by_path, dentry, seen>>
    BY <1>8 DEF Find, find_inode, mapvars, kernelvars
  <2>2. by_path[req[t].path] \in Inodes \cup {0}
    BY <1>1, <1>8 DEF Find, PathsChosen, TypeOK
  <2>3. /\ req' \in [Threads -> Requests]
        /\ \A u \in Threads : req'[u].path = req[u].path
    BY <1>1, <2>1, <2>2, SlotFacts DEF TypeOK
  <2>4. TypeOK' /\ PathsChosen'
    BY <1>1, <2>1, <2>3 DEF TypeOK, PathsChosen
  <2> QED
    BY <1>1, <2>1, <2>4 DEF Inv, IndexMatchesEntries
<1>9. ASSUME NEW t \in Threads, Update(t) PROVE Inv'
  <2>1. /\ req[t] \in Requests /\ tree' = tree
        /\ pc' = [pc EXCEPT ![t] = "idle"] /\ req' = [req EXCEPT ![t] = NoRequest]
    BY <1>1, <1>9 DEF Update, TypeOK
  <2>2. /\ slab' \in [Inodes -> Paths \cup {<< >>}]
        /\ by_path' \in [Paths -> Inodes \cup {0}]
        /\ IndexMatchesEntries'
    <3>1. CASE req[t].ino = 0
      BY <1>1, <1>9, <3>1 DEF Update, mapvars, TypeOK, IndexMatchesEntries
    <3>2. CASE req[t].ino # 0
      <4>1. /\ req[t].ino \in Inodes /\ req[t].dst \in Paths \cup {<< >>}
            /\ update(req[t].ino, req[t].dst)
        BY <1>9, <2>1, <3>2 DEF Update, Requests
      <4> QED
        BY <1>1, <4>1, UpdateFacts
    <3> QED
      BY <3>1, <3>2
  <2>3. /\ dentry' \in [Paths -> Inodes \cup {0}]
        /\ seen' \in [Paths -> Objects \cup {Nothing}]
    BY <1>1, <1>9, MovedType DEF Update, TypeOK
  <2>4. TypeOK' /\ PathsChosen'
    BY <1>1, <2>1, <2>2, <2>3, RequestFacts DEF TypeOK, PathsChosen
  <2> QED
    BY <2>2, <2>4 DEF Inv
<1>10. CASE UNCHANGED vars
  BY <1>1, <1>10 DEF vars, mapvars, kernelvars, Inv, TypeOK, PathsChosen, IndexMatchesEntries
<1> QED
  BY <1>2, <1>3, <1>4, <1>5, <1>6, <1>7, <1>8, <1>9, <1>10 DEF Next

(* The index and the entries agree whatever lookups, creates and renames   *)
(* interleave: an inode found under a path has that path.                  *)
THEOREM IndexIsSound == Spec => []IndexMatchesEntries
<1>1. Inv => IndexMatchesEntries
  BY DEF Inv
<1> QED
  BY Initial, Step, <1>1, PTL DEF Spec
-----------------------------------------------------------------------------
(* One request for a name at a time, no directory renamed, and no rename   *)
(* redirected: what the kernel's cache then agrees on with the map.        *)

(* A request keeps what it needs to itself.                                *)
Apart ==
    \A t, u \in Threads : t # u /\ pc[t] # "idle" /\ pc[u] # "idle" =>
        /\ req[t].name # req[u].name
        /\ Changes(t) \cap (Changes(u) \cup Reads(u)) = {}

Resolving(t) == pc[t] \in {"allocate", "reply"}
Renaming(t) == pc[t] \in {"find", "update"}

(* The directory of a name in use is known.                                *)
DirectoryKnown(p) == Len(p) > 1 => seen[Front(p)] \in Directories

ResolvesItsName(t) ==
    LET r == req[t] IN
    /\ r.path = r.name /\ r.to \in {<< >>, r.name}
    /\ pc[t] = "allocate" => by_path[r.name] = 0
    /\ pc[t] = "reply" => r.ino # 0 /\ by_path[r.name] = r.ino

RenamesAFile(t) ==
    LET r == req[t] IN
    /\ r.path = r.name /\ r.dst = r.to /\ r.to \in Paths
    /\ ~IsPrefix(r.name, r.to) /\ ~IsPrefix(r.to, r.name)
    /\ dentry[r.name] # 0
    /\ seen[r.name] \notin Directories /\ seen[r.to] \notin Directories
    /\ tree[r.to] = seen[r.name]
    /\ DirectoryKnown(r.to)
    /\ pc[t] = "update" => r.ino = dentry[r.name]

RequestSound(t) ==
    /\ pc[t] = "idle" => req[t] = NoRequest
    /\ pc[t] # "idle" => req[t].name \in Paths /\ DirectoryKnown(req[t].name)
    /\ Resolving(t) => ResolvesItsName(t)
    /\ Renaming(t) => RenamesAFile(t)

RequestsSound == \A t \in Threads : RequestSound(t)

(* What the kernel knows: the index has it, under known directories, and   *)
(* it is the file there unless a rename has it in hand.                    *)
InHand(p) == \E t \in Threads : Renaming(t) /\ p \in {req[t].name, req[t].to}

CacheIndexed == \A p \in Paths : dentry[p] # 0 => by_path[p] = dentry[p]
UnknownUnseen == \A p \in Paths : dentry[p] = 0 => seen[p] = Nothing
CacheConnected ==
    \A p, a \in Paths : dentry[p] # 0 /\ Within(p, a) => seen[a] \in Directories
CacheTrue ==
    \A p \in Paths : dentry[p] # 0 /\ ~InHand(p) => tree[p] = seen[p]

Cache ==
    /\ Apart /\ RequestsSound
    /\ CacheIndexed /\ UnknownUnseen /\ CacheConnected /\ CacheTrue

-----------------------------------------------------------------------------
(* Paths.                                                                  *)

LEMMA PathFacts ==
    ASSUME NEW p \in Paths
    PROVE  /\ p \in Seq(Names) /\ Len(p) \in Nat \ {0}
           /\ Append(Front(p), Last(p)) = p
           /\ Len(p) > 1 => Front(p) \in Paths /\ Front(p) # << >> /\ Within(p, Front(p))
           /\ Len(p) <= 1 => Front(p) = << >>
           /\ Front(p) # p
<1>1. p \in Seq(Names) /\ p # << >> /\ (Len(p) > 1 => Front(p) \in Paths)
  BY InodeMapAssumption
<1>2. Len(p) \in Nat \ {0} /\ \A i \in 1 .. Len(p) : p[i] \in Names
  BY <1>1, LenProperties, EmptySeq
<1>3. /\ Front(p) \in Seq(Names) /\ Len(Front(p)) = Len(p) - 1
      /\ \A i \in 1 .. Len(p) - 1 : Front(p)[i] = p[i]
  <2>1. \A i \in 1 .. Len(p) - 1 : p[i] \in Names
    BY <1>2
  <2>2. 1 \in Int /\ Len(p) - 1 \in Int
    BY <1>2
  <2>3. /\ SubSeq(p, 1, Len(p) - 1) \in Seq(Names)
        /\ Len(SubSeq(p, 1, Len(p) - 1)) =
             IF 1 <= Len(p) - 1 THEN Len(p) - 1 - 1 + 1 ELSE 0
        /\ \A i \in 1 .. Len(p) - 1 - 1 + 1 :
             SubSeq(p, 1, Len(p) - 1)[i] = p[1 + i - 1]
    BY <2>1, <2>2, SubSeqProperties
  <2>4. Front(p) = SubSeq(p, 1, Len(p) - 1)
    BY DEF Front
  <2>5. Len(Front(p)) = Len(p) - 1
    <3>1. Len(Front(p)) = IF 1 <= Len(p) - 1 THEN Len(p) - 1 - 1 + 1 ELSE 0
      BY <2>3, <2>4
    <3>2. \A n \in Nat \ {0} : (IF 1 <= n - 1 THEN n - 1 - 1 + 1 ELSE 0) = n - 1
      OBVIOUS
    <3> QED
      BY <1>2, <3>1, <3>2
  <2>6. ASSUME NEW i \in 1 .. Len(p) - 1 PROVE Front(p)[i] = p[i]
    <3>1. i \in 1 .. Len(p) - 1 - 1 + 1 /\ 1 + i - 1 = i
      BY <1>2
    <3>2. SubSeq(p, 1, Len(p) - 1)[i] = p[1 + i - 1]
      BY <2>3, <3>1
    <3> QED
      BY <2>4, <3>1, <3>2
  <2> QED
    BY <2>3, <2>4, <2>5, <2>6
<1>4. Append(Front(p), Last(p)) = p
  <2>1. Last(p) \in Names
    BY <1>2 DEF Last
  <2>2. Append(Front(p), Last(p)) \in Seq(Names) /\ Len(Append(Front(p), Last(p))) = Len(p)
    BY <1>2, <1>3, <2>1, AppendProperties
  <2>3. \A i \in 1 .. Len(p) : Append(Front(p), Last(p))[i] = p[i]
    BY <1>2, <1>3, <2>1, AppendProperties DEF Last
  <2> QED
    BY <1>1, <2>2, <2>3, SeqEqual
<1>5. Len(p) > 1 => Front(p) # << >> /\ IsPrefix(Front(p), p)
  <2> SUFFICES ASSUME Len(p) > 1 PROVE Front(p) # << >> /\ IsPrefix(Front(p), p)
    OBVIOUS
  <2>1. Front(p) # << >>
    BY <1>2, <1>3, EmptySeq
  <2>2. SubSeq(Front(p), 1, Len(Front(p))) = Front(p)
    BY <1>3, SubSeqFull
  <2> QED
    BY <1>2, <1>3, <2>1, <2>2 DEF IsPrefix, Front
<1>6. Len(p) <= 1 => Front(p) = << >>
  BY <1>2, <1>3, EmptySeq
<1>7. Front(p) # p
  BY <1>2, <1>3
<1> QED
  BY <1>1, <1>2, <1>4, <1>5, <1>6, <1>7 DEF Within, IsStrictPrefix

LEMMA PrefixElements ==
    ASSUME NEW a \in Paths, NEW p \in Paths
    PROVE  IsPrefix(a, p) <=> Len(a) <= Len(p) /\ \A i \in 1 .. Len(a) : a[i] = p[i]
<1>1. a \in Seq(Names) /\ p \in Seq(Names) /\ Len(a) \in Nat /\ Len(p) \in Nat
  BY PathFacts
<1>2. SubSeq(a, 1, Len(a)) = a
  BY <1>1, SubSeqFull
<1>3. ASSUME Len(a) <= Len(p)
      PROVE  /\ SubSeq(p, 1, Len(a)) \in Seq(Names)
             /\ Len(SubSeq(p, 1, Len(a))) = Len(a)
             /\ \A i \in 1 .. Len(a) : SubSeq(p, 1, Len(a))[i] = p[i]
  <2>1. \A i \in 1 .. Len(a) : i \in 1 .. Len(p)
    BY <1>1, <1>3
  <2>2. \A i \in 1 .. Len(a) : p[i] \in Names
    BY <1>1, <2>1, LenProperties
  <2> QED
    BY <1>1, <2>1, <2>2, <1>3, SubSeqProperties
<1>4. ASSUME Len(a) <= Len(p)
      PROVE  SubSeq(p, 1, Len(a)) = a <=> \A i \in 1 .. Len(a) : a[i] = p[i]
  BY <1>1, <1>3, <1>4, SeqEqual
<1> QED
  BY <1>2, <1>4 DEF IsPrefix

(* What lies above a name is its directory, or above its directory.        *)
LEMMA AboveFacts ==
    ASSUME NEW p \in Paths, NEW a \in Paths, Within(p, a)
    PROVE  Len(p) > 1 /\ (a = Front(p) \/ Within(Front(p), a)) /\ a # p
<1>1. /\ a \in Seq(Names) /\ p \in Seq(Names)
      /\ Len(a) \in Nat \ {0} /\ Len(p) \in Nat \ {0} /\ a # p
  BY PathFacts DEF Within, IsStrictPrefix
<1>2. Len(a) <= Len(p) /\ \A i \in 1 .. Len(a) : a[i] = p[i]
  BY PrefixElements DEF Within, IsStrictPrefix
<1>3. Len(a) < Len(p)
  <2>1. Len(a) # Len(p)
    BY <1>1, <1>2, SeqEqual
  <2> QED
    BY <1>1, <1>2, <2>1
<1>4. /\ Len(p) > 1 /\ Front(p) \in Paths /\ Len(Front(p)) = Len(p) - 1
      /\ \A i \in 1 .. Len(p) - 1 : Front(p)[i] = p[i]
  <2>1. Len(p) > 1
    BY <1>1, <1>3
  <2>2. \A i \in 1 .. Len(p) - 1 : p[i] \in Names
    BY <1>1, LenProperties
  <2> QED
    BY <1>1, <2>1, <2>2, PathFacts, SubSeqProperties DEF Front
<1>5. IsPrefix(a, Front(p))
  <2>1. Len(a) <= Len(Front(p))
    BY <1>1, <1>3, <1>4
  <2>2. \A i \in 1 .. Len(a) : a[i] = Front(p)[i]
    BY <1>1, <1>2, <1>3, <1>4
  <2> QED
    BY <1>4, <2>1, <2>2, PrefixElements
<1> QED
  BY <1>1, <1>4, <1>5 DEF Within, IsStrictPrefix

(* A name in a subtree that moves keeps its place in it.                   *)
LEMMA PlaceFacts ==
    ASSUME NEW from \in Paths, NEW to \in Paths, NEW c \in Paths, IsPrefix(to, c)
    PROVE  LET q == from \o SubSeq(c, Len(to) + 1, Len(c)) IN
           /\ c = to => q = from
           /\ c # to /\ q \in Paths => Within(q, from)
<1> DEFINE s == SubSeq(c, Len(to) + 1, Len(c))
           q == from \o s
<1>1. /\ from \in Seq(Names) /\ to \in Seq(Names) /\ c \in Seq(Names)
      /\ Len(from) \in Nat /\ Len(to) \in Nat /\ Len(c) \in Nat
  BY PathFacts
<1>2. Len(to) <= Len(c) /\ \A i \in 1 .. Len(to) : to[i] = c[i]
  BY PrefixElements
<1>3. \A i \in Len(to) + 1 .. Len(c) : c[i] \in Names
  BY <1>1, LenProperties
<1>4. s \in Seq(Names) /\ Len(s) = Len(c) - Len(to)
  <2>1. Len(to) + 1 \in Int /\ Len(c) \in Int
    BY <1>1
  <2> QED
    BY <1>1, <1>2, <1>3, <2>1, SubSeqProperties
<1> HIDE DEF s
<1>5. c = to => q = from
  BY <1>1, <1>4, EmptySeq, ConcatEmptySeq
<1>6. ASSUME c # to, q \in Paths PROVE Within(q, from)
  <2>1. Len(to) < Len(c)
    <3>1. Len(to) # Len(c)
      BY <1>1, <1>2, <1>6, SeqEqual
    <3> QED
      BY <1>1, <1>2, <3>1
  <2>2. /\ Len(q) = Len(from) + Len(s)
        /\ \A i \in 1 .. Len(from) + Len(s) :
             q[i] = IF i <= Len(from) THEN from[i] ELSE s[i - Len(from)]
    BY <1>1, <1>4, ConcatProperties
  <2> HIDE DEF q
  <2>3. Len(from) < Len(q)
    BY <1>1, <1>4, <2>1, <2>2
  <2>4. \A i \in 1 .. Len(from) : q[i] = from[i]
    <3>1. Len(s) \in Nat
      BY <1>1, <1>2, <1>4
    <3>2. \A i \in 1 .. Len(from) : i \in 1 .. Len(from) + Len(s) /\ i <= Len(from)
      BY <1>1, <3>1
    <3> QED
      BY <2>2, <3>2
  <2>5. IsPrefix(from, q)
    BY <1>1, <1>6, <2>3, <2>4, PrefixElements
  <2> QED
    BY <1>1, <2>3, <2>5 DEF Within, IsStrictPrefix
<1> QED
  BY <1>5, <1>6 DEF s

(* Moving a name that has nothing below it, onto one that has nothing.     *)
LEMMA MovedFile ==
    ASSUME NEW f, NEW from \in Paths, NEW to \in Paths,
           NEW none, ~IsPrefix(to, from),
           \A c \in Paths : Within(c, from) \/ Within(c, to) => f[c] = none
    PROVE  \A c \in Paths : Moved(from, to, f, none)[c] =
             IF c = to THEN f[from] ELSE IF c = from THEN none ELSE f[c]
<1> SUFFICES ASSUME NEW c \in Paths
             PROVE  Moved(from, to, f, none)[c] =
                      IF c = to THEN f[from] ELSE IF c = from THEN none ELSE f[c]
  OBVIOUS
<1> DEFINE q == from \o SubSeq(c, Len(to) + 1, Len(c))
<1>1. Moved(from, to, f, none)[c] =
        IF IsPrefix(to, c) THEN (IF q \in Paths THEN f[q] ELSE none)
        ELSE IF IsPrefix(from, c) THEN none ELSE f[c]
  BY DEF Moved
<1>2. IsPrefix(to, c) => (c = to => q = from) /\ (c # to /\ q \in Paths => Within(q, from))
  BY PlaceFacts
<1> HIDE DEF q
<1>3. IsPrefix(to, to) /\ IsPrefix(from, from)
  BY PrefixElements, PathFacts
<1>4. CASE c = to
  BY <1>1, <1>2, <1>3, <1>4
<1>5. CASE c # to /\ IsPrefix(to, c)
  BY <1>1, <1>2, <1>5 DEF Within, IsStrictPrefix
<1>6. CASE ~IsPrefix(to, c)
  BY <1>1, <1>3, <1>6 DEF Within, IsStrictPrefix
<1> QED
  BY <1>4, <1>5, <1>6

(* The rest of a tree that something is moved in.                          *)
LEMMA MovedRest ==
    ASSUME NEW f, NEW from \in Paths, NEW to \in Paths, NEW none
    PROVE  /\ Moved(from, to, f, none)[to] = f[from]
           /\ \A c \in Paths :
                c \notin {from, to} /\ ~Within(c, from) /\ ~Within(c, to)
                  => Moved(from, to, f, none)[c] = f[c]
<1>1. IsPrefix(to, to)
  BY PrefixElements, PathFacts
<1>2. from \o SubSeq(to, Len(to) + 1, Len(to)) = from
  BY <1>1, PlaceFacts
<1>3. Moved(from, to, f, none)[to] = f[from]
  BY <1>1, <1>2 DEF Moved
<1>4. \A c \in Paths : c \notin {from, to} /\ ~Within(c, from) /\ ~Within(c, to)
        => ~IsPrefix(to, c) /\ ~IsPrefix(from, c)
  BY DEF Within, IsStrictPrefix
<1> QED
  BY <1>3, <1>4 DEF Moved

-----------------------------------------------------------------------------
(* What the invariant says of one request, and of two.                     *)

(* A known directory is in the index, so a handler works on the path the   *)
(* kernel means.                                                           *)
LEMMA HandlerPathIs ==
    ASSUME Inv, Cache, NEW p \in Paths, DirectoryKnown(p)
    PROVE  PathFor(InodeOf(Front(p))) = Front(p) /\ HandlerPath(p) = p
<1>1. PathFor(InodeOf(Front(p))) = Front(p)
  <2>1. CASE Len(p) <= 1
    BY <2>1, PathFacts DEF InodeOf, PathFor
  <2>2. CASE Len(p) > 1
    <3>1. Front(p) \in Paths /\ Front(p) # << >> /\ seen[Front(p)] \in Directories
      BY <2>2, PathFacts DEF DirectoryKnown
    <3>2. dentry[Front(p)] # 0
      BY <3>1, InodeMapAssumption DEF Cache, UnknownUnseen
    <3>3. by_path[Front(p)] = dentry[Front(p)] /\ slab[by_path[Front(p)]] = Front(p)
      BY <3>1, <3>2 DEF Cache, CacheIndexed, Inv, IndexMatchesEntries
    <3>4. dentry[Front(p)] \in Inodes /\ dentry[Front(p)] # ROOT_INODE
      BY <3>1, <3>2 DEF Inv, TypeOK, Inodes, ROOT_INODE
    <3> QED
      BY <3>1, <3>3, <3>4 DEF InodeOf, PathFor
  <2> QED
    BY <2>1, <2>2, PathFacts
<1> QED
  BY <1>1, PathFacts DEF HandlerPath

(* What is known lies in known directories.                                *)
LEMMA KnownFacts ==
    ASSUME Inv, Cache
    PROVE  /\ \A p \in Paths : dentry[p] # 0 => DirectoryKnown(p)
           /\ \A p \in Paths : Known(p) <=> DirectoryKnown(p)
           /\ \A p \in Paths : seen[p] \in Directories => dentry[p] # 0
           /\ \A p, a \in Paths : DirectoryKnown(p) /\ Within(p, a) => seen[a] \in Directories
<1>1. \A p \in Paths : dentry[p] # 0 => DirectoryKnown(p)
  BY PathFacts DEF Cache, CacheConnected, DirectoryKnown
<1>2. \A p \in Paths : Known(p) <=> DirectoryKnown(p)
  <2>1. \A p \in Paths : Len(p) \in Nat \ {0}
    BY PathFacts
  <2>2. \A n \in Nat \ {0} : n = 1 <=> ~(n > 1)
    OBVIOUS
  <2> QED
    BY <2>1, <2>2 DEF Known, DirectoryKnown
<1>3. \A p \in Paths : seen[p] \in Directories => dentry[p] # 0
  BY InodeMapAssumption DEF Cache, UnknownUnseen
<1>4. ASSUME NEW p \in Paths, NEW a \in Paths, DirectoryKnown(p), Within(p, a)
      PROVE  seen[a] \in Directories
  <2>1. Len(p) > 1 /\ (a = Front(p) \/ Within(Front(p), a))
    BY <1>4, AboveFacts
  <2>2. Front(p) \in Paths /\ seen[Front(p)] \in Directories /\ dentry[Front(p)] # 0
    BY <1>3, <1>4, <2>1, PathFacts DEF DirectoryKnown
  <2> QED
    BY <2>1, <2>2 DEF Cache, CacheConnected
<1> QED
  BY <1>1, <1>2, <1>3, <1>4

(* The names a request that changes directories has to itself.             *)
LEMMA ApartFacts ==
    ASSUME Inv, Cache, NEW t \in Threads, NEW u \in Threads, t # u,
           pc[t] # "idle", pc[u] # "idle"
    PROVE  /\ req[t].name # req[u].name
           /\ Front(req[t].name) \notin Changes(u)
           /\ req[t].to # << >> =>
                req[u].name \notin {req[t].name, req[t].to}
           /\ req[t].to # << >> /\ req[u].to # << >> =>
                req[u].to \notin {req[t].name, req[t].to}
<1>1. /\ req[t].name # req[u].name
      /\ Changes(t) \cap (Changes(u) \cup Reads(u)) = {}
      /\ Changes(u) \cap (Changes(t) \cup Reads(t)) = {}
  BY DEF Cache, Apart
<1>2. Front(req[t].name) \in Reads(t) /\ Front(req[u].name) \in Reads(u)
  BY DEF Reads
<1>3. /\ req[t].to # << >> =>
           {Front(req[t].name), Front(req[t].to), req[t].name, req[t].to} \subseteq Changes(t)
      /\ req[u].to # << >> =>
           {Front(req[u].name), Front(req[u].to), req[u].name, req[u].to} \subseteq Changes(u)
  BY DEF Changes
<1> QED
  BY <1>1, <1>2, <1>3

(* No request in progress renames a name whose directory is left alone.    *)
LEMMA NotInHand ==
    ASSUME Inv, Cache, NEW p \in Paths,
           \A u \in Threads : Renaming(u) => Front(p) \notin Changes(u)
    PROVE  ~InHand(p)
<1> SUFFICES ASSUME NEW u \in Threads, Renaming(u), p \in {req[u].name, req[u].to}
             PROVE  FALSE
  BY DEF InHand
<1>1. req[u].to # << >>
  BY InodeMapAssumption DEF Cache, RequestsSound, RequestSound, RenamesAFile
<1> QED
  BY <1>1 DEF Changes

LEMMA RequestKinds ==
    ASSUME Inv, Cache
    PROVE  \A t \in Threads :
             /\ pc[t] \in {"idle", "allocate", "reply", "find", "update"}
             /\ pc[t] = "idle" <=> ~Resolving(t) /\ ~Renaming(t)
             /\ pc[t] = "idle" => Changes(t) = {} /\ Reads(t) = {}
             /\ pc[t] # "idle" => req[t].name \in Paths /\ DirectoryKnown(req[t].name)
             /\ Resolving(t) => ~Renaming(t) /\ ResolvesItsName(t)
             /\ Renaming(t) => req[t].to # << >> /\ RenamesAFile(t)
<1>1. \A t \in Threads : pc[t] \in {"idle", "allocate", "reply", "find", "update"}
  BY DEF Inv, TypeOK
<1>2. \A t \in Threads : Renaming(t) => req[t].to # << >> /\ RenamesAFile(t)
  BY InodeMapAssumption DEF Cache, RequestsSound, RequestSound, RenamesAFile
<1>3. \A t \in Threads : pc[t] = "idle" => Changes(t) = {} /\ Reads(t) = {}
  BY DEF Cache, RequestsSound, RequestSound, Changes, Reads, NoRequest
<1> QED
  BY <1>1, <1>2, <1>3 DEF Cache, RequestsSound, RequestSound, Resolving, Renaming

(* A step that touches neither the names nor the files: the requests and   *)
(* the index answer for it.                                                *)
LEMMA QuietKeepsCache ==
    ASSUME Inv, Cache, UNCHANGED <<tree, dentry, seen>>,
           Apart', RequestsSound', CacheIndexed',
           \A t \in Threads : Renaming(t)' => Renaming(t) /\ req'[t].name = req[t].name
                                              /\ req'[t].to = req[t].to,
           \A t \in Threads : Renaming(t) => Renaming(t)' /\ req'[t].name = req[t].name
                                              /\ req'[t].to = req[t].to
    PROVE  Cache'
<1>1. \A p \in Paths : InHand(p)' <=> InHand(p)
  BY DEF InHand
<1>2. CacheTrue'
  BY <1>1 DEF Cache, CacheTrue
<1>3. UnknownUnseen' /\ CacheConnected'
  BY DEF Cache, UnknownUnseen, CacheConnected
<1> QED
  BY <1>2, <1>3 DEF Cache

-----------------------------------------------------------------------------
(* The steps.                                                              *)

LEMMA ResolveKeepsCache ==
    ASSUME ~OverlappingLookups, Inv, Inv', Cache,
           NEW t \in Threads, NEW p \in Paths, Resolve(t, p)
    PROVE  Cache'
<1>1. /\ DirectoryKnown(p) /\ pc[t] = "idle" /\ MayRead(Front(p))
      /\ \A u \in Threads : req[u].name # p
      /\ UNCHANGED <<tree, slab, by_path, dentry, seen>>
  BY KnownFacts DEF Resolve, mapvars, kernelvars
<1>2. HandlerPath(p) = p
  BY <1>1, HandlerPathIs
<1> DEFINE r == [NoRequest EXCEPT !.name = p, !.path = p, !.ino = by_path[p]]
<1>3. /\ pc' = [pc EXCEPT ![t] = IF by_path[p] = 0 THEN "allocate" ELSE "reply"]
      /\ req' = [req EXCEPT ![t] = r]
  BY <1>2 DEF Resolve, find_inode
<1>4. r.name = p /\ r.path = p /\ r.to = << >> /\ r.ino = by_path[p]
  BY DEF NoRequest
<1> HIDE DEF r
<1>5. /\ req'[t] = r /\ pc'[t] = IF by_path[p] = 0 THEN "allocate" ELSE "reply"
      /\ \A u \in Threads \ {t} : req'[u] = req[u] /\ pc'[u] = pc[u]
  BY <1>3 DEF Inv, TypeOK
<1>6. /\ Changes(t)' = {} /\ Reads(t)' = {Front(p)}
      /\ \A u \in Threads \ {t} : Changes(u)' = Changes(u) /\ Reads(u)' = Reads(u)
      /\ \A u \in Threads : Front(p) \notin Changes(u)
  BY <1>1, <1>4, <1>5 DEF Changes, Reads, MayRead
<1>7. Apart'
  BY <1>1, <1>4, <1>5, <1>6 DEF Cache, Apart
<1>8. RequestsSound'
  <2>1. \A u \in Threads \ {t} : RequestSound(u)'
    BY <1>1, <1>5
    DEF Cache, RequestsSound, RequestSound, Resolving, Renaming, ResolvesItsName,
        RenamesAFile, DirectoryKnown
  <2>2. ResolvesItsName(t)' /\ ~Renaming(t)' /\ DirectoryKnown(p)'
    BY <1>1, <1>4, <1>5 DEF ResolvesItsName, Renaming, DirectoryKnown
  <2>3. RequestSound(t)'
    BY <1>4, <1>5, <2>2 DEF RequestSound, DirectoryKnown
  <2> QED
    BY <2>1, <2>3 DEF RequestsSound
<1>9. CacheIndexed'
  BY <1>1 DEF Cache, CacheIndexed
<1>10. \A u \in Threads : (Renaming(u)' <=> Renaming(u)) /\ (Renaming(u) => req'[u] = req[u])
  BY <1>1, <1>5 DEF Renaming
<1> QED
  BY <1>1, <1>7, <1>8, <1>9, <1>10, QuietKeepsCache

LEMMA AllocateKeepsCache ==
    ASSUME Inv, Inv', Cache, NEW t \in Threads, Allocate(t)
    PROVE  Cache'
<1>1. /\ pc[t] = "allocate" /\ Resolving(t) /\ ResolvesItsName(t)
      /\ req[t].name \in Paths /\ by_path[req[t].name] = 0 /\ req[t].path = req[t].name
      /\ DirectoryKnown(req[t].name)
  BY RequestKinds DEF Allocate, Resolving, ResolvesItsName
<1>2. PICK ino \in Inodes : allocate(req[t].path, ino) /\ req' = [req EXCEPT ![t].ino = ino]
  BY DEF Allocate
<1>3. /\ \A p \in Paths : by_path'[p] = IF p = req[t].name THEN ino ELSE by_path[p]
      /\ ino # 0
      /\ UNCHANGED <<tree, dentry, seen>>
  BY <1>1, <1>2, ConstantFacts DEF allocate, Allocate, Inv, TypeOK, kernelvars
<1>4. /\ pc'[t] = "reply" /\ req'[t].ino = ino /\ req'[t].name = req[t].name
      /\ req'[t].path = req[t].path /\ req'[t].to = req[t].to /\ req'[t].dst = req[t].dst
      /\ \A u \in Threads \ {t} : req'[u] = req[u] /\ pc'[u] = pc[u]
  BY <1>2 DEF Allocate, Inv, TypeOK, Requests
<1>5. \A u \in Threads : Changes(u)' = Changes(u) /\ Reads(u)' = Reads(u)
  BY <1>1, <1>4 DEF Changes, Reads
<1>6. Apart'
  BY <1>1, <1>4, <1>5 DEF Cache, Apart
<1>7. RequestsSound'
  <2>1. ASSUME NEW u \in Threads \ {t}
        PROVE  RequestSound(u)'
    <3>1. pc[u] # "idle" => req[u].name # req[t].name
      BY <1>1, ApartFacts
    <3>2. Resolving(u)' => ResolvesItsName(u)'
      BY <1>3, <1>4, <3>1 DEF Cache, RequestsSound, RequestSound, Resolving, ResolvesItsName
    <3>3. Renaming(u)' => RenamesAFile(u)'
      BY <1>3, <1>4 DEF Cache, RequestsSound, RequestSound, Renaming, RenamesAFile, DirectoryKnown
    <3> QED
      BY <1>3, <1>4, <3>2, <3>3 DEF Cache, RequestsSound, RequestSound, DirectoryKnown
  <2>2. ResolvesItsName(t)' /\ ~Renaming(t)'
    BY <1>1, <1>3, <1>4 DEF ResolvesItsName, Renaming
  <2>3. RequestSound(t)'
    BY <1>1, <1>3, <1>4, <2>2 DEF RequestSound, DirectoryKnown
  <2> QED
    BY <2>1, <2>3 DEF RequestsSound
<1>8. CacheIndexed'
  BY <1>1, <1>3 DEF Cache, CacheIndexed
<1>9. \A u \in Threads : (Renaming(u)' <=> Renaming(u)) /\ (Renaming(u) => req'[u] = req[u])
  BY <1>1, <1>4 DEF Renaming
<1> QED
  BY <1>3, <1>6, <1>7, <1>8, <1>9, QuietKeepsCache

LEMMA FindKeepsCache ==
    ASSUME Inv, Inv', Cache, NEW t \in Threads, Find(t)
    PROVE  Cache'
<1>1. /\ pc[t] = "find" /\ Renaming(t) /\ RenamesAFile(t) /\ req[t].name \in Paths
      /\ req[t].path = req[t].name /\ DirectoryKnown(req[t].name)
      /\ by_path[req[t].name] = dentry[req[t].name]
      /\ UNCHANGED <<tree, slab, by_path, dentry, seen>>
  BY RequestKinds DEF Find, Renaming, RenamesAFile, Cache, CacheIndexed, mapvars, kernelvars
<1>2. /\ pc'[t] = "update" /\ req'[t].ino = dentry[req[t].name] /\ req'[t].name = req[t].name
      /\ req'[t].path = req[t].path /\ req'[t].to = req[t].to /\ req'[t].dst = req[t].dst
      /\ \A u \in Threads \ {t} : req'[u] = req[u] /\ pc'[u] = pc[u]
  BY <1>1 DEF Find, find_inode, Inv, TypeOK, Requests
<1>3. \A u \in Threads : Changes(u)' = Changes(u) /\ Reads(u)' = Reads(u)
  BY <1>1, <1>2 DEF Changes, Reads
<1>4. Apart'
  BY <1>1, <1>2, <1>3 DEF Cache, Apart
<1>5. RequestsSound'
  <2>1. \A u \in Threads \ {t} : RequestSound(u)'
    BY <1>1, <1>2
    DEF Cache, RequestsSound, RequestSound, Resolving, Renaming, ResolvesItsName,
        RenamesAFile, DirectoryKnown
  <2>2. RenamesAFile(t)' /\ ~Resolving(t)'
    BY <1>1, <1>2 DEF RenamesAFile, Resolving, DirectoryKnown
  <2>3. RequestSound(t)'
    BY <1>1, <1>2, <2>2 DEF RequestSound, DirectoryKnown
  <2> QED
    BY <2>1, <2>3 DEF RequestsSound
<1>6. CacheIndexed'
  BY <1>1 DEF Cache, CacheIndexed
<1>7. \A u \in Threads : req'[u].name = req[u].name /\ req'[u].to = req[u].to
  BY <1>2
<1>8. \A u \in Threads : Renaming(u)' <=> Renaming(u)
  BY <1>1, <1>2 DEF Renaming
<1> QED
  BY <1>1, <1>4, <1>5, <1>6, <1>7, <1>8, QuietKeepsCache

LEMMA CreateKeepsCache ==
    ASSUME Inv, Inv', Cache, NEW t \in Threads, NEW p \in Paths, NEW o \in Objects,
           Create(t, p, o)
    PROVE  Cache'
<1>1. /\ DirectoryKnown(p) /\ pc[t] = "idle" /\ dentry[p] = 0
      /\ \A u \in Threads : Front(p) \notin Changes(u) \cup Reads(u)
      /\ UNCHANGED <<slab, by_path, dentry, seen>>
  BY KnownFacts DEF Create, MayChange, mapvars, kernelvars
<1>2. HandlerPath(p) = p
  BY <1>1, HandlerPathIs
<1> DEFINE r == [NoRequest EXCEPT !.name = p, !.to = p, !.path = p, !.ino = by_path[p]]
<1>3. /\ pc' = [pc EXCEPT ![t] = IF by_path[p] = 0 THEN "allocate" ELSE "reply"]
      /\ req' = [req EXCEPT ![t] = r]
      /\ tree' = [tree EXCEPT ![p] = o]
  BY <1>2 DEF Create, find_inode
<1>4. r.name = p /\ r.path = p /\ r.to = p /\ r.ino = by_path[p] /\ p # << >>
  BY InodeMapAssumption DEF NoRequest
<1> HIDE DEF r
<1>5. /\ req'[t] = r /\ pc'[t] = IF by_path[p] = 0 THEN "allocate" ELSE "reply"
      /\ \A u \in Threads \ {t} : req'[u] = req[u] /\ pc'[u] = pc[u]
      /\ \A q \in Paths : q # p => tree'[q] = tree[q]
  BY <1>3 DEF Inv, TypeOK
<1>6. /\ Changes(t)' = {Front(p), p} /\ Reads(t)' = {Front(p)}
      /\ \A u \in Threads \ {t} : Changes(u)' = Changes(u) /\ Reads(u)' = Reads(u)
  BY <1>1, <1>4, <1>5 DEF Changes, Reads
<1>7. ASSUME NEW u \in Threads, pc[u] # "idle"
      PROVE  /\ req[u].name # p /\ p \notin Changes(u) \cup Reads(u)
             /\ Renaming(u) => req[u].to # p
  <2>1. req[u].name \in Paths /\ DirectoryKnown(req[u].name)
    BY <1>7, RequestKinds
  <2>2. req[u].name # p
    BY <1>1, <1>7 DEF Reads
  <2>3. \A q \in Paths : DirectoryKnown(q) => Front(q) # p
    BY <1>1, <1>4, KnownFacts, PathFacts DEF DirectoryKnown
  <2>4. CASE Resolving(u)
    <3>1. req[u].to \in {<< >>, req[u].name} /\ ~Renaming(u)
      BY <2>4, RequestKinds DEF ResolvesItsName
    <3> QED
      BY <1>7, <2>1, <2>2, <2>3, <3>1 DEF Changes, Reads
  <2>5. CASE Renaming(u)
    <3>1. req[u].to \in Paths /\ req[u].to # << >> /\ DirectoryKnown(req[u].to)
      BY <2>5, RequestKinds DEF RenamesAFile
    <3>2. Front(req[u].to) \in Changes(u)
      BY <3>1 DEF Changes
    <3>3. req[u].to # p
      BY <1>1, <3>2
    <3> QED
      BY <1>7, <2>1, <2>2, <2>3, <3>1, <3>3 DEF Changes, Reads
  <2> QED
    BY <1>7, <2>4, <2>5, RequestKinds
<1>8. Apart'
  <2>1. \A u \in Threads \ {t} : pc[u] # "idle" =>
          /\ Changes(u) \cap {Front(p), p} = {} /\ Reads(u) \cap {Front(p), p} = {}
    BY <1>1, <1>7
  <2> QED
    BY <1>1, <1>4, <1>5, <1>6, <1>7, <2>1 DEF Cache, Apart
<1>9. RequestsSound'
  <2>1. ASSUME NEW u \in Threads \ {t} PROVE RequestSound(u)'
    <3>1. Renaming(u)' => RenamesAFile(u)'
      <4>1. Renaming(u) => tree'[req[u].to] = tree[req[u].to]
        BY <1>5, <1>7, RequestKinds DEF Renaming, RenamesAFile
      <4> QED
        BY <1>1, <1>5, <4>1, RequestKinds DEF Renaming, RenamesAFile, DirectoryKnown
    <3>2. Resolving(u)' => ResolvesItsName(u)'
      BY <1>1, <1>5, RequestKinds DEF Resolving, ResolvesItsName
    <3> QED
      BY <1>1, <1>5, <3>1, <3>2 DEF Cache, RequestsSound, RequestSound, DirectoryKnown
  <2>2. ResolvesItsName(t)' /\ ~Renaming(t)'
    BY <1>1, <1>4, <1>5 DEF ResolvesItsName, Renaming
  <2>3. RequestSound(t)'
    BY <1>1, <1>4, <1>5, <2>2 DEF RequestSound, DirectoryKnown
  <2> QED
    BY <2>1, <2>3 DEF RequestsSound
<1>10. \A q \in Paths : InHand(q)' <=> InHand(q)
  BY <1>1, <1>5 DEF InHand, Renaming
<1>11. CacheTrue'
  BY <1>1, <1>5, <1>10 DEF Cache, CacheTrue
<1>12. CacheIndexed' /\ UnknownUnseen' /\ CacheConnected'
  BY <1>1 DEF Cache, CacheIndexed, UnknownUnseen, CacheConnected
<1> QED
  BY <1>8, <1>9, <1>11, <1>12 DEF Cache

LEMMA ReplyKeepsCache ==
    ASSUME Inv, Inv', Cache, NEW t \in Threads, Reply(t)
    PROVE  Cache'
<1>1. PICK n \in Paths : n = req[t].name
  BY RequestKinds DEF Reply
<1>2. /\ pc[t] = "reply" /\ Resolving(t) /\ ResolvesItsName(t) /\ DirectoryKnown(n)
      /\ req[t].path = n /\ by_path[n] = req[t].ino /\ req[t].ino # 0
      /\ UNCHANGED <<tree, slab, by_path>>
  BY <1>1, RequestKinds DEF Reply, Resolving, ResolvesItsName, mapvars
<1>3. /\ \A p \in Paths : dentry'[p] = IF p = n THEN req[t].ino ELSE dentry[p]
      /\ \A p \in Paths : seen'[p] = IF p = n THEN tree[n] ELSE seen[p]
      /\ pc'[t] = "idle" /\ req'[t] = NoRequest
      /\ \A u \in Threads \ {t} : req'[u] = req[u] /\ pc'[u] = pc[u]
  BY <1>1, <1>2 DEF Reply, Inv, TypeOK
<1>4. \A u \in Threads \ {t} : Changes(u)' = Changes(u) /\ Reads(u)' = Reads(u)
  BY <1>3 DEF Changes, Reads
<1>5. Apart'
  BY <1>3, <1>4 DEF Cache, Apart
<1>6. ASSUME NEW u \in Threads, Renaming(u)
      PROVE  u # t /\ n \notin {req[u].name, req[u].to}
  <2>1. u # t /\ pc[u] # "idle" /\ req[u].to # << >>
    BY <1>2, <1>6, RequestKinds DEF Resolving, Renaming
  <2> QED
    BY <1>1, <1>2, <2>1, ApartFacts
<1>7. ~InHand(n)
  BY <1>6 DEF InHand
<1>8. dentry[n] # 0 => dentry[n] = req[t].ino /\ seen[n] = tree[n]
  BY <1>2, <1>7 DEF Cache, CacheIndexed, CacheTrue
<1>9. \A p \in Paths : seen[p] \in Directories => seen'[p] = seen[p]
  BY <1>3, <1>8, KnownFacts
<1>10. \A p \in Paths : DirectoryKnown(p) => DirectoryKnown(p)'
  BY <1>9, PathFacts DEF DirectoryKnown
<1>11. RequestsSound'
  <2>1. ASSUME NEW u \in Threads \ {t} PROVE RequestSound(u)'
    <3>1. Renaming(u)' => RenamesAFile(u)'
      <4> SUFFICES ASSUME Renaming(u)' PROVE RenamesAFile(u)'
        OBVIOUS
      <4>1. Renaming(u) /\ RenamesAFile(u) /\ req[u].name \in Paths /\ req[u].to \in Paths
        BY <1>3, RequestKinds DEF Renaming, RenamesAFile
      <4>2. /\ dentry'[req[u].name] = dentry[req[u].name]
            /\ seen'[req[u].name] = seen[req[u].name] /\ seen'[req[u].to] = seen[req[u].to]
        BY <1>3, <1>6, <4>1
      <4>3. PICK q \in Paths : q = req[u].to
        BY <4>1
      <4>4. DirectoryKnown(q)'
        BY <1>10, <4>1, <4>3 DEF RenamesAFile
      <4> QED
        BY <1>2, <1>3, <4>1, <4>2, <4>3, <4>4 DEF RenamesAFile
    <3>2. Resolving(u)' => ResolvesItsName(u)'
      BY <1>2, <1>3, RequestKinds DEF Resolving, ResolvesItsName
    <3>3. pc'[u] # "idle" => \E q \in Paths : q = req'[u].name /\ DirectoryKnown(q)'
      BY <1>3, <1>10, RequestKinds
    <3> QED
      BY <1>3, <3>1, <3>2, <3>3 DEF Cache, RequestsSound, RequestSound
  <2>2. RequestSound(t)'
    BY <1>3 DEF RequestSound, Resolving, Renaming
  <2> QED
    BY <2>1, <2>2 DEF RequestsSound
<1>12. \A p \in Paths : InHand(p)' <=> InHand(p)
  BY <1>3, <1>6 DEF InHand, Renaming
<1>13. CacheIndexed' /\ UnknownUnseen'
  BY <1>2, <1>3 DEF Cache, CacheIndexed, UnknownUnseen
<1>14. CacheConnected'
  <2> SUFFICES ASSUME NEW p \in Paths, NEW a \in Paths, dentry'[p] # 0, Within(p, a)
               PROVE  seen'[a] \in Directories
    BY DEF CacheConnected
  <2>1. CASE p = n
    BY <1>2, <1>9, <2>1, KnownFacts
  <2>2. CASE p # n
    BY <1>3, <1>9, <2>2 DEF Cache, CacheConnected
  <2> QED
    BY <2>1, <2>2
<1>15. CacheTrue'
  BY <1>2, <1>3, <1>12 DEF Cache, CacheTrue
<1> QED
  BY <1>5, <1>11, <1>13, <1>14, <1>15 DEF Cache

(* A name with nothing known below it goes from the kernel's cache; no     *)
(* request works below it or renames it.                                   *)
LEMMA ForgottenKeepsCache ==
    ASSUME Inv, Inv', Cache, NEW n \in Paths, ~HasChildren(n),
           \A u \in Threads : n \notin Changes(u) \cup Reads(u),
           dentry' = [dentry EXCEPT ![n] = 0], seen' = [seen EXCEPT ![n] = Nothing],
           \A p \in Paths : p # n => tree'[p] = tree[p],
           UNCHANGED <<slab, by_path, pc, req>>
    PROVE  Cache'
<1>1. /\ \A p \in Paths : dentry'[p] = IF p = n THEN 0 ELSE dentry[p]
      /\ \A p \in Paths : seen'[p] = IF p = n THEN Nothing ELSE seen[p]
  BY DEF Inv, TypeOK
<1>2. \A u \in Threads : Changes(u)' = Changes(u) /\ Reads(u)' = Reads(u)
  BY DEF Changes, Reads
<1>3. Apart'
  BY <1>2 DEF Cache, Apart
<1>4. ASSUME NEW u \in Threads, Renaming(u)
      PROVE  req[u].name # n /\ req[u].to # n /\ Front(req[u].to) # n
  <2>1. req[u].to # << >>
    BY <1>4, RequestKinds
  <2> QED
    BY <2>1 DEF Changes
<1>5. ASSUME NEW u \in Threads PROVE RequestSound(u)'
  <2>1. pc'[u] # "idle" => \E q \in Paths : q = req'[u].name /\ DirectoryKnown(q)'
    <3> SUFFICES ASSUME pc[u] # "idle"
                 PROVE  \E q \in Paths : q = req'[u].name /\ DirectoryKnown(q)'
      OBVIOUS
    <3>1. PICK q \in Paths : q = req[u].name /\ DirectoryKnown(q) /\ Front(q) # n
      BY RequestKinds DEF Reads
    <3> QED
      BY <1>1, <3>1, PathFacts DEF DirectoryKnown
  <2>2. Renaming(u)' => RenamesAFile(u)'
    <3> SUFFICES ASSUME Renaming(u)' PROVE RenamesAFile(u)'
      OBVIOUS
    <3>1. Renaming(u) /\ RenamesAFile(u) /\ req[u].name \in Paths /\ req[u].to \in Paths
      BY RequestKinds DEF Renaming, RenamesAFile
    <3>2. DirectoryKnown(req[u].to)'
      BY <1>1, <1>4, <3>1, PathFacts DEF DirectoryKnown, RenamesAFile
    <3> QED
      BY <1>1, <1>4, <3>1, <3>2 DEF RenamesAFile
  <2>3. Resolving(u)' => ResolvesItsName(u)'
    BY RequestKinds DEF Resolving, ResolvesItsName
  <2> QED
    BY <2>1, <2>2, <2>3 DEF Cache, RequestsSound, RequestSound
<1>6. CacheIndexed' /\ UnknownUnseen'
  BY <1>1 DEF Cache, CacheIndexed, UnknownUnseen
<1>7. CacheConnected'
  BY <1>1 DEF Cache, CacheConnected, HasChildren
<1>8. CacheTrue'
  BY <1>1 DEF Cache, CacheTrue, InHand, Renaming
<1> QED
  BY <1>3, <1>5, <1>6, <1>7, <1>8 DEF Cache, RequestsSound

LEMMA ForgetKeepsCache ==
    ASSUME Inv, Inv', Cache, NEW p \in Paths, Forget(p) \/ Unlink(p)
    PROVE  Cache'
<1>1. CASE Forget(p)
  BY <1>1, ForgottenKeepsCache DEF Forget, mapvars
<1>2. CASE Unlink(p)
  <2>1. HandlerPath(p) = p
    BY <1>2, KnownFacts, HandlerPathIs DEF Unlink
  <2>2. \A q \in Paths : q # p => tree'[q] = tree[q]
    BY <1>2, <2>1 DEF Unlink, Inv, TypeOK
  <2>3. \A u \in Threads : p \notin Changes(u) \cup Reads(u)
    BY <1>2 DEF Unlink, MayChange
  <2> QED
    BY <1>2, <2>2, <2>3, ForgottenKeepsCache DEF Unlink, mapvars
<1> QED
  BY <1>1, <1>2

LEMMA RenameKeepsCache ==
    ASSUME ~DirectoryRenames, ~NestingRenames, Inv, Inv', Cache,
           NEW t \in Threads, NEW p \in Paths, NEW q \in Paths, Rename(t, p, q)
    PROVE  Cache'
<1>1. /\ pc[t] = "idle" /\ dentry[p] # 0 /\ p # q /\ ~IsPrefix(p, q) /\ ~IsPrefix(q, p)
      /\ ~HasChildren(q) /\ seen[p] \notin Directories
      /\ DirectoryKnown(p) /\ DirectoryKnown(q) /\ p # << >> /\ q # << >>
      /\ \A u \in Threads :
            {Front(p), Front(q), p, q} \cap (Changes(u) \cup Reads(u)) = {}
      /\ UNCHANGED <<slab, by_path, dentry, seen>>
  BY KnownFacts, InodeMapAssumption DEF Rename, MayChange, mapvars, kernelvars
<1>2. PathFor(InodeOf(Front(p))) = Front(p) /\ PathFor(InodeOf(Front(q))) = Front(q)
  BY <1>1, HandlerPathIs
<1>3. /\ Append(Front(p), Last(p)) = p /\ Append(Front(q), Last(q)) = q
      /\ ~Nests(p, q, Front(p), Front(q))
  BY <1>2, PathFacts DEF Rename
<1>4. Destination(p, q, Front(p), Front(q)) = q
  BY <1>3 DEF Destination
<1> DEFINE r == [NoRequest EXCEPT !.name = p, !.to = q, !.path = p, !.dst = q]
<1>5. /\ Movable(p, q) /\ tree' = Moved(p, q, tree, Nothing)
      /\ pc' = [pc EXCEPT ![t] = "find"]
      /\ req' = [req EXCEPT ![t] = r]
  BY <1>2, <1>3, <1>4 DEF Rename
<1>6. r.name = p /\ r.to = q /\ r.path = p /\ r.dst = q
  BY DEF NoRequest
<1> HIDE DEF r
<1>7. /\ pc'[t] = "find" /\ req'[t] = r
      /\ \A u \in Threads \ {t} : req'[u] = req[u] /\ pc'[u] = pc[u]
  BY <1>5 DEF Inv, TypeOK
<1>8. /\ tree'[q] = tree[p]
      /\ \A c \in Paths : c \notin {p, q} /\ ~Within(c, p) /\ ~Within(c, q)
            => tree'[c] = tree[c]
  BY <1>5, MovedRest
<1>9. /\ Changes(t)' = {Front(p), Front(q), p, q} /\ Reads(t)' = {Front(p)}
      /\ \A u \in Threads \ {t} : Changes(u)' = Changes(u) /\ Reads(u)' = Reads(u)
  BY <1>1, <1>6, <1>7 DEF Changes, Reads
<1>10. Apart'
  <2>1. \A u \in Threads : pc[u] # "idle" => req[u].name # p
    BY <1>1 DEF Reads
  <2> QED
    BY <1>1, <1>6, <1>7, <1>9, <2>1 DEF Cache, Apart
<1>11. ~InHand(p) /\ ~InHand(q)
  BY <1>1, NotInHand
<1>12. tree[p] = seen[p]
  BY <1>1, <1>11 DEF Cache, CacheTrue
<1>13. seen[q] \notin Directories
  <2>1. CASE dentry[q] = 0
    BY <2>1, KnownFacts
  <2>2. CASE dentry[q] # 0
    <3>1. tree[q] = seen[q]
      BY <1>11, <2>2 DEF Cache, CacheTrue
    <3> QED
      BY <1>1, <1>5, <1>12, <3>1, InodeMapAssumption DEF Movable
  <2> QED
    BY <2>1, <2>2
(* What the kernel knows, or works towards, is not below either name.      *)
<1>14. ASSUME NEW c \in Paths, dentry[c] # 0
       PROVE  ~Within(c, p) /\ ~Within(c, q)
  BY <1>1, <1>14 DEF Cache, CacheConnected, HasChildren
<1>15. ASSUME NEW u \in Threads, Renaming(u)
       PROVE  tree'[req[u].to] = tree[req[u].to]
  <2>1. PICK c \in Paths : c = req[u].to
    BY <1>15, RequestKinds DEF RenamesAFile
  <2>2. c # << >> /\ {Front(c), c} \subseteq Changes(u) /\ DirectoryKnown(c)
    BY <1>15, <2>1, RequestKinds DEF RenamesAFile, Changes
  <2>3. c \notin {p, q} /\ Front(c) \notin {p, q}
    BY <1>1, <2>2
  <2>4. ASSUME NEW a \in {p, q} PROVE ~Within(c, a)
    <3> SUFFICES ASSUME Within(c, a) PROVE FALSE
      OBVIOUS
    <3>1. Len(c) > 1 /\ Within(Front(c), a)
      BY <2>3, AboveFacts
    <3>2. Front(c) \in Paths /\ dentry[Front(c)] # 0
      BY <2>2, <3>1, PathFacts, KnownFacts DEF DirectoryKnown
    <3> QED
      BY <1>14, <3>1, <3>2
  <2> QED
    BY <1>8, <2>1, <2>3, <2>4
<1>16. RequestsSound'
  <2>1. ASSUME NEW u \in Threads \ {t} PROVE RequestSound(u)'
    <3>1. Renaming(u)' => RenamesAFile(u)'
      BY <1>1, <1>7, <1>15, RequestKinds DEF Renaming, RenamesAFile, DirectoryKnown
    <3>2. Resolving(u)' => ResolvesItsName(u)'
      BY <1>1, <1>7, RequestKinds DEF Resolving, ResolvesItsName
    <3> QED
      BY <1>1, <1>7, <3>1, <3>2 DEF Cache, RequestsSound, RequestSound, DirectoryKnown
  <2>2. RenamesAFile(t)' /\ ~Resolving(t)'
    BY <1>1, <1>6, <1>7, <1>8, <1>12, <1>13 DEF RenamesAFile, Resolving, DirectoryKnown
  <2>3. RequestSound(t)'
    BY <1>1, <1>6, <1>7, <2>2 DEF RequestSound, DirectoryKnown
  <2> QED
    BY <2>1, <2>3 DEF RequestsSound
<1>17. CacheTrue'
  <2> SUFFICES ASSUME NEW c \in Paths, dentry[c] # 0, ~InHand(c)'
               PROVE  tree'[c] = seen[c]
    BY <1>1 DEF CacheTrue
  <2>1. Renaming(t)' /\ ~Renaming(t)
    BY <1>1, <1>7 DEF Renaming
  <2>2. c \notin {p, q}
    BY <1>6, <1>7, <2>1 DEF InHand
  <2>3. ~InHand(c)
    BY <1>1, <1>7, <2>1 DEF InHand, Renaming
  <2> QED
    BY <1>8, <1>14, <2>2, <2>3 DEF Cache, CacheTrue
<1>18. CacheIndexed' /\ UnknownUnseen' /\ CacheConnected'
  BY <1>1 DEF Cache, CacheIndexed, UnknownUnseen, CacheConnected
<1> QED
  BY <1>10, <1>16, <1>17, <1>18 DEF Cache

LEMMA UpdateKeepsCache ==
    ASSUME Inv, Inv', Cache, NEW t \in Threads, Update(t)
    PROVE  Cache'
<1>1. PICK n \in Paths, m \in Paths : n = req[t].name /\ m = req[t].to
  BY RequestKinds DEF Update, Renaming, RenamesAFile
<1>2. /\ pc[t] = "update" /\ Renaming(t) /\ req[t].dst = m /\ req[t].ino = dentry[n]
      /\ ~IsPrefix(n, m) /\ ~IsPrefix(m, n) /\ dentry[n] # 0
      /\ seen[n] \notin Directories /\ seen[m] \notin Directories
      /\ tree[m] = seen[n] /\ DirectoryKnown(m) /\ DirectoryKnown(n) /\ tree' = tree
  BY <1>1, RequestKinds DEF Update, Renaming, RenamesAFile
<1>3. n # m
  BY <1>2, PrefixElements, PathFacts
<1>4. by_path[n] = dentry[n] /\ slab[dentry[n]] = n /\ dentry[n] \in Inodes
  BY <1>2 DEF Cache, CacheIndexed, Inv, IndexMatchesEntries, TypeOK
<1>5. \A p \in Paths : by_path'[p] = IF p = m THEN dentry[n] ELSE IF p = n THEN 0 ELSE by_path[p]
  BY <1>2, <1>4 DEF Update, update
<1>6. \A c \in Paths : Within(c, n) \/ Within(c, m) => dentry[c] = 0 /\ seen[c] = Nothing
  BY <1>2 DEF Cache, CacheConnected, UnknownUnseen
<1>7. /\ \A c \in Paths : dentry'[c] = IF c = m THEN dentry[n] ELSE IF c = n THEN 0 ELSE dentry[c]
      /\ \A c \in Paths : seen'[c] = IF c = m THEN seen[n] ELSE IF c = n THEN Nothing ELSE seen[c]
  <2>1. /\ dentry' = Moved(n, m, dentry, 0) /\ seen' = Moved(n, m, seen, Nothing)
        /\ dentry \in [Paths -> Inodes \cup {0}] /\ seen \in [Paths -> Objects \cup {Nothing}]
    BY <1>1 DEF Update, Inv, TypeOK
  <2>2. \A c \in Paths : dentry'[c] = IF c = m THEN dentry[n] ELSE IF c = n THEN 0 ELSE dentry[c]
    <3>1. \A c \in Paths : Within(c, n) \/ Within(c, m) => dentry[c] = 0
      BY <1>6
    <3>2. \A c \in Paths : Moved(n, m, dentry, 0)[c] =
             IF c = m THEN dentry[n] ELSE IF c = n THEN 0 ELSE dentry[c]
      BY <1>2, <2>1, <3>1, MovedFile
    <3> QED
      BY <2>1, <3>2
  <2>3. \A c \in Paths : seen'[c] = IF c = m THEN seen[n] ELSE IF c = n THEN Nothing ELSE seen[c]
    <3>1. \A c \in Paths : Within(c, n) \/ Within(c, m) => seen[c] = Nothing
      BY <1>6
    <3>2. \A c \in Paths : Moved(n, m, seen, Nothing)[c] =
             IF c = m THEN seen[n] ELSE IF c = n THEN Nothing ELSE seen[c]
      BY <1>2, <2>1, <3>1, MovedFile
    <3> QED
      BY <2>1, <3>2
  <2> QED
    BY <2>2, <2>3
<1>8. /\ pc'[t] = "idle" /\ req'[t] = NoRequest
      /\ \A u \in Threads \ {t} : req'[u] = req[u] /\ pc'[u] = pc[u]
  BY DEF Update, Inv, TypeOK
<1>9. \A u \in Threads \ {t} : Changes(u)' = Changes(u) /\ Reads(u)' = Reads(u)
  BY <1>8 DEF Changes, Reads
<1>10. Apart'
  BY <1>8, <1>9 DEF Cache, Apart
<1>11. \A p \in Paths : seen[p] \in Directories => seen'[p] = seen[p]
  BY <1>2, <1>7
<1>12. \A p \in Paths : DirectoryKnown(p) => DirectoryKnown(p)'
  BY <1>11, PathFacts DEF DirectoryKnown
<1>13. ASSUME NEW u \in Threads \ {t}, pc[u] # "idle"
       PROVE  /\ req[u].name \notin {n, m}
              /\ Renaming(u) => req[u].to \notin {n, m}
  <2>1. pc[t] # "idle" /\ req[t].to # << >>
    BY <1>2, RequestKinds
  <2>2. Renaming(u) => req[u].to # << >>
    BY RequestKinds
  <2> QED
    BY <1>1, <1>13, <2>1, <2>2, ApartFacts
<1>14. RequestsSound'
  <2>1. ASSUME NEW u \in Threads \ {t} PROVE RequestSound(u)'
    <3>1. Renaming(u)' => RenamesAFile(u)'
      <4> SUFFICES ASSUME Renaming(u)' PROVE RenamesAFile(u)'
        OBVIOUS
      <4>1. /\ Renaming(u) /\ RenamesAFile(u) /\ pc[u] # "idle"
            /\ req[u].name \in Paths /\ req[u].to \in Paths
        BY <1>8, RequestKinds DEF Renaming, RenamesAFile
      <4>2. /\ dentry'[req[u].name] = dentry[req[u].name]
            /\ seen'[req[u].name] = seen[req[u].name] /\ seen'[req[u].to] = seen[req[u].to]
        BY <1>7, <1>13, <4>1
      <4>3. PICK c \in Paths : c = req[u].to
        BY <4>1
      <4>4. DirectoryKnown(c)'
        BY <1>12, <4>1, <4>3 DEF RenamesAFile
      <4> QED
        BY <1>2, <1>8, <4>1, <4>2, <4>3, <4>4 DEF RenamesAFile
    <3>2. Resolving(u)' => ResolvesItsName(u)'
      <4> SUFFICES ASSUME Resolving(u)' PROVE ResolvesItsName(u)'
        OBVIOUS
      <4>1. Resolving(u) /\ ResolvesItsName(u) /\ pc[u] # "idle" /\ req[u].name \in Paths
        BY <1>8, RequestKinds DEF Resolving
      <4>2. by_path'[req[u].name] = by_path[req[u].name]
        BY <1>5, <1>13, <4>1
      <4> QED
        BY <1>8, <4>1, <4>2 DEF ResolvesItsName
    <3>3. pc'[u] # "idle" => \E c \in Paths : c = req'[u].name /\ DirectoryKnown(c)'
      BY <1>8, <1>12, RequestKinds
    <3> QED
      BY <1>8, <3>1, <3>2, <3>3 DEF Cache, RequestsSound, RequestSound
  <2>2. RequestSound(t)'
    BY <1>8 DEF RequestSound, Resolving, Renaming
  <2> QED
    BY <2>1, <2>2 DEF RequestsSound
<1>15. CacheIndexed' /\ UnknownUnseen'
  BY <1>2, <1>5, <1>7 DEF Cache, CacheIndexed, UnknownUnseen
<1>16. CacheConnected'
  <2> SUFFICES ASSUME NEW c \in Paths, NEW a \in Paths, dentry'[c] # 0, Within(c, a)
               PROVE  seen'[a] \in Directories
    BY DEF CacheConnected
  <2>1. CASE c = m
    BY <1>2, <1>11, <2>1, KnownFacts
  <2>2. CASE c # m
    BY <1>7, <1>11, <2>2 DEF Cache, CacheConnected
  <2> QED
    BY <2>1, <2>2
<1>17. CacheTrue'
  <2> SUFFICES ASSUME NEW c \in Paths, dentry'[c] # 0, ~InHand(c)'
               PROVE  tree[c] = seen'[c]
    BY <1>2 DEF CacheTrue
  <2>1. CASE c = m
    BY <1>2, <1>7, <2>1
  <2>2. CASE c # m
    <3>1. c # n /\ dentry[c] # 0 /\ seen'[c] = seen[c]
      BY <1>7, <2>2
    <3>2. ASSUME NEW u \in Threads, Renaming(u), c \in {req[u].name, req[u].to}
          PROVE  FALSE
      <4>1. CASE u = t
        BY <1>1, <2>2, <3>1, <3>2, <4>1
      <4>2. CASE u # t
        BY <1>8, <3>2, <4>2 DEF InHand, Renaming
      <4> QED
        BY <4>1, <4>2
    <3>3. ~InHand(c)
      BY <3>2 DEF InHand
    <3> QED
      BY <3>1, <3>3 DEF Cache, CacheTrue
  <2> QED
    BY <2>1, <2>2
<1> QED
  BY <1>10, <1>14, <1>15, <1>16, <1>17 DEF Cache

LEMMA CacheStep ==
    ASSUME ~OverlappingLookups, ~DirectoryRenames, ~NestingRenames,
           Inv, Inv', Cache, [Next]_vars
    PROVE  Cache'
<1>1. CASE Next
  BY <1>1, ResolveKeepsCache, CreateKeepsCache, RenameKeepsCache, AllocateKeepsCache,
     ReplyKeepsCache, FindKeepsCache, UpdateKeepsCache, ForgetKeepsCache
  DEF Next
<1>2. CASE UNCHANGED vars
  <2>1. UNCHANGED <<tree, slab, by_path, dentry, seen, pc, req>>
    BY <1>2 DEF vars
  <2>2. Apart'
    BY <2>1 DEF Cache, Apart, Changes, Reads
  <2>3. RequestsSound'
    BY <2>1 DEF Cache, RequestsSound, RequestSound, Resolving, Renaming, ResolvesItsName,
       RenamesAFile, DirectoryKnown
  <2>4. CacheIndexed'
    BY <2>1 DEF Cache, CacheIndexed
  <2>5. \A u \in Threads : Renaming(u)' <=> Renaming(u)
    BY <2>1 DEF Renaming
  <2> QED
    BY <2>1, <2>2, <2>3, <2>4, <2>5, QuietKeepsCache
<1> QED
  BY <1>1, <1>2

LEMMA CacheInit == Init => Cache
<1> SUFFICES ASSUME Init PROVE Cache
  OBVIOUS
<1>1. Apart /\ CacheIndexed /\ UnknownUnseen /\ CacheConnected /\ CacheTrue
  BY DEF Init, Apart, CacheIndexed, UnknownUnseen, CacheConnected, CacheTrue
<1>2. RequestsSound
  BY DEF Init, RequestsSound, RequestSound, Resolving, Renaming
<1> QED
  BY <1>1, <1>2 DEF Cache

LEMMA CacheHolds ==
    ASSUME ~OverlappingLookups, ~DirectoryRenames, ~NestingRenames
    PROVE  Spec => [](Inv /\ Cache)
<1>1. Init => Inv /\ Cache
  BY Initial, CacheInit
<1>2. Inv /\ Cache /\ [Next]_vars => Inv' /\ Cache'
  BY Step, CacheStep
<1> QED
  BY <1>1, <1>2, PTL DEF Spec

(* Every variable keeps its type, whichever renames and lookups are let    *)
(* through.                                                                *)
THEOREM TypeCorrect == Spec => []TypeOK
<1>1. Inv => TypeOK
  BY DEF Inv
<1> QED
  BY Initial, Step, <1>1, PTL DEF Spec

(* An inode the kernel knows by a name resolves to that name in every      *)
(* request, for any number of names and workers, as long as one name is    *)
(* looked up once at a time, no directory is renamed and no rename is      *)
(* redirected.                                                             *)
THEOREM KernelAndMapAgree ==
    ASSUME ~OverlappingLookups, ~DirectoryRenames, ~NestingRenames
    PROVE  Spec => []KernelAgrees
<1>1. Inv /\ Cache => KernelAgrees
  <2> SUFFICES ASSUME Inv, Cache, NEW p \in Paths, dentry[p] # 0
               PROVE  slab[dentry[p]] = p
    BY DEF KernelAgrees
  <2>1. by_path[p] = dentry[p]
    BY DEF Cache, CacheIndexed
  <2> QED
    BY <2>1 DEF Inv, IndexMatchesEntries
<1> QED
  BY CacheHolds, <1>1, PTL

(* Under the same assumptions a cached name leads to the file it was found *)
(* to be, through every rename of it and of what was in its way.           *)
THEOREM NamesKeepTheirFile ==
    ASSUME ~OverlappingLookups, ~DirectoryRenames, ~NestingRenames
    PROVE  Spec => []NamesReachTheirFile
<1>1. Inv /\ Cache => NamesReachTheirFile
  <2> SUFFICES ASSUME Inv, Cache, NEW p \in Paths, dentry[p] # 0,
                      \A t \in Threads : pc[t] \notin {"find", "update"}
               PROVE  tree[slab[dentry[p]]] = seen[p]
    BY DEF NamesReachTheirFile
  <2>1. by_path[p] = dentry[p] /\ slab[dentry[p]] = p
    BY DEF Cache, CacheIndexed, Inv, IndexMatchesEntries
  <2>2. ~InHand(p)
    BY DEF InHand, Renaming
  <2> QED
    BY <2>1, <2>2 DEF Cache, CacheTrue
<1> QED
  BY CacheHolds, <1>1, PTL
=============================================================================
