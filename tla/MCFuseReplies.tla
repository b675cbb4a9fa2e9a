--------------------------- MODULE MCFuseReplies ---------------------------
(***************************************************************************)
(* One inode through every short course of requests, and what its answers  *)
(* promise each other.                                                     *)
(***************************************************************************)
EXTENDS FuseReplies, TLC

MaxNow == 6        \* bound: the clock
MaxHandles == 2    \* bound: handles open on the inode

Node(kind, readable, size, writable, given, cache, attributable, target) ==
    [kind |-> kind, readable |-> readable, size |-> size, writable |-> writable, unlinkable |-> FALSE,
     given |-> given, cache |-> cache, attributable |-> attributable, target |-> target]
NoAttributes == [name \in {} |-> <<>>]
Sink == Node("file", "no", None, TRUE, None, Ttl(2), NoAttributes, None)
RealFile == Node("file", "backed", None, TRUE, None, Default, NoAttributes, None)
RealDir == Node("dir", "backed", None, FALSE, None, Default, NoAttributes, None)
EditDir == Node("dir", "no", None, FALSE, Some({"r", "w", "x"}), Default, NoAttributes, None)
Listing == Node("file", "virtual", None, FALSE, None, NoCache, <<"user", "a">> :> <<1, 2>>, None)
Body == Node("file", "virtual", Some(7), TRUE, None, Default, <<"user", "a">> :> <<>>, None)
Link == Node("link", "no", None, FALSE, None, NoCache, NoAttributes, "there")

Meta(size, mode) == [size |-> size, mode |-> mode, atime |-> 1, mtime |-> 2]
Fresh(chain, meta) ==
    [now |-> 0, slot |-> Unbound, chain |-> chain, meta |-> meta, error |-> None, atime |-> None, handles |-> 0]
Inodes == {Fresh(None, None)}
          \cup {Fresh(Some(node), None) : node \in {RealFile, EditDir, Listing, Body, Link}}
          \cup {Fresh(Some(RealFile), Some(Meta(9, 33188))), Fresh(Some(RealDir), Some(Meta(0, 16877)))}
Requests(w) == OneRequest(w, Sink, MaxNow, MaxHandles)

(* Every attribute that is listed can be got, by asking for its size first *)
(* and for as much then; the error is there from a failed flush to the     *)
(* next good one or the last release.                                      *)
XattrsAgree(w) ==
    LET s == w.s
        asked(name) == do_getxattr(s, name, 0)
        Sized(ask(_), len) ==
            /\ len > 0 => ask(len).errno = "ok" /\ Len(ask(len).v) = len
            /\ len > 1 => ask(len - 1).errno = "ERANGE"
    IN /\ \A name \in {XATTR_ERROR, <<"user", "a">>, <<"security", "a">>} :
            (name \in ListedNames(s)) = (asked(name).errno = "ok")
       /\ \A name \in ListedNames(s) : Sized(LAMBDA size : do_getxattr(s, name, size), asked(name).v)
       /\ Sized(LAMBDA size : do_listxattr(s, size), do_listxattr(s, 0).v)
       /\ (XATTR_ERROR \in ListedNames(s)) = w.failed

(* A time set is shown until the last handle is closed, on real files.     *)
AttributesShow(s) ==
    lookup_node(s) # None =>
        LET attr == resolve_attr(s)[1].attr
            node == lookup_node(s)[1]
        IN /\ (attr.size = 0) => (node.readable = "no" \/ node.kind # "file" \/ (Backed(node) /\ s.meta # None))
           /\ (attr.atime = 5) = (s.atime # None /\ Backed(node) /\ s.meta # None)

----------------------------------------------------------------------------
(* However little room the kernel has, it is given every name once.        *)
Numbers(n) == [i \in 1 .. n |-> i]
RECURSIVE Pages(_, _, _, _, _)
Pages(nodes, offset, rooms, shown, plus) ==
    LET page == IF plus THEN readdirplus(nodes, offset, rooms[1], shown) ELSE readdir(nodes, offset, rooms[1])
    IN IF page = <<>> THEN <<>>
       ELSE page \o Pages(nodes, Last(page).at, Append(Tail(rooms), rooms[1]), shown, plus)
ListingIsWhole(n, rooms) ==
    \A plus \in BOOLEAN, shown \in SUBSET {".", ".."} :
        LET dots == IF plus THEN SelectSeq(<<".", "..">>, LAMBDA d : d \in shown) ELSE <<".", "..">>
            got == Pages(Numbers(n), 0, rooms, shown, plus)
        IN /\ SubSeq([i \in DOMAIN got |-> got[i].name], Len(dots) + 1, Len(got)) = Numbers(n)
           /\ SubSeq([i \in DOMAIN got |-> got[i].name], 1, Len(dots)) = dots

(* A path that changed, or an event names, is invalidated with its name in *)
(* its directory, as far as the kernel knows them; nothing else is.  Of a  *)
(* path in the root only the inode is: invalidate_inode_at looks the       *)
(* directory up by its name and the root has none, whatever its doc says   *)
(* of the parent's entry.                                                  *)
Tree == {<<"a">>, <<"b">>, <<"a", "x">>, <<"a", "y">>}
Known(paths) == [p \in paths |-> CHOOSE i \in 2 .. 9 : i = Len(p) * 2 + (IF Last(p) \in {"a", "x"} THEN 0 ELSE 1)]
SentFor(paths, inodes) ==
    {InvalInode(inodes[p]) : p \in {p \in paths : p \in DOMAIN inodes}}
    \cup {InvalEntry(inodes[Front(p)], Last(p)) : p \in {p \in paths : Len(p) > 1 /\ Front(p) \in DOMAIN inodes}}
Sends(paths, affected, event) ==
    LET sent == propagate_source_changes(affected, <<event>>, Known(paths))
    IN /\ ToSet(sent) = SentFor(ToSet(affected) \cup {event}, Known(paths))
       /\ \A capacity \in {1, 3, 6} :
            LET queued == FoldLeft(LAMBDA q, msg : try_send(q, msg, capacity), <<>>, sent)
            IN IsPrefix(queued, sent) /\ Len(queued) = Len(Fit(sent, capacity))
=============================================================================
