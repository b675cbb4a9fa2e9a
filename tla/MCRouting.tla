----------------------------- MODULE MCRouting -----------------------------
(***************************************************************************)
(* A small mount for Routing: two files that can be parsed, one of them in *)
(* a directory, a text, an ignored file and a link on disk, a repository   *)
(* with four branches, and a language server for one extension.           *)
(***************************************************************************)
EXTENDS Routing

AtRoot(name) == <<name>>
a_rs == AtRoot(<<"a", ".rs">>)
b_md == <<<<"d">>, <<"b", ".md">>>>
c_txt == AtRoot(<<"c", ".txt">>)

MCFiles == {a_rs, b_md, c_txt, AtRoot(<<"c", ".txt", ":2">>), AtRoot(<<"i", ".rs">>)}
MCFolders == {<<>>, AtRoot(<<"d">>)}
MCRealLinks == AtRoot(<<"l">>) :> AtRoot(<<"d">>)
MCIgnored == {AtRoot(<<"i", ".rs">>)}

Unnamed(kind, from, to) == Frag(kind, NoName, from, to, <<>>)
MCSources ==
    a_rs :> assign_fs_names(
        <<Unnamed("docstring", 0, 1), Unnamed("imports", 1, 2), Frag("type", <<"Foo">>, 2, 4, <<>>),
          Frag("impl", <<"Foo">>, 4, 7, <<Unnamed("docstring", 4, 5), Frag("fn", <<"new">>, 5, 6, <<>>)>>),
          Frag("fn", <<"main">>, 7, 8, <<>>)>>, "identity", "kind")
    @@ b_md :> assign_fs_names(
        <<Frag("section", <<"Intro">>, 0, 4,
               <<Frag("codeblock", NoName, 1, 3, <<>>), Frag("section", <<"Use">>, 3, 4, <<>>)>>)>>,
        "slugified", "numbered")

MCCommits ==
    "c1" :> [parent |-> NoParent, tree |-> {a_rs, b_md}, touched |-> (a_rs :> {1, 3} @@ b_md :> {2})]
    @@ "c2" :> [parent |-> "c1", tree |-> {a_rs}, touched |-> (a_rs :> {4})]
    @@ "c3" :> [parent |-> "c1", tree |-> {b_md}, touched |-> (b_md :> {1})]
MCBranches == <<<<"main">>>> :> "c2" @@ <<<<"old">>>> :> "c1" @@ <<<<"feat">>, <<"x">>>> :> "c1" @@ <<<<"feat">>, <<"y">>>> :> "c3"
MCHead == <<<<"main">>>>
MCTags == <<<<"v1">>>>

MCServers == ".rs" :> {"definition", "doc", "actions", "hierarchy"}
Place(file, line, name) == [file |-> file, line |-> line, name |-> name]
MCTargets == [f \in ToSet(Features) |-> <<Place(a_rs, 4, <<"new">>), Place(a_rs, 6, <<>>),
                                          Place(b_md, 2, <<>>), Place(a_rs, 4, <<"new">>),
                                          Place(c_txt, 1, <<>>)>>]
MCActions == <<<<"inline">>, <<>>, <<"extract">>>>
MCWorkspaceSymbols == <<"n">> :> <<[file |-> a_rs, line |-> 4, name |-> <<"new">>]>>

MCSkills == <<"commit">> :> {<<"style", ".md">>} @@ <<"review">> :> {}
MCPolicy == [unknown |-> "none", claude |-> "Force", git |-> "Hidden"]

TodoLine(lead, tag, delim, colon, closes, text) ==
    [lead |-> lead, tag |-> tag, before |-> delim, comment |-> TRUE, colon |-> colon,
     closes |-> closes, text |-> text]
MCTagsOrder == <<"FIXME", "TODO">>
MCIndexPaths == <<a_rs, b_md, c_txt>>
MCLinesOf ==
    a_rs :> <<TodoLine("//", "TODO", "", TRUE, FALSE, <<"t1">>), TodoLine("//", "", "", FALSE, FALSE, <<"t2">>),
              TodoLine("code", "FIXME", "//", TRUE, FALSE, <<"t3">>), TodoLine("code", "", "", FALSE, FALSE, <<"t4">>),
              TodoLine("/*", "TODO", "", TRUE, FALSE, <<>>), TodoLine("*", "", "", FALSE, TRUE, <<"t5">>),
              TodoLine("#", "TODO", "", FALSE, FALSE, <<"t6">>)>>
    @@ b_md :> <<TodoLine("code", "FIXME", "", TRUE, FALSE, <<"t7">>), TodoLine("#", "FIXME", "", TRUE, FALSE, <<"t8">>)>>

----------------------------------------------------------------------------
(* The walk through the mount: what is listed, and what is there for the   *)
(* asking.                                                                 *)

Unlisted(path) ==
    IF path = <<>> THEN {<<"@">>, <<"d", "@">>}
    ELSE IF \E i \in DOMAIN path : i < Len(path) /\ path[i] = <<"symbols">>
         THEN {<<"edit">>, <<"rename">>} ELSE {<<"n">>}
Enterable(who, path) ==
    {name \in {n.name : n \in ToSet(readdir(who, path))} \cup Unlisted(path) :
        \E n \in ToSet(lookup(who, path, name)) : n.kind = "dir"}

(* The directories whose lookups find the first of their entries.          *)
FindsFirst(path) ==
    \/ Last(path) = <<"history">> /\ <<"symbols">> \notin ToSet(path)
    \/ Len(path) > 3 /\ SubSeq(path, 1, 3) = <<<<"@">>, <<"git">>, <<"branches">>>>

SameNode(found, listed) ==
    /\ Len(found) = 1 /\ found[1].name = listed.name /\ found[1].kind = listed.kind
    /\ \A slot \in {"readable", "target"} \cap DOMAIN listed.slots :
          has(found[1], slot) /\ found[1].slots[slot] = listed.slots[slot]

Follow(path, target) ==
    FoldLeft(LAMBDA at, name : IF name = <<"..">> THEN Front(at) ELSE Append(at, name), path, target)

(* Lines of a file that cannot be parsed are nowhere to be read.           *)
Resolves(who, path, target) ==
    LET end == Follow(path, target)
    IN \/ lookup(who, Front(end), Last(end)) # <<>>
       \/ Last(end)[1] = "lines" /\ ~\E file \in DOMAIN Sources : IsPrefix(companion_of(file), end)

(* What a directory lists can be looked up, as what it is listed as; the   *)
(* links among it lead somewhere; and lines of a file are lines of it.     *)
ListedCanBeFound(who, path) ==
    (path = <<>> \/ ~FindsFirst(path)) =>
      \A n \in ToSet(readdir(who, path)) :
        /\ SameNode(lookup(who, path, n.name), n)
        /\ n.kind = "link" => Resolves(who, path, n.slots["target"].file)

----------------------------------------------------------------------------
(* Removals, creations and renamings.                                      *)

Inside(path) == \E i \in DOMAIN path : HasSuffix(path[i])
Stripped(names) == [i \in DOMAIN names |-> strip(names[i])]

(* The file whose companion directory a path is in, and the way in it.     *)
WayIn(path) ==
    LET first == Smallest({i \in DOMAIN path : HasSuffix(path[i])})
        file == Stripped(SubSeq(path, 1, first))
    IN [file |-> IF Last(file) = <<>> THEN Front(file) ELSE file,
        rest |-> Stripped(SubSeq(path, first + 1, Len(path)))]

(* The innermost fragment on a way.                                        *)
FragmentOn(file, rest) ==
    IF rest[1] # <<"symbols">> THEN <<>>
    ELSE LET n == Largest({0} \cup {i \in 1 .. Len(rest) - 1 : has_fragment(file, SubSeq(rest, 2, i + 1))})
         IN SubSeq(rest, 2, n + 1)

(* What was done was done to what a path names: the file, and the fragment *)
(* or the branch.                                                          *)
IsAbout(cap, path) ==
    LET way == WayIn(path)
    IN IF cap.act \in {"branch_remove", "branch_rename"}
       THEN way.rest = <<<<"git">>, <<"branches">>>> \o cap.frag
       ELSE /\ cap.file = way.file
            /\ cap.act # "apply" => cap.frag = FragmentOn(way.file, way.rest)

Owned(outcome, path) ==
    IF outcome.err # "none" THEN outcome.did = <<>>
    ELSE Len(outcome.did) = 1 /\ IsAbout(outcome.did[1], path)

OnDisk(outcome, effect) == outcome.did = IF outcome.err = "none" THEN <<effect>> ELSE <<>>

Attempted == {<<"delete", ".diff">>, <<"staged", ".diff">>, <<"n", ".diff">>, <<"n", ".rs">>, <<"delete">>}

RemovalIsOwned(who, path, name) ==
    LET whole == Append(path, name)
        outcome == do_remove(who, path, name)
    IN IF Inside(path) THEN Owned(outcome, whole)
       ELSE OnDisk(outcome, Cap("disk_remove", whole, <<>>, <<>>))

CreationIsOwned(who, path, name, kind) ==
    LET whole == Append(path, name)
        outcome == do_create(who, path, name, kind)
    IN IF Inside(path) THEN Owned(outcome, whole)
       ELSE OnDisk(outcome, Cap("disk_" \o kind, whole, <<>>, <<>>))

(* A file is renamed by its own name or by that of its directory, and the  *)
(* servers hear of one that can be parsed.  Of the renamings inside of a   *)
(* companion directory these are those of a file's top level and of the    *)
(* branches; the others are taken for the file's own.                      *)
RenamingIsOwned(who, path, name) ==
    LET whole == Append(path, name)
        outcome == do_rename(who, path, name, path, <<"n", ".rs", "@">>)
        moved(file) == Cap("disk_rename", file, <<>>, Append(path, <<"n", ".rs">>))
        told == [i \in {j \in DOMAIN outcome.did : outcome.did[j].act \in {"will_rename", "did_rename"}} |->
                    outcome.did[i].file]
        file == Append(path, strip(name))
    IN CASE Inside(path) ->
                outcome.err = "none" /\ Len(outcome.did) = 1 /\ outcome.did[1].act # "disk_rename"
                    /\ Len(FragmentOn(WayIn(whole).file, WayIn(whole).rest)) < 2
                => IsAbout(outcome.did[1], whole)
         [] ~Inside(path) /\ ~HasSuffix(name) ->
                OnDisk(outcome, Cap("disk_rename", whole, <<>>, Append(path, <<"n", ".rs", "@">>)))
         [] OTHER ->
                IF file \in Files /\ Parsed(file)
                THEN /\ outcome.did[2] = moved(file) /\ Len(outcome.did) = 3
                     /\ told = 1 :> file @@ 3 :> file
                ELSE outcome.did = <<>> /\ outcome.err # "none"

(* A removed branch takes no commit with it, a renamed one stays what it   *)
(* was, and no branch is put over another.                                 *)
BranchesKeepCommits ==
    LET repo == Repo0(Files, Files)
        kept(r) == UNION {ToSet(ancestry(r.branches[b])) : b \in DOMAIN r.branches}
    IN \A b \in DOMAIN repo.branches, new \in {<<"n">>, <<"old">>, <<"feat">>} :
          /\ kept(BranchRemove(repo, b)) = kept(repo)
          /\ LET r == BranchRename(repo, b, <<new>>)
             IN /\ Cardinality(DOMAIN r.branches) = Cardinality(DOMAIN repo.branches)
                /\ kept(r) = kept(repo) /\ r.branches[r.head] = repo.branches[repo.head]

----------------------------------------------------------------------------
(* Trees of routes of two plugins, as they are merged.                     *)

Level(entries, cbs) == [Tree0 EXCEPT !.entries = entries, !.on_readdir = cbs]
Lowest == {Level(<<>>, <<"r1">>), Level(<<Content("c1")>>, <<>>), Level(<<Content("c2")>>, <<"r2">>)}
Middle == {Level(<<Dir("x", t)>>, <<>>) : t \in Lowest}
          \cup {Level(<<Dir("y", t), Content("c3"), Dir("y", u)>>, <<"r3">>) : <<t, u>> \in Lowest \X Lowest}
Trees == {Level(<<Dir("x", t)>>, <<>>) : t \in Middle}
         \cup {Level(<<Capture("p", t), Dir("y", u), Dir("x", t)>>, <<>>) : <<t, u>> \in Middle \X Lowest}

(* All the levels of a tree that directories of these names lead to.       *)
RECURSIVE Levels(_, _)
Levels(tree, path) ==
    IF path = <<>> THEN {tree}
    ELSE UNION {Levels(e.tree, Tail(path)) :
                    e \in {d \in ToSet(tree.entries) : d.t = "dir" /\ d.name = Head(path)}}

(* Where directories of either lead the merged one leads, to what all of   *)
(* them have.                                                              *)
MergeKeepsBoth(one, other) ==
    LET merged == build(merge(one, other))
        files(t) == {e.cb : e \in {f \in ToSet(t.entries) : f.t = "content"}}
        dirs(t) == {e.name : e \in {d \in ToSet(t.entries) : d.t = "dir"}}
    IN \A path \in UNION {[1 .. n -> {"x", "y"}] : n \in 0 .. 2} :
          LET levels == Levels(one, path) \cup Levels(other, path)
              there == dispatch_at(merged, path, <<>>)
          IN levels # {} =>
                /\ there.found /\ there.ctx = <<>>
                /\ files(there.tree) = UNION {files(t) : t \in levels}
                /\ dirs(there.tree) = UNION {dirs(t) : t \in levels}
                /\ ToSet(there.tree.on_readdir) = UNION {ToSet(t.on_readdir) : t \in levels}

(* In the overviews each file is there once, with all of its entries.      *)
Todo(file, line, tag) == [file |-> file, line |-> line, tag |-> tag, text |-> <<"t">>]
Todos == {Todo(f, n, t) : <<f, n, t>> \in {a_rs, b_md} \X {1, 2} \X ToSet(MCTagsOrder)}
GroupsAreFiles(groups, entries) ==
    /\ \A i, j \in DOMAIN groups : groups[i].file = groups[j].file => i = j
    /\ \A i \in DOMAIN groups :
          /\ ToSet(groups[i].entries) = {e \in entries : e.file = groups[i].file}
          /\ \A k \in DOMAIN groups[i].entries : \A m \in 1 .. k - 1 :
                LET e == groups[i].entries[m]  f == groups[i].entries[k]
                IN \/ PlaceIn(MCTagsOrder, e.tag) < PlaceIn(MCTagsOrder, f.tag)
                   \/ e.tag = f.tag /\ e.line < f.line
    /\ {groups[i].file : i \in DOMAIN groups} = {e.file : e \in entries}
TodosAreGrouped(index) ==
    /\ GroupsAreFiles(build_overview_view(index), UNION {ToSet(index[t]) : t \in ToSet(MCTagsOrder)})
    /\ \A t \in ToSet(MCTagsOrder) : GroupsAreFiles(build_tag_view(index, t), ToSet(index[t]))
=============================================================================
