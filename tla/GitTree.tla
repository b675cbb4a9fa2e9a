------------------------------- MODULE GitTree -------------------------------
(***************************************************************************)
(* What the git plugin puts into companion directories: a file's git/,     *)
(* diff/ and history/, git/ below every symbol, and the mount's git/ with  *)
(* the branches as directories; and what a rename or a removal among them  *)
(* does to the repository.                                                 *)
(*                                                                         *)
(* A branch is the sequence of its slash-separated segments.  A commit     *)
(* names its parent and, for each file, the lines of its new text it       *)
(* touched.                                                                *)
(***************************************************************************)
EXTENDS SymbolTree

CONSTANTS Branches,     \* branch -> the commit at its tip
          HeadBranch,   \* the branch that is checked out
          Tags,         \* the tags, in order
          Commits,      \* commit -> its parent, its tree and what it touched
          HistoryLimit  \* the commits a history holds at most

NoParent == "none"
RECURSIVE ancestry(_)
ancestry(commit) ==
    IF commit = NoParent THEN <<>> ELSE <<commit>> \o ancestry(Commits[commit].parent)

----------------------------------------------------------------------------
(* Queries of the history, newest commit first.                            *)

capped(seq, limit) == SubSeq(seq, 1, IF Len(seq) < limit THEN Len(seq) ELSE limit)
touches(commit, file, range) ==
    file \in DOMAIN Commits[commit].touched /\ Commits[commit].touched[file] \cap range # {}

file_history_in_range(file, range, limit) ==
    capped(SelectSeq(ancestry(Branches[HeadBranch]), LAMBDA c : touches(c, file, range)), limit)
file_history(file, limit) == file_history_in_range(file, Lines \cup {0}, limit)

(* Hunks of a blame that meet a range of lines, cut to it.                 *)
clamp_blame(hunks, start, end) ==
    LET met == SelectSeq(hunks, LAMBDA h : h.from <= end /\ h.to >= start)
    IN [i \in DOMAIN met |->
            [met[i] EXCEPT !.from = Largest({@, start}), !.to = Smallest({@, end})]]

(* The note of a file is the note of the last commit that touched it.      *)
set_note(notes, file, message) ==
    LET last == file_history(file, 1)
    IN IF last = <<>> THEN notes
       ELSE IF message = <<>> THEN notes \ {n \in notes : n.commit = last[1]}
       ELSE {n \in notes : n.commit # last[1]} \cup {[commit |-> last[1], text |-> message]}

----------------------------------------------------------------------------
(* Views of a file and of a symbol.                                        *)

view_name(name) == <<name, ".md">>
SpecParts == {":" \o ToString(n) : n \in Lines}
Sliced(name) == name # <<>> /\ Last(name) \in SpecParts

(* BLAME.md or LOG.md with lines asked for.                                *)
resolve_sliced_view(name) == Sliced(name) /\ Front(name) \in {view_name("BLAME"), view_name("LOG")}

history_filename(index, commit, ext) == <<ToString(index), commit, ext>>
emit_history_nodes(req, entries, frag, filter) ==
    LET version(i) == lazy_node(history_filename(i, entries[i], ext_of(req.source)), req.source, frag,
                                <<"version", entries[i]>>)
        all == [i \in DOMAIN entries |-> version(i)]
    IN [req EXCEPT !.nodes = extend(@, IF filter = <<>> THEN all ELSE retain(all, filter))]

lookup_file_view(req) ==
    CASE ~resolve_sliced_view(req.op.name) -> req
      [] req.source = <<>> -> Fails(req, "no source file")
      [] OTHER -> Adds(req, lazy_node(req.op.name, req.source, <<>>, req.op.name))

lookup_diff(req) ==
    CASE Last(req.op.name) # ".diff" \/ Len(req.op.name) = 1 \/ req.op.name = <<"HEAD", ".diff">> -> req
      [] req.source = <<>> -> Fails(req, "no source file")
      [] OTHER -> Adds(req, lazy_node(req.op.name, req.source, <<>>, req.op.name))

(* All of a file's history, whatever name is asked for.                    *)
history_handler(req) ==
    IF req.source = <<>> THEN Fails(req, "no source file")
    ELSE emit_history_nodes(req, file_history(req.source, HistoryLimit), <<>>, <<>>)

GitFile ==
    [Tree0 EXCEPT !.entries =
        <<Dir(<<"git">>, [Tree0 EXCEPT !.on_lookup = <<"git_view">>,
                !.entries = <<Content("blame"), Content("log"), Content("contributors"), Content("notes")>>]),
          Dir(<<"diff">>, [Tree0 EXCEPT !.on_lookup = <<"git_diff">>, !.entries = <<Content("head_diff")>>]),
          Dir(<<"history">>, [Tree0 EXCEPT !.handler = <<"none", "git_history">>])>>]

GitContent(cb, req) ==
    LET file == req.source
        view(name) == IF file = <<>> THEN <<>> ELSE <<lazy_node(view_name(name), file, <<>>, view_name(name))>>
    IN CASE cb = "status" -> <<lazy_node(view_name("STATUS"), <<>>, <<>>, <<"status">>)>>
         [] cb = "blame" -> view("BLAME")
         [] cb = "log" -> view("LOG")
         [] cb = "contributors" -> view("CONTRIBUTORS")
         [] cb = "notes" /\ file # <<>> -> <<slice_node(view_name("NOTES"), file, <<>>, <<"notes">>)>>
         [] cb = "head_diff" /\ file # <<>> -> <<lazy_node(<<"HEAD", ".diff">>, file, <<>>, <<"diff">>)>>
         [] OTHER -> <<>>

----------------------------------------------------------------------------
(* Below a symbol, as callbacks of the route that takes the whole path.    *)

(* The part of git/ a path is in, and the symbol it is for.                *)
classify(path) ==
    CASE Len(path) > 2 /\ SubSeq(path, Len(path) - 1, Len(path)) = <<<<"git">>, <<"history">>>> ->
            [scope |-> "history", symbol |-> Front(Front(path))]
      [] Len(path) > 1 /\ Last(path) = <<"git">> -> [scope |-> "git", symbol |-> Front(path)]
      [] OTHER -> [scope |-> "symbol", symbol |-> path]

git_nodes(file, symbol) ==
    <<lazy_node(view_name("BLAME"), file, symbol, view_name("BLAME")),
      lazy_node(view_name("LOG"), file, symbol, view_name("LOG")),
      Node("dir", <<"history">>)>>

lookup_sliced_view(req, symbol) ==
    IF resolve_sliced_view(req.op.name)
    THEN Adds(req, lazy_node(req.op.name, req.source, symbol, req.op.name)) ELSE req

lookup_git(req, symbol) ==
    LET hit == retain(git_nodes(req.source, symbol), req.op.name)
    IN IF hit # <<>> THEN Adds(req, hit[1]) ELSE lookup_sliced_view(req, symbol)

history_nodes(req, symbol, filter) ==
    LET hit == find_fragment(frags_of(req.source), symbol)
    IN IF hit = NotFound THEN req
       ELSE emit_history_nodes(req,
                file_history_in_range(req.source, fragment_lines(hit[1]), HistoryLimit), symbol, filter)

contribute_git_dir(req, path) ==
    IF has_fragment(req.source, path) THEN Adds(req, Node("dir", <<"git">>)) ELSE req

dispatch_readdir(ctx, req) ==
    LET at == classify(ctx["path"])
    IN CASE ctx["path"] = <<>> -> req
         [] at.scope = "history" -> history_nodes(req, at.symbol, <<>>)
         [] at.scope = "git" -> [req EXCEPT !.nodes = extend(@, git_nodes(req.source, at.symbol))]
         [] OTHER -> contribute_git_dir(req, at.symbol)

dispatch_lookup(ctx, req) ==
    LET at == classify(ctx["path"])
    IN CASE ctx["path"] = <<>> -> req
         [] at.scope = "history" -> history_nodes(req, at.symbol, req.op.name)
         [] at.scope = "git" -> lookup_git(req, at.symbol)
         [] req.op.name = <<"git">> -> contribute_git_dir(req, at.symbol)
         [] OTHER -> req

GitFragment == [Tree0 EXCEPT !.on_readdir = <<"git_readdir">>, !.on_lookup = <<"git_lookup">>]

----------------------------------------------------------------------------
(* The mount's git/: branches by segment, then the tree of a branch.       *)

(* The next segments of the branches below a prefix.  One that ends a      *)
(* branch can be renamed and removed.                                      *)
branch_segments_at_prefix(prefix) ==
    LET below == {b \in DOMAIN Branches : Len(b) > Len(prefix) /\ SubSeq(b, 1, Len(prefix)) = prefix}
        names == InSomeOrder({b[Len(prefix) + 1] : b \in below})
        leaf(name) == Append(prefix, name) \in below
        cap(act, name) == Cap(act, <<>>, Append(prefix, name), <<>>)
    IN [i \in DOMAIN names |->
            IF ~leaf(names[i]) THEN Node("dir", names[i])
            ELSE with(with(Node("dir", names[i]), "renameable", cap("branch_rename", names[i])),
                      "unlinkable", cap("branch_remove", names[i]))]

(* The entries of a directory of a branch's tree; a file is none.          *)
tree_entries(branch, dir) ==
    LET below == {f \in Commits[Branches[branch]].tree :
                    Len(f) > Len(dir) /\ SubSeq(f, 1, Len(dir)) = dir}
    IN [name \in {f[Len(dir) + 1] : f \in below} |-> Append(dir, name) \notin below]

branch_tree_nodes(branch, dir) ==
    LET entries == tree_entries(branch, dir)
        names == InSomeOrder(DOMAIN entries)
    IN [i \in DOMAIN names |->
            IF entries[names[i]] THEN Node("dir", names[i])
            ELSE lazy_node(names[i], <<>>, branch, Append(dir, names[i]))]

(* As a prefix of branches, or else in the longest branch the path begins  *)
(* with; all of the directory, whatever name is asked for.                 *)
branches_nested_handler(ctx, req) ==
    LET path == ctx["prefix"]
        deeper == branch_segments_at_prefix(path)
        on == {n \in DOMAIN path : SubSeq(path, 1, n) \in DOMAIN Branches}
        branch == SubSeq(path, 1, Largest(on))
        dir == SubSeq(path, Len(branch) + 1, Len(path))
    IN CASE deeper # <<>> -> [req EXCEPT !.nodes = extend(@, deeper)]
         [] deeper = <<>> /\ on = {} -> req
         [] dir # <<>> /\ DOMAIN tree_entries(branch, dir) = {} -> Fails(req, "not a directory")
         [] OTHER -> [req EXCEPT !.nodes = extend(@, branch_tree_nodes(branch, dir))]

GitMount ==
    [Tree0 EXCEPT !.entries = <<Dir(<<"git">>, [Tree0 EXCEPT !.entries =
        <<Content("status"),
          Dir(<<"branches">>, [Tree0 EXCEPT !.on_readdir = <<"branches">>,
                !.entries = <<Rest("prefix", [Tree0 EXCEPT !.handler = <<"none", "branches_nested">>])>>]),
          Dir(<<"tags">>, [Tree0 EXCEPT !.on_readdir = <<"tags">>])>>])>>]

GitCall(cb, ctx, req) ==
    CASE cb = "none" -> req
      [] cb = "git_view" -> lookup_file_view(req)
      [] cb = "git_diff" -> lookup_diff(req)
      [] cb = "git_history" -> history_handler(req)
      [] cb = "git_readdir" -> IF req.source = <<>> THEN req ELSE dispatch_readdir(ctx, req)
      [] cb = "git_lookup" -> IF req.source = <<>> THEN req ELSE dispatch_lookup(ctx, req)
      [] cb = "branches" -> [req EXCEPT !.nodes = extend(@, branch_segments_at_prefix(<<>>))]
      [] cb = "branches_nested" -> branches_nested_handler(ctx, req)
      [] cb = "tags" -> [req EXCEPT !.nodes = extend(@, [i \in DOMAIN Tags |-> Node("dir", Tags[i])])]

----------------------------------------------------------------------------
(* The provider's own part: a renaming for the companion directory of a    *)
(* file, if the name that is looked up still has its suffix.               *)

decorate_companion_rename(req) ==
    LET name == req.op.name
        cap == Cap("git_rename", req.source, <<>>, <<>>)
    IN IF req.source = <<>> \/ req.op.kind # "lookup" \/ ~Suffixed(name) \/ Find(req.nodes, name) = {} THEN req
       ELSE Adds(req, with(Node("dir", name), "renameable", cap))

----------------------------------------------------------------------------
(* What the capabilities do to the repository: its branches, its files on  *)
(* disk and the files its index tracks.                                    *)

Repo0(files, index) == [branches |-> Branches, head |-> HeadBranch, files |-> files, index |-> index]

(* The new name is the last segment only; git refuses a name that another  *)
(* branch has or that is above or below one.                               *)
BranchRename(repo, branch, target) ==
    LET new == Append(Front(branch), Last(target))
        taken == \E b \in DOMAIN repo.branches \ {branch} : IsPrefix(b, new) \/ IsPrefix(new, b)
    IN IF branch \notin DOMAIN repo.branches \/ new = branch \/ taken THEN repo
       ELSE [repo EXCEPT !.branches = [b \in (DOMAIN @ \ {branch}) \cup {new} |->
                                            IF b = new THEN @[branch] ELSE @[b]],
                         !.head = IF @ = branch THEN new ELSE @]

(* Neither the branch that is checked out nor one HEAD does not contain.   *)
BranchRemove(repo, branch) ==
    IF branch \notin DOMAIN repo.branches \/ branch = repo.head
       \/ repo.branches[branch] \notin ToSet(ancestry(repo.branches[repo.head]))
    THEN repo
    ELSE [repo EXCEPT !.branches = [b \in DOMAIN @ \ {branch} |-> @[b]]]

(* On disk, over what has the name, and then in the index.                 *)
GitFileRename(repo, file, target) ==
    LET new == Append(Front(file), Last(target))
    IN [repo EXCEPT !.files = (@ \ {file}) \cup {new},
                    !.index = IF file \in @ THEN (@ \ {file}) \cup {new} ELSE @]
=============================================================================
