------------------------------ MODULE Routing ------------------------------
(***************************************************************************)
(* The chain of providers that answers a request, and what the kernel's    *)
(* requests make of it: slices, visibility, the cache, diff previews, the  *)
(* companion directories with what every plugin mounts into them, the      *)
(* files of Claude Code, the source plugin's and the real filesystem.      *)
(***************************************************************************)
EXTENDS TodoTree, ChainOrder

CONSTANTS Files,        \* the files on disk
          Folders,      \* the directories on disk, the root <<>> among them
          RealLinks,    \* link on disk -> its target
          Ignored,      \* the paths a .gitignore rules out, with all below
          Skills,       \* skill -> the names of its reference documents
          Policy        \* process -> its visibility, "none" without a rule

----------------------------------------------------------------------------
(* The trees of the companion directories, with what every plugin mounts.  *)

FileTree == build(merge(GitFile, LspFile))
DirTree == build(SourceDir)
MountTree == build(merge(SourceMount, merge(GitMount, merge(LspMount, TodoMount))))

MountCall(cb, ctx, req) ==
    CASE cb \in {"git_view", "git_diff", "git_history", "branches", "branches_nested", "tags", "none"} ->
            GitCall(cb, ctx, req)
      [] cb = "staged" -> StagedCall(req)
      [] cb \in {"todo_tags", "todo_links"} -> TodoCall(cb, ctx, req)
      [] OTHER -> LspCall(cb, ctx, req)

MountContent(cb, ctx, req) ==
    CASE cb = "staged" -> <<>>
      [] cb = "dir_overview" -> DirOverview(req)
      [] cb \in {"status", "blame", "log", "contributors", "notes", "head_diff"} -> GitContent(cb, req)
      [] cb = "todo_overview" \/ cb \in ToSet(Tags_) -> TodoContent(cb)
      [] OTHER -> LspContent(cb, ctx, req)

----------------------------------------------------------------------------
(* The files of Claude Code, and the tree of a file's symbols.             *)

md(cb, name) == <<lazy_node(name, <<>>, <<>>, <<cb>>)>>
build_root_tree ==
    build([Tree0 EXCEPT !.entries = <<Dir(<<".claude">>, [Tree0 EXCEPT !.entries =
        <<Content("settings"),
          Dir(<<"skills">>, [Tree0 EXCEPT !.on_readdir = <<"skills">>, !.on_lookup = <<"skill">>,
            !.entries = <<Capture("skill", [Tree0 EXCEPT !.entries =
                <<Content("skill_md"), Content("references_dir"),
                  Dir(<<"references">>, [Tree0 EXCEPT !.on_readdir = <<"references">>,
                                                      !.on_lookup = <<"reference">>])>>])>>]),
          Dir(<<"agents">>, [Tree0 EXCEPT !.entries = <<Content("agent")>>]),
          Dir(<<"output-styles">>, [Tree0 EXCEPT !.entries = <<Content("style")>>])>>])>>])
build_at_tree ==
    build([Tree0 EXCEPT !.entries = <<Dir(<<"agents">>, [Tree0 EXCEPT !.entries =
        <<Dir(<<"claude-code">>, [Tree0 EXCEPT !.entries = <<Dir(<<"system-prompts">>,
            [Tree0 EXCEPT !.entries = <<Content("prompt")>>])>>])>>])>>])

ClaudeCall(cb, ctx, req) ==
    LET skills == InSomeOrder(DOMAIN Skills)
        skill == ctx["skill"][1]
        refs == IF skill \in DOMAIN Skills THEN Skills[skill] ELSE {}
        doc(name) == lazy_node(name, <<>>, <<>>, <<"reference">>)
        all == InSomeOrder(refs)
    IN CASE cb = "skills" -> [req EXCEPT !.nodes = extend(@, [i \in DOMAIN skills |-> Node("dir", skills[i])])]
         [] cb = "skill" -> IF req.op.name \in DOMAIN Skills THEN Adds(req, Node("dir", req.op.name)) ELSE req
         [] cb = "references" -> [req EXCEPT !.nodes = extend(@, [i \in DOMAIN all |-> doc(all[i])])]
         [] cb = "reference" -> IF req.op.name \in refs THEN Adds(req, doc(req.op.name)) ELSE req

ClaudeContent(cb, ctx, req) ==
    LET found == "skill" \in DOMAIN ctx /\ ctx["skill"][1] \in DOMAIN Skills
    IN CASE cb = "settings" -> md(cb, <<"settings", ".json">>)
         [] cb = "agent" -> md(cb, view_name("nyne"))
         [] cb = "style" -> md(cb, view_name("principal-swe"))
         [] cb = "prompt" -> md(cb, view_name("default"))
         [] cb = "skill_md" /\ found -> md(cb, view_name("SKILL"))
         [] cb = "references_dir" /\ found ->
                IF Skills[ctx["skill"][1]] # {} THEN <<Node("dir", <<"references">>)>> ELSE <<>>
         [] OTHER -> <<>>

FragmentPath == merge(GitFragment, LspFragment)
SourceTree == build_tree(FragmentPath)
FragmentCall(cb, ctx, req) ==
    CASE cb \in {"git_readdir", "git_lookup"} -> GitCall(cb, ctx, req)
      [] cb \in {"lsp_readdir", "lsp_lookup"} -> LspCall(cb, ctx, req)
      [] OTHER -> SourceCall(cb, ctx, req)
FragmentContent(cb, ctx, req) ==
    IF cb \in ToSet(Features) THEN LspContent(cb, ctx, req) ELSE SourceContent(cb, ctx, req)

----------------------------------------------------------------------------
(* The callbacks of the three providers that have trees.                   *)

OwnersCall(owner, cb, ctx, req) ==
    CASE owner = "companion" -> MountCall(cb, ctx, req)
      [] owner = "claude" -> ClaudeCall(cb, ctx, req)
      [] owner = "syntax" -> FragmentCall(cb, ctx, req)

OwnersMake(owner, cb, ctx, req) ==
    CASE owner = "companion" -> MountContent(cb, ctx, req)
      [] owner = "claude" -> ClaudeContent(cb, ctx, req)
      [] owner = "syntax" -> FragmentContent(cb, ctx, req)

----------------------------------------------------------------------------
(* What a .gitignore rules out.                                            *)
is_excluded(path) == \E p \in Ignored : p # <<>> /\ IsPrefix(p, path)

(* slice: name:lines is looked up as it is and then as name.               *)
spec_of(name) == IF Len(name) > 1 /\ Last(name) \in SpecParts THEN Last(name) ELSE ""

(* What is read is cut to the lines; what is written is put in their       *)
(* place, if the whole can be read as well.                                *)
apply_slicing(req, base, spec) ==
    LET cut(node) ==
            LET sliced(cap) == [cap EXCEPT !.arg = Append(@, spec)]
                slots == {s \in DOMAIN node.slots : s # "writable" \/ "readable" \in DOMAIN node.slots}
            IN [node EXCEPT !.name = Append(base, spec),
                            !.slots = [s \in slots |-> IF s \in {"readable", "writable"}
                                                       THEN sliced(@[s]) ELSE @[s]]]
    IN IF req.err # "none" THEN req
       ELSE [req EXCEPT !.nodes = [i \in DOMAIN @ |-> IF @[i].name = base THEN cut(@[i]) ELSE @[i]]]

SecondPhase(name, req, next) ==
    IF req.op.kind # "lookup" \/ spec_of(name) = "" \/ req.err # "none" \/ req.nodes # <<>> THEN req
    ELSE apply_slicing(Run(next, [req EXCEPT !.op = Op("lookup", Front(name))]), Front(name), spec_of(name))
SliceAccept(req, next) == SecondPhase(req.op.name, Run(next, req), next)

----------------------------------------------------------------------------
(* visibility and the previews of diffs.                                   *)

backed(node) == has(node, "readable") /\ node.slots["readable"].act = "disk"

(* Decided by the process, whatever the rest of the chain leaves as state. *)
Filtered(own, req) ==
    IF req.err # "none" \/ own # "Hidden" THEN req ELSE [req EXCEPT !.nodes = SelectSeq(@, backed)]
VisibilityAccept(req, next) ==
    LET own == Policy[req.who]
    IN Filtered(own, Run(next, IF own = "none" THEN req ELSE [req EXCEPT !.visibility = own]))

(* A lookup gets a preview, a removal applies what it would show, even if  *)
(* no one else would have it.                                              *)
Previewed(req) ==
    CASE req.diff = NoCap -> req
      [] req.diff # NoCap /\ req.op.kind = "lookup" /\ req.err = "none" ->
            Adds(req, with(Node("file", req.op.name), "readable", req.diff))
      [] req.diff # NoCap /\ req.op.kind = "remove" -> Does([req EXCEPT !.err = "none"], req.diff)
      [] OTHER -> req
DiffAccept(req, next) == Previewed(Run(next, req))

----------------------------------------------------------------------------
(* companion: a name that ends in @ opens the directory of a file.         *)

tree_for(req) == IF req.source = <<>> THEN MountTree
                 ELSE IF req.source \in Folders THEN DirTree ELSE FileTree

strip(name) == IF HasSuffix(name) THEN Front(name) ELSE name

(* The first component with the suffix names the file, what follows is the *)
(* path in its directory.  The name @ alone is the directory it is in.     *)
rewrite_companion_path(req) ==
    LET at == {i \in DOMAIN req.path : HasSuffix(req.path[i])}
        first == Smallest(at)
        name == strip(req.path[first])
        parent == SubSeq(req.path, 1, first - 1)
        source == IF name = <<>> THEN parent ELSE Append(parent, name)
        rest == SubSeq(req.path, first + 1, Len(req.path))
    IN IF req.companion \/ at = {} \/ (source # <<>> /\ is_excluded(source)) THEN req
       ELSE [req EXCEPT !.companion = TRUE, !.source = source, !.visibility = "Force",
                        !.path = [i \in DOMAIN rest |-> strip(rest[i])]]

(* Inside, the suffix comes off and the name is there for the asking; from *)
(* outside, the lookup goes on in the directory the name opens.            *)
accept_lookup(req) ==
    LET name == req.op.name
        source == IF strip(name) = <<>> THEN req.path ELSE Append(req.path, strip(name))
        bare == [Adds(req, Node("dir", name)) EXCEPT !.op = Op("lookup", strip(name))]
    IN CASE ~HasSuffix(name) -> [req |-> req, own |-> req.companion]
         [] HasSuffix(name) /\ req.companion -> [req |-> bare, own |-> FALSE]
         [] HasSuffix(name) /\ ~req.companion /\ source # <<>> /\ is_excluded(source) ->
                [req |-> req, own |-> FALSE]
         [] OTHER -> [req |-> [bare EXCEPT !.companion = TRUE, !.source = source, !.path = <<>>], own |-> TRUE]

(* The file of the directory that is renamed becomes the request's.        *)
accept_rename(req) ==
    [own |-> FALSE,
     req |-> IF ~HasSuffix(req.op.name) THEN req
             ELSE [req EXCEPT !.companion = TRUE, !.source = Append(req.path, strip(req.op.name)),
                              !.op = [@ EXCEPT !.name = strip(@), !.to = strip(@)]]]

(* Listed for the processes that asked for it only.                        *)
emit_companion_dirs(req) ==
    LET files == SelectSeq(req.nodes, LAMBDA n : n.kind = "file" /\ ~is_excluded(Append(req.path, n.name)))
    IN IF req.op.kind # "readdir" \/ req.err # "none" \/ req.companion \/ req.visibility # "Force" THEN req
       ELSE [req EXCEPT !.nodes = extend(@, [i \in DOMAIN files |->
                                                Node("dir", companion_name(files[i].name))])]

(* What goes on in the companion's own tree, and what down the chain.      *)
accepted(req) == CASE req.op.kind = "lookup" -> accept_lookup(req)
                   [] req.op.kind = "rename" -> accept_rename(req)
                   [] OTHER -> [req |-> req, own |-> req.companion]
Goes(to, next) ==
    IF to.own THEN dispatch("companion", tree_for(to.req), to.req, next) ELSE Run(next, to.req)
CompanionAccept(req, next) ==
    emit_companion_dirs(Goes(accepted(rewrite_companion_path(req)), next))

(* A renaming is given the names without the suffix.                       *)
CompanionRenameable(cap, to) == [cap EXCEPT !.arg = strip(to)]

----------------------------------------------------------------------------
(* The other plugins of the chain.                                         *)

(* .nyne.md can be looked up in the root, and is never listed.             *)
NyneAccept(req, next) ==
    IF req.path = <<>> /\ req.op.kind = "lookup" /\ req.op.name = view_name(".nyne")
    THEN Adds(req, lazy_node(req.op.name, <<>>, <<>>, <<"nyne">>)) ELSE Run(next, req)

(* Beside what is on disk; not for a process that sees the disk only.      *)
ClaudeAccept(req, next) ==
    IF (~req.companion /\ req.visibility = "Hidden") \/ (req.companion /\ req.source # <<>>) THEN Run(next, req)
    ELSE dispatch("claude", IF req.companion THEN build_at_tree ELSE build_root_tree, req, next)

Decorated(req) ==
    IF req.err = "none" /\ req.companion THEN decorate_companion_rename(req) ELSE req
GitAccept(req, next) == Decorated(Run(next, req))

(* The servers hear of a file's new name before and after it has it.       *)
Tells(req, what) ==
    IF req.op.kind # "rename" \/ ~req.companion \/ ~Parsed(req.source) \/ req.err # "none" THEN req
    ELSE Does(req, Cap(what, req.source, <<>>, <<>>))
LspRenameAccept(req, next) == Tells(Run(next, Tells(req, "will_rename")), "did_rename")

disk_rename(from, op) == Cap("disk_rename", from, <<>>, Append(op.dir, op.to))

(* Any renaming in the companion directory of a file that can be parsed is *)
(* taken for the file's.                                                   *)
SyntaxAccept(req, next) ==
    CASE ~req.companion \/ req.source = <<>> \/ ~Parsed(req.source) -> Run(next, req)
      [] req.op.kind = "rename" /\ req.companion /\ Parsed(req.source) ->
            IF req.source \in Files THEN Does(req, disk_rename(req.source, req.op))
            ELSE Fails(req, "no such file")
      [] OTHER -> dispatch("syntax", SourceTree, req, next)

(* The end of the chain: the disk, or nothing inside a companion directory.*)
disk_node(dir, name) ==
    LET path == Append(dir, name)
        disk == Cap("disk", path, <<>>, <<>>)
    IN CASE path \in Files -> <<with(with(Node("file", name), "readable", disk), "writable", disk)>>
         [] path \in Folders -> <<with(Node("dir", name), "readable", disk)>>
         [] path \in DOMAIN RealLinks -> <<Link(name, RealLinks[path])>>
         [] OTHER -> <<>>

FsAccept(req) ==
    LET path == Append(req.path, req.op.name)
        there == path \in Files \cup Folders \cup DOMAIN RealLinks
        names == InSomeOrder({p[Len(p)] : p \in {q \in (Files \cup Folders \cup DOMAIN RealLinks) \ {<<>>} :
                                                Front(q) = req.path}})
        effect == Cap("disk_" \o req.op.kind, path, <<>>, <<>>)
    IN CASE req.companion -> IF is_query(req.op) THEN req ELSE Fails(req, "denied")
         [] ~req.companion /\ req.op.kind = "readdir" ->
                [req EXCEPT !.nodes = extend(@, FlattenSeq([i \in DOMAIN names |-> disk_node(req.path, names[i])]))]
         [] ~req.companion /\ req.op.kind = "lookup" ->
                [req EXCEPT !.nodes = extend(@, disk_node(req.path, req.op.name))]
         [] ~req.companion /\ req.op.kind \in {"create", "mkdir"} ->
                IF there \/ req.path \notin Folders THEN Fails(req, "io") ELSE Does(req, effect)
         [] ~req.companion /\ req.op.kind = "remove" ->
                IF ~there THEN Fails(req, "io") ELSE Does(req, effect)
         [] OTHER -> IF ~there \/ req.op.dir \notin Folders THEN Fails(req, "io")
                     ELSE Does(req, disk_rename(path, req.op))

----------------------------------------------------------------------------
(* The chain.  What the cache keeps by directory and name is left out: it  *)
(* passes everything on, as lsp and todo do, which hear of changes only.   *)

ProviderIds == <<"cache", "claude", "companion", "diff", "fs", "git", "lsp", "lsp-rename", "nyne",
                 "slice", "syntax", "todo", "visibility">>
PlaceOf(id) == CHOOSE i \in DOMAIN ProviderIds : ProviderIds[i] = id

Providers ==
    LET deps(id) == CASE id \in {"claude", "git", "lsp-rename", "syntax"} -> {"companion"}
                      [] id = "lsp" -> {"syntax"}
                      [] id = "todo" -> {"companion", "syntax", "git"}
                      [] OTHER -> {}
        priority(id) == CASE id \in {"slice", "visibility"} -> -100
                          [] id = "cache" -> -50
                          [] id = "diff" -> -40
                          [] OTHER -> 0
    IN [i \in DOMAIN ProviderIds |->
            Provider(i, {PlaceOf(d) : d \in deps(ProviderIds[i])}, priority(ProviderIds[i]),
                     ProviderIds[i] = "fs")]

Chain == LET sorted == topological_sort(Providers)
         IN [i \in DOMAIN sorted |-> ProviderIds[sorted[i].id]]

RunChain(chain, req) ==
    LET next == Tail(chain)
    IN CASE Head(chain) = "slice" -> SliceAccept(req, next)
         [] Head(chain) = "visibility" -> VisibilityAccept(req, next)
         [] Head(chain) = "diff" -> DiffAccept(req, next)
         [] Head(chain) = "companion" -> CompanionAccept(req, next)
         [] Head(chain) = "nyne" -> NyneAccept(req, next)
         [] Head(chain) = "claude" -> ClaudeAccept(req, next)
         [] Head(chain) = "git" -> GitAccept(req, next)
         [] Head(chain) = "lsp-rename" -> LspRenameAccept(req, next)
         [] Head(chain) = "syntax" -> SyntaxAccept(req, next)
         [] Head(chain) = "fs" -> FsAccept(req)
         [] OTHER -> Run(next, req)

Dispatch(who, path, op) == Run(Chain, [Request(path, op) EXCEPT !.who = who])

(* What the kernel is answered.                                            *)
readdir(who, path) == Dispatch(who, path, Op("readdir", <<>>)).nodes
Answer(req) == IF req.err # "none" \/ req.nodes = <<>> THEN <<>> ELSE <<req.nodes[1]>>
lookup(who, path, name) == Answer(Dispatch(who, path, Op("lookup", name)))

(* A removal asks the node, then the chain; a creation and a renaming that *)
(* no node is there for want a directory that can be written to.           *)
Outcome(err, did) == [err |-> err, did |-> did]
is_writable_dir(who, path) ==
    \/ path = <<>>
    \/ path # <<>> /\ \E n \in ToSet(lookup(who, Front(path), Last(path))) :
            (backed(n) \/ "w" \in permissions(n))

Removed(node, done) ==
    IF node # <<>> /\ has(node[1], "unlinkable") THEN Outcome("none", <<node[1].slots["unlinkable"]>>)
    ELSE Outcome(done.err, done.did)
do_remove(who, path, name) ==
    Removed(lookup("unknown", path, name), Dispatch(who, path, Op("remove", name)))

Created(done, writable) == IF ~writable THEN Outcome("denied", <<>>) ELSE Outcome(done.err, done.did)
do_create(who, path, name, kind) ==
    Created(Dispatch(who, path, Op(kind, name)), is_writable_dir(who, path))

Renamed(node, to, done, writable) ==
    IF node # <<>> /\ has(node[1], "renameable")
    THEN Outcome("none", <<CompanionRenameable(node[1].slots["renameable"], to)>>)
    ELSE Created(done, writable)
do_rename(who, path, name, dir, to) ==
    Renamed(lookup("unknown", path, name), to,
            Dispatch(who, path, [Op("rename", name) EXCEPT !.dir = dir, !.to = to]),
            is_writable_dir(who, path))
=============================================================================
