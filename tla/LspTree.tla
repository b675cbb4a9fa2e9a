------------------------------- MODULE LspTree -------------------------------
(***************************************************************************)
(* What the LSP plugin puts into companion directories: the diagnostics,   *)
(* rename previews and code actions of a file, a view and a directory of   *)
(* links for every feature of a symbol, and the search for symbols; and    *)
(* where the links point.                                                  *)
(***************************************************************************)
EXTENDS GitTree

CONSTANTS Servers,          \* extension -> the capabilities of its server
          Targets,          \* feature -> the places the server answers with
          Actions,          \* the titles of the code actions, <<>> for a disabled one
          WorkspaceSymbols  \* query -> the symbols of the workspace

Features == <<"definition", "declaration", "type-definition", "references", "implementation",
              "callers", "deps", "doc", "hints">>
feature_file(f) == <<f, ".md">>
FeatureDirs == {<<f>> : f \in ToSet(Features) \ {"doc", "hints"}}
from_dir_name(name) == name \in FeatureDirs

(* References are there whenever a server is.                              *)
is_supported(f, caps) ==
    \/ f = "references"
    \/ f \in {"callers", "deps"} /\ "hierarchy" \in caps
    \/ f \in caps

for_file(file) == ext_of(file) \in DOMAIN Servers
capabilities(file) == Servers[ext_of(file)]

----------------------------------------------------------------------------
(* Links to the places a server answers with; lines count from 0.          *)

companion_of(file) == Append(Front(file), companion_name(Last(file)))
line_part(line) == ":" \o ToString(line + 1)

build_symlink_base(file, path, dir) ==
    companion_of(file) \o <<<<"symbols">>>> \o [i \in DOMAIN path |-> companion_name(path[i])] \o <<dir>>

resolve_symbol_link(target) ==
    LET path == IF Parsed(target.file) THEN find_fragment_at_line(frags_of(target.file), target.line)
                ELSE NotFound
    IN IF path = NotFound THEN <<>>
       ELSE companion_of(target.file) \o <<<<"symbols">>>>
            \o [i \in DOMAIN path |-> companion_name(path[i])]

(* The line of the file, where no symbol is.                               *)
fallback_line_link(target) == companion_of(target.file) \o <<<<"lines", line_part(target.line)>>>>

target_link_name(target) ==
    (IF target.name = <<>> THEN <<>> ELSE Append(target.name, "-"))
        \o Append(Last(target.file), line_part(target.line))

target_place(target) ==
    IF Parsed(target.file) /\ find_fragment_at_line(frags_of(target.file), target.line) # NotFound
    THEN resolve_symbol_link(target) ELSE fallback_line_link(target)

(* One node for a name, the first.                                         *)
RECURSIVE first_of_names(_, _)
first_of_names(done, nodes) ==
    IF nodes = <<>> THEN done
    ELSE first_of_names(IF Find(done, Head(nodes).name) = {} THEN Append(done, Head(nodes)) ELSE done,
                        Tail(nodes))
one_of_name(nodes) == first_of_names(<<>>, nodes)

(* Mutant: a link is followed from the directory above the one it is in.   *)
build_target_nodes_from_parent(targets, base) ==
    [i \in DOMAIN targets |-> Link(target_link_name(targets[i]),
                                   relative_to(target_place(targets[i]), Front(base)))]

(* One link for a name, the first.                                         *)
build_target_nodes(targets, base) ==
    one_of_name([i \in DOMAIN targets |->
                    Link(target_link_name(targets[i]), relative_to(target_place(targets[i]), base))])

build_search_symlinks(query) ==
    LET found == WorkspaceSymbols[query]
        base == <<<<"@">>, <<"search">>, <<"symbols">>, query>>
        link(s) == Link(Last(s.file) \o <<"::">> \o s.name,
                        relative_to(companion_of(s.file) \o
                            <<<<"symbols">>, <<"at-line">>, <<ToString(s.line + 1)>>>>, base))
    IN one_of_name([i \in DOMAIN found |-> link(found[i])])

----------------------------------------------------------------------------
(* Code actions: those that are not disabled, numbered, as files the diff  *)
(* provider fills in.                                                      *)

resolve_code_actions ==
    LET enabled == SelectSeq(Actions, LAMBDA title : title # <<>>)
    IN [i \in DOMAIN enabled |-> <<ToString(i)>> \o enabled[i] \o <<".diff">>]
build_action_nodes == [i \in DOMAIN resolve_code_actions |-> Node("file", resolve_code_actions[i])]

find_action_diff(req, path) ==
    IF req.op.name \notin ToSet(resolve_code_actions) THEN req
    ELSE [req EXCEPT !.diff = Cap("code_action", req.source, path, req.op.name)]

resolve_file_actions_dir(file) == for_file(file) /\ "actions" \in capabilities(file)

(* NEW.diff with something before the suffix.                              *)
DiffOf(name) == Len(name) > 1 /\ Last(name) = ".diff"

(* The preview of a file's new name, set for what is below its directory.  *)
file_rename_handler(ctx, req) ==
    LET target == ctx["target"][1]
    IN IF req.source = <<>> \/ ~is_query(req.op) \/ ~DiffOf(target)
          \/ ~Parsed(req.source) \/ ~for_file(req.source)
       THEN req
       ELSE [req EXCEPT !.diff = Cap("file_rename", req.source, <<>>, Front(target))]

LspFile ==
    [Tree0 EXCEPT !.entries =
        <<Content("diagnostics"),
          Dir(<<"rename">>, [Tree0 EXCEPT !.entries =
                <<Capture("target", [Tree0 EXCEPT !.handler = <<"file_rename", "none">>])>>]),
          Content("actions_dir"),
          Dir(<<"actions">>, [Tree0 EXCEPT !.on_readdir = <<"file_actions">>,
                                           !.on_lookup = <<"file_action">>])>>]

(* A query that has no answer is no directory.                             *)
LspMount ==
    [Tree0 EXCEPT !.entries = <<Dir(<<"search">>, [Tree0 EXCEPT !.entries =
        <<Dir(<<"symbols">>, [Tree0 EXCEPT !.on_lookup = <<"search">>,
            !.entries = <<Capture("query", [Tree0 EXCEPT !.on_readdir = <<"search_nodes">>])>>])>>])>>]

LspContent(cb, ctx, req) ==
    LET file == req.source
        f == CHOOSE g \in ToSet(Features) \cup {"none"} : g = cb \/ (g = "none" /\ cb \notin ToSet(Features))
    IN CASE file = <<>> \/ ~for_file(file) -> <<>>
         [] f = cb -> IF has_fragment(file, segments(ctx)) /\ is_supported(f, capabilities(file))
                      THEN <<lazy_node(feature_file(f), file, segments(ctx), <<f>>)>> ELSE <<>>
         [] cb = "diagnostics" -> <<lazy_node(view_name("DIAGNOSTICS"), file, <<>>, <<cb>>)>>
         [] cb = "actions_dir" /\ "actions" \in capabilities(file) -> <<Node("dir", <<"actions">>)>>
         [] OTHER -> <<>>

----------------------------------------------------------------------------
(* In a symbol's directory.                                                *)

(* The last name of a path may be a directory of the plugin.               *)
split_sub_route(path) ==
    IF path # <<>> /\ (Last(path) \in {<<"actions">>, <<"rename">>} \/ from_dir_name(Last(path)))
    THEN [symbol |-> Front(path), sub |-> Last(path)] ELSE [symbol |-> path, sub |-> <<>>]

resolve_symlink_dir(file, path, dir) ==
    IF ~Parsed(file) \/ ~has_fragment(file, path) \/ ~for_file(file) \/ ~from_dir_name(dir) THEN <<>>
    ELSE build_target_nodes(Targets[dir[1]], build_symlink_base(file, path, dir))

resolve_actions_dir(file, path) == Parsed(file) /\ has_fragment(file, path) /\ for_file(file)

supported_dirs(file) ==
    SelectSeq(Features, LAMBDA f : <<f>> \in FeatureDirs /\ is_supported(f, capabilities(file)))

contribute_fragment_children(req) ==
    LET dirs == supported_dirs(req.source)
    IN IF ~for_file(req.source) THEN req
       ELSE [req EXCEPT !.nodes = extend(@,
                (IF "actions" \in capabilities(req.source) THEN <<Node("dir", <<"actions">>)>> ELSE <<>>)
                \o [i \in DOMAIN dirs |-> Node("dir", <<dirs[i]>>)])]

(* Every directory of a fragment gets its renaming; the fragment is looked *)
(* for at the top level of the file, wherever the directory is.            *)
attach_renameables(req) ==
    LET bare(n) == Front(n.name)
        wanted(n) == /\ n.kind = "dir" /\ ~has(n, "renameable") /\ Suffixed(n.name)
                     /\ has_fragment(req.source, <<bare(n)>>)
    IN IF ~for_file(req.source) THEN req
       ELSE [req EXCEPT !.nodes =
                [i \in DOMAIN @ |-> IF wanted(@[i])
                                    THEN with(@[i], "renameable", Cap("lsp_rename", req.source, <<bare(@[i])>>, <<>>))
                                    ELSE @[i]]]

set_rename_diff_source(req, path, new) ==
    IF Parsed(req.source) /\ has_fragment(req.source, path) /\ for_file(req.source)
    THEN [req EXCEPT !.diff = Cap("lsp_rename", req.source, path, new)] ELSE req

(* A preview that another callback has claimed is left to it.              *)
handle_fragment_lookup(req, path) ==
    LET name == req.op.name
        file == req.source
        shown == CASE name = <<"rename">> -> for_file(file)
                   [] name = <<"actions">> -> for_file(file) /\ "actions" \in capabilities(file)
                   [] OTHER -> for_file(file) /\ \E f \in ToSet(supported_dirs(file)) : name = <<f>>
    IN IF DiffOf(name) /\ req.diff = NoCap THEN set_rename_diff_source(req, path, Front(name))
       ELSE IF shown THEN Adds(req, Node("dir", name)) ELSE req

LspReaddir(ctx, req) ==
    LET at == split_sub_route(segments(ctx))
    IN CASE ~has_fragment(req.source, at.symbol) -> req
         [] at.sub = <<>> -> attach_renameables(contribute_fragment_children(req))
         [] at.sub = <<"actions">> ->
                IF resolve_actions_dir(req.source, at.symbol)
                THEN [req EXCEPT !.nodes = extend(@, build_action_nodes)] ELSE req
         [] OTHER -> [req EXCEPT !.nodes = extend(@, resolve_symlink_dir(req.source, at.symbol, at.sub))]

LspLookup(ctx, req) ==
    LET at == split_sub_route(segments(ctx))
        name == req.op.name
    IN CASE ~has_fragment(req.source, at.symbol) -> req
         [] at.sub = <<>> -> attach_renameables(handle_fragment_lookup(req, at.symbol))
         [] at.sub = <<"actions">> ->
                IF resolve_actions_dir(req.source, at.symbol) THEN find_action_diff(req, at.symbol) ELSE req
         [] at.sub = <<"rename">> ->
                IF DiffOf(name) THEN set_rename_diff_source(req, at.symbol, Front(name)) ELSE req
         [] OTHER -> [req EXCEPT !.nodes =
                        extend(@, retain(resolve_symlink_dir(req.source, at.symbol, at.sub), name))]

LspFragment == [Tree0 EXCEPT !.entries = [i \in DOMAIN Features |-> Content(Features[i])],
                             !.on_readdir = <<"lsp_readdir">>, !.on_lookup = <<"lsp_lookup">>]

LspCall(cb, ctx, req) ==
    CASE cb = "file_rename" -> file_rename_handler(ctx, req)
      [] cb = "file_actions" ->
            IF req.source # <<>> /\ resolve_file_actions_dir(req.source)
            THEN [req EXCEPT !.nodes = extend(@, build_action_nodes)] ELSE req
      [] cb = "file_action" ->
            IF req.source # <<>> /\ resolve_file_actions_dir(req.source)
            THEN find_action_diff(req, <<>>) ELSE req
      [] cb = "search" -> IF req.op.name \in DOMAIN WorkspaceSymbols
                          THEN Adds(req, Node("dir", req.op.name)) ELSE req
      [] cb = "search_nodes" -> IF ctx["query"][1] \in DOMAIN WorkspaceSymbols
                                THEN [req EXCEPT !.nodes = extend(@, build_search_symlinks(ctx["query"][1]))]
                                ELSE req
      [] cb = "lsp_readdir" -> IF req.source = <<>> THEN req ELSE LspReaddir(ctx, req)
      [] cb = "lsp_lookup" -> IF req.source = <<>> THEN req ELSE LspLookup(ctx, req)
=============================================================================
