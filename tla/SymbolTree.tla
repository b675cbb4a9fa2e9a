----------------------------- MODULE SymbolTree -----------------------------
(***************************************************************************)
(* What the source plugin puts into the companion directory of a file it   *)
(* can parse: the file's own views, symbols/ with a directory for every    *)
(* fragment, and in a fragment's directory its texts, its children, its    *)
(* code blocks and edit/, where edits are staged.                          *)
(*                                                                         *)
(* A fragment's directory is addressed by the names of the fragments that  *)
(* lead to it, without the companion suffix; what a file holds is read by  *)
(* Decompose's operators.                                                  *)
(***************************************************************************)
EXTENDS Router, Decompose

CONSTANT Sources    \* file -> its fragments, with their names

Symbols == {"fn", "type", "impl"}
Parsed(file) == file \in DOMAIN Sources
frags_of(file) == Sources[file]
ext_of(file) == Last(Last(file))
has_fragment(file, path) == Parsed(file) /\ find_fragment(frags_of(file), path) # NotFound

companion_name(name) == Append(name, "@")
HasSuffix(name) == name # <<>> /\ Last(name) = "@"
(* The suffix alone is no companion of anything.                           *)
Suffixed(name) == HasSuffix(name) /\ Len(name) > 1

(* A path from one directory of the tree to another.                       *)
relative_to(path, base) ==
    LET common == Largest({0} \cup {n \in 1 .. Len(path) :
                                n <= Len(base) /\ SubSeq(path, 1, n) = SubSeq(base, 1, n)})
    IN [i \in 1 .. Len(base) - common |-> <<"..">>] \o SubSeq(path, common + 1, Len(path))
Link(name, target) == with(Node("link", name), "target", Cap("link", target, <<>>, <<>>))

slice_node(name, file, frag, what) ==
    with(with(Node("file", name), "readable", Cap("read", file, frag, what)),
         "writable", Cap("write", file, frag, what))
lazy_node(name, file, frag, what) ==
    with(Node("file", name), "readable", Cap("read", file, frag, what))

fragment_body_path(path, ext) ==
    <<<<"symbols">>>> \o [i \in DOMAIN path |-> companion_name(path[i])] \o <<<<"body", ext>>>>

----------------------------------------------------------------------------
(* The directories of fragments.                                           *)

delete_unlinkable(file, path) == Cap("delete", file, path, <<>>)

build_fragment_nodes(frags, file, parent) ==
    LET named == SelectSeq(frags, LAMBDA f : f.fs_name # NoName)
    IN [i \in DOMAIN named |->
            with(Node("dir", companion_name(named[i].fs_name)), "unlinkable",
                 delete_unlinkable(file, Append(parent, named[i].fs_name)))]

child_of_kind(frag, kind) == \E c \in ToSet(frag.children) : c.kind = kind

(* The texts of a fragment that it has.                                    *)
build_meta_nodes(frag, file, path) ==
    LET node(has_it, name) == IF has_it THEN <<slice_node(name, file, path, <<name[1]>>)>> ELSE <<>>
    IN node(frag.kind \in Symbols, <<"signature", ext_of(file)>>)
       \o node(child_of_kind(frag, "docstring"), <<"docstring", ".txt">>)
       \o node(child_of_kind(frag, "decorator"), <<"decorators", ext_of(file)>>)
       \o (IF frag.children = <<>> THEN <<>>
           ELSE <<lazy_node(<<"OVERVIEW", ".md">>, file, path, <<"overview">>)>>)

resolve_fragment_dir(file, path) ==
    LET hit == find_fragment(frags_of(file), path)
        blocks == SelectSeq(hit[1].children, LAMBDA c : c.kind = "codeblock")
    IN IF hit = NotFound THEN <<>>
       ELSE <<slice_node(<<"body", ext_of(file)>>, file, path, <<"body">>)>>
            \o build_meta_nodes(hit[1], file, path)
            \o build_fragment_nodes(
                    SelectSeq(hit[1].children, LAMBDA c : c.kind # "codeblock"), file, path)
            \o (IF blocks = <<>> THEN <<>> ELSE <<Node("dir", <<"code">>)>>)
            \o <<with(Node("dir", <<"edit">>), "permissions", NoCap)>>

resolve_code_block_dir(file, parent) ==
    LET hit == find_fragment(frags_of(file), parent)
        blocks == SelectSeq(hit[1].children, LAMBDA c : c.kind = "codeblock" /\ c.fs_name # NoName)
    IN IF hit = NotFound THEN <<>>
       ELSE [i \in DOMAIN blocks |->
                slice_node(Append(blocks[i].fs_name, ".txt"), file,
                           Append(parent, blocks[i].fs_name), <<"codeblock">>)]

----------------------------------------------------------------------------
(* symbols/ itself and the ways to a symbol by kind, by name and by line.  *)

OfKind(file, kind) ==
    SelectSeq(frags_of(file), LAMBDA f : f.kind \in Symbols /\ f.kind = kind /\ f.fs_name # NoName)

resolve_by_kind_root(file) ==
    LET kinds == InSomeOrder({f.kind : f \in ToSet(frags_of(file))} \cap Symbols)
    IN [i \in DOMAIN kinds |-> Node("dir", <<kinds[i]>>)]

resolve_by_kind_filter(file, name) ==
    LET hits == OfKind(file, name[1])
        base == <<<<"symbols">>, <<"by-kind">>, name>>
        ext == ext_of(file)
    IN IF Len(name) # 1 THEN <<>>
       ELSE [i \in DOMAIN hits |->
                Link(Append(hits[i].fs_name, ext),
                     relative_to(fragment_body_path(<<hits[i].fs_name>>, ext), base))]

(* symbols/Foo.rs for a symbol of the file's top level, never listed.      *)
lookup_symbol_shorthand(file, name) ==
    LET ext == ext_of(file)
        hit == name # <<>> /\ Last(name) = ext
               /\ \E f \in ToSet(frags_of(file)) : f.fs_name # NoName /\ f.fs_name = Front(name)
    IN IF ~hit THEN <<>>
       ELSE <<Link(name, relative_to(fragment_body_path(<<Front(name)>>, ext), <<<<"symbols">>>>))>>

(* The line a name stands for, if it does.                                 *)
Lines == 1 .. 9
AsLine(name) == {n \in Lines : name = <<ToString(n)>>}

lookup_at_line(file, line, name) ==
    LET path == find_nearest_fragment_at_line(frags_of(file), line - 1)
    IN IF path = NotFound THEN <<>>
       ELSE <<Link(name, relative_to(fragment_body_path(path, ext_of(file)),
                                     <<<<"symbols">>, <<"at-line">>>>))>>

----------------------------------------------------------------------------
(* The paths below symbols/.                                               *)

(* Split at "/", an empty rest is one empty name.                          *)
segments(ctx) == IF ctx["path"] = <<>> THEN <<<<"">>>> ELSE ctx["path"]

classify_fragment_path(path) ==
    CASE Len(path) > 1 /\ Last(path) = <<"code">> -> "code"
      [] Len(path) > 1 /\ Last(path) = <<"edit">> -> "edit"
      [] OTHER -> "fragment"

staged_diff_node(file) ==
    with(Node("file", <<"staged", ".diff">>), "writable", Cap("clear", file, <<>>, <<>>))

fragment_readdir(ctx, req) ==
    LET path == segments(ctx)
        file == req.source
        route == classify_fragment_path(path)
    IN CASE route = "code" -> [req EXCEPT !.nodes = extend(@, resolve_code_block_dir(file, Front(path)))]
         [] route = "edit" -> IF has_fragment(file, Front(path)) THEN Adds(req, staged_diff_node(file))
                              ELSE req
         [] OTHER -> [req EXCEPT !.nodes = extend(@, SelectSeq(resolve_fragment_dir(file, path),
                                                               LAMBDA n : n.name # <<"edit">>))]

(* Every directory that is a fragment's gets its removal.  A name that is  *)
(* the last of the path is taken for the fragment of the path.             *)
attach_unlinkables(req, path) ==
    LET bare(n) == Front(n.name)
        of(n) == IF Last(path) = bare(n) THEN path ELSE Append(path, bare(n))
        wanted(n) == /\ n.kind = "dir" /\ ~has(n, "unlinkable") /\ Suffixed(n.name)
                     /\ has_fragment(req.source, of(n))
    IN [req EXCEPT !.nodes =
            [i \in DOMAIN @ |-> IF wanted(@[i])
                                THEN with(@[i], "unlinkable", delete_unlinkable(req.source, of(@[i])))
                                ELSE @[i]]]

(* Mutant: the removal of a symbol's preview is the symbol's of the name.  *)
set_delete_diff_source_bare(req, path) ==
    IF has_fragment(req.source, path)
    THEN [req EXCEPT !.diff = delete_unlinkable(req.source, <<Last(path)>>)] ELSE req

set_delete_diff_source(req, path) ==
    IF has_fragment(req.source, path)
    THEN [req EXCEPT !.diff = delete_unlinkable(req.source, path)] ELSE req

(* The preview of the staged edits and what applies them.                  *)
attach_staged(req, file) ==
    Adds([req EXCEPT !.diff = Cap("apply", file, <<>>, <<>>)], staged_diff_node(file))

fragment_lookup(ctx, req) ==
    LET path == segments(ctx)
        file == req.source
        name == req.op.name
        route == classify_fragment_path(path)
    IN CASE route = "code" ->
                [req EXCEPT !.nodes = extend(@, retain(resolve_code_block_dir(file, Front(path)), name))]
         [] route = "edit" ->
                IF name = <<"staged", ".diff">> /\ has_fragment(file, Front(path))
                THEN attach_staged(req, file) ELSE req
         [] route = "fragment" /\ name = <<"delete", ".diff">> -> set_delete_diff_source(req, path)
         [] OTHER -> attach_unlinkables(
                [req EXCEPT !.nodes = extend(@, retain(resolve_fragment_dir(file, path), name))], path)

(* A creation in edit/ named for a kind of edit stages one without content *)
(* and leaves a file that takes it; others are left to the chain.          *)
fragment_create(ctx, req) ==
    LET path == segments(ctx)
        kinds == {k \in OpKinds : req.op.name = <<k>>}
        edit == Cap("stage", req.source, Front(path), req.op.name)
    IN IF /\ classify_fragment_path(path) = "edit" /\ kinds # {}
          /\ has_fragment(req.source, Front(path))
       THEN Adds(Does(req, edit), with(Node("file", req.op.name), "writable", edit))
       ELSE req

----------------------------------------------------------------------------
(* The tree, with what other plugins register for fragments' directories.  *)

build_tree(fragment_path) ==
    LET kinds == Dir(<<"by-kind">>,
            [Tree0 EXCEPT !.on_readdir = <<"by_kind">>,
                          !.entries = <<Capture("kind", [Tree0 EXCEPT !.on_readdir = <<"of_kind">>])>>])
        line == Dir(<<"at-line">>, [Tree0 EXCEPT !.on_lookup = <<"at_line">>])
        path == Rest("path", apply_to(fragment_path,
                    [Tree0 EXCEPT !.on_readdir = <<"fragment_readdir">>,
                                  !.on_lookup = <<"fragment_lookup">>,
                                  !.on_create = <<"fragment_create">>]))
        symbols == Dir(<<"symbols">>,
            [Tree0 EXCEPT !.on_readdir = <<"symbols">>, !.on_lookup = <<"shorthand">>,
                          !.entries = <<Content("overview"), Content("imports"), Content("docstring"),
                                        kinds, line, path>>])
    IN build([Tree0 EXCEPT !.entries = <<Content("file_overview"), Content("lines"), symbols>>])

(* The callbacks of the tree; those that need a file do nothing without.   *)
SourceCall(cb, ctx, req) ==
    LET file == req.source
        add_all(nodes) == [req EXCEPT !.nodes = extend(@, nodes)]
    IN CASE file = <<>> -> req
         [] cb = "symbols" -> add_all(build_fragment_nodes(frags_of(file), file, <<>>))
         [] cb = "shorthand" -> add_all(lookup_symbol_shorthand(file, req.op.name))
         [] cb = "by_kind" -> add_all(resolve_by_kind_root(file))
         [] cb = "of_kind" -> add_all(resolve_by_kind_filter(file, ctx["kind"][1]))
         [] cb = "at_line" ->
                IF AsLine(req.op.name) = {} THEN Fails(req, "not a line")
                ELSE add_all(lookup_at_line(file, CHOOSE n \in AsLine(req.op.name) : TRUE, req.op.name))
         [] cb = "fragment_readdir" -> fragment_readdir(ctx, req)
         [] cb = "fragment_lookup" -> fragment_lookup(ctx, req)
         [] cb = "fragment_create" -> fragment_create(ctx, req)

SourceContent(cb, ctx, req) ==
    LET file == req.source
        of_kind(kind, node) == IF \E f \in ToSet(frags_of(file)) : f.kind = kind THEN <<node>> ELSE <<>>
    IN CASE file = <<>> -> <<>>
         [] cb \in {"file_overview", "overview"} ->
                <<lazy_node(<<"OVERVIEW", ".md">>, file, <<>>, <<cb>>)>>
         [] cb = "lines" -> <<slice_node(<<"lines">>, file, <<>>, <<"lines">>)>>
         [] cb = "imports" -> of_kind("imports",
                slice_node(<<"imports", ext_of(file)>>, file, <<>>, <<"imports">>))
         [] cb = "docstring" -> of_kind("docstring",
                slice_node(<<"docstring", ".txt">>, file, <<>>, <<"docstring">>))

(* What the plugin registers elsewhere: the views of a directory, and the  *)
(* edits staged for any file under the mount's own companion.              *)
SourceMount == [Tree0 EXCEPT !.entries = <<Dir(<<"edit">>,
                    [Tree0 EXCEPT !.on_lookup = <<"staged">>, !.entries = <<Content("staged")>>])>>]
SourceDir == [Tree0 EXCEPT !.entries = <<Content("dir_overview")>>]
StagedCall(req) == IF req.op.name = <<"staged", ".diff">> THEN attach_staged(req, <<>>) ELSE req
DirOverview(req) ==
    IF req.source = <<>> THEN <<>>
    ELSE <<lazy_node(<<"OVERVIEW", ".md">>, req.source, <<>>, <<"dir_overview">>)>>
=============================================================================
