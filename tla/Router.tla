------------------------------- MODULE Router -------------------------------
(***************************************************************************)
(* The middleware that answers a filesystem request: nodes with capability *)
(* slots, the accumulator that merges them, trees of routes with their     *)
(* callbacks, the extensions other plugins mount into a tree, and the      *)
(* order of the providers in the chain.                                    *)
(*                                                                         *)
(* A name is a sequence of parts, <<"a", ".rs", "@">>, and a path is a     *)
(* sequence of names.  A callback is a string; what it does to a request   *)
(* is for Call to say.                                                     *)
(***************************************************************************)
EXTENDS Naturals, Sequences, SequencesExt, FiniteSetsExt, Functions, TLC

CONSTANTS Call(_, _, _, _),  \* what a provider's callback does to a request
          Make(_, _, _, _),  \* the nodes of a provider's static entry
          Run(_, _)          \* what a chain of providers makes of a request

(* What a capability does, and to what: a file, a symbol of it, a name.    *)
Cap(act, file, frag, arg) == [act |-> act, file |-> file, frag |-> frag, arg |-> arg]
NoCap == Cap("none", <<>>, <<>>, <<>>)

(* The order of a directory's entries is anyone's.                         *)
InSomeOrder(S) == FoldSet(LAMBDA x, seq : Append(seq, x), <<>>, S)

Node(kind, name) == [kind |-> kind, name |-> name, slots |-> <<>>]
with(node, slot, cap) == [node EXCEPT !.slots = (slot :> cap) @@ @]
has(node, slot) == slot \in DOMAIN node.slots

permissions(node) ==
    IF has(node, "permissions") \/ node.kind = "link" THEN {"r", "w", "x"}
    ELSE IF node.kind = "dir"
         THEN {"r", "x"} \cup (IF has(node, "writable") \/ has(node, "unlinkable") THEN {"w"} ELSE {})
    ELSE (IF has(node, "readable") THEN {"r"} ELSE {}) \cup (IF has(node, "writable") THEN {"w"} ELSE {})

(* The provider that came first keeps the slots both have.                 *)
merge_slots(node, other) == [node EXCEPT !.slots = @ @@ other.slots]

(* The accumulated nodes, in the order they were added.                    *)
Find(nodes, name) == {i \in DOMAIN nodes : nodes[i].name = name}
add(nodes, node) ==
    IF Find(nodes, node.name) = {} THEN Append(nodes, node)
    ELSE [i \in DOMAIN nodes |->
            IF nodes[i].name = node.name THEN merge_slots(nodes[i], node) ELSE nodes[i]]
RECURSIVE extend(_, _)
extend(nodes, more) == IF more = <<>> THEN nodes ELSE extend(add(nodes, Head(more)), Tail(more))
retain(nodes, name) == SelectSeq(nodes, LAMBDA n : n.name = name)

----------------------------------------------------------------------------
(* A request: the directory, the operation in it, what the providers have  *)
(* found so far, the state they leave for one another, whether one of them *)
(* gave up, and what was done to files, staged edits or the repository.    *)

Op(kind, name) == [kind |-> kind, name |-> name, dir |-> <<>>, to |-> <<>>]
is_query(op) == op.kind \in {"readdir", "lookup"}

Request(path, op) ==
    [path |-> path, op |-> op, nodes |-> <<>>, companion |-> FALSE, source |-> <<>>,
     visibility |-> "none", who |-> "unknown", diff |-> NoCap, err |-> "none", did |-> <<>>]

Fails(req, err) == [req EXCEPT !.err = err]
Does(req, cap) == [req EXCEPT !.did = Append(@, cap)]
Adds(req, node) == [req EXCEPT !.nodes = add(@, node)]

----------------------------------------------------------------------------
(* Route trees.  A handler is the two callbacks it runs around the rest of *)
(* the chain; no provider has one that leaves the rest out.                *)

Tree0 == [entries |-> <<>>, on_readdir |-> <<>>, on_lookup |-> <<>>, on_create |-> <<>>,
          handler |-> <<>>]
Entry(t, name, cb, tree) == [t |-> t, name |-> name, cb |-> cb, tree |-> tree]
Content(cb) == Entry("content", <<>>, cb, [none |-> TRUE])
Dir(name, tree) == Entry("dir", name, "none", tree)
Capture(param, tree) == Entry("capture", <<param>>, "none", tree)
Rest(param, tree) == Entry("rest", <<param>>, "none", tree)

(* Two trees for one directory: the handler of the second replaces.        *)
merge(tree, other) ==
    [entries |-> tree.entries \o other.entries,
     on_readdir |-> tree.on_readdir \o other.on_readdir,
     on_lookup |-> tree.on_lookup \o other.on_lookup,
     on_create |-> tree.on_create \o other.on_create,
     handler |-> IF other.handler = <<>> THEN tree.handler ELSE other.handler]

(* Mutant: the merged directory's own entries are left as they are.        *)
dedup_dirs_once(tree) ==
    LET keep(done, e) ==
            LET same == {i \in DOMAIN done : e.t = "dir" /\ done[i].t = "dir" /\ done[i].name = e.name}
            IN IF same = {} THEN Append(done, e)
               ELSE [i \in DOMAIN done |->
                        IF i \notin same THEN done[i]
                        ELSE [done[i] EXCEPT !.tree = merge(@, e.tree)]]
    IN [tree EXCEPT !.entries = FoldLeft(keep, <<>>, @)]

(* One directory for each name, as only the first is ever entered.         *)
RECURSIVE dedup_dirs(_)
dedup_dirs(tree) ==
    LET keep(done, e) ==
            LET same == {i \in DOMAIN done : e.t = "dir" /\ done[i].t = "dir" /\ done[i].name = e.name}
            IN IF same = {} THEN Append(done, e)
               ELSE [i \in DOMAIN done |->
                        IF i \notin same THEN done[i]
                        ELSE [done[i] EXCEPT !.tree = dedup_dirs(merge(@, e.tree))]]
    IN [tree EXCEPT !.entries = FoldLeft(keep, <<>>, @)]

(* A builder's dirs, captures and rests are built before it is.            *)
RECURSIVE build(_)
build(tree) ==
    dedup_dirs([tree EXCEPT !.entries =
        [i \in DOMAIN @ |-> IF @[i].t = "content" THEN @[i]
                            ELSE [@[i] EXCEPT !.tree = build(@)]]])

(* An extension is a tree too: what it registered follows what the builder *)
(* has already.                                                            *)
apply_to(ext, builder) == merge(builder, ext)

----------------------------------------------------------------------------
(* Dispatch: where a path leads in a tree, with what the captures took.    *)

NoRoute == [found |-> FALSE, tree |-> Tree0, ctx |-> <<>>]
Arrived(tree, ctx) == [found |-> TRUE, tree |-> tree, ctx |-> ctx]

RECURSIVE dispatch_at(_, _, _)
dispatch_at(tree, segments, ctx) ==
    LET dirs == {i \in DOMAIN tree.entries :
                    tree.entries[i].t = "dir" /\ tree.entries[i].name = Head(segments)}
        dynamic == {i \in DOMAIN tree.entries : tree.entries[i].t \in {"capture", "rest"}}
        first(S) == tree.entries[CHOOSE i \in S : \A j \in S : i <= j]
    IN IF segments = <<>> THEN Arrived(tree, ctx)
       ELSE IF dirs # {} THEN dispatch_at(first(dirs).tree, Tail(segments), ctx)
       ELSE IF dynamic = {} THEN NoRoute
       ELSE IF first(dynamic).t = "rest"
            THEN Arrived(first(dynamic).tree, first(dynamic).name[1] :> segments @@ ctx)
       ELSE dispatch_at(first(dynamic).tree, Tail(segments),
                        first(dynamic).name[1] :> <<Head(segments)>> @@ ctx)

----------------------------------------------------------------------------
(* At the level of a tree a path leads to.  The callbacks are those of the *)
(* provider whose tree it is; next are the providers left of the chain.    *)

(* The callbacks of a level one after the other, up to the first error.    *)
RECURSIVE RunAll(_, _, _, _)
RunAll(owner, cbs, ctx, req) ==
    IF cbs = <<>> \/ req.err # "none" THEN req
    ELSE RunAll(owner, Tail(cbs), ctx, Call(owner, Head(cbs), ctx, req))

(* A removal runs the callbacks of a lookup.  A lookup without callbacks   *)
(* of its own keeps what the listing has of the name.                      *)
callbacks(tree, op) ==
    CASE op.kind = "readdir" -> tree.on_readdir
      [] op.kind \in {"lookup", "remove"} /\ tree.on_lookup # <<>> -> tree.on_lookup
      [] op.kind = "lookup" /\ tree.on_lookup = <<>> -> tree.on_readdir
      [] op.kind = "create" -> tree.on_create
      [] OTHER -> <<>>
named_only(tree, req) ==
    IF req.op.kind # "lookup" \/ tree.on_lookup # <<>> \/ tree.on_readdir = <<>> \/ req.err # "none"
    THEN req ELSE [req EXCEPT !.nodes = retain(@, req.op.name)]
run_op_callbacks(owner, tree, ctx, req) ==
    named_only(tree, RunAll(owner, callbacks(tree, req.op), ctx, req))

on_create_claimed(req) == req.op.kind = "create" /\ Find(req.nodes, req.op.name) # {}

(* The callbacks of the directories a level captures by their whole rest   *)
(* of the path: with the looked-up name for it, or with an empty one.      *)
RECURSIVE into_rests(_, _, _, _)
into_rests(owner, rests, ctx, req) ==
    LET rest == IF req.op.kind = "readdir" THEN <<>> ELSE <<req.op.name>>
    IN IF rests = <<>> \/ req.err # "none" \/ ~is_query(req.op) THEN req
       ELSE into_rests(owner, Tail(rests), ctx,
                run_op_callbacks(owner, Head(rests).tree, Head(rests).name[1] :> rest @@ ctx, req))
dispatch_into_rest(owner, tree, ctx, req) ==
    into_rests(owner, SelectSeq(tree.entries, LAMBDA e : e.t = "rest"), ctx, req)

(* The static entries of the level, the one of the name for a lookup.      *)
auto_emit(owner, tree, ctx, req) ==
    LET made(e) == CASE e.t = "content" -> Make(owner, e.cb, ctx, req)
                     [] e.t = "dir" -> <<Node("dir", e.name)>>
                     [] OTHER -> <<>>
        all == FlattenSeq([i \in DOMAIN tree.entries |-> made(tree.entries[i])])
    IN IF ~is_query(req.op) \/ req.err # "none" THEN req
       ELSE [req EXCEPT !.nodes = extend(@, IF req.op.kind = "readdir" THEN all
                                            ELSE retain(all, req.op.name))]

(* The level's handler or its callbacks with the rest of the chain, then   *)
(* what it captures, then its entries; an error ends it there.             *)
opened(owner, tree, ctx, req) ==
    IF tree.handler # <<>> THEN Call(owner, tree.handler[1], ctx, req)
    ELSE run_op_callbacks(owner, tree, ctx, req)
passed(tree, req, next) ==
    IF req.err # "none" \/ (tree.handler = <<>> /\ on_create_claimed(req)) THEN req ELSE Run(next, req)
closed(owner, tree, ctx, req) ==
    IF tree.handler = <<>> \/ req.err # "none" THEN req ELSE Call(owner, tree.handler[2], ctx, req)
handle_here(owner, tree, ctx, req, next) ==
    auto_emit(owner, tree, ctx,
        dispatch_into_rest(owner, tree, ctx,
            closed(owner, tree, ctx, passed(tree, opened(owner, tree, ctx, req), next))))

dispatch_to(owner, at, req, next) ==
    IF at.found THEN handle_here(owner, at.tree, at.ctx, req, next) ELSE Run(next, req)
dispatch(owner, tree, req, next) == dispatch_to(owner, dispatch_at(tree, req.path, <<>>), req, next)
=============================================================================
