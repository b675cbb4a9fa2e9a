----------------------------- MODULE Decompose -----------------------------
(***************************************************************************)
(* How a source file becomes a tree of named fragments: the sections of a  *)
(* Markdown document, the blocks of a Jinja2 template, the document inside *)
(* a template with its ranges mapped back, the names fragments get as      *)
(* directories, and the two ways to find one: by its names and by a line.  *)
(* A document is a sequence of tokens, one to a line: headings, text and   *)
(* code blocks belong to the document, the others to the template.  A byte *)
(* offset is the number of tokens before it.                               *)
(***************************************************************************)
EXTENDS TextEdits, FiniteSets

Inner == {"heading", "text", "fence"}
Structural == {"docstring", "imports", "decorator"}
NoName == <<>>

Frag(kind, name, from, to, children) ==
    [kind |-> kind, name |-> name, from |-> from, to |-> to, children |-> children,
     fs_name |-> NoName]

Sorted(S) == SetToSortSeq(S, <)

----------------------------------------------------------------------------
(* Markdown: a section runs to the next heading of its level or a higher.  *)

(* The code blocks of a section that are in none of its subsections.       *)
build_code_block_fragments(fences, from, to, inner) ==
    LET own == {p \in fences : p >= from /\ p < to
                                 /\ ~\E c \in ToSet(inner) : p >= c.from /\ p < c.to}
    IN [k \in 1 .. Len(Sorted(own)) |->
            Frag("codeblock", NoName, Sorted(own)[k], Sorted(own)[k] + 1, <<>>)]

(* headings: their places and levels.  Those before the first of the top   *)
(* level are passed over.                                                  *)
RECURSIVE build_sections_at_level(_, _, _)
build_sections_at_level(headings, fences, end) ==
    IF headings = <<>> THEN <<>>
    ELSE LET top == Smallest({h.level : h \in ToSet(headings)})
             tops == Sorted({i \in DOMAIN headings : headings[i].level = top})
             section(k) ==
                LET next == IF k < Len(tops) THEN tops[k + 1] ELSE Len(headings) + 1
                    from == headings[tops[k]].at
                    to == IF k < Len(tops) THEN headings[next].at ELSE end
                    inner == build_sections_at_level(
                                SubSeq(headings, tops[k] + 1, next - 1), fences, to)
                IN Frag("section", headings[tops[k]].name, from, to,
                        inner \o build_code_block_fragments(fences, from, to, inner))
         IN [k \in DOMAIN tops |-> section(k)]

Markdown(tokens) ==
    LET places == Sorted({i \in DOMAIN tokens : tokens[i].t = "heading"})
        headings == [k \in DOMAIN places |->
                        [at |-> places[k] - 1, level |-> tokens[places[k]].level,
                         name |-> tokens[places[k]].name]]
        fences == {i - 1 : i \in {j \in DOMAIN tokens : tokens[j].t = "fence"}}
        first == IF headings = <<>> THEN Len(tokens) ELSE headings[1].at
        preamble == IF first = 0 THEN <<>>
                    ELSE <<Frag("preamble", <<"preamble">>, 0, first, <<>>)>>
    IN preamble \o build_sections_at_level(headings, fences, Len(tokens))

----------------------------------------------------------------------------
(* Jinja2: one walk over the directives with a stack of the open ones.     *)

(* Mutant: directives that make no symbol are not kept on the stack.       *)
handle_emitting_node(walk, tokens, i) ==
    CASE tokens[i].t = "block" ->
            [walk EXCEPT !.stack = Append(@, [at |-> i - 1, emits |-> TRUE])]
      [] tokens[i].t = "set" ->
            [walk EXCEPT !.symbols = Append(@, Frag("set", <<"s">>, i - 1, i, <<>>))]
      [] tokens[i].t = "end" /\ walk.stack # <<>> ->
            [stack |-> Front(walk.stack),
             symbols |-> Append(walk.symbols,
                                Frag("block", <<"b">>, Last(walk.stack).at, i, <<>>))]
      [] OTHER -> walk

(* A "block" (or macro) becomes a symbol when its end tag pops it; a       *)
(* "loop" (for, if) is there to take its own end tag; "set" has none.      *)
handle_control_node(walk, tokens, i) ==
    CASE tokens[i].t \in {"block", "loop"} ->
            [walk EXCEPT !.stack = Append(@, [at |-> i - 1, emits |-> tokens[i].t = "block"])]
      [] tokens[i].t = "set" ->
            [walk EXCEPT !.symbols = Append(@, Frag("set", <<"s">>, i - 1, i, <<>>))]
      [] tokens[i].t = "end" /\ walk.stack # <<>> ->
            [stack |-> Front(walk.stack),
             symbols |-> IF ~Last(walk.stack).emits THEN walk.symbols
                         ELSE Append(walk.symbols,
                                     Frag("block", <<"b">>, Last(walk.stack).at, i, <<>>))]
      [] OTHER -> walk

Template(tokens) ==
    LET heads == {i \in DOMAIN tokens : tokens[i].t = "extends"}
        walk == FoldLeft(LAMBDA w, i : handle_control_node(w, tokens, i),
                         [stack |-> <<>>, symbols |-> <<>>], [i \in DOMAIN tokens |-> i])
    IN (IF heads = {} THEN <<>>
        ELSE <<Frag("preamble", <<"preamble">>, Smallest(heads) - 1, Largest(heads), <<>>)>>)
       \o walk.symbols

(* The content nodes: a heading is one of its own, as the grammar takes it *)
(* for a line comment; other content runs up to the next node.             *)
Regions(tokens) ==
    LET starts == {i \in DOMAIN tokens :
                        /\ tokens[i].t \in Inner
                        /\ \/ i = 1 \/ tokens[i].t = "heading"
                           \/ tokens[i - 1].t \notin Inner \ {"heading"}}
        end(i) == Smallest({j \in i + 1 .. Len(tokens) :
                                j \in starts \/ tokens[j].t \notin Inner} \cup {Len(tokens) + 1})
        at == Sorted(starts)
    IN [k \in DOMAIN at |-> [from |-> at[k] - 1, to |-> end(at[k]) - 1]]

----------------------------------------------------------------------------
(* SpanMap: offsets in the joined content, and back in the whole file.     *)

VirtualStart(regions, k) ==
    FoldLeft(LAMBDA n, r : n + r.to - r.from, 0, SubSeq(regions, 1, k - 1))

region_index(regions, v) ==
    Largest({k \in DOMAIN regions : VirtualStart(regions, k) <= v})

to_real(regions, v) ==
    LET k == region_index(regions, v) IN regions[k].from + v - VirtualStart(regions, k)

(* Mutant: both ends are mapped as they are.                               *)
remap_ends(regions, from, to) ==
    [from |-> to_real(regions, from), to |-> to_real(regions, to - 1) + 1]

(* A range over several regions is cut at the end of its first.            *)
remap_range(regions, from, to) ==
    LET first == region_index(regions, from)
        last == region_index(regions, to - 1)
    IN [from |-> to_real(regions, from),
        to |-> IF to <= from THEN to_real(regions, from)
               ELSE IF first = last THEN to_real(regions, to - 1) + 1
               ELSE regions[first].to]

RECURSIVE remap_fragment(_, _)
remap_fragment(regions, frag) ==
    LET range == remap_range(regions, frag.from, frag.to)
    IN [frag EXCEPT !.from = range.from, !.to = range.to,
                    !.children = [k \in DOMAIN @ |-> remap_fragment(regions, @[k])]]

(* The document inside the template, among the template's own symbols.     *)
Injected(tokens) ==
    LET regions == Regions(tokens)
        inner == Markdown(SelectSeq(tokens, LAMBDA k : k.t \in Inner))
        all == Template(tokens) \o [k \in DOMAIN inner |-> remap_fragment(regions, inner[k])]
        place(i) == 1 + Len(SelectSeq([j \in DOMAIN all |-> j],
                        LAMBDA j : all[j].from < all[i].from \/ (all[j].from = all[i].from /\ j < i)))
    IN [p \in DOMAIN all |-> all[CHOOSE i \in DOMAIN all : place(i) = p]]

----------------------------------------------------------------------------
(* Directory names.  A name is a sequence of parts, so <<"a", "2">> is a   *)
(* symbol named a-2 as well as the second of two named a.                  *)

apply_naming(frags, naming) ==
    LET name(i) ==
            IF frags[i].kind \in Structural THEN NoName
            ELSE IF naming = "identity" THEN frags[i].name
            ELSE IF frags[i].kind = "codeblock"
                 THEN <<ToString(10 * Len(SelectSeq(SubSeq(frags, 1, i),
                                                    LAMBDA f : f.kind = "codeblock")))>>
            ELSE <<ToString(i - 1)>> \o frags[i].name
    IN [i \in DOMAIN frags |-> [frags[i] EXCEPT !.fs_name = name(i)]]

(* Mutant: the kind alone tells the siblings of one name apart.            *)
resolve_by_kind(frags, strategy) ==
    [i \in DOMAIN frags |->
        IF frags[i].fs_name # NoName
           /\ \E j \in DOMAIN frags : j # i /\ frags[j].fs_name = frags[i].fs_name
        THEN [frags[i] EXCEPT !.fs_name = Append(@, frags[i].kind)] ELSE frags[i]]

(* Siblings of one name: numbered from the second on, or told apart by     *)
(* their kind and numbered within it.                                      *)
resolve_level_conflicts(frags, strategy) ==
    LET rank(i, same(_)) == Len(SelectSeq([j \in 1 .. i |-> j], same))
        like(i) == {j \in DOMAIN frags : frags[j].fs_name = frags[i].fs_name}
        numbered(name, n) == IF n = 1 THEN name ELSE Append(name, ToString(n))
        resolved(i) ==
            IF frags[i].fs_name = NoName \/ like(i) = {i} THEN frags[i].fs_name
            ELSE IF strategy = "numbered"
                 THEN numbered(frags[i].fs_name, rank(i, LAMBDA j : j \in like(i)))
                 ELSE numbered(Append(frags[i].fs_name, frags[i].kind),
                               rank(i, LAMBDA j : j \in like(i) /\ frags[j].kind = frags[i].kind))
    IN [i \in DOMAIN frags |-> [frags[i] EXCEPT !.fs_name = resolved(i)]]

RECURSIVE assign_fs_names(_, _, _)
assign_fs_names(frags, naming, strategy) ==
    LET below == [i \in DOMAIN frags |->
                    [frags[i] EXCEPT !.children = assign_fs_names(@, naming, strategy)]]
    IN resolve_level_conflicts(apply_naming(below, naming), strategy)

----------------------------------------------------------------------------
(* Finding a fragment.  NotFound stands for None.                          *)

NotFound == <<>>
FirstOf(frags, hits) == IF hits = {} THEN NotFound ELSE <<frags[Smallest(hits)]>>
NamedSo(frags, name) == FirstOf(frags, {i \in DOMAIN frags : frags[i].fs_name = name})

RECURSIVE find_fragment(_, _)
find_inside(hit, path) ==
    IF hit = NotFound \/ path = <<>> THEN hit ELSE find_fragment(hit[1].children, path)
find_fragment(frags, path) ==
    IF path = <<>> THEN NotFound ELSE find_inside(NamedSo(frags, Head(path)), Tail(path))

(* The lines of a fragment.  A range that ends with its last line's        *)
(* newline ends, as an offset, on the line after it.                       *)
fragment_lines(frag) ==
    LET span == full_span(frag)
    IN span.from .. (IF frag.kind \in {"section", "preamble", "codeblock"} THEN span.to
                     ELSE span.to - 1)

AroundLine(frags, line) ==
    FirstOf(frags, {i \in DOMAIN frags :
        frags[i].kind \notin Structural /\ line \in fragment_lines(frags[i])})

RECURSIVE find_fragment_at_line(_, _)
find_in_hit(hit, line) ==
    IF hit = NotFound THEN NotFound
    ELSE (IF hit[1].fs_name = NoName THEN <<>> ELSE <<hit[1].fs_name>>)
         \o find_fragment_at_line(hit[1].children, line)
find_fragment_at_line(frags, line) == find_in_hit(AroundLine(frags, line), line)

(* The same, or the nearest of the level: the one before rather than the   *)
(* one after, and the first of several.  A container without a name is     *)
(* looked through.                                                         *)
RECURSIVE find_nearest_fragment_at_line(_, _)
find_nearest_fragment_at_line(frags, line) ==
    LET around == AroundLine(frags, line)
        exact == find_fragment_at_line(frags, line)
        named == SelectSeq(frags, LAMBDA f : f.fs_name # NoName)
        far(f) == LET r == fragment_lines(f)
                  IN IF line < Smallest(r) THEN <<Smallest(r) - line, 1>>
                     ELSE <<line - Largest(r), 0>>
        nearer(f, g) == far(f)[1] < far(g)[1] \/ (far(f)[1] = far(g)[1] /\ far(f)[2] < far(g)[2])
    IN IF around # NotFound /\ around[1].fs_name = NoName
       THEN find_nearest_fragment_at_line(around[1].children, line)
       ELSE IF exact # NotFound \/ named = <<>> THEN exact
       ELSE <<FirstOf(named, {i \in DOMAIN named :
                        \A g \in ToSet(named) : ~nearer(g, named[i])})[1].fs_name>>

----------------------------------------------------------------------------
(* What the operators above should amount to.                              *)

(* Siblings of one sort follow one another and stay inside their parent.   *)
RECURSIVE Nested(_, _, _)
Nested(frags, from, to) ==
    /\ \A i \in DOMAIN frags : /\ from <= frags[i].from /\ frags[i].from < frags[i].to
                              /\ frags[i].to <= to
                              /\ Nested(frags[i].children, frags[i].from, frags[i].to)
    /\ \A i, j \in DOMAIN frags :
            i < j /\ (frags[i].kind = "codeblock" <=> frags[j].kind = "codeblock") =>
                frags[i].to <= frags[j].from

RECURSIVE Tree(_)
Tree(frags) == UNION {{frags[i]} \cup Tree(frags[i].children) : i \in DOMAIN frags}

(* The section a place belongs to: the last heading before it, unless all  *)
(* the headings of the top level come later.                               *)
SectionsNest(tokens) ==
    LET doc == Markdown(tokens)
        all == Tree(doc)
        sections == {f \in all : f.kind = "section"}
        fences == {i \in DOMAIN tokens : tokens[i].t = "fence"}
        holders(i) == {f \in sections : f.from < i /\ i <= f.to}
        inner(i) == CHOOSE f \in holders(i) : \A g \in holders(i) : g.from <= f.from
    IN /\ Nested(doc, 0, Len(tokens))
       /\ \A f \in sections :
             f.to = Smallest({i - 1 : i \in {j \in f.from + 2 .. Len(tokens) :
                                  tokens[j].t = "heading"
                                  /\ tokens[j].level <= tokens[f.from + 1].level}} \cup {Len(tokens)})
       /\ \A i \in fences : holders(i) # {} =>
             {f \in sections : \E c \in ToSet(f.children) : c.kind = "codeblock" /\ c.from = i - 1}
                = {inner(i)}

(* A block symbol for each block and the end tag that closes it.           *)
PairsMatch(tokens) ==
    LET opens(a, b) == Cardinality({i \in a .. b : tokens[i].t \in {"block", "loop"}})
        ends(a, b) == Cardinality({i \in a .. b : tokens[i].t = "end"})
        closes(i, j) == /\ opens(i, j) = ends(i, j)
                        /\ \A k \in i .. j - 1 : opens(i, k) > ends(i, k)
    IN {<<f.from + 1, f.to>> : f \in {g \in ToSet(Template(tokens)) : g.kind = "block"}}
         = {<<i, j>> \in (1 .. Len(tokens)) \X (1 .. Len(tokens)) :
                i < j /\ tokens[i].t = "block" /\ closes(i, j)}

(* A section of the inner document keeps to one stretch of content and     *)
(* starts at its own heading.                                              *)
BytesStayInContent(tokens) ==
    \A f \in {g \in Tree(Injected(tokens)) : g.kind \in {"section", "codeblock"}} :
        /\ \E r \in ToSet(Regions(tokens)) : r.from <= f.from /\ f.from < f.to /\ f.to <= r.to
        /\ tokens[f.from + 1].t = IF f.kind = "section" THEN "heading" ELSE "fence"

(* Every fragment with a directory is what its directory is resolved to;   *)
(* a symbol whose own name looks numbered may be in the way.               *)
NamesReachFragments(frags, naming, strategy) ==
    LET named == assign_fs_names(frags, naming, strategy)
        plain == \A f \in Tree(frags) : Len(f.name) = 1
    IN ~(strategy = "numbered" /\ ~plain) =>
       \A i \in DOMAIN named : named[i].fs_name # NoName =>
           /\ find_fragment(named, <<named[i].fs_name>>) = <<named[i]>>
           /\ \A k \in DOMAIN named[i].children :
                 LET child == named[i].children[k]
                 IN child.fs_name # NoName =>
                        find_fragment(named, <<named[i].fs_name, child.fs_name>>) = <<child>>

(* A line is looked up as the innermost fragment that holds it, but for a  *)
(* line that follows the end of another fragment; and the nearest fragment *)
(* to a line is missing from a file with none only.                        *)
AtLineFinds(tokens) ==
    LET named == assign_fs_names(Markdown(tokens), "slugified", "numbered")
        RECURSIVE way(_, _)
        way(frags, line) ==
            LET hit == FirstOf(frags, {i \in DOMAIN frags :
                                    frags[i].from <= line /\ line < frags[i].to})
            IN IF hit = NotFound THEN <<>> ELSE <<hit[1].fs_name>> \o way(hit[1].children, line)
    IN \A line \in 0 .. Len(tokens) - 1 :
          /\ (\A f \in Tree(named) : f.to # line) =>
                  find_fragment_at_line(named, line) = way(named, line)
          /\ named # <<>> => find_nearest_fragment_at_line(named, line) # NotFound
=============================================================================
