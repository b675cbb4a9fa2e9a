------------------------------ MODULE TodoTree ------------------------------
(***************************************************************************)
(* The TODO plugin: the scan of the tracked files for tags inside of       *)
(* comments, the overview of what it found, and @/todo/ with a directory   *)
(* of links for each tag.                                                  *)
(*                                                                         *)
(* A line of a file is what it begins with ("//", "#", "/*", "*" or code), *)
(* the tag on it, if any, the delimiter that stands before the tag, if the *)
(* parser takes the tag's place for a comment, if a colon follows the tag, *)
(* if the line closes a block comment, and what is left of it as text.     *)
(***************************************************************************)
EXTENDS LspTree

CONSTANTS Tags_,        \* the tags in the order of their priority
          IndexPaths,   \* the files git tracks, in order
          LinesOf       \* file -> its lines

----------------------------------------------------------------------------
(* One file.                                                               *)

prefix_heuristic(line) == line.lead \in {"//", "#", "/*", "*"} \/ line.before # ""

(* The lines with a tag inside a comment; by their looks where the parser  *)
(* knows of no comment.                                                    *)
find_tag_matches(text_lines) ==
    LET ranges == \E i \in DOMAIN text_lines : text_lines[i].comment
    IN SelectSeq([i \in DOMAIN text_lines |-> i], LAMBDA i :
            text_lines[i].tag # "" /\ IF ranges THEN text_lines[i].comment ELSE prefix_heuristic(text_lines[i]))

(* The line that ends the block comment around a line, if it is in one.    *)
find_block_comment_range(text_lines, at) ==
    LET opens == \E i \in 1 .. at : text_lines[i].lead = "/*"
        ends == {i \in at .. Len(text_lines) : text_lines[i].closes}
    IN IF opens /\ ends # {} THEN {Smallest(ends)} ELSE {}

(* The last line of the comment that the match is in, or none.             *)
find_comment_block(text_lines, at) ==
    LET line == text_lines[at]
        prefix == IF line.lead \in {"//", "#"} THEN line.lead ELSE line.before
        run == {i \in at .. Len(text_lines) : \A k \in at + 1 .. i : text_lines[k].lead = prefix}
    IN CASE line.lead \in {"/*", "*"} -> find_block_comment_range(text_lines, at)
         [] line.lead \in {"//", "#"} -> {Largest(run)}
         [] line.lead = "code" /\ line.before = "//" -> {at}
         [] line.lead = "code" /\ line.before = "#" -> {Largest(run)}
         [] OTHER -> {}

(* From the tag to the end of its comment, if a colon follows the tag and  *)
(* anything the colon.                                                     *)
scan_file(file) ==
    LET text_lines == LinesOf[file]
        end(at) == CHOOSE n \in find_comment_block(text_lines, at) : TRUE
        text(at) == FlattenSeq([i \in 1 .. end(at) - at + 1 |-> text_lines[at + i - 1].text])
        wanted(at) == find_comment_block(text_lines, at) # {} /\ text_lines[at].colon /\ text(at) # <<>>
        matches == SelectSeq(find_tag_matches(text_lines), wanted)
    IN [k \in DOMAIN matches |->
            [file |-> file, line |-> matches[k], tag |-> text_lines[matches[k]].tag,
             text |-> text(matches[k])]]

----------------------------------------------------------------------------
(* All tracked files that can be parsed.                                   *)

discover_files == SelectSeq(IndexPaths, LAMBDA file : Parsed(file))
scan_all ==
    LET files == discover_files
        found == FlattenSeq([i \in DOMAIN files |-> scan_file(files[i])])
    IN [tag \in ToSet(Tags_) |-> SelectSeq(found, LAMBDA e : e.tag = tag)]

group_by_file(entries) ==
    LET starts == SelectSeq([i \in DOMAIN entries |-> i],
                            LAMBDA i : i = 1 \/ entries[i - 1].file # entries[i].file)
        end(k) == IF k = Len(starts) THEN Len(entries) ELSE starts[k + 1] - 1
    IN [k \in DOMAIN starts |->
            [file |-> entries[starts[k]].file, entries |-> SubSeq(entries, starts[k], end(k))]]

PlaceIn(seq, x) == CHOOSE i \in DOMAIN seq : seq[i] = x

(* By file, then priority, then line.                                      *)
build_overview_view(index) ==
    LET all == FlattenSeq([i \in DOMAIN Tags_ |-> index[Tags_[i]]])
        key(e) == <<PlaceIn(IndexPaths, e.file), PlaceIn(Tags_, e.tag), e.line>>
        less(a, b) == \E i \in 1 .. 3 : key(a)[i] < key(b)[i] /\ \A k \in 1 .. i - 1 : key(a)[k] = key(b)[k]
    IN group_by_file(SortSeq(all, less))

build_tag_view(index, tag) ==
    LET less(a, b) == \/ PlaceIn(IndexPaths, a.file) < PlaceIn(IndexPaths, b.file)
                      \/ a.file = b.file /\ a.line < b.line
    IN group_by_file(SortSeq(index[tag], less))

----------------------------------------------------------------------------
(* @/todo/.                                                                *)

(* d__a.rs:3--fix: the path in one name, the line, the first words.        *)
fs_name(entry) ==
    LET file == entry.file
    IN FlattenSeq([i \in DOMAIN file |-> IF i = 1 THEN file[i] ELSE <<"__">> \o file[i]])
           \o <<":" \o ToString(entry.line) \o "--" \o entry.text[1]>>

symlink_target(entry) ==
    relative_to(companion_of(entry.file) \o
                    <<<<"symbols">>, <<"at-line">>, <<ToString(entry.line)>>>>,
                <<<<"@">>, <<"todo">>, <<entry.tag>>>>)

TodoMount ==
    [Tree0 EXCEPT !.entries = <<Dir(<<"todo">>, [Tree0 EXCEPT
        !.on_readdir = <<"todo_tags">>,
        !.entries = <<Content("todo_overview")>> \o [i \in DOMAIN Tags_ |-> Content(Tags_[i])]
                    \o <<Capture("tag", [Tree0 EXCEPT !.on_readdir = <<"todo_links">>])>>])>>]

TodoCall(cb, ctx, req) ==
    LET index == scan_all
        tags == SelectSeq(Tags_, LAMBDA t : index[t] # <<>>)
        tag == ctx["tag"][1]
    IN CASE cb = "todo_tags" ->
                [req EXCEPT !.nodes = extend(@, [i \in DOMAIN tags |-> Node("dir", <<tags[i]>>)])]
         [] cb = "todo_links" /\ (Len(tag) # 1 \/ tag[1] \notin ToSet(Tags_)) -> req
         [] cb = "todo_links" /\ Len(tag) = 1 /\ tag[1] \in ToSet(Tags_) ->
                [req EXCEPT !.nodes = extend(@,
                    [i \in DOMAIN index[tag[1]] |->
                        Link(fs_name(index[tag[1]][i]), symlink_target(index[tag[1]][i]))])]

TodoContent(cb) ==
    CASE cb = "todo_overview" -> <<lazy_node(<<"OVERVIEW", ".md">>, <<>>, <<>>, <<"todo">>)>>
      [] cb \in ToSet(Tags_) /\ scan_all[cb] # <<>> -> <<lazy_node(view_name(cb), <<>>, <<>>, <<cb>>)>>
      [] OTHER -> <<>>
=============================================================================
