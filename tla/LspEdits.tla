------------------------------ MODULE LspEdits ------------------------------
(***************************************************************************)
(* What a language server's WorkspaceEdit does to files: positions in      *)
(* lines and UTF-16 units, text edits by file, operations on files, the    *)
(* preview and its application, and a renaming bracketed by the server.    *)
(* A text is a sequence of characters and an offset counts characters,     *)
(* for bytes are only ever cut between two of them.                        *)
(***************************************************************************)
EXTENDS TextEdits, FiniteSets, Functions

Wide == "wide"  \* a character of two UTF-16 units
Refused == <<"refused">>

----------------------------------------------------------------------------
(* Positions: the rope's lines leave out their newline, and a newline at   *)
(* the end of a text begins no further line.                               *)

Units(text) == Len(text) + Cardinality({i \in DOMAIN text : text[i] = Wide})
byte_offset_to_position(s, o) ==
    [line |-> Cardinality({i \in 1 .. o : s[i] = Newline}), character |-> Units(Part(s, line_start_of(s, o), o))]

(* The last offset of the line that is not behind the column; -1 for none. *)
OnLine(s, pos) ==
    {o \in 0 .. Len(s) : /\ o = Len(s) => Last(s) # Newline
                         /\ byte_offset_to_position(s, o) \in [line : {pos.line}, character : 0 .. pos.character]}
position_to_byte_offset(s, pos) == Largest({-1} \cup OnLine(s, pos))

Before(p, q) == p.line < q.line \/ (p.line = q.line /\ p.character < q.character)

(* Handle::over, at, over_lines and whole_file; Endless, beyond all lines  *)
(* and columns, stands for u32::MAX.                                       *)
Endless == 2147483647
over(s, from, to) == [start |-> byte_offset_to_position(s, from), end |-> byte_offset_to_position(s, to)]
over_lines(from, to) == [start |-> [line |-> from, character |-> 0], end |-> [line |-> to, character |-> Endless]]
whole_file == over_lines(0, Endless)

(* The lines of a fragment: from its first, up to the one behind its last. *)
fragment_query(s, from, to) ==
    over_lines(byte_offset_to_position(s, from).line, byte_offset_to_position(s, to).line + 1)
ranges_overlap(a, b) == ~Before(b.end, a.start) /\ ~Before(a.end, b.start)
Relevant(diagnostics, range) == {d \in diagnostics : ranges_overlap(d, range)}

----------------------------------------------------------------------------
(* Text edits of one file: from the last position to the first, each in    *)
(* the text the one before it left.                                        *)

Sooner(a, b) == Before(b.start, a.start) \/ (a.start = b.start /\ Before(b.end, a.end))

(* Mutant: the edits are applied in the order the server sent them.        *)
AsSent(edits) == edits

LastFirst(edits) ==
    LET before(i, j) == Sooner(edits[i], edits[j]) \/ (~Sooner(edits[j], edits[i]) /\ i < j)
    IN [p \in DOMAIN edits |->
            edits[CHOOSE i \in DOMAIN edits : Cardinality({j \in DOMAIN edits : before(j, i) /\ j # i}) = p - 1]]

spliced(s, from, to, text) ==
    IF from < 0 \/ to < 0 THEN Refused ELSE Part(s, 0, from) \o text \o Part(s, to, Len(s))
apply_edits_to_rope(s, edits) ==
    FoldLeft(LAMBDA text, e :
                IF text = Refused THEN Refused
                ELSE spliced(text, position_to_byte_offset(text, e.start), position_to_byte_offset(text, e.end), e.text),
             s, LastFirst(edits))

----------------------------------------------------------------------------
(* A WorkspaceEdit: "changes" maps files to edits, and "ops" is a sequence *)
(* of edits of documents and operations on files.  A file is a path under  *)
(* one of two roots, or outside of both; disk maps the files there are.    *)

Path(root, name) == [root |-> root, name |-> name]
rewrite(path) == IF path.root = "fuse" THEN Path("source", path.name) ELSE path
rewrite_to_fuse(path) == IF path.root = "source" THEN Path("fuse", path.name) ELSE path

collect_all_edits(edit) ==
    LET changed(f) == IF f \in DOMAIN edit.changes THEN edit.changes[f] ELSE <<>>
        of(f) == SelectSeq(edit.ops, LAMBDA op : op.op = "edit" /\ op.file = f)
    IN [f \in DOMAIN edit.changes \cup {op.file : op \in {o \in ToSet(edit.ops) : o.op = "edit"}} |->
            FoldLeft(LAMBDA all, op : all \o op.edits, changed(f), of(f))]

ReadFrom(disk, path) == IF rewrite(path) \in DOMAIN disk THEN disk[rewrite(path)] ELSE Refused

Result(path, original, modified, outcome) ==
    [file |-> path, shown |-> rewrite_to_fuse(path), original |-> original, modified |-> modified, outcome |-> outcome]
Results(ok, all) == [ok |-> ok, all |-> all]

(* One file that cannot be read, or one position that is not in its file,  *)
(* refuses the whole edit.                                                 *)
Modify(f, original, edits) ==
    Result(f, original, IF original = Refused THEN Refused ELSE apply_edits_to_rope(original, edits), <<"modify">>)
resolve_edits(edit, disk) ==
    LET edits == collect_all_edits(edit)
        all == {Modify(f, ReadFrom(disk, f), edits[f]) : f \in DOMAIN edits}
    IN Results(\A r \in all : r.modified # Refused, all)

Listed(results, path) == {r \in results.all : r.shown = rewrite_to_fuse(path)}
With(results, path, outcome) ==
    [results EXCEPT !.all = {IF r \in Listed(results, path) THEN [r EXCEPT !.outcome = outcome] ELSE r : r \in @}]
Also(results, path, text, outcome) == [results EXCEPT !.all = @ \cup {Result(path, text, text, outcome)}]

collect_resource_op(results, op, disk) ==
    CASE op.op = "edit" -> results
      [] op.op = "create" ->
            IF Listed(results, op.file) # {} THEN With(results, op.file, <<"create">>)
            ELSE Also(results, op.file, <<>>, <<"create">>)
      [] op.op = "delete" ->
            Also([results EXCEPT !.all = @ \ Listed(results, op.file)], op.file, <<>>, <<"delete">>)
      [] op.op = "rename" ->
            IF Listed(results, op.file) # {} THEN With(results, op.file, <<"rename", op.to>>)
            ELSE Also([results EXCEPT !.ok = @ /\ ReadFrom(disk, op.file) # Refused],
                      op.file, ReadFrom(disk, op.file), <<"rename", op.to>>)

(* By the path that is shown, whatever order the operations came in.       *)
InPathOrder(all) == SetToSortSeq(all, LAMBDA a, b : a.shown.name < b.shown.name)

resolve_workspace_edit(edit, disk) ==
    FoldLeft(LAMBDA results, op : collect_resource_op(results, op, disk), resolve_edits(edit, disk), edit.ops)

----------------------------------------------------------------------------
(* Their effects.  A file system is the files and whether a call failed:   *)
(* what is behind the failure is not done, what is before it stays.        *)

Working(disk) == [disk |-> disk, failed |-> FALSE]
Write(disk, f, text) == [g \in DOMAIN disk \cup {f} |-> IF g = f THEN text ELSE disk[g]]
Removed(disk, f) == [g \in DOMAIN disk \ {f} |-> disk[g]]
Moved(disk, f, to) == Write(Removed(disk, f), to, disk[f])

apply_single_edit(fs, e) ==
    LET kind == e.outcome[1]
    IN IF kind = "modify" /\ e.original = e.modified THEN fs
       ELSE IF kind \in {"modify", "create"} THEN [fs EXCEPT !.disk = Write(@, e.file, e.modified)]
       ELSE IF e.file \notin DOMAIN fs.disk THEN [fs EXCEPT !.failed = TRUE]
       ELSE IF kind = "delete" THEN [fs EXCEPT !.disk = Removed(@, e.file)]
       ELSE IF e.original = e.modified THEN [fs EXCEPT !.disk = Moved(@, e.file, e.outcome[2])]
       ELSE [fs EXCEPT !.disk = Write(Moved(@, e.file, e.outcome[2]), e.outcome[2], e.modified)]

apply_file_edits(results, disk) ==
    FoldLeft(LAMBDA fs, e : IF fs.failed THEN fs ELSE apply_single_edit(fs, e), Working(disk), results)

(* A renaming of a symbol, or the removal of its preview or of an          *)
(* action's: DiffProvider refuses an edit that is empty, mv does not.      *)
Failed(disk) == [disk |-> disk, failed |-> TRUE]
SymbolRename(edit, disk) ==
    LET results == resolve_workspace_edit(edit, disk)
    IN IF results.ok THEN apply_file_edits(InPathOrder(results.all), disk) ELSE Failed(disk)
apply_diff(edit, disk) ==
    IF resolve_workspace_edit(edit, disk).all = {} THEN Failed(disk) ELSE SymbolRename(edit, disk)

(* willRenameFiles: the texts alone, written to the files as they stand.   *)
Written(disk, results) ==
    LET of(f) == {r \in results.all : rewrite(r.file) = f}
    IN IF results.ok THEN [f \in DOMAIN disk |-> IF of(f) = {} THEN disk[f] ELSE (CHOOSE r \in of(f) : TRUE).modified]
       ELSE disk
apply_workspace_edit(edit, disk) == Written(disk, resolve_edits(edit, disk))

(* LspRenameProvider: the server's edits are written first, the file is    *)
(* renamed next, or it is not, and only a renaming is reported to the      *)
(* server.  An error or no answer is an edit of nothing.                   *)
Renamed(disk, old, new, works) ==
    IF works /\ old \in DOMAIN disk THEN [disk |-> Moved(disk, old, new), told |-> TRUE]
    ELSE [disk |-> disk, told |-> FALSE]
RenameFile(answer, disk, old, new, works) == Renamed(apply_workspace_edit(answer, disk), old, new, works)
=============================================================================
