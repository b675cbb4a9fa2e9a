----------------------------- MODULE MCLspEdits -----------------------------
(***************************************************************************)
(* Every small answer of a language server: texts with wide characters,    *)
(* pairs of edits, edits and operations on three files, places in and      *)
(* outside of the project; and what must become of them.                   *)
(***************************************************************************)
EXTENDS LspQueries

WideTexts == UNION {[1 .. n -> {"c", Wide, Newline}] : n \in 1 .. 3}
SpansOf(s) == {r \in (0 .. Len(s)) \X (0 .. Len(s)) : r[1] <= r[2]}
Span(r, text) == [from |-> r[1], to |-> r[2], text |-> text]
Sent(s, spans) ==
    [i \in DOMAIN spans |->
        [start |-> byte_offset_to_position(s, spans[i].from), end |-> byte_offset_to_position(s, spans[i].to),
         text |-> spans[i].text]]

AFile(n) == Path("source", n)
AllFiles == {AFile(n) : n \in 1 .. 3}
Disks == UNION {[present -> {<<"c">>}] : present \in SUBSET AllFiles}
Insertion == <<[start |-> [line |-> 0, character |-> 0], end |-> [line |-> 0, character |-> 0], text |-> <<"x">>]>>
Operations ==
    {[op |-> "edit", file |-> f, edits |-> Insertion] : f \in AllFiles}
    \cup {[op |-> kind, file |-> f] : kind \in {"create", "delete"}, f \in AllFiles}
    \cup {[op |-> "rename", file |-> p[1], to |-> p[2]] : p \in {q \in AllFiles \X AllFiles : q[1] # q[2]}}
OfChanges(changed) == [changes |-> [f \in changed |-> Insertion], ops |-> <<>>]
OfOperations(ops) == [changes |-> <<>>, ops |-> ops]
WorkspaceEdits ==
    {OfChanges(changed) : changed \in SUBSET AllFiles}
    \cup {OfOperations(ops) : ops \in UNION {[1 .. n -> Operations] : n \in 0 .. 2}}

APlace == [file : {Path("source", 1), Path("source", 2), Path("elsewhere", 1)}, line : {0, 1}]
Array(places) == [i \in DOMAIN places |-> [selection |-> places[i], whole |-> places[i]]]
Links(places) == [i \in DOMAIN places |-> [selection |-> places[i], whole |-> [places[i] EXCEPT !.line = 1 - @]]]
Answer(shape, places) == [shape |-> shape, places |-> places]
Answers ==
    {Answer(shape, <<>>) : shape \in {"null", "error", "unknown"}}
    \cup UNION {{Answer("array", Array(places)), Answer("link", Links(places))} :
                 places \in UNION {[1 .. n -> APlace] : n \in 0 .. 2}}
Preparations == {Answer(shape, <<>>) : shape \in {"array", "error", "unknown"}} \cup {Answer("array", <<"item">>)}

----------------------------------------------------------------------------
(* What the protocol means by them.                                        *)

TextAt(spans, o, insertions) ==
    FlattenSeq([i \in DOMAIN spans |->
        IF spans[i].from = o /\ (spans[i].to = o) = insertions THEN spans[i].text ELSE <<>>])
Together(s, spans) ==
    FlattenSeq([i \in 1 .. Len(s) + 1 |->
        TextAt(spans, i - 1, TRUE) \o TextAt(spans, i - 1, FALSE) \o
        (IF i > Len(s) \/ \E k \in DOMAIN spans : spans[k].from < i /\ i <= spans[k].to THEN <<>> ELSE <<s[i]>>)])
Apart(p, q) == (p.to <= q.from \/ q.to <= p.from) /\ ~(p.from = p.to /\ q.from = q.to /\ p.from = q.from)
AtNoLine(s, o) == o = Len(s) /\ Last(s) = Newline

InTurn(ops, disk) ==
    FoldLeft(LAMBDA d, op :
        CASE op.op = "edit" -> Write(d, op.file, <<"x">> \o d[op.file])
          [] op.op = "create" -> Write(d, op.file, <<>>)
          [] op.op = "delete" -> Removed(d, op.file)
          [] op.op = "rename" -> Moved(d, op.file, op.to), disk, ops)
Touched(op) == IF op.op = "rename" THEN {op.file, op.to} ELSE {op.file}
Possible(op, disk) ==
    /\ (op.file \in DOMAIN disk) = (op.op # "create")
    /\ op.op = "rename" => op.to \notin DOMAIN disk
Unrelated(ops, disk) ==
    /\ \A i \in DOMAIN ops : Possible(ops[i], disk)
    /\ \A i, j \in DOMAIN ops :
          i < j /\ Touched(ops[i]) \cap Touched(ops[j]) # {} =>
              ops[i].op = "edit" /\ ops[j].op # "edit" /\ ops[i].file = ops[j].file
AsOperations(edit) ==
    edit.ops \o SetToSortSeq({[op |-> "edit", file |-> f] : f \in DOMAIN edit.changes},
                             LAMBDA a, b : a.file.name < b.file.name)

----------------------------------------------------------------------------
(* A position says where an offset is, but for the end of a text that ends *)
(* its last line; a column past a line's end is that end.                  *)
PositionsLead(s) ==
    \A o \in 0 .. Len(s) :
        LET pos == byte_offset_to_position(s, o)
        IN /\ position_to_byte_offset(s, pos) = (IF AtNoLine(s, o) THEN -1 ELSE o)
           /\ ~AtNoLine(s, o) =>
                position_to_byte_offset(s, [pos EXCEPT !.character = Endless])
                    = Smallest({k \in o .. Len(s) : k = Len(s) \/ At(s, k) = Newline})

(* Two edits apart from each other land together, in whatever order the    *)
(* server lists them, or both are refused: for the end of a text that ends *)
(* its last line is at no line (so it is not for a text whose last line is *)
(* deleted before an edit that ends where it began: that is refused).      *)
EditsLand(s) ==
    \A p, q \in SpansOf(s) : \A one \in {<<>>, <<"x">>, <<Newline>>} :
        LET spans == <<Span(p, one), Span(q, <<"y", Newline>>)>>
        IN Apart(spans[1], spans[2]) /\ ~(p[2] = Len(s) /\ one = <<>> /\ q[2] = p[1]) =>
              apply_edits_to_rope(s, Sent(s, spans)) =
                  (IF AtNoLine(s, p[2]) \/ AtNoLine(s, q[2]) THEN Refused ELSE Together(s, spans))

(* A symbol's actions are asked for with every diagnostic that touches it, *)
(* and with none that begins two lines below its last, pushed or pulled.   *)
DiagnosticsOfSymbol(s) ==
    \A f, d \in SpansOf(s), caps \in {{}, {"diagnostics"}} :
        LET known == diagnostics(caps, [shape |-> "full", places |-> <<over(s, d[1], d[2])>>], <<over(s, d[1], d[2])>>)
            asked == Relevant(ToSet(known), fragment_query(s, f[1], f[2])) # {}
        IN /\ ranges_overlap(over(s, d[1], d[2]), over(s, f[1], f[2])) => asked
           /\ asked => diagnostics_to_rows(known)[1].line <= over(s, f[1], f[2]).end.line + 2
           /\ Relevant(ToSet(known), whole_file) # {}

(* Queries under one key are one request, so that no feature of a symbol   *)
(* is answered with what another, or another symbol, has asked.            *)
Symbols(s) == {y \in [from : 0 .. Len(s), to : 0 .. Len(s), name : 0 .. Len(s)] :
                  y.from <= y.name /\ y.name <= y.to}
KeysTellRequests(s) ==
    LET queries == {"definition", "doc", "hints"} \X {symbol_query(s, y) : y \in Symbols(s)}
    IN Cardinality({CacheKey(q[1], q[2]) : q \in queries})
           = Cardinality({<<CacheKey(q[1], q[2]), Request(q[1], q[2])>> : q \in queries})

(* Of an answer every place is in the view, and those of the project are   *)
(* the links; only an error shows nothing at all.                          *)
Answered(f, places, answer) ==
    /\ places = [i \in DOMAIN answer.places |-> answer.places[i].selection]
    /\ Len(render_view(f, places)) = Len(places)
    /\ into_targets(f, places) =
          LET rows == SelectSeq(render_view(f, places), LAMBDA row : row.file.root = "project")
          IN [i \in DOMAIN rows |-> [rows[i] EXCEPT !.line = @ - 1]]
AnswersAreShown(caps, prepared, answer) ==
    \A f \in {"definition", "references", "callers"} :
        LET got == query(f, caps, prepared, answer)
        IN /\ got.failed => {prepared.shape, answer.shape} \cap {"error", "unknown"} # {}
           /\ ~got.failed /\ require_capability(f, caps) /\ answer.shape # "unknown"
              /\ (f = "callers" => prepared.places # <<>>) => Answered(f, got.items, answer)

(* Edits and operations on files that have nothing to do with each other   *)
(* do together what they would do in turn, by a symbol's renaming as by    *)
(* the removal of a preview.                                               *)
OperationsLand(edit, disk) ==
    Unrelated(AsOperations(edit), disk) =>
        /\ SymbolRename(edit, disk) = Working(InTurn(AsOperations(edit), disk))
        /\ AsOperations(edit) # <<>> => apply_diff(edit, disk) = SymbolRename(edit, disk)

(* Around a file's renaming: the server's edits land, in the file itself   *)
(* too, before it moves, and the server hears of it only if it moved.      *)
AsOneMove(done, ops, disk, old, works) ==
    /\ works /\ Unrelated(ops, disk) => done.told /\ done.disk = InTurn(ops, disk)
    /\ done.told = (works /\ old \in DOMAIN disk)
    /\ ~done.told => DOMAIN done.disk = DOMAIN disk
RenamingLands(edit, disk) ==
    \A old, new \in AllFiles, works \in BOOLEAN :
        AsOneMove(RenameFile(edit, disk, old, new, works),
                  Append(SelectSeq(AsOperations(edit), LAMBDA op : op.op = "edit"),
                         [op |-> "rename", file |-> old, to |-> new]),
                  disk, old, works)
=============================================================================
