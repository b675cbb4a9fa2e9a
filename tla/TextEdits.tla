----------------------------- MODULE TextEdits -----------------------------
(***************************************************************************)
(* The texts the source plugin cuts out of a file and puts back: a         *)
(* symbol's body, a range of lines, and a batch of edits.  A text is a     *)
(* sequence of characters: a newline, a blank, a closing brace, or any     *)
(* other value, which is code.  Offsets count from 0, as the code's do,    *)
(* and a span [from, to) has the offsets from .. to - 1.  A fragment is    *)
(* the tree that decomposition finds: its own range and its children's.    *)
(***************************************************************************)
EXTENDS Integers, Sequences, SequencesExt, FiniteSets

Newline == "newline"
Blank == "blank"
Brace == "brace"

White(c) == c \in {Newline, Blank}
At(s, o) == s[o + 1]
Part(s, from, to) == SubSeq(s, from + 1, to)
Largest(S) == CHOOSE x \in S : \A y \in S : y <= x
Smallest(S) == CHOOSE x \in S : \A y \in S : x <= y

(* Where the line of offset o begins, and where the next one does.         *)
line_start_of(s, o) ==
    Largest({k \in 0 .. o : k = 0 \/ At(s, k - 1) = Newline})
line_end_of(s, o) ==
    Smallest({k \in o + 1 .. Len(s) : At(s, k - 1) = Newline} \cup {Len(s)})

(* A fragment's range and the ranges of its direct children.               *)
full_span(frag) ==
    [from |-> Smallest({frag.from} \cup {c.from : c \in ToSet(frag.children)}),
     to |-> Largest({frag.to} \cup {c.to : c \in ToSet(frag.children)})]

(* The lines after a deleted symbol that are blank to their end go too.    *)
extend_delete_range(s, span) ==
    LET line_ends == {k \in span.to .. Len(s) : k \in {span.to, Len(s)} \/ At(s, k - 1) = Newline}
    IN [from |-> span.from,
        to |-> Largest({k \in line_ends : \A i \in span.to .. k - 1 : White(At(s, i))})]

ensure_leading_newline(s, o, content) ==
    IF (o > 0 /\ At(s, o - 1) = Newline) \/ (content # <<>> /\ Head(content) = Newline)
    THEN content ELSE <<Newline>> \o content
ensure_trailing_newline(content) ==
    IF content # <<>> /\ Last(content) = Newline THEN content ELSE Append(content, Newline)

(* Append goes behind the last child, or before the last closing brace.    *)
append_offset(s, frag) ==
    IF frag.children # <<>> THEN full_span(Last(frag.children)).to
    ELSE LET braces == {k \in frag.from .. frag.to - 1 : At(s, k) = Brace}
         IN IF braces = {} THEN frag.to ELSE Largest(braces)

----------------------------------------------------------------------------
(* Batch edits: EditPlan.  An op is a kind, a fragment and a content.      *)

OpKinds == {"replace", "delete", "insert-before", "insert-after", "append"}

Edit(from, to, text) == [from |-> from, to |-> to, text |-> text]

ResolvedEdit(s, op) ==
    LET span == full_span(op.frag)
    IN CASE op.kind = "replace" -> Edit(line_start_of(s, span.from), span.to, op.content)
         [] op.kind = "delete" ->
                LET range == extend_delete_range(s, span) IN Edit(range.from, range.to, <<>>)
         [] op.kind = "insert-before" ->
                LET o == line_start_of(s, span.from)
                IN Edit(o, o, ensure_trailing_newline(op.content))
         [] op.kind = "insert-after" ->
                Edit(span.to, span.to, ensure_leading_newline(s, span.to, op.content))
         [] op.kind = "append" ->
                LET o == append_offset(s, op.frag)
                IN Edit(o, o, ensure_leading_newline(s, o, op.content))

IsInsertion(e) == e.from = e.to

(* Mutant: the order looks at the starts alone.                            *)
cmp_starts(a, b) == a.from < b.from

(* By start; an insertion before the edit that replaces what follows it.   *)
cmp_ascending(a, b) ==
    a.from < b.from \/ (a.from = b.from /\ IsInsertion(a) /\ ~IsInsertion(b))

(* sort_by is stable: equal edits keep the order they were staged in.      *)
StagedBefore(edits, i, j) ==
    \/ cmp_ascending(edits[i], edits[j])
    \/ ~cmp_ascending(edits[j], edits[i]) /\ i < j
Earlier(edits, i) == {j \in DOMAIN edits \ {i} : StagedBefore(edits, j, i)}
InOrder(edits) ==
    [p \in DOMAIN edits |->
        edits[CHOOSE i \in DOMAIN edits : 1 + Cardinality(Earlier(edits, i)) = p]]

(* Neighbours in that order may touch but not overlap.                     *)
check_conflicts(edits) ==
    \A i \in 1 .. Len(edits) - 1 :
        \/ IsInsertion(edits[i]) /\ IsInsertion(edits[i + 1])
        \/ edits[i].to <= edits[i + 1].from

resolve(s, ops) == InOrder([i \in DOMAIN ops |-> ResolvedEdit(s, ops[i])])

(* One pass over the source: what is between the edits, and their texts.   *)
apply(s, edits) ==
    LET done == FoldLeft(LAMBDA r, e :
                            [out |-> r.out \o Part(s, r.cursor, e.from) \o e.text, cursor |-> e.to],
                         [out |-> <<>>, cursor |-> 0], edits)
    IN done.out \o Part(s, done.cursor, Len(s))

----------------------------------------------------------------------------
(* Bodies: read as whole lines or masked, written back as a splice.        *)

Modes == {"Line", "Byte"}

ReadBody(s, frag, mode) ==
    LET span == full_span(frag)
        start == line_start_of(s, span.from)
        end == IF mode = "Line" THEN span.to ELSE line_end_of(s, span.to)
    IN [i \in 1 .. end - start |->
            IF start + i - 1 \in span.from .. span.to - 1 \/ At(s, start + i - 1) = Newline
               \/ mode = "Line"
            THEN At(s, start + i - 1) ELSE Blank]

(* Mutant: only the end of the written body is trimmed.                    *)
TrimEnd(text) ==
    LET code == {i \in DOMAIN text : ~White(text[i])}
    IN IF code = {} THEN <<>> ELSE SubSeq(text, 1, Largest(code))

Trim(text) ==
    LET code == {i \in DOMAIN text : ~White(text[i])}
    IN IF code = {} THEN <<>> ELSE SubSeq(text, Smallest(code), Largest(code))

(* The file always ends in a newline afterwards.                           *)
splice_rope(s, from, to, content) ==
    LET spliced == Part(s, 0, from) \o content \o Part(s, to, Len(s))
    IN IF spliced = <<>> \/ Last(spliced) = Newline THEN spliced ELSE Append(spliced, Newline)

WriteBody(s, frag, mode, data) ==
    LET span == full_span(frag)
    IN IF mode = "Line" THEN splice_rope(s, line_start_of(s, span.from), span.to, data)
       ELSE splice_rope(s, span.from, span.to, Trim(data))

(* Every slice node ends what it is read as with a newline, and takes one  *)
(* off what is written.                                                    *)
SliceReadable(text) == Append(text, Newline)
SliceWritable(data) == IF data # <<>> /\ Last(data) = Newline THEN Front(data) ELSE data

----------------------------------------------------------------------------
(* Line ranges, 1-based and inclusive: lines:M-N and body.rs:M-N.          *)

(* str::lines: the lines without their newlines, and none after the last.  *)
lines(text) ==
    LET ends == {i \in DOMAIN text : text[i] = Newline} \cup
                (IF text # <<>> /\ Last(text) # Newline THEN {Len(text) + 1} ELSE {})
        end == SetToSortSeq(ends, <)
    IN [k \in DOMAIN end |->
            SubSeq(text, IF k = 1 THEN 1 ELSE end[k - 1] + 1, end[k] - 1)]

joined(ls) == FlattenSeq([k \in DOMAIN ls |-> IF k = 1 THEN ls[k] ELSE <<Newline>> \o ls[k]])

slice_range(spec, count) ==
    [from |-> IF spec.from = 0 THEN 0 ELSE spec.from - 1,
     to |-> IF spec.to < count THEN spec.to ELSE count]

ReadLines(text, spec) ==
    LET ls == lines(text)
        range == slice_range(spec, Len(ls))
    IN IF range.from > range.to THEN <<>>
       ELSE LET selected == Part(ls, range.from, range.to)
            IN joined(selected) \o
               (IF selected # <<>> \/ (text # <<>> /\ Last(text) = Newline)
                THEN <<Newline>> ELSE <<>>)

(* Where the range begins behind the last line Vec::splice panics; there   *)
(* is no such write here.                                                  *)
WriteLines(text, spec, data) ==
    LET ls == lines(text)
        range == slice_range(spec, Len(ls))
        out == joined(Part(ls, 0, range.from) \o lines(data) \o Part(ls, range.to, Len(ls)))
    IN IF out # <<>> \/ (text # <<>> /\ Last(text) = Newline) THEN Append(out, Newline) ELSE out

----------------------------------------------------------------------------
(* What the operators above should amount to.                              *)

(* Every edit taken at its own place in the unedited text: what is put in  *)
(* at a place in the order it was staged, then what replaces the text from *)
(* there on, and the characters no edit replaces.                          *)
AtTheirPlaces(s, edits) ==
    LET put(o) == FlattenSeq([i \in DOMAIN edits |->
                    IF IsInsertion(edits[i]) /\ edits[i].from = o THEN edits[i].text ELSE <<>>])
        new(o) == FlattenSeq([i \in DOMAIN edits |->
                    IF ~IsInsertion(edits[i]) /\ edits[i].from = o THEN edits[i].text ELSE <<>>])
        old(o) == IF o < Len(s) /\ \A i \in DOMAIN edits : o \notin edits[i].from .. edits[i].to - 1
                  THEN <<At(s, o)>> ELSE <<>>
    IN FlattenSeq([n \in 1 .. Len(s) + 1 |-> put(n - 1) \o new(n - 1) \o old(n - 1)])

(* Two edits that cannot both be taken at their places.                    *)
Overlap(a, b) ==
    IF IsInsertion(a) /\ IsInsertion(b) THEN FALSE
    ELSE IF IsInsertion(a) THEN b.from < a.from /\ a.from < b.to
    ELSE IF IsInsertion(b) THEN a.from < b.from /\ b.from < a.to
    ELSE a.from < b.to /\ b.from < a.to

Simultaneous(s, ops) ==
    LET edits == [i \in DOMAIN ops |-> ResolvedEdit(s, ops[i])]
        sorted == resolve(s, ops)
    IN /\ check_conflicts(sorted) <=>
              \A i, j \in DOMAIN ops : i # j => ~Overlap(edits[i], edits[j])
       /\ check_conflicts(sorted) => apply(s, sorted) = AtTheirPlaces(s, edits)

(* Writing back what was read changes no more than the final newline.  A   *)
(* range with no line reads as an empty line, and that is put in.          *)
SameText(s, t) == t = s \/ t = Append(s, Newline)
BodyRoundTrips(s, frag, mode) ==
    SameText(s, WriteBody(s, frag, mode, SliceWritable(SliceReadable(ReadBody(s, frag, mode)))))
Selects(text, spec) == LET r == slice_range(spec, Len(lines(text))) IN r.from < r.to
LinesRoundTrip(text, spec) ==
    Selects(text, spec) => SameText(text, WriteLines(text, spec, ReadLines(text, spec)))
BodyLinesRoundTrip(s, frag, mode, spec) ==
    LET body == SliceReadable(ReadBody(s, frag, mode))
    IN Selects(body, spec) =>
           SameText(s, WriteBody(s, frag, mode,
                                 SliceWritable(WriteLines(body, spec, ReadLines(body, spec)))))
=============================================================================
