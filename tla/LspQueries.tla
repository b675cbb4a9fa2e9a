----------------------------- MODULE LspQueries -----------------------------
(***************************************************************************)
(* What a feature of a symbol asks a language server, the key its answer   *)
(* is cached under, and what the views and links of the symbol make of the *)
(* answer.  Features are named as in LspTree; a place is a file and a      *)
(* line, an answer a shape and places, and an error leaves nothing.        *)
(***************************************************************************)
EXTENDS LspEdits

Method(f) ==
    CASE f = "callers" -> "incomingCalls" [] f = "deps" -> "outgoingCalls"
      [] f = "doc" -> "hover" [] f = "hints" -> "inlayHint" [] OTHER -> f

(* A symbol's name, and the lines around it.                               *)
with_position(range, s, name) == [range |-> range, position |-> byte_offset_to_position(s, name)]
symbol_query(s, symbol) == with_position(fragment_query(s, symbol.from, symbol.to), s, symbol.name)

CacheKey(f, q) ==
    IF f = "hints" THEN [method |-> Method(f), line |-> q.range.start.line, param |-> q.range.end.line]
    ELSE [method |-> Method(f), line |-> q.position.line, param |-> q.position.character]
Request(f, q) ==
    [method |-> Method(f), at |-> IF f = "hints" THEN q.range ELSE [start |-> q.position, end |-> q.position]]

----------------------------------------------------------------------------
(* Answers.  References and the two steps of a call hierarchy are asked    *)
(* for whatever the server says it provides, the others only if it does.   *)

Found(items) == [failed |-> FALSE, items |-> items]
Unanswered == [failed |-> TRUE, items |-> <<>>]
require_capability(f, caps) == f \in {"references", "callers", "deps"} \/ f \in caps

goto_response_to_locations(answer) ==
    CASE answer.shape = "null" -> <<>>
      [] answer.shape = "link" -> [i \in DOMAIN answer.places |-> answer.places[i].selection]
      [] OTHER -> [i \in DOMAIN answer.places |-> answer.places[i].whole]

(* The first item of what was prepared; a method the server does not know  *)
(* is an answer of nothing.                                                *)
hierarchy_query(prepared, answer) ==
    CASE prepared.shape \in {"error", "unknown"} -> Unanswered
      [] prepared.places = <<>> \/ answer.shape = "unknown" -> Found(<<>>)
      [] answer.shape = "error" -> Unanswered
      [] OTHER -> Found([i \in DOMAIN answer.places |-> answer.places[i].selection])

query(f, caps, prepared, answer) ==
    CASE ~require_capability(f, caps) -> Found(<<>>)
      [] f \in {"callers", "deps"} -> hierarchy_query(prepared, answer)
      [] answer.shape \in {"error", "unknown"} -> Unanswered
      [] OTHER -> Found(goto_response_to_locations(answer))

(* Only a server that can be asked for diagnostics is, and everything but  *)
(* a full report is none.                                                  *)
pulled(report) == IF report.shape = "full" THEN report.places ELSE <<>>
diagnostics(caps, report, stored) == IF "diagnostics" \in caps THEN pulled(report) ELSE stored

----------------------------------------------------------------------------
(* Views and links.  Lines count from 1 in a view and from 0 in a target;  *)
(* what is outside of the project has its whole path in a view and no link.*)

Stripped(file) == IF file.root = "source" THEN Path("project", file.name) ELSE file
from_locations(places) == [i \in DOMAIN places |-> [file |-> Stripped(places[i].file), line |-> places[i].line + 1]]
Inside(places) == SelectSeq(places, LAMBDA p : p.file.root = "source")
hierarchy_items(places) == [i \in DOMAIN places |-> [file |-> places[i].file, line |-> places[i].line + 1]]

render_view(f, places) ==
    IF f \in {"callers", "deps"}
    THEN LET items == hierarchy_items(places)
         IN [i \in DOMAIN items |-> [items[i] EXCEPT !.file = Stripped(@)]]
    ELSE from_locations(places)
into_targets(f, places) ==
    LET items == Inside(IF f \in {"callers", "deps"} THEN hierarchy_items(places) ELSE places)
    IN [i \in DOMAIN items |-> [file |-> Stripped(items[i].file),
                                line |-> IF f \in {"callers", "deps"} THEN items[i].line - 1 ELSE items[i].line]]
diagnostics_to_rows(ranges) ==
    [i \in DOMAIN ranges |-> [line |-> ranges[i].start.line + 1, col |-> ranges[i].start.character + 1]]
=============================================================================
