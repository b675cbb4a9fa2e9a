---------------------------- MODULE MCOperators ----------------------------
(***************************************************************************)
(* The project's pure operators over every small input: one state per      *)
(* case, the laws as invariants of the cases; and a walk through a mount,  *)
(* one state per directory.                                                *)
(***************************************************************************)
EXTENDS MCRouting

CONSTANTS MaxText,      \* the characters of a text
          MaxDocument,  \* the lines of a Markdown document
          MaxTemplate,  \* the lines of a Jinja2 template
          MaxDepth      \* the names of a path of the walk

VARIABLE case

Box == INSTANCE MCSandbox
Fuse == INSTANCE MCFuseReplies
Lsp == INSTANCE MCLspEdits

Letters == <<"a", "b", "c", "d", "e", "f">>
Shapes == {"code", Blank, Newline, Brace}
TextOf(shape) == [i \in DOMAIN shape |-> IF shape[i] = "code" THEN Letters[i] ELSE shape[i]]
Texts == {TextOf(shape) : shape \in UNION {[1 .. n -> Shapes] : n \in 1 .. MaxText}}

(* A symbol begins and ends with a token, never with a space.              *)
Spans(s) == {r \in [from : 0 .. Len(s) - 1, to : 1 .. Len(s)] :
                r.from < r.to /\ ~White(At(s, r.from)) /\ ~White(At(s, r.to - 1))}
Leaf(r) == Frag("fn", <<"f">>, r.from, r.to, <<>>)

(* Two symbols one behind the other, or one inside the other; a decorator  *)
(* is a child that stands before its parent.                               *)
Fragments(s) ==
    {<<Leaf(f), Leaf(g)>> : <<f, g>> \in {p \in Spans(s) \X Spans(s) : p[1].to <= p[2].from}}
    \cup {<<Frag("fn", <<"f">>, f.from, f.to, <<Leaf(g)>>), Leaf(g)>> :
            <<f, g>> \in {p \in Spans(s) \X Spans(s) :
                \/ p[2].to <= p[1].from
                \/ p[1].from < p[2].from /\ p[2].to <= p[1].to}}

Heading(level) == [t |-> "heading", level |-> level, name |-> <<"h">>]
Token(t) == [t |-> t, level |-> 0, name |-> NoName]
DocumentTokens == {Heading(1), Heading(2), Heading(3), Token("text"), Token("fence")}
TemplateTokens == {Heading(1), Heading(2)} \cup
                  {Token(t) : t \in {"text", "block", "loop", "end", "set", "extends"}}

Names == {<<"a">>, <<"b">>, <<"a", "2">>}
Siblings == UNION {[1 .. n -> Names \X {"fn", "type", "codeblock", "docstring"}] : n \in 1 .. 3}
Listing(list, inner) ==
    [i \in DOMAIN list |->
        Frag(list[i][2], list[i][1], i, i + 1,
             IF i > 1 THEN <<>>
             ELSE [k \in DOMAIN inner |-> Frag(inner[k][2], inner[k][1], i, i + 1, <<>>)])]

Init == case = [part |-> "none"]
AText == \E s \in Texts : case' = [part |-> "text", text |-> s, frags |-> <<>>]
ASource == \E frags \in Fragments(case.text) :
            case' = [part |-> "source", text |-> case.text, frags |-> frags]
ADocument == \E n \in 1 .. MaxDocument : \E tokens \in [1 .. n -> DocumentTokens] :
            case' = [part |-> "document", tokens |-> tokens]
ATemplate == \E n \in 1 .. MaxTemplate : \E tokens \in [1 .. n -> TemplateTokens] :
            case' = [part |-> "template", tokens |-> tokens]
AListing == \E list \in Siblings, inner \in {<<>>, <<<<<<"a">>, "fn">>, <<<<"a">>, "type">>>>} :
            case' = [part |-> "listing", frags |-> Listing(list, inner)]
AWalk == \E who \in DOMAIN Policy : case' = [part |-> "walk", who |-> who, path |-> <<>>]
AEnter == /\ Len(case.path) < MaxDepth
          /\ \E name \in Enterable(case.who, case.path) : case' = [case EXCEPT !.path = Append(@, name)]
ATrees == \E one, other \in Trees : case' = [part |-> "trees", one |-> one, other |-> other]
AChain == \E deps \in [1 .. 3 -> SUBSET (1 .. 3)], priority \in [1 .. 3 -> {-1, 0}], last \in SUBSET (1 .. 3) :
            case' = [part |-> "chain", providers |->
                        [i \in 1 .. 3 |-> Provider(i, deps[i], priority[i], i \in last)]]
AIndex == \E found \in SUBSET Todos :
            case' = [part |-> "index", index |->
                        [t \in ToSet(MCTagsOrder) |-> InSomeOrder({e \in found : e.tag = t})]]
AHost == \E host \in Box!Cases : case' = [part |-> "sandbox", host |-> host]
AInode == \E s \in Fuse!Inodes : case' = [part |-> "inode", w |-> Fuse!Start(s)]
AServe == \E w \in Fuse!Requests(case.w) : case' = [case EXCEPT !.w = w]
APages == \E n \in 0 .. 4, one, other \in 1 .. 3 : case' = [part |-> "pages", n |-> n, rooms |-> <<one, other>>]
AChange == \E known \in SUBSET Fuse!Tree, one, other \in Fuse!Tree \cup {<<>>}, event \in Fuse!Tree :
            case' = [part |-> "change", known |-> known, affected |-> <<one, other>>, event |-> event]
AServerText == \E s \in Lsp!WideTexts : case' = [part |-> "lsptext", text |-> s]
AServerEdit == \E edit \in Lsp!WorkspaceEdits, disk \in Lsp!Disks :
            case' = [part |-> "lspedit", edit |-> edit, disk |-> disk]
AServerAnswer == \E caps \in {{}, {"definition"}}, prepared \in Lsp!Preparations, answer \in Lsp!Answers :
            case' = [part |-> "lspanswer", caps |-> caps, prepared |-> prepared, answer |-> answer]
Next == \/ /\ case.part = "none"
           /\ \/ AText \/ ADocument \/ ATemplate \/ AListing \/ AWalk \/ ATrees \/ AChain \/ AIndex \/ AHost
              \/ AInode \/ APages \/ AChange \/ AServerText \/ AServerEdit \/ AServerAnswer
        \/ case.part = "inode" /\ AServe
        \/ case.part = "text" /\ ASource
        \/ case.part = "walk" /\ AEnter
Spec == Init /\ [][Next]_case

----------------------------------------------------------------------------
Ops(frags) ==
    LET op(kind, i, n) == [kind |-> kind, frag |-> frags[i], content |-> <<n>>]
    IN {<<op(k1, i1, "x"), op(k2, i2, "y")>> :
            <<k1, i1, k2, i2>> \in OpKinds \X {1, 2} \X OpKinds \X {1, 2}}
       \cup {<<op("insert-before", 2, "x"), op(k2, i2, "y"), op("insert-before", 2, "z")>> :
            <<k2, i2>> \in OpKinds \X {1, 2}}
Specs == {r \in [from : 1 .. 3, to : 1 .. 3] : r.from <= r.to}

(* A batch of edits is refused exactly when two of them overlap, and       *)
(* otherwise every edit lands at its place in the text it was staged for,  *)
(* whatever the others put in or take out (EditPlan::resolve, apply).      *)
EditsAreSimultaneous ==
    case.part = "source" => \A ops \in Ops(case.frags) : Simultaneous(case.text, ops)

(* Saving a symbol's body, a range of its lines or a range of the file's   *)
(* lines as it was read leaves the file as it was (Slice, BodySplice,      *)
(* SliceReadable and SliceWritable, LineSlice, DefaultSplicingWritable).   *)
ReadWriteRoundTrip ==
    case.part = "source" =>
        /\ \A mode \in Modes, i \in {1, 2} :
              /\ BodyRoundTrips(case.text, case.frags[i], mode)
              /\ \A spec \in Specs : BodyLinesRoundTrip(case.text, case.frags[i], mode, spec)
        /\ \A spec \in Specs : LinesRoundTrip(case.text, spec)

(* The name a fragment is listed under, in its parent's directory, is the  *)
(* name it is found by, and a line is looked up as the innermost fragment  *)
(* around it (fs_mapping, find_fragment, find_fragment_at_line).  Sections *)
(* nest by the level of their headings and each code block is listed by    *)
(* its innermost section; a template's blocks are the matched pairs; and a *)
(* section of a document inside a template, mapped back to the file, holds *)
(* no byte of a directive (markdown, jinja2, SpanMap).                     *)
FragmentsAreFound ==
    /\ case.part = "document" => AtLineFinds(case.tokens) /\ SectionsNest(case.tokens)
    /\ case.part = "template" => PairsMatch(case.tokens) /\ BytesStayInContent(case.tokens)
    /\ case.part = "listing" =>
          /\ NamesReachFragments(case.frags, "identity", "kind")
          /\ NamesReachFragments(case.frags, "identity", "numbered")
          /\ NamesReachFragments(case.frags, "slugified", "numbered")

(* What a directory lists can be looked up in it, by the same process, as  *)
(* what it was listed as, whichever plugins had a part in it; every link   *)
(* leads somewhere; and a file whose name ends like a range of lines is    *)
(* not taken for lines of another (dispatch, auto_emit, lsp_links, slice). *)
(* Not so below a branch and in a file's history, where a lookup finds the *)
(* first entry whatever it asks for.                                       *)
ListedIsFound ==
    case.part = "walk" => ListedCanBeFound(case.who, case.path)

(* A removal, a creation or a renaming has one effect, on what its path    *)
(* names, or it is refused and has none (do_remove, do_create, do_rename,  *)
(* DiffProvider, fragment_create, the terminal provider); the repository   *)
(* loses no commit and no branch another one's place (delete_branch,       *)
(* rename_branch).                                                         *)
MutationsAreOwned ==
    case.part = "walk" =>
        /\ BranchesKeepCommits
        /\ (case.path = <<>> \/ ~FindsFirst(case.path)) =>
              /\ \A name \in Attempted \cup {n.name : n \in ToSet(readdir(case.who, case.path))} :
                    /\ RemovalIsOwned(case.who, case.path, name)
                    /\ RenamingIsOwned(case.who, case.path, name)
              /\ \A name \in Attempted, kind \in {"create", "mkdir"} :
                    CreationIsOwned(case.who, case.path, name, kind)

(* Two plugins' routes for a directory are both served, as deep as they    *)
(* share names (RouteTree::merge, dedup_dirs); a provider comes behind     *)
(* those it depends on and the terminal ones behind all (Chain::build);    *)
(* and a file's TODOs are in one group (views).                            *)
MergesLoseNothing ==
    /\ case.part = "trees" => MergeKeepsBoth(case.one, case.other)
    /\ case.part = "chain" => DependenciesComeFirst(case.providers)
    /\ case.part = "index" => TodosAreGrouped(case.index)

(* The command finds FUSE at the mount root and nowhere else, every bind,  *)
(* the host's directories and its own /proc where they belong, nothing of  *)
(* the host's home or /tmp beside them, and starts where it was called;    *)
(* with an overlay no write reaches the project, whose HEAD it shows; and  *)
(* what is set up leaves the host's own files alone (overlay::setup,       *)
(* prepare_project_storage, clone_snapshot).                               *)
SandboxShowsItsParts == case.part = "sandbox" => Box!SandboxHolds(case.host)

(* What the kernel is told of an inode agrees: an endpoint that was gone   *)
(* comes back by a creation only, though opens and closes refresh it; a    *)
(* node lets be done what its mode says; an attribute listed can be got;   *)
(* a directory's pages hold every name once; a change invalidates what     *)
(* changed and nothing else (bound_node, touch, access, xattr, readdir,    *)
(* propagate_source_changes).                                              *)
RepliesAgree ==
    /\ case.part = "inode" =>
          /\ Fuse!GoneStaysGone(case.w) /\ Fuse!BindingHolds(case.w) /\ Fuse!XattrsAgree(case.w)
          /\ Fuse!AccessMatchesMode(case.w.s) /\ Fuse!AttributesShow(case.w.s)
    /\ case.part = "pages" => Fuse!ListingIsWhole(case.n, case.rooms)
    /\ case.part = "change" => Fuse!Sends(case.known, case.affected, case.event)

(* What a language server sends lands where it means: an edit at its       *)
(* positions, together with the others of its answer, in the files it      *)
(* names, with the operations on files, or not at all; a diagnostic at the *)
(* symbols it touches; an answer in the view and the links of the feature  *)
(* that asked for it, which is listed only where the server is asked       *)
(* (uri, edit, apply_file_edits, FileQuery, QueryResult, Feature).         *)
ServerAnswersLand ==
    /\ case.part = "none" =>
          \A f \in ToSet(Features), caps \in SUBSET (ToSet(Features) \cup {"hierarchy"}) :
              is_supported(f, caps) => Lsp!require_capability(f, caps)
    /\ case.part = "lsptext" =>
          /\ Lsp!PositionsLead(case.text) /\ Lsp!EditsLand(case.text)
          /\ Lsp!DiagnosticsOfSymbol(case.text) /\ Lsp!KeysTellRequests(case.text)
    /\ case.part = "lspedit" => Lsp!OperationsLand(case.edit, case.disk) /\ Lsp!RenamingLands(case.edit, case.disk)
    /\ case.part = "lspanswer" => Lsp!AnswersAreShown(case.caps, case.prepared, case.answer)
=============================================================================
