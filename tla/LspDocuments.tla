---------------------------- MODULE LspDocuments ----------------------------
(***************************************************************************)
(* One source file as the LSP session manager keeps it open in a language  *)
(* server: the tracked version, the messages on their way to the server,   *)
(* the diagnostics it pushes back and the cache of query results.  Texts   *)
(* are numbered in the order they are written to the file; NoText is the   *)
(* absence of the file, of an answer or of an entry.                       *)
(*                                                                         *)
(* A thread runs one call at a time.  Each critical section, file read and *)
(* message sent by the call is a step, so other threads, the file's        *)
(* writers and the server take steps in between.                           *)
(***************************************************************************)
EXTENDS Naturals, Sequences, SequencesExt, FiniteSets

CONSTANTS
    Threads,     \* FUSE workers, the watcher's thread and the hooks
    MaxText,     \* number of texts the file ever has
    MaxFailures, \* sends and spawns that fail
    MaxQueries,  \* queries and reads of the diagnostics
    Overlap      \* TRUE: calls that touch the tracked document may overlap

ASSUME BoundsAssumption ==
    MaxText \in Nat \ {0} /\ MaxFailures \in Nat /\ MaxQueries \in Nat
ASSUME OverlapAssumption == Overlap \in BOOLEAN

VARIABLES
    disk,       \* [text, last]: the file's text and the last one written
    owed,       \* a change of the file no invalidate_file has begun for
    doc,        \* the file's entry in open_documents
    job,        \* job[t]: the call thread t is in
    wire,       \* messages written for the server and not yet handled
    server,     \* what the server holds of the document
    pushed,     \* texts of the publishDiagnostics on their way back
    store,      \* the file's entry in the diagnostic store
    cache,      \* the cached result: its text, and whether it was raced
    left        \* failures and queries that may still happen

vars == <<disk, owed, doc, job, wire, server, pushed, store, cache, left>>

NoText == 0
Texts == 0..MaxText

OpeningSteps == {"opening", "opened", "promoting"}
ChangingSteps == {"changing", "sending", "marking", "untracking",
                  "unstoring", "closing", "forgetting"}
QuerySteps == {"asking", "asked", "answered"}
Idle == [pc |-> "idle", version |-> 0, text |-> NoText, raced |-> FALSE]

Untracked == [tracked |-> FALSE, version |-> 0]
Tracked(v) == [tracked |-> TRUE, version |-> v]
NoDiagnostics == [text |-> NoText, dirty |-> FALSE, known |-> FALSE]
NoResult == [text |-> NoText, raced |-> FALSE]
Message(k, v, c, t) == [kind |-> k, version |-> v, text |-> c, by |-> t]

TypeOK ==
    /\ disk \in [text : Texts, last : Texts]
    /\ owed \in BOOLEAN
    /\ doc \in [tracked : BOOLEAN, version : Nat]
    /\ job \in [Threads -> [pc : {"idle", "waiting"} \cup QuerySteps
                                 \cup OpeningSteps \cup ChangingSteps,
                            version : Nat, text : Texts, raced : BOOLEAN]]
    /\ wire \in Seq([kind : {"didOpen", "didChange", "didClose", "query"},
                     version : Nat, text : Texts, by : Threads])
    /\ server \in [open : BOOLEAN, version : Nat, text : Texts, told : BOOLEAN,
                   misused : BOOLEAN]
    /\ pushed \in Seq(Texts)
    /\ store \in [text : Texts, dirty : BOOLEAN, known : BOOLEAN]
    /\ store.dirty => store.known
    /\ cache \in [text : Texts, raced : BOOLEAN]
    /\ left \in [failures : 0..MaxFailures, queries : 0..MaxQueries]

Init ==
    /\ disk = [text |-> 1, last |-> 1]
    /\ owed = FALSE
    /\ doc = Untracked
    /\ job = [t \in Threads |-> Idle]
    /\ wire = <<>>
    /\ server = [open |-> FALSE, version |-> 0, text |-> NoText, told |-> TRUE,
                 misused |-> FALSE]
    /\ pushed = <<>>
    /\ store = NoDiagnostics
    /\ cache = NoResult
    /\ left = [failures |-> MaxFailures, queries |-> MaxQueries]

At(t, pc) == job[t].pc = pc
Goto(t, pc) == job' = [job EXCEPT ![t].pc = pc]
Finish(t) == job' = [job EXCEPT ![t] = Idle]
Send(m) == wire' = Append(wire, m)
Fail == left.failures > 0 /\ left' = [left EXCEPT !.failures = @ - 1]

\* Without Overlap a call on the tracked document begins when no other runs.
MayStart ==
    Overlap \/ \A t \in Threads : job[t].pc \notin OpeningSteps \cup ChangingSteps

-----------------------------------------------------------------------------
(* The file: written or removed through the mount or behind it; each       *)
(* change is followed, some time later, by on_change.                      *)

WriteFile ==
    /\ disk.last < MaxText
    /\ disk' = [text |-> disk.last + 1, last |-> disk.last + 1]
    /\ owed' = TRUE
    /\ UNCHANGED <<doc, job, wire, server, pushed, store, cache, left>>

RemoveFile ==
    /\ disk.text # NoText
    /\ disk' = [disk EXCEPT !.text = NoText]
    /\ owed' = TRUE
    /\ UNCHANGED <<doc, job, wire, server, pushed, store, cache, left>>

-----------------------------------------------------------------------------
(* ensure_document_open *)

\* The sentinel goes in under the lock; a tracked document is left alone.
StartOpening(t) ==
    /\ At(t, "idle") /\ MayStart
    /\ ~doc.tracked
    /\ doc' = Tracked(0)
    /\ Goto(t, "opening")
    /\ UNCHANGED <<disk, owed, wire, server, pushed, store, cache, left>>

\* No client for the extension, or the file cannot be read: the entry goes.
AbandonOpening(t) ==
    /\ At(t, "opening")
    /\ \/ disk.text = NoText /\ UNCHANGED left
       \/ Fail
    /\ doc' = Untracked
    /\ Finish(t)
    /\ UNCHANGED <<disk, owed, wire, server, pushed, store, cache>>

ReadForOpen(t) ==
    /\ At(t, "opening")
    /\ disk.text # NoText
    /\ job' = [job EXCEPT ![t].pc = "opened", ![t].text = disk.text]
    /\ UNCHANGED <<disk, owed, doc, wire, server, pushed, store, cache, left>>

SendDidOpen(t) ==
    /\ At(t, "opened")
    /\ Send(Message("didOpen", 0, job[t].text, t))
    /\ Goto(t, "promoting")
    /\ UNCHANGED <<disk, owed, doc, server, pushed, store, cache, left>>

DidOpenFails(t) ==
    /\ At(t, "opened")
    /\ Fail
    /\ doc' = Untracked
    /\ Finish(t)
    /\ UNCHANGED <<disk, owed, wire, server, pushed, store, cache>>

\* The sentinel is replaced by a fresh entry, whatever became of it.
Promote(t) ==
    /\ At(t, "promoting")
    /\ doc' = Tracked(0)
    /\ Finish(t)
    /\ UNCHANGED <<disk, owed, wire, server, pushed, store, cache, left>>

-----------------------------------------------------------------------------
(* invalidate_file and close_document *)

(* Mutants: the version stays; an untracked file's results are kept. *)
StartInvalidationSame(t) ==
    /\ At(t, "idle") /\ MayStart
    /\ owed
    /\ owed' = FALSE
    /\ job' = [job EXCEPT ![t].pc = IF doc.tracked THEN "changing" ELSE "forgetting",
                          ![t].version = doc.version]
    /\ UNCHANGED <<disk, doc, wire, server, pushed, store, cache, left>>

StartInvalidationTracked(t) ==
    /\ At(t, "idle") /\ MayStart
    /\ owed
    /\ owed' = FALSE
    /\ \/ /\ doc.tracked
          /\ doc' = Tracked(doc.version + 1)
          /\ job' = [job EXCEPT ![t].pc = "changing", ![t].version = doc.version + 1]
       \/ ~doc.tracked /\ UNCHANGED <<doc, job>>
    /\ UNCHANGED <<disk, wire, server, pushed, store, cache, left>>

StartInvalidation(t) ==
    /\ At(t, "idle") /\ MayStart
    /\ owed
    /\ owed' = FALSE
    /\ IF doc.tracked
       THEN /\ doc' = Tracked(doc.version + 1)
            /\ job' = [job EXCEPT ![t].pc = "changing", ![t].version = doc.version + 1]
       ELSE /\ Goto(t, "forgetting")
            /\ UNCHANGED doc
    /\ UNCHANGED <<disk, wire, server, pushed, store, cache, left>>

\* A file that cannot be read is closed in the server.
ReadForChange(t) ==
    /\ At(t, "changing")
    /\ job' = [job EXCEPT ![t].pc = IF disk.text = NoText THEN "untracking" ELSE "sending",
                          ![t].text = disk.text]
    /\ UNCHANGED <<disk, owed, doc, wire, server, pushed, store, cache, left>>

SendDidChange(t) ==
    /\ At(t, "sending")
    /\ Send(Message("didChange", job[t].version, job[t].text, t))
    /\ Goto(t, "marking")
    /\ UNCHANGED <<disk, owed, doc, server, pushed, store, cache, left>>

(* Mutant: a failed didChange is forgotten. *)
DidChangeForgotten(t) ==
    /\ At(t, "sending")
    /\ Fail
    /\ Goto(t, "forgetting")
    /\ UNCHANGED <<disk, owed, doc, wire, server, pushed, store, cache>>

DidChangeFails(t) ==
    /\ At(t, "sending")
    /\ Fail
    /\ Goto(t, "untracking")
    /\ UNCHANGED <<disk, owed, doc, wire, server, pushed, store, cache>>

MarkDirty(t) ==
    /\ At(t, "marking")
    /\ store' = [store EXCEPT !.dirty = TRUE, !.known = TRUE]
    /\ Goto(t, "forgetting")
    /\ UNCHANGED <<disk, owed, doc, wire, server, pushed, cache, left>>

Untrack(t) ==
    /\ At(t, "untracking")
    /\ doc' = Untracked
    /\ Goto(t, IF doc.tracked THEN "unstoring" ELSE "forgetting")
    /\ UNCHANGED <<disk, owed, wire, server, pushed, store, cache, left>>

DropDiagnostics(t) ==
    /\ At(t, "unstoring")
    /\ store' = NoDiagnostics
    /\ Goto(t, "closing")
    /\ UNCHANGED <<disk, owed, doc, wire, server, pushed, cache, left>>

SendDidClose(t) ==
    /\ At(t, "closing")
    /\ Send(Message("didClose", 0, NoText, t))
    /\ Goto(t, "forgetting")
    /\ UNCHANGED <<disk, owed, doc, server, pushed, store, cache, left>>

\* The cached results of the file go last; a query under way is raced.
ForgetResults(t) ==
    /\ At(t, "forgetting")
    /\ cache' = NoResult
    /\ job' = [u \in Threads |-> IF u = t THEN Idle
                                 ELSE [job[u] EXCEPT !.raced = @ \/ job[u].pc \in QuerySteps]]
    /\ UNCHANGED <<disk, owed, doc, wire, server, pushed, store, left>>

-----------------------------------------------------------------------------
(* cached_query: a miss asks the server outside the cache's lock.          *)

Spend == left.queries > 0 /\ left' = [left EXCEPT !.queries = @ - 1]

MissCache(t) ==
    /\ At(t, "idle")
    /\ cache.text = NoText
    /\ Spend
    /\ Goto(t, "asking")
    /\ UNCHANGED <<disk, owed, doc, wire, server, pushed, store, cache>>

SendQuery(t) ==
    /\ At(t, "asking")
    /\ Send(Message("query", 0, NoText, t))
    /\ Goto(t, "asked")
    /\ UNCHANGED <<disk, owed, doc, server, pushed, store, cache, left>>

\* An error or a timeout is returned to the caller; nothing is cached.
QueryFails(t) ==
    /\ At(t, "asked")
    /\ Fail
    /\ \E i \in DOMAIN wire :
         /\ wire[i].kind = "query" /\ wire[i].by = t
         /\ wire' = RemoveAt(wire, i)
    /\ Finish(t)
    /\ UNCHANGED <<disk, owed, doc, server, pushed, store, cache>>

StoreResult(t) ==
    /\ At(t, "answered")
    /\ cache' = [text |-> job[t].text, raced |-> job[t].raced]
    /\ Finish(t)
    /\ UNCHANGED <<disk, owed, doc, wire, server, pushed, store, left>>

ResultExpires ==
    /\ cache.text # NoText
    /\ cache' = NoResult
    /\ UNCHANGED <<disk, owed, doc, job, wire, server, pushed, store, left>>

-----------------------------------------------------------------------------
(* DiagnosticStore: a read waits while the file is dirty, for a while.     *)

StartReading(t) ==
    /\ At(t, "idle")
    /\ store.dirty
    /\ Spend
    /\ Goto(t, "waiting")
    /\ UNCHANGED <<disk, owed, doc, wire, server, pushed, store, cache>>

\* publish wakes the reader, or its timeout does.
ReadEnds(t) ==
    /\ At(t, "waiting")
    /\ ~store.dirty
    /\ Finish(t)
    /\ UNCHANGED <<disk, owed, doc, wire, server, pushed, store, cache, left>>

ReadTimesOut(t) ==
    /\ At(t, "waiting")
    /\ store.dirty
    /\ Finish(t)
    /\ UNCHANGED <<disk, owed, doc, wire, server, pushed, store, cache, left>>

(* Mutant: diagnostics nobody waits for are ignored. *)
PublishAwaited ==
    /\ pushed # <<>>
    /\ store' = IF store.dirty THEN [text |-> Head(pushed), dirty |-> FALSE, known |-> TRUE]
                ELSE store
    /\ pushed' = Tail(pushed)
    /\ UNCHANGED <<disk, owed, doc, job, wire, server, cache, left>>

Publish ==
    /\ pushed # <<>>
    /\ store' = [text |-> Head(pushed), dirty |-> FALSE, known |-> TRUE]
    /\ pushed' = Tail(pushed)
    /\ UNCHANGED <<disk, owed, doc, job, wire, server, cache, left>>

\* The server asks for a refresh, which wakes every reader.
SignalRefresh ==
    /\ server.open /\ store.dirty
    /\ store' = [store EXCEPT !.dirty = FALSE]
    /\ UNCHANGED <<disk, owed, doc, job, wire, server, pushed, cache, left>>

-----------------------------------------------------------------------------
(* The server: handles its messages in order, answers from the document it *)
(* holds (from the file when it holds none) and pushes diagnostics some    *)
(* time after a text arrives.  A message the protocol forbids in the       *)
(* document's state is a misuse; the server takes its text all the same.   *)

Misuse(m) ==
    CASE m.kind = "didOpen" -> server.open
      [] m.kind = "didChange" -> ~server.open \/ m.version <= server.version
      [] OTHER -> ~server.open

HandleDocument ==
    /\ wire # <<>>
    /\ LET m == Head(wire) IN
       /\ m.kind # "query"
       /\ server' = [open |-> m.kind # "didClose", version |-> m.version,
                     text |-> m.text, told |-> m.kind = "didClose",
                     misused |-> server.misused \/ Misuse(m)]
    /\ wire' = Tail(wire)
    /\ UNCHANGED <<disk, owed, doc, job, pushed, store, cache, left>>

HandleQuery ==
    /\ wire # <<>>
    /\ LET m == Head(wire) IN
       /\ m.kind = "query"
       /\ job' = [job EXCEPT ![m.by].pc = "answered",
                             ![m.by].text = IF server.open THEN server.text ELSE disk.text]
    /\ wire' = Tail(wire)
    /\ UNCHANGED <<disk, owed, doc, server, pushed, store, cache, left>>

PushDiagnostics ==
    /\ ~server.told
    /\ pushed' = Append(pushed, server.text)
    /\ server' = [server EXCEPT !.told = TRUE]
    /\ UNCHANGED <<disk, owed, doc, job, wire, store, cache, left>>

-----------------------------------------------------------------------------
Opening(t) ==
    \/ AbandonOpening(t) \/ ReadForOpen(t) \/ SendDidOpen(t) \/ DidOpenFails(t)
    \/ Promote(t)

Invalidating(t) ==
    \/ ReadForChange(t) \/ SendDidChange(t) \/ DidChangeFails(t) \/ MarkDirty(t)
    \/ Untrack(t) \/ DropDiagnostics(t) \/ SendDidClose(t) \/ ForgetResults(t)

Querying(t) == SendQuery(t) \/ QueryFails(t) \/ StoreResult(t)

Reading(t) == ReadEnds(t) \/ ReadTimesOut(t)

Continue(t) == Opening(t) \/ Invalidating(t) \/ Querying(t) \/ Reading(t)

Serve == HandleDocument \/ HandleQuery \/ PushDiagnostics \/ Publish

Next ==
    \/ WriteFile \/ RemoveFile \/ ResultExpires \/ SignalRefresh \/ Serve
    \/ \E t \in Threads :
         \/ StartOpening(t) \/ StartInvalidation(t) \/ MissCache(t) \/ StartReading(t)
         \/ Continue(t)

Spec == Init /\ [][Next]_vars

\* Threads go on with their calls, a change is followed by on_change, and the
\* server handles its input and pushes what it owes.
Fairness ==
    /\ \A t \in Threads : WF_vars(Continue(t))
    /\ WF_vars(\E t \in Threads : StartInvalidation(t))
    /\ WF_vars(Serve)

FairSpec == Spec /\ Fairness

-----------------------------------------------------------------------------
\* The messages the manager sends for a file keep the protocol: didOpen for a
\* closed document, didChange with a version above the last, didClose for an
\* open one (OpenDocument::version, change_document).
ProtocolKept == ~server.misused

\* When nothing is under way the server holds the file's text if the document
\* is tracked, and no document if it is not: what it answers next is right.
ServerCatchesUp ==
    (~owed /\ wire = <<>> /\ \A t \in Threads : job[t].pc \notin OpeningSteps \cup ChangingSteps)
        => /\ server.open = doc.tracked
           /\ doc.tracked => server.text = disk.text

\* A cached result that is not of the file's text is about to be forgotten
\* (the change is owed to or in the hands of invalidate_file), or its query
\* overlapped the last forgetting.
StaleOnlyIfRaced ==
    (cache.text # NoText /\ cache.text # disk.text)
        => \/ cache.raced
           \/ owed
           \/ \E t \in Threads : job[t].pc \in ChangingSteps

\* After the last change of an open document its diagnostics become those of
\* its text, whatever was pushed on the way.
DiagnosticsConverge ==
    <>[](server.open /\ doc.tracked => store.text = server.text)
=============================================================================
