---------------------------- MODULE SourceEdits -----------------------------
(***************************************************************************)
(* Edits of source files through their symbols: writes to a symbol's file  *)
(* (MetaSplice), to lines.rs (LinesWrite), removal of a symbol             *)
(* (SymbolDelete) and batches staged under edit/ and applied by removing   *)
(* staged.diff (EditStaging, BatchEditAction, apply_diff).  All of them    *)
(* start from the file's cached decomposition and write the whole file.    *)
(*                                                                         *)
(* A text gives each slot (a symbol's full span) the edit it was last set  *)
(* by, 0 for the original and Gone for a removed symbol.  Every edit has   *)
(* its own number, which stands for what it writes; staged operations      *)
(* replace or delete a symbol (EditPlan has the other kinds and ranges).   *)
(***************************************************************************)
EXTENDS Naturals, Sequences, FiniteSets

CONSTANTS
    Threads,     \* FUSE workers
    NFiles,      \* files are numbered in the order of their paths
    Slots,
    MaxEdits,    \* edits made
    MaxRequests, \* requests made
    MaxFailures, \* writes failed
    MaxStaged,   \* sequence numbers given between two resets
    Outside      \* files also change behind the mount

ASSUME BoundsAssumption == {NFiles, MaxEdits, MaxRequests, MaxFailures, MaxStaged} \subseteq Nat
ASSUME OutsideAssumption == Outside \in BOOLEAN

VARIABLES
    text,     \* text[f]: the file on disk
    cached,   \* cached[f]: its entry in the decomposition cache
    staged,   \* staged[f]: the operations staged for f
    counter,  \* the next sequence number
    job,      \* job[t]: the request thread t is in
    events,   \* files whose change the watcher has yet to report
    left,     \* [edits, requests, failures] that may still happen
    fate      \* what became of the staged edits, see Fates

vars == <<text, cached, staged, counter, job, events, left, fate>>

Files == 1..NFiles
All == 0              \* the scope of the staged.diff at the mount's root
Edits == 1..MaxEdits
Empty == 0            \* staged content: touched, not written
Gone == MaxEdits + 1
Texts == [Slots -> 0..Gone]
Original == [s \in Slots |-> 0]
NoEntry == [known |-> FALSE, text |-> Original, raced |-> FALSE]

\* An operation on a slot: the edit that fills it, under its number.
Op(n, s, e) == [number |-> n, slot |-> s, edit |-> e]
Ops == [number : Nat, slot : Slots, edit : 0..Gone]
NoOps == [f \in Files |-> <<>>]

Idle == [pc |-> "idle", kind |-> "none", scope |-> All, ops |-> NoOps, todo |-> {},
         base |-> [f \in Files |-> Original], raced |-> FALSE]

Jobs ==
    [pc : {"idle", "reading", "parsing", "writing", "settling", "announcing", "resetting"},
     kind : {"none", "splice", "whole", "delete", "batch"},
     scope : Files \cup {All}, ops : [Files -> Seq(Ops)], todo : SUBSET Files,
     base : [Files -> Texts], raced : BOOLEAN]

Fates ==
    [applied : [Edits -> 0..2],  \* how often an edit was written
     again : SUBSET Edits,       \* in an apply that failed after it wrote some
                                 \* file, or in two applies at a time
     late : SUBSET Edits,        \* staged while an apply was under way
     dropped : SUBSET Edits,     \* drained by an apply and never written
     slipped : BOOLEAN]          \* some op was staged between clear and reset

TypeOK ==
    /\ text \in [Files -> Texts]
    /\ cached \in [Files -> [known : BOOLEAN, text : Texts, raced : BOOLEAN]]
    /\ staged \in [Files -> Seq(Ops)] /\ counter \in Nat
    /\ \A f \in Files : \A i \in DOMAIN staged[f] :
         staged[f][i].number < counter \/ fate.slipped
    /\ job \in [Threads -> Jobs]
    /\ events \subseteq Files
    /\ left \in [edits : 0..MaxEdits, requests : 0..MaxRequests, failures : 0..MaxFailures]
    /\ fate \in Fates

Init ==
    /\ text = [f \in Files |-> Original]
    /\ cached = [f \in Files |-> NoEntry]
    /\ staged = NoOps /\ counter = 0
    /\ job = [t \in Threads |-> Idle]
    /\ events = {}
    /\ left = [edits |-> MaxEdits, requests |-> MaxRequests, failures |-> MaxFailures]
    /\ fate = [applied |-> [e \in Edits |-> 0], again |-> {}, late |-> {}, dropped |-> {},
               slipped |-> FALSE]

Stands(t, pc) == job[t].pc = pc
Finish(t) == [job EXCEPT ![t] = Idle]
SlotsIn(q) == {q[i].slot : i \in DOMAIN q}
EditsIn(q) == {q[i].edit : i \in DOMAIN q} \cap Edits
HasOps(ops) == {f \in Files : ops[f] # <<>>}
EditsOf(ops) == UNION {EditsIn(ops[f]) : f \in Files}
InScope(f, scope) == scope \in {f, All}
Scoped(scope) == [f \in Files |-> IF InScope(f, scope) THEN staged[f] ELSE <<>>]

\* The files an apply goes through, one after the other: some fixed order.
First(F) == CHOOSE f \in F : TRUE

NewEdit == left.edits > 0 /\ left' = [left EXCEPT !.edits = @ - 1]
ThisEdit == MaxEdits + 1 - left.edits
Spent(n) == [left EXCEPT !.requests = @ - 1, !.edits = @ - n]
Fail == left.failures > 0 /\ left' = [left EXCEPT !.failures = @ - 1]

\* DecompositionCache::invalidate; a decomposition under way misses it.
Dropped(jobs, f) ==
    [u \in Threads |-> [jobs[u] EXCEPT !.raced =
        @ \/ (jobs[u].pc = "parsing" /\ First(jobs[u].todo) = f)]]

Invalidate(f, jobs) ==
    /\ cached' = [cached EXCEPT ![f] = NoEntry]
    /\ job' = Dropped(jobs, f)

-----------------------------------------------------------------------------
(* Requests begin.  The write lock of a symbol's inode admits one splice   *)
(* of it at a time.                                                        *)

MayStart(t, n) == Stands(t, "idle") /\ left.requests > 0 /\ left.edits >= n

Request(kind, ops, scope) ==
    [Idle EXCEPT !.pc = IF kind = "whole" THEN "writing" ELSE "reading",
                 !.kind = kind, !.scope = scope, !.ops = ops, !.todo = HasOps(ops)]

Only(f, s, e) == [NoOps EXCEPT ![f] = <<Op(0, s, e)>>]

StartSplice(t, f, s) ==
    /\ MayStart(t, 1) /\ left' = Spent(1)
    /\ \A u \in Threads : job[u].kind = "splice" => s \notin SlotsIn(job[u].ops[f])
    /\ job' = [job EXCEPT ![t] = Request("splice", Only(f, s, ThisEdit), f)]
    /\ UNCHANGED <<text, cached, staged, counter, events, fate>>

\* The client sends the whole file; all slots become its edit's.
StartWhole(t, f) ==
    /\ MayStart(t, 1) /\ left' = Spent(1)
    /\ \A u \in Threads : job[u].kind = "whole" => job[u].scope # f
    /\ \E s \in Slots :
         job' = [job EXCEPT ![t] = Request("whole", Only(f, s, ThisEdit), f)]
    /\ UNCHANGED <<text, cached, staged, counter, events, fate>>

StartDelete(t, f, s) ==
    /\ MayStart(t, 1) /\ left' = Spent(1)
    /\ job' = [job EXCEPT ![t] = Request("delete", Only(f, s, Gone), f)]
    /\ UNCHANGED <<text, cached, staged, counter, events, fate>>

\* compute_edits begins with a snapshot; with nothing staged rm fails.
StartApply(t, scope) ==
    /\ MayStart(t, 0) /\ left' = Spent(0)
    /\ scope = All => \A u \in Threads : job[u].kind = "batch" => job[u].scope # All
    /\ LET ops == Scoped(scope)
           twice == {e \in EditsOf(ops) : \E u \in Threads :
                       job[u].kind = "batch" /\ e \in EditsOf(job[u].ops)} IN
       /\ HasOps(ops) # {}
       /\ job' = [job EXCEPT ![t] = Request("batch", ops, scope)]
       /\ fate' = [fate EXCEPT !.again = @ \cup twice]
    /\ UNCHANGED <<text, cached, staged, counter, events>>

-----------------------------------------------------------------------------
(* EditStaging::stage and the two ways to discard                          *)

\* Applies that took their snapshot and have not drained yet.
UnderWay(f) == \E t \in Threads : job[t].kind = "batch" /\ InScope(f, job[t].scope)
Resetting == \E t \in Threads : Stands(t, "resetting")

\* The op a new interaction with an endpoint leaves behind: the last
\* non-empty content, under the number of the first.
Restaged(q, s, e) ==
    [i \in DOMAIN q |-> IF q[i].slot = s /\ e # Empty THEN [q[i] EXCEPT !.edit = e] ELSE q[i]]

Stage(f, s, e) ==
    /\ IF \E i \in DOMAIN staged[f] : staged[f][i].slot = s
       THEN /\ staged' = [staged EXCEPT ![f] = Restaged(@, s, e)]
            /\ UNCHANGED counter
       ELSE /\ counter < MaxStaged
            /\ staged' = [staged EXCEPT ![f] = Append(@, Op(counter, s, e))]
            /\ counter' = counter + 1
    /\ fate' = [fate EXCEPT !.late = IF UnderWay(f) THEN @ \cup ({e} \cap Edits) ELSE @,
                            !.slipped = @ \/ Resetting]
    /\ UNCHANGED <<text, cached, job, events>>

\* fragment_create, for a symbol the decomposition shows.
CreateEndpoint(f, s) ==
    /\ text[f][s] # Gone
    /\ Stage(f, s, Empty) /\ UNCHANGED left

WriteEndpoint(f, s) ==
    /\ \E i \in DOMAIN staged[f] : staged[f][i].slot = s
    /\ NewEdit
    /\ Stage(f, s, ThisEdit)

\* ClearWritable: the files named are invalidated through notify_change.
ClearStaged(t, scope) ==
    /\ MayStart(t, 0) /\ left' = Spent(0)
    /\ HasOps(Scoped(scope)) # {}
    /\ staged' = [f \in Files |-> IF InScope(f, scope) THEN <<>> ELSE staged[f]]
    /\ cached' = [f \in Files |-> IF Scoped(scope)[f] # <<>> THEN NoEntry ELSE cached[f]]
    /\ job' = [u \in Threads |-> [job[u] EXCEPT !.raced =
                 @ \/ (Stands(u, "parsing") /\ Scoped(scope)[First(job[u].todo)] # <<>>)]]
    /\ UNCHANGED <<text, counter, events, fate>>

-----------------------------------------------------------------------------
(* Every request but a whole one decomposes its files, in order.  A symbol *)
(* that is gone, a conflict or a text that does not parse ends it.         *)

Refused(ops, base) == \E i \in DOMAIN ops : base[ops[i].slot] = Gone

\* The file's base is known: go on with the next, or write.
Based(t, f, base) ==
    LET rest == job[t].todo \ {f} IN
    IF Refused(job[t].ops[f], base) THEN Idle
    ELSE [job[t] EXCEPT !.base[f] = base, !.raced = FALSE,
                        !.pc = IF rest = {} THEN "writing" ELSE "reading",
                        !.todo = IF rest = {} THEN HasOps(job[t].ops) ELSE rest]

FindDecomposition(t) ==
    /\ Stands(t, "reading")
    /\ LET f == First(job[t].todo) IN
       /\ cached[f].known
       /\ job' = [job EXCEPT ![t] = Based(t, f, cached[f].text)]
    /\ UNCHANGED <<text, cached, staged, counter, events, left, fate>>

ReadSource(t) ==
    /\ Stands(t, "reading")
    /\ LET f == First(job[t].todo) IN
       /\ ~cached[f].known
       /\ job' = [job EXCEPT ![t].pc = "parsing", ![t].base[f] = text[f], ![t].raced = FALSE]
    /\ UNCHANGED <<text, cached, staged, counter, events, left, fate>>

\* Another thread's entry, if there is one now, wins.
InsertDecomposition(t) ==
    /\ Stands(t, "parsing")
    /\ LET f == First(job[t].todo)
           entry == IF cached[f].known THEN cached[f]
                    ELSE [known |-> TRUE, text |-> job[t].base[f], raced |-> job[t].raced] IN
       /\ cached' = [cached EXCEPT ![f] = entry]
       /\ job' = [job EXCEPT ![t] = Based(t, f, entry.text)]
    /\ UNCHANGED <<text, staged, counter, events, left, fate>>

\* Conflicting operations, or a result tree-sitter rejects.
RefuseEdit(t) ==
    /\ Stands(t, "writing") /\ job[t].todo = HasOps(job[t].ops)
    /\ job' = Finish(t)
    /\ UNCHANGED <<text, cached, staged, counter, events, left, fate>>

-----------------------------------------------------------------------------
(* Writing.  A symbol replaced by nothing is gone.                         *)

Applied(base, ops) ==
    [s \in Slots |->
        LET its == {i \in DOMAIN ops : ops[i].slot = s} IN
        IF its = {} THEN base[s]
        ELSE LET e == ops[CHOOSE i \in its : TRUE].edit IN IF e = Empty THEN Gone ELSE e]

NewText(t, f, base) ==
    IF job[t].kind = "whole" THEN [s \in Slots |-> job[t].ops[f][1].edit]
    ELSE Applied(base, job[t].ops[f])

\* A batch or a removal that changes nothing is not written.
WriteSource(t) ==
    /\ Stands(t, "writing")
    /\ LET f == First(job[t].todo)
           rest == job[t].todo \ {f}
           batch == job[t].kind = "batch"
           diff == job[t].kind \in {"batch", "delete"}
           new == NewText(t, f, job[t].base[f])
           wrote == ~(diff /\ new = job[t].base[f]) IN
       /\ text' = IF wrote THEN [text EXCEPT ![f] = new] ELSE text
       /\ job' = [job EXCEPT ![t].todo = rest, ![t].base[f] = Original,
                             ![t].pc = IF rest = {} THEN "settling" ELSE @]
       /\ events' = IF diff /\ wrote THEN events \cup {f} ELSE events
       /\ fate' = [fate EXCEPT
            !.applied = [e \in Edits |->
                IF batch /\ wrote /\ e \in EditsIn(job[t].ops[f])
                THEN (IF @[e] < 2 THEN @[e] + 1 ELSE 2) ELSE @[e]]]
    /\ UNCHANGED <<cached, staged, counter, left>>

\* The files already written stay written, the operations stay staged.
WriteFails(t) ==
    /\ Stands(t, "writing") /\ Fail
    /\ LET wrote == HasOps(job[t].ops) \ job[t].todo IN
       fate' = [fate EXCEPT !.again = @ \cup
                  IF job[t].kind = "batch" THEN UNION {EditsIn(job[t].ops[f]) : f \in wrote} ELSE {}]
    /\ job' = Finish(t)
    /\ UNCHANGED <<text, cached, staged, counter, events>>

\* A splice and a whole write drop the decomposition, and so does the removal
\* of a symbol; the write paths go on to notify_change, which also records the
\* file so that the watcher drops the echo.
SettleEdit(t) ==
    /\ Stands(t, "settling") /\ job[t].kind # "batch"
    /\ Invalidate(job[t].scope, IF job[t].kind = "delete" THEN Finish(t)
                                ELSE [job EXCEPT ![t].pc = "announcing"])
    /\ UNCHANGED <<text, staged, counter, events, left, fate>>

Announce(t) ==
    /\ Stands(t, "announcing")
    /\ Invalidate(job[t].scope, Finish(t))
    /\ UNCHANGED <<text, staged, counter, events, left, fate>>

(* Mutant: a scoped apply drains nothing. *)
DrainAllOnly(scope, next) ==
    /\ staged' = IF scope = All THEN NoOps ELSE staged
    /\ job' = next
    /\ UNCHANGED fate

Drain(scope, next) ==
    /\ staged' = [f \in Files |-> IF InScope(f, scope) THEN <<>> ELSE staged[f]]
    /\ fate' = [fate EXCEPT !.dropped = @ \cup
                  {e \in EditsOf(Scoped(scope)) : fate.applied[e] = 0}]
    /\ job' = next

\* on_applied.  clear() empties the map and then resets the counter.
DrainStaged(t) ==
    /\ Stands(t, "settling") /\ job[t].kind = "batch"
    /\ Drain(job[t].scope, IF job[t].scope = All THEN [job EXCEPT ![t].pc = "resetting"]
                           ELSE Finish(t))
    /\ UNCHANGED <<text, cached, counter, events, left>>

ResetCounter(t) ==
    /\ Stands(t, "resetting")
    /\ counter' = 0
    /\ job' = Finish(t)
    /\ UNCHANGED <<text, cached, staged, events, left, fate>>

-----------------------------------------------------------------------------
(* Changes behind the mount, and the watcher's on_change.                  *)

WriteBehind(f, s) ==
    /\ Outside /\ NewEdit
    /\ text[f][s] # Gone
    /\ text' = [text EXCEPT ![f][s] = ThisEdit]
    /\ events' = events \cup {f}
    /\ UNCHANGED <<cached, staged, counter, job, fate>>

(* Mutant: the provider ignores the change. *)
WatcherReportsOnly(f) ==
    /\ f \in events
    /\ events' = events \ {f}
    /\ UNCHANGED <<text, cached, staged, counter, job, left, fate>>

WatcherReports(f) ==
    /\ f \in events
    /\ events' = events \ {f}
    /\ Invalidate(f, job)
    /\ UNCHANGED <<text, staged, counter, left, fate>>

-----------------------------------------------------------------------------
Begin(t) ==
    \/ \E f \in Files, s \in Slots : StartSplice(t, f, s) \/ StartDelete(t, f, s)
    \/ \E f \in Files : StartWhole(t, f)
    \/ \E scope \in Files \cup {All} : StartApply(t, scope) \/ ClearStaged(t, scope)

Continue(t) ==
    \/ FindDecomposition(t) \/ ReadSource(t) \/ InsertDecomposition(t) \/ RefuseEdit(t)
    \/ WriteSource(t) \/ WriteFails(t) \/ SettleEdit(t) \/ Announce(t) \/ DrainStaged(t)
    \/ ResetCounter(t)

Next ==
    \/ \E t \in Threads : Begin(t) \/ Continue(t)
    \/ \E f \in Files, s \in Slots :
         CreateEndpoint(f, s) \/ WriteEndpoint(f, s) \/ WriteBehind(f, s)
    \/ \E f \in Files : WatcherReports(f)

Spec == Init /\ [][Next]_vars

-----------------------------------------------------------------------------
\* A cached decomposition that is not of the file's text is about to be
\* dropped: the change is owed by the watcher, or by the request that wrote
\* it; or it was parsed across a change's invalidation.
CacheIsCurrent ==
    \A f \in Files :
        (cached[f].known /\ cached[f].text # text[f])
            => \/ cached[f].raced
               \/ f \in events
               \/ \E t \in Threads : job[t].scope = f /\ job[t].pc \in {"settling", "announcing"}

\* A staged edit is written exactly once: what an apply removes from the staging
\* area it has written, except what was staged while it ran; an edit is written
\* twice only when its apply failed midway or two applies overlapped; and no two
\* staged operations share an endpoint, or a number unless one was staged while
\* an apply was emptying the area.
AppliedExactlyOnce ==
    /\ fate.dropped \subseteq fate.late
    /\ \A e \in Edits : fate.applied[e] > 1 => e \in fate.again
    /\ LET there == UNION {{<<f, i>> : i \in DOMAIN staged[f]} : f \in Files}
           op(p) == staged[p[1]][p[2]] IN
       \A p, q \in there : p # q =>
           /\ p[1] = q[1] => op(p).slot # op(q).slot
           /\ op(p).number # op(q).number \/ fate.slipped
=============================================================================
