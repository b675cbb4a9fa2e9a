-------------------------- MODULE SourceEditsProofs --------------------------
(***************************************************************************)
(* Proofs about SourceEdits, for any number of threads, files, symbols and *)
(* edits, and about the arithmetic of TextEdits, for any text, fragments   *)
(* and plan.                                                               *)
(***************************************************************************)
EXTENDS SourceEdits, TextEdits, FiniteSetTheorems, SequenceTheorems,
        WellFoundedInduction, TLAPS

(* What a request in progress has left to do is some of what it was given; *)
(* one that is no batch is about one file.                                 *)
Fits(j) ==
    /\ j.pc \in {"reading", "parsing", "writing"} => j.todo # {} /\ j.todo \subseteq HasOps(j.ops)
    /\ j.pc # "idle" /\ j.kind # "batch" => j.scope \in Files /\ HasOps(j.ops) = {j.scope}
    /\ j.pc = "announcing" => j.kind # "batch"
WorkFitsRequest == \A t \in Threads : Fits(job[t])

(* Between the emptying of the map and the reset of the counter the map    *)
(* stays empty, but for operations that slip in.                           *)
ResetsFindNothing == Resetting => staged = NoOps \/ fate.slipped

(* The change of a file somebody is on the way to announce.                *)
Owed(f) ==
    \/ f \in events
    \/ \E t \in Threads : /\ job[t].scope = f /\ job[t].kind # "batch"
                          /\ job[t].pc \in {"settling", "announcing"}

EntriesFresh ==
    \A f \in Files :
        cached[f].known /\ cached[f].text # text[f] => cached[f].raced \/ Owed(f)
Here(t) == First(job[t].todo)
ParseFresh(t) ==
    Stands(t, "parsing") /\ job[t].base[Here(t)] # text[Here(t)] => job[t].raced \/ Owed(Here(t))
ParsesFresh == \A t \in Threads : ParseFresh(t)

Types == TypeOK /\ WorkFitsRequest /\ ResetsFindNothing
Inv == Types /\ EntriesFresh /\ ParsesFresh

LEMMA Constants ==
    /\ MaxEdits \in Nat /\ MaxRequests \in Nat /\ MaxFailures \in Nat /\ MaxStaged \in Nat
    /\ All \notin Files /\ Gone \in Nat /\ 0 \in 0..Gone
    /\ Edits \subseteq 0..Gone /\ Gone \in 0..Gone
BY BoundsAssumption DEF All, Files, Gone, Edits

LEMMA Originals ==
    /\ Original \in Texts
    /\ NoEntry \in [known : BOOLEAN, text : Texts, raced : BOOLEAN]
    /\ NoOps \in [Files -> Seq(Ops)] /\ HasOps(NoOps) = {}
    /\ Idle \in Jobs /\ Idle.pc = "idle" /\ Fits(Idle)
BY Constants DEF Original, Texts, NoEntry, NoOps, HasOps, Idle, Jobs, Fits

LEMMA EditTypes ==
    ASSUME TypeOK, left.edits > 0 \/ left.edits >= 1
    PROVE  ThisEdit \in Edits /\ ThisEdit \in 0..Gone
<1>1. left.edits \in 0..MaxEdits
  BY DEF TypeOK
<1> QED
  BY <1>1, Constants DEF ThisEdit, Edits, Gone

LEMMA FirstIsLeft == ASSUME NEW F, F # {} PROVE First(F) \in F
BY DEF First

(* The requests of one file.                                               *)
LEMMA OnlyFacts ==
    ASSUME NEW f \in Files, NEW s \in Slots, NEW e \in 0..Gone
    PROVE  /\ Only(f, s, e) \in [Files -> Seq(Ops)]
           /\ HasOps(Only(f, s, e)) = {f}
<1>1. Op(0, s, e) \in Ops
  BY DEF Op, Ops
<1> DEFINE q == <<Op(0, s, e)>>
<1>2. q \in Seq(Ops) /\ q # <<>>
  BY <1>1
<1>3. /\ \A g \in Files : Only(f, s, e)[g] = IF g = f THEN q ELSE <<>>
      /\ Only(f, s, e) = [NoOps EXCEPT ![f] = q]
  BY DEF Only, NoOps
<1> HIDE DEF q
<1>4. Only(f, s, e) \in [Files -> Seq(Ops)]
  BY <1>2, <1>3, Originals
<1> QED
  BY <1>2, <1>3, <1>4 DEF HasOps

LEMMA RequestFacts ==
    ASSUME NEW kind \in {"splice", "whole", "delete", "batch"}, NEW ops \in [Files -> Seq(Ops)],
           NEW scope \in Files \cup {All}
    PROVE  /\ Request(kind, ops, scope) \in Jobs
           /\ Request(kind, ops, scope).pc \in {"reading", "writing"}
           /\ Request(kind, ops, scope).kind = kind
           /\ Request(kind, ops, scope).scope = scope
           /\ Request(kind, ops, scope).ops = ops
           /\ Request(kind, ops, scope).todo = HasOps(ops)
<1>1. HasOps(ops) \in SUBSET Files
  BY DEF HasOps
<1> QED
  BY <1>1, Originals, ZenonT(40) DEF Request, Idle, Jobs

LEMMA StagedTypes ==
    ASSUME TypeOK, NEW f \in Files, NEW s \in Slots, NEW e \in 0..Gone
    PROVE  /\ Restaged(staged[f], s, e) \in Seq(Ops)
           /\ DOMAIN Restaged(staged[f], s, e) = DOMAIN staged[f]
           /\ \A i \in DOMAIN staged[f] : Restaged(staged[f], s, e)[i].number = staged[f][i].number
           /\ Append(staged[f], Op(counter, s, e)) \in Seq(Ops)
<1>1. staged[f] \in Seq(Ops) /\ counter \in Nat
  BY DEF TypeOK
<1>2. Op(counter, s, e) \in Ops
  BY <1>1 DEF Op, Ops
<1>3. \A i \in DOMAIN staged[f] : staged[f][i] \in Ops
  BY <1>1
<1> DEFINE q == Restaged(staged[f], s, e)
<1>4. \A i \in DOMAIN staged[f] : q[i] \in Ops /\ q[i].number = staged[f][i].number
  BY <1>3 DEF Restaged, Ops
<1>5. DOMAIN q = DOMAIN staged[f] /\ q = [i \in DOMAIN staged[f] |-> q[i]]
  BY DEF Restaged
<1>6. DOMAIN staged[f] = 1 .. Len(staged[f]) /\ Len(staged[f]) \in Nat
  BY <1>1
<1>8. Append(staged[f], Op(counter, s, e)) \in Seq(Ops)
  BY <1>1, <1>2
<1> HIDE DEF q
<1>7. q \in Seq(Ops)
  BY <1>4, <1>5, <1>6
<1>9. q = Restaged(staged[f], s, e)
  BY DEF q
<1> QED
  BY <1>4, <1>5, <1>7, <1>8, <1>9

-----------------------------------------------------------------------------
(* The step of one thread's request: what the others do stays as it is.    *)
LEMMA OneJob ==
    ASSUME TypeOK, NEW t \in Threads, NEW c \in Jobs, job' = [job EXCEPT ![t] = c]
    PROVE  /\ job' \in [Threads -> Jobs]
           /\ job'[t] = c
           /\ \A u \in Threads \ {t} : job'[u] = job[u]
BY DEF TypeOK

LEMMA HereIsFile ==
    ASSUME Types, NEW t \in Threads, job[t].pc \in {"reading", "parsing", "writing"}
    PROVE  Here(t) \in Files /\ Here(t) \in job[t].todo
<1>1. job[t].todo # {} /\ job[t].todo \subseteq Files
  BY DEF Types, WorkFitsRequest, Fits, HasOps
<1> QED
  BY <1>1, FirstIsLeft DEF Here

(* While texts, entries and events stay and the thread neither parses nor  *)
(* has a change to announce, freshness is not touched.                     *)
LEMMA FreshKept ==
    ASSUME Inv, NEW t \in Threads, NEW c \in Jobs, job' = [job EXCEPT ![t] = c],
           job[t].pc \notin {"settling", "announcing"} \/ job[t].kind = "batch",
           c.pc # "parsing", UNCHANGED <<text, cached, events>>
    PROVE  EntriesFresh' /\ ParsesFresh'
<1>1. /\ job' \in [Threads -> Jobs]
      /\ job'[t] = c
      /\ \A u \in Threads \ {t} : job'[u] = job[u]
  BY OneJob DEF Inv, Types
<1>2. \A f \in Files : Owed(f) => Owed(f)'
  BY <1>1 DEF Owed
<1>3. EntriesFresh'
  BY <1>2 DEF Inv, EntriesFresh
<1>4. ParsesFresh'
  <2> SUFFICES ASSUME NEW u \in Threads, Stands(u, "parsing")' PROVE ParseFresh(u)'
    BY DEF ParsesFresh, ParseFresh
  <2>1. job'[u] = job[u] /\ Stands(u, "parsing")
    BY <1>1 DEF Stands
  <2>2. Here(u) \in Files
    BY <2>1, HereIsFile DEF Inv, Stands
  <2>4. Here(u)' = Here(u)
    BY <2>1 DEF Here
  <2>3. Owed(Here(u)) => Owed(Here(u))'
    BY <1>2, <2>2, <2>4
  <2> QED
    BY <2>1, <2>3, <2>4 DEF Inv, ParsesFresh, ParseFresh
<1> QED
  BY <1>3, <1>4

(* A request begins with all of its work before it.                        *)
LEMMA StartKeeps ==
    ASSUME Inv, NEW t \in Threads, Stands(t, "idle"),
           NEW kind \in {"splice", "whole", "delete", "batch"}, NEW ops \in [Files -> Seq(Ops)],
           NEW scope \in Files \cup {All}, HasOps(ops) # {},
           kind # "batch" => scope \in Files /\ HasOps(ops) = {scope},
           job' = [job EXCEPT ![t] = Request(kind, ops, scope)],
           UNCHANGED <<text, cached, staged, counter, events>>,
           left' \in [edits : 0..MaxEdits, requests : 0..MaxRequests, failures : 0..MaxFailures],
           fate' \in Fates, fate'.slipped = fate.slipped
    PROVE  Inv'
<1> DEFINE c == Request(kind, ops, scope)
<1>1. /\ c \in Jobs /\ c.pc \in {"reading", "writing"} /\ c.kind = kind /\ c.scope = scope
      /\ c.ops = ops /\ c.todo = HasOps(ops)
  BY RequestFacts
<1> HIDE DEF c
<1>2. job' = [job EXCEPT ![t] = c]
  BY DEF c
<1>3. /\ job' \in [Threads -> Jobs]
      /\ job'[t] = c
      /\ \A u \in Threads \ {t} : job'[u] = job[u]
  BY <1>1, <1>2, OneJob DEF Inv, Types
<1>4. EntriesFresh' /\ ParsesFresh'
  BY <1>1, <1>2, FreshKept DEF Stands
<1>5. TypeOK'
  BY <1>3 DEF Inv, Types, TypeOK
<1>6. WorkFitsRequest'
  BY <1>1, <1>3, ZenonT(40) DEF Inv, Types, WorkFitsRequest, Fits
<1>7. ResetsFindNothing'
  BY <1>1, <1>3 DEF Inv, Types, ResetsFindNothing, Resetting, Stands
<1> QED
  BY <1>4, <1>5, <1>6, <1>7 DEF Inv, Types

LEMMA SpentTypes ==
    ASSUME TypeOK, NEW n \in {0, 1}, left.requests > 0, left.edits >= n
    PROVE  Spent(n) \in [edits : 0..MaxEdits, requests : 0..MaxRequests, failures : 0..MaxFailures]
<1>1. /\ left.requests \in 0..MaxRequests /\ left.edits \in 0..MaxEdits
      /\ left.failures \in 0..MaxFailures
      /\ left = [edits |-> left.edits, requests |-> left.requests, failures |-> left.failures]
  BY DEF TypeOK
<1>2. left.requests - 1 \in 0..MaxRequests /\ left.edits - n \in 0..MaxEdits
  BY <1>1, Constants
<1> DEFINE a == left.requests - 1
           b == left.edits - n
<1>3. Spent(n) = [left EXCEPT !.requests = a, !.edits = b]
  BY DEF Spent
<1> HIDE DEF a, b
<1>4. a \in 0..MaxRequests /\ b \in 0..MaxEdits
  BY <1>2 DEF a, b
<1> QED
  BY <1>3, <1>4 DEF TypeOK

LEMMA NewEditTypes ==
    ASSUME TypeOK, NewEdit
    PROVE  left' \in [edits : 0..MaxEdits, requests : 0..MaxRequests, failures : 0..MaxFailures]
<1>1. left.edits \in 0..MaxEdits /\ left.edits > 0
  BY DEF TypeOK, NewEdit
<1> DEFINE b == left.edits - 1
<1>2. b \in 0..MaxEdits
  BY <1>1, Constants
<1>3. left' = [left EXCEPT !.edits = b]
  BY DEF NewEdit
<1> HIDE DEF b
<1> QED
  BY <1>2, <1>3 DEF TypeOK

LEMMA FailTypes ==
    ASSUME TypeOK, Fail
    PROVE  left' \in [edits : 0..MaxEdits, requests : 0..MaxRequests, failures : 0..MaxFailures]
<1>1. left.failures \in 0..MaxFailures /\ left.failures > 0
  BY DEF TypeOK, Fail
<1> DEFINE b == left.failures - 1
<1>2. b \in 0..MaxFailures
  BY <1>1, Constants
<1>3. left' = [left EXCEPT !.failures = b]
  BY DEF Fail
<1> HIDE DEF b
<1> QED
  BY <1>2, <1>3 DEF TypeOK

LEMMA BeginKeeps ==
    ASSUME Inv, NEW t \in Threads
    PROVE  /\ \A f \in Files, s \in Slots : StartSplice(t, f, s) => Inv'
           /\ \A f \in Files, s \in Slots : StartDelete(t, f, s) => Inv'
           /\ \A f \in Files : StartWhole(t, f) => Inv'
           /\ \A scope \in Files \cup {All} : StartApply(t, scope) => Inv'
<1> DEFINE Lefts == [edits : 0..MaxEdits, requests : 0..MaxRequests, failures : 0..MaxFailures]
<1>0. ASSUME NEW f \in Files, NEW s \in Slots, NEW e \in 0..Gone,
             NEW kind \in {"splice", "whole", "delete"}, MayStart(t, 1), left' = Spent(1),
             job' = [job EXCEPT ![t] = Request(kind, Only(f, s, e), f)],
             UNCHANGED <<text, cached, staged, counter, events, fate>>
      PROVE  Inv'
  <2> DEFINE ops == Only(f, s, e)
  <2>1. ops \in [Files -> Seq(Ops)] /\ HasOps(ops) = {f}
    BY <1>0, OnlyFacts
  <2>2. left' \in Lefts /\ Stands(t, "idle")
    BY <1>0, SpentTypes DEF Inv, Types, MayStart
  <2>3. job' = [job EXCEPT ![t] = Request(kind, ops, f)]
    BY <1>0
  <2>4. fate' \in Fates /\ fate'.slipped = fate.slipped
    BY <1>0 DEF Inv, Types, TypeOK
  <2> HIDE DEF ops
  <2> QED
    BY <1>0, <2>1, <2>2, <2>3, <2>4, StartKeeps
<1>1. ASSUME NEW f \in Files, NEW s \in Slots, StartSplice(t, f, s) PROVE Inv'
  <2>1. ThisEdit \in 0..Gone
    BY <1>1, EditTypes DEF Inv, Types, StartSplice, MayStart
  <2> QED
    BY <1>0, <1>1, <2>1 DEF StartSplice
<1>2. ASSUME NEW f \in Files, NEW s \in Slots, StartDelete(t, f, s) PROVE Inv'
  BY <1>0, <1>2, Constants DEF StartDelete
<1>3. ASSUME NEW f \in Files, StartWhole(t, f) PROVE Inv'
  <2>1. ThisEdit \in 0..Gone
    BY <1>3, EditTypes DEF Inv, Types, StartWhole, MayStart
  <2> QED
    BY <1>0, <1>3, <2>1 DEF StartWhole
<1>4. ASSUME NEW scope \in Files \cup {All}, StartApply(t, scope) PROVE Inv'
  <2>1. Scoped(scope) \in [Files -> Seq(Ops)]
    BY DEF Scoped, Inv, Types, TypeOK
  <2>2. left' \in [edits : 0..MaxEdits, requests : 0..MaxRequests, failures : 0..MaxFailures]
    BY <1>4, SpentTypes DEF Inv, Types, StartApply, MayStart, TypeOK
  <2>3. EditsOf(Scoped(scope)) \subseteq Edits
    BY DEF EditsOf, EditsIn
  <2>4. fate' \in Fates /\ fate'.slipped = fate.slipped
    BY <1>4, <2>3 DEF StartApply, Inv, Types, TypeOK, Fates
  <2> QED
    BY <1>4, <2>1, <2>2, <2>4, StartKeeps DEF StartApply, MayStart
<1> QED
  BY <1>1, <1>2, <1>3, <1>4

-----------------------------------------------------------------------------
(* Staging touches the staged operations and what is said of them.         *)
LEMMA StageKeeps ==
    ASSUME Inv, NEW f \in Files, NEW s \in Slots, NEW e \in 0..Gone, Stage(f, s, e),
           left' \in [edits : 0..MaxEdits, requests : 0..MaxRequests, failures : 0..MaxFailures]
    PROVE  Inv'
<1>1. PICK q \in Seq(Ops) :
        /\ staged' = [staged EXCEPT ![f] = q]
        /\ counter' \in Nat /\ counter <= counter'
        /\ \A i \in DOMAIN q : q[i].number < counter' \/ fate.slipped
  <2>0. staged[f] \in Seq(Ops) /\ counter \in Nat
    BY DEF Inv, Types, TypeOK
  <2>1. CASE \E i \in DOMAIN staged[f] : staged[f][i].slot = s
    <3> DEFINE q == Restaged(staged[f], s, e)
    <3>1. q \in Seq(Ops) /\ DOMAIN q = DOMAIN staged[f]
          /\ \A i \in DOMAIN staged[f] : q[i].number = staged[f][i].number
      BY StagedTypes DEF Inv, Types
    <3>2. staged' = [staged EXCEPT ![f] = q] /\ counter' = counter
      BY <2>1 DEF Stage
    <3> HIDE DEF q
    <3>3. \A i \in DOMAIN q : q[i].number < counter' \/ fate.slipped
      BY <3>1, <3>2 DEF Inv, Types, TypeOK
    <3>4. counter' \in Nat /\ counter <= counter'
      BY <2>0, <3>2
    <3> QED
      BY <3>1, <3>2, <3>3, <3>4
  <2>2. CASE ~\E i \in DOMAIN staged[f] : staged[f][i].slot = s
    <3> DEFINE op == Op(counter, s, e)
               q == Append(staged[f], op)
    <3>1. q \in Seq(Ops)
      BY StagedTypes DEF Inv, Types
    <3>2. staged' = [staged EXCEPT ![f] = q] /\ counter' = counter + 1
      BY <2>2 DEF Stage
    <3>3. op.number = counter /\ op \in Ops
      BY <2>0 DEF Op, Ops
    <3> HIDE DEF op
    <3>4. \A i \in DOMAIN q : q[i] = op \/ (i \in DOMAIN staged[f] /\ q[i] = staged[f][i])
      BY <2>0, <3>3
    <3>5. \A i \in DOMAIN staged[f] : staged[f][i].number < counter \/ fate.slipped
      BY DEF Inv, Types, TypeOK
    <3>6. \A i \in DOMAIN staged[f] : staged[f][i].number \in Nat
      <4>1. \A i \in DOMAIN staged[f] : staged[f][i] \in Ops
        BY <2>0
      <4> QED
        BY <4>1 DEF Ops
    <3> HIDE DEF q
    <3>7. \A i \in DOMAIN q : q[i].number < counter' \/ fate.slipped
      BY <2>0, <3>2, <3>3, <3>4, <3>5, <3>6
    <3>8. counter' \in Nat /\ counter <= counter'
      BY <2>0, <3>2
    <3> QED
      BY <3>1, <3>2, <3>7, <3>8
  <2> QED
    BY <2>1, <2>2
<1>2. /\ UNCHANGED <<text, cached, job, events>>
      /\ fate' = [fate EXCEPT !.late = IF UnderWay(f) THEN @ \cup ({e} \cap Edits) ELSE @,
                              !.slipped = @ \/ Resetting]
  BY DEF Stage
<1>3. fate' \in Fates /\ (fate.slipped => fate'.slipped) /\ (Resetting => fate'.slipped)
  BY <1>2 DEF Inv, Types, TypeOK, Fates, Resetting
<1>4. staged' \in [Files -> Seq(Ops)]
  BY <1>1 DEF Inv, Types, TypeOK
<1>5. ASSUME NEW g \in Files, NEW i \in DOMAIN staged'[g]
      PROVE  staged'[g][i].number < counter' \/ fate'.slipped
  <2>1. CASE g = f
    BY <1>1, <1>3, <2>1 DEF Inv, Types, TypeOK
  <2>2. CASE g # f
    <3>1. staged'[g] = staged[g] /\ staged[g] \in Seq(Ops) /\ counter \in Nat
      BY <1>1, <2>2 DEF Inv, Types, TypeOK
    <3>2. staged[g][i] \in Ops
      BY <3>1
    <3>3. staged[g][i].number \in Nat
      BY <3>2 DEF Ops
    <3>4. staged[g][i].number < counter \/ fate.slipped
      BY <3>1 DEF Inv, Types, TypeOK
    <3> QED
      BY <1>1, <1>3, <3>1, <3>3, <3>4
  <2> QED
    BY <2>1, <2>2
<1>6. TypeOK'
  BY <1>1, <1>2, <1>3, <1>4, <1>5 DEF Inv, Types, TypeOK
<1>7. WorkFitsRequest' /\ ResetsFindNothing'
  BY <1>2, <1>3 DEF Inv, Types, WorkFitsRequest, ResetsFindNothing, Resetting, Stands
<1>8. EntriesFresh' /\ ParsesFresh'
  BY <1>2 DEF Inv, EntriesFresh, ParsesFresh, ParseFresh, Stands, Here, Owed
<1> QED
  BY <1>6, <1>7, <1>8 DEF Inv, Types

LEMMA EndpointKeeps ==
    ASSUME Inv, NEW f \in Files, NEW s \in Slots
    PROVE  (CreateEndpoint(f, s) => Inv') /\ (WriteEndpoint(f, s) => Inv')
<1>1. CreateEndpoint(f, s) => Inv'
  BY StageKeeps, Constants DEF CreateEndpoint, Empty, Inv, Types, TypeOK
<1>2. ASSUME WriteEndpoint(f, s) PROVE Inv'
  <2>1. ThisEdit \in 0..Gone
    BY <1>2, EditTypes DEF WriteEndpoint, NewEdit, Inv, Types
  <2>2. left' \in [edits : 0..MaxEdits, requests : 0..MaxRequests, failures : 0..MaxFailures]
    BY <1>2, NewEditTypes DEF WriteEndpoint, Inv, Types
  <2> QED
    BY <1>2, <2>1, <2>2, StageKeeps DEF WriteEndpoint
<1> QED
  BY <1>1, <1>2

-----------------------------------------------------------------------------
(* Invalidations: the entry goes, and who parses the file is marked.       *)
LEMMA DroppedFacts ==
    ASSUME NEW jobs \in [Threads -> Jobs], NEW f
    PROVE  /\ Dropped(jobs, f) \in [Threads -> Jobs]
           /\ \A u \in Threads :
                /\ Dropped(jobs, f)[u].pc = jobs[u].pc
                /\ Dropped(jobs, f)[u].kind = jobs[u].kind
                /\ Dropped(jobs, f)[u].scope = jobs[u].scope
                /\ Dropped(jobs, f)[u].ops = jobs[u].ops
                /\ Dropped(jobs, f)[u].todo = jobs[u].todo
                /\ Dropped(jobs, f)[u].base = jobs[u].base
                /\ Dropped(jobs, f)[u].raced =
                      (jobs[u].raced \/ (jobs[u].pc = "parsing" /\ First(jobs[u].todo) = f))
<1> DEFINE raced(u) == jobs[u].raced \/ (jobs[u].pc = "parsing" /\ First(jobs[u].todo) = f)
<1>1. Dropped(jobs, f) = [u \in Threads |-> [jobs[u] EXCEPT !.raced = raced(u)]]
  BY DEF Dropped
<1>2. \A u \in Threads : jobs[u] \in Jobs /\ raced(u) \in BOOLEAN
  BY DEF Jobs
<1> HIDE DEF raced
<1>3. \A u \in Threads : [jobs[u] EXCEPT !.raced = raced(u)] \in Jobs
  BY <1>2, ZenonT(40) DEF Jobs
<1>4. \A u \in Threads :
        LET j == [jobs[u] EXCEPT !.raced = raced(u)] IN
        /\ j.pc = jobs[u].pc /\ j.kind = jobs[u].kind /\ j.scope = jobs[u].scope
        /\ j.ops = jobs[u].ops /\ j.todo = jobs[u].todo /\ j.base = jobs[u].base
        /\ j.raced = raced(u)
  BY <1>2 DEF Jobs
<1>5. \A u \in Threads : Dropped(jobs, f)[u] = [jobs[u] EXCEPT !.raced = raced(u)]
  BY <1>1
<1>6. Dropped(jobs, f) \in [Threads -> Jobs]
  BY <1>1, <1>3
<1>7. \A u \in Threads :
        /\ Dropped(jobs, f)[u].pc = jobs[u].pc /\ Dropped(jobs, f)[u].kind = jobs[u].kind
        /\ Dropped(jobs, f)[u].scope = jobs[u].scope /\ Dropped(jobs, f)[u].ops = jobs[u].ops
        /\ Dropped(jobs, f)[u].todo = jobs[u].todo /\ Dropped(jobs, f)[u].base = jobs[u].base
        /\ Dropped(jobs, f)[u].raced = raced(u)
  BY <1>4, <1>5
<1> QED
  BY <1>6, <1>7 DEF raced

(* Whoever invalidates a file may be the one who owed it.                  *)
LEMMA InvalidateKeeps ==
    ASSUME Inv, NEW f \in Files, NEW jobs \in [Threads -> Jobs], Invalidate(f, jobs),
           \A u \in Threads : jobs[u] # job[u] => job[u].scope = f /\ jobs[u].pc # "parsing",
           UNCHANGED text, events \ {f} \subseteq events'
    PROVE  EntriesFresh' /\ ParsesFresh'
<1>1. /\ \A u \in Threads :
            /\ job'[u].pc = jobs[u].pc /\ job'[u].kind = jobs[u].kind
            /\ job'[u].scope = jobs[u].scope /\ job'[u].todo = jobs[u].todo
            /\ job'[u].base = jobs[u].base
            /\ job'[u].raced = (jobs[u].raced \/ (jobs[u].pc = "parsing" /\ First(jobs[u].todo) = f))
      /\ cached' = [cached EXCEPT ![f] = NoEntry]
  BY DroppedFacts DEF Invalidate
<1>2. \A g \in Files \ {f} : Owed(g) => Owed(g)'
  BY <1>1 DEF Owed
<1>3. EntriesFresh'
  <2> SUFFICES ASSUME NEW g \in Files, cached'[g].known, cached'[g].text # text'[g]
               PROVE  (cached[g].raced \/ Owed(g))'
    BY DEF EntriesFresh
  <2>1. g # f
    BY <1>1 DEF NoEntry, Inv, Types, TypeOK
  <2>2. cached'[g] = cached[g]
    BY <1>1, <2>1
  <2> QED
    BY <1>2, <2>1, <2>2 DEF Inv, EntriesFresh
<1>4. ParsesFresh'
  <2> SUFFICES ASSUME NEW u \in Threads, Stands(u, "parsing")' PROVE ParseFresh(u)'
    BY DEF ParsesFresh, ParseFresh
  <2>1. jobs[u] = job[u] /\ Stands(u, "parsing")
    BY <1>1 DEF Stands
  <2>2. Here(u) \in Files
    BY <2>1, HereIsFile DEF Inv, Stands
  <2>3. Here(u)' = Here(u)
    BY <1>1, <2>1 DEF Here
  <2>4. CASE Here(u) = f
    BY <1>1, <2>1, <2>3, <2>4 DEF ParseFresh, Here, Stands
  <2>5. CASE Here(u) # f
    <3>1. Owed(Here(u)) => Owed(Here(u))'
      BY <1>2, <2>2, <2>3, <2>5
    <3> QED
      BY <1>1, <2>1, <2>3, <3>1 DEF Inv, ParsesFresh, ParseFresh
  <2> QED
    BY <2>4, <2>5
<1> QED
  BY <1>3, <1>4

(* What an invalidation and the step it belongs to leave of the types.     *)
LEMMA InvalidateTypes ==
    ASSUME Inv, NEW f \in Files, NEW jobs \in [Threads -> Jobs], Invalidate(f, jobs),
           \A u \in Threads : Fits(jobs[u]) /\ (jobs[u].pc = "resetting" => Stands(u, "resetting")),
           UNCHANGED <<text, staged, counter, left, fate>>, events' \subseteq events
    PROVE  Types'
<1>1. /\ job' \in [Threads -> Jobs] /\ cached' = [cached EXCEPT ![f] = NoEntry]
      /\ \A u \in Threads : /\ job'[u].pc = jobs[u].pc /\ job'[u].kind = jobs[u].kind
                             /\ job'[u].scope = jobs[u].scope /\ job'[u].todo = jobs[u].todo
                             /\ job'[u].ops = jobs[u].ops
  BY DroppedFacts DEF Invalidate
<1>2. TypeOK'
  BY <1>1, Originals DEF Inv, Types, TypeOK
<1>3. WorkFitsRequest'
  BY <1>1 DEF WorkFitsRequest, Fits
<1>4. ResetsFindNothing'
  BY <1>1 DEF Inv, Types, ResetsFindNothing, Resetting, Stands
<1> QED
  BY <1>2, <1>3, <1>4 DEF Types

LEMMA SettleKeeps ==
    ASSUME Inv, NEW t \in Threads, SettleEdit(t) \/ Announce(t)
    PROVE  Inv'
<1>1. PICK f \in Files, c \in Jobs :
        /\ f = job[t].scope
        /\ c.pc # "parsing" /\ c.pc # "resetting" /\ Fits(c)
        /\ Invalidate(f, [job EXCEPT ![t] = c])
        /\ UNCHANGED <<text, staged, counter, events, left, fate>>
  <2>1. job[t] \in Jobs /\ Fits(job[t])
    BY DEF Inv, Types, TypeOK, WorkFitsRequest
  <2>2. job[t].scope \in Files
    BY <2>1 DEF SettleEdit, Announce, Stands, Fits
  <2>3. CASE Finish(t) = [job EXCEPT ![t] = Idle] /\ Invalidate(job[t].scope, Finish(t))
    BY <2>2, <2>3, Originals DEF SettleEdit, Announce
  <2>4. CASE /\ Stands(t, "settling") /\ job[t].kind # "batch"
             /\ Invalidate(job[t].scope, [job EXCEPT ![t].pc = "announcing"])
    <3> DEFINE c == [job[t] EXCEPT !.pc = "announcing"]
    <3>1. c \in Jobs /\ c.pc = "announcing"
      BY <2>1 DEF Jobs
    <3>2. Fits(c)
      BY <2>1, <2>4 DEF Fits, Stands, Jobs
    <3>3. [job EXCEPT ![t].pc = "announcing"] = [job EXCEPT ![t] = c]
      OBVIOUS
    <3> HIDE DEF c
    <3>4. Invalidate(job[t].scope, [job EXCEPT ![t] = c])
      BY <2>4, <3>3
    <3> QED
      BY <2>2, <3>1, <3>2, <3>4 DEF SettleEdit, Announce
  <2> QED
    BY <2>3, <2>4 DEF SettleEdit, Announce, Finish
<1> DEFINE jobs == [job EXCEPT ![t] = c]
<1>2. /\ jobs \in [Threads -> Jobs] /\ jobs[t] = c
      /\ \A u \in Threads \ {t} : jobs[u] = job[u]
  BY DEF Inv, Types, TypeOK
<1>3. Invalidate(f, jobs)
  BY <1>1
<1> HIDE DEF jobs
<1>4. \A u \in Threads : jobs[u] # job[u] => job[u].scope = f /\ jobs[u].pc # "parsing"
  BY <1>1, <1>2
<1>5. EntriesFresh' /\ ParsesFresh'
  BY <1>1, <1>2, <1>3, <1>4, InvalidateKeeps
<1>6. \A u \in Threads : Fits(jobs[u]) /\ (jobs[u].pc = "resetting" => Stands(u, "resetting"))
  BY <1>1, <1>2 DEF Inv, Types, WorkFitsRequest, Stands
<1>7. Types'
  BY <1>1, <1>2, <1>3, <1>6, InvalidateTypes
<1> QED
  BY <1>5, <1>7 DEF Inv

LEMMA WatcherKeeps == ASSUME Inv, NEW f \in Files, WatcherReports(f) PROVE Inv'
<1>1. /\ job \in [Threads -> Jobs] /\ Invalidate(f, job) /\ events' = events \ {f}
      /\ UNCHANGED <<text, staged, counter, left, fate>>
  BY DEF WatcherReports, Inv, Types, TypeOK
<1>2. EntriesFresh' /\ ParsesFresh'
  BY <1>1, InvalidateKeeps
<1>3. Types'
  BY <1>1, InvalidateTypes DEF Inv, Types, WorkFitsRequest, Stands
<1> QED
  BY <1>2, <1>3 DEF Inv

-----------------------------------------------------------------------------
(* A step of one request that leaves the staging area alone, or ends with  *)
(* its operations applied.                                                 *)
LEMMA JobTypes ==
    ASSUME Inv, NEW t \in Threads, NEW c \in Jobs, Fits(c), job' = [job EXCEPT ![t] = c],
           c.pc = "resetting" => staged' = NoOps \/ fate'.slipped,
           text' \in [Files -> Texts], events' \subseteq Files,
           cached' \in [Files -> [known : BOOLEAN, text : Texts, raced : BOOLEAN]],
           staged' \in [Files -> Seq(Ops)], staged' = staged \/ staged' = NoOps \/ ~Resetting,
           counter' \in Nat,
           \A f \in Files : \A i \in DOMAIN staged'[f] :
              staged'[f][i].number < counter' \/ fate'.slipped,
           left' \in [edits : 0..MaxEdits, requests : 0..MaxRequests, failures : 0..MaxFailures],
           fate' \in Fates, fate'.slipped = fate.slipped
    PROVE  Types'
<1>1. /\ job' \in [Threads -> Jobs] /\ job'[t] = c
      /\ \A u \in Threads \ {t} : job'[u] = job[u]
  BY OneJob DEF Inv, Types
<1>2. TypeOK'
  BY <1>1 DEF TypeOK
<1>3. WorkFitsRequest'
  BY <1>1 DEF Inv, Types, WorkFitsRequest
<1>4. ResetsFindNothing'
  BY <1>1 DEF Inv, Types, ResetsFindNothing, Resetting, Stands
<1> QED
  BY <1>2, <1>3, <1>4 DEF Types

(* The staged operations stay.                                             *)
LEMMA QuietTypes ==
    ASSUME Inv, NEW t \in Threads, NEW c \in Jobs, Fits(c), job' = [job EXCEPT ![t] = c],
           c.pc # "resetting", UNCHANGED <<staged, counter>>,
           text' \in [Files -> Texts], events' \subseteq Files,
           cached' \in [Files -> [known : BOOLEAN, text : Texts, raced : BOOLEAN]],
           left' \in [edits : 0..MaxEdits, requests : 0..MaxRequests, failures : 0..MaxFailures],
           fate' \in Fates, fate'.slipped = fate.slipped
    PROVE  Types'
<1>1. /\ staged' \in [Files -> Seq(Ops)] /\ counter' \in Nat
      /\ \A f \in Files : \A i \in DOMAIN staged'[f] :
            staged'[f][i].number < counter' \/ fate'.slipped
  BY DEF Inv, Types, TypeOK
<1> QED
  BY <1>1, JobTypes

(* A request that ends, or whose pc moves on to a stage that fits.         *)
LEMMA BasedFacts ==
    ASSUME Inv, NEW t \in Threads, job[t].pc \in {"reading", "parsing"}, NEW base \in Texts
    PROVE  /\ Based(t, Here(t), base) \in Jobs
           /\ Fits(Based(t, Here(t), base))
           /\ Based(t, Here(t), base).pc \in {"idle", "reading", "writing"}
<1> DEFINE f == Here(t)
           rest == job[t].todo \ {f}
           pc == IF rest = {} THEN "writing" ELSE "reading"
           todo == IF rest = {} THEN HasOps(job[t].ops) ELSE rest
           c == [job[t] EXCEPT !.base[f] = base, !.raced = FALSE, !.pc = pc, !.todo = todo]
<1>1. /\ f \in Files /\ f \in job[t].todo /\ job[t] \in Jobs /\ Fits(job[t])
      /\ job[t].todo \subseteq HasOps(job[t].ops)
  BY HereIsFile DEF Inv, Types, TypeOK, WorkFitsRequest, Fits
<1>2. pc \in {"writing", "reading"} /\ todo \in SUBSET Files /\ todo # {}
      /\ todo \subseteq HasOps(job[t].ops)
  BY <1>1 DEF HasOps
<1>3. Based(t, f, base) \in {Idle, c}
  BY DEF Based
<1> HIDE DEF pc, todo, f
<1>4. c \in Jobs /\ c.pc = pc /\ c.kind = job[t].kind /\ c.scope = job[t].scope
      /\ c.ops = job[t].ops /\ c.todo = todo
  BY <1>1, <1>2 DEF Jobs
<1> HIDE DEF c
<1>5. Fits(c)
  BY <1>1, <1>2, <1>4 DEF Fits
<1>6. Based(t, f, base) \in Jobs /\ Fits(Based(t, f, base))
      /\ Based(t, f, base).pc \in {"idle", "reading", "writing"}
  BY <1>2, <1>3, <1>4, <1>5, Originals
<1> QED
  BY <1>6 DEF f

LEMMA FindKeeps ==
    ASSUME Inv, NEW t \in Threads, FindDecomposition(t) PROVE Inv'
<1> DEFINE c == Based(t, Here(t), cached[Here(t)].text)
<1>1. job[t].pc = "reading" /\ job' = [job EXCEPT ![t] = c]
      /\ UNCHANGED <<text, cached, staged, counter, events, left, fate>>
  BY DEF FindDecomposition, Stands, Here
<1>2. c \in Jobs /\ Fits(c) /\ c.pc \in {"idle", "reading", "writing"}
  <2>1. Here(t) \in Files
    BY <1>1, HereIsFile DEF Inv
  <2>2. cached[Here(t)].text \in Texts
    BY <2>1 DEF Inv, Types, TypeOK
  <2> QED
    BY <1>1, <2>2, BasedFacts
<1> HIDE DEF c
<1>3. Types'
  BY <1>1, <1>2, QuietTypes DEF Inv, Types, TypeOK
<1>4. EntriesFresh' /\ ParsesFresh'
  BY <1>1, <1>2, FreshKept
<1> QED
  BY <1>3, <1>4 DEF Inv

(* A request that ends early.                                              *)
LEMMA EndKeeps ==
    ASSUME Inv, NEW t \in Threads, job[t].pc = "writing", job' = Finish(t),
           UNCHANGED <<text, cached, staged, counter, events>>,
           left' \in [edits : 0..MaxEdits, requests : 0..MaxRequests, failures : 0..MaxFailures],
           fate' \in Fates, fate'.slipped = fate.slipped
    PROVE  Inv'
<1>1. job' = [job EXCEPT ![t] = Idle]
  BY DEF Finish
<1>2. Types'
  BY <1>1, Originals, QuietTypes DEF Inv, Types, TypeOK
<1>3. EntriesFresh' /\ ParsesFresh'
  BY <1>1, Originals, FreshKept
<1> QED
  BY <1>2, <1>3 DEF Inv

LEMMA EarlyEndsKeep ==
    ASSUME Inv, NEW t \in Threads, RefuseEdit(t) \/ WriteFails(t) PROVE Inv'
<1>1. CASE RefuseEdit(t)
  BY <1>1, EndKeeps DEF RefuseEdit, Stands, Inv, Types, TypeOK
<1>2. CASE WriteFails(t)
  <2>1. left' \in [edits : 0..MaxEdits, requests : 0..MaxRequests, failures : 0..MaxFailures]
    BY <1>2, FailTypes DEF WriteFails, Inv, Types
  <2> DEFINE wrote == HasOps(job[t].ops) \ job[t].todo
             more == IF job[t].kind = "batch" THEN UNION {EditsIn(job[t].ops[f]) : f \in wrote} ELSE {}
  <2>2. fate' = [fate EXCEPT !.again = @ \cup more]
    BY <1>2 DEF WriteFails
  <2>3. more \subseteq Edits
    BY DEF EditsIn
  <2> HIDE DEF more
  <2>4. fate' \in Fates /\ fate'.slipped = fate.slipped
    BY <2>2, <2>3 DEF Inv, Types, TypeOK, Fates
  <2> QED
    BY <1>2, <2>1, <2>4, EndKeeps DEF WriteFails, Stands
<1> QED
  BY <1>1, <1>2

(* The parse begins with the text that is there.                           *)
LEMMA ReadKeeps == ASSUME Inv, NEW t \in Threads, ReadSource(t) PROVE Inv'
<1> DEFINE f == Here(t)
           c == [job[t] EXCEPT !.pc = "parsing", !.base[f] = text[f], !.raced = FALSE]
<1>1. job[t].pc = "reading" /\ job' = [job EXCEPT ![t] = c]
      /\ UNCHANGED <<text, cached, staged, counter, events, left, fate>>
  BY DEF ReadSource, Stands, Here
<1>2. f \in Files /\ job[t] \in Jobs /\ Fits(job[t]) /\ text[f] \in Texts
  BY <1>1, HereIsFile DEF Inv, Types, TypeOK, WorkFitsRequest
<1> HIDE DEF f
<1>3. /\ c \in Jobs /\ c.pc = "parsing" /\ c.kind = job[t].kind /\ c.scope = job[t].scope
      /\ c.ops = job[t].ops /\ c.todo = job[t].todo /\ c.base[f] = text[f]
  BY <1>2 DEF Jobs
<1> HIDE DEF c
<1>4. Fits(c)
  BY <1>1, <1>2, <1>3 DEF Fits
<1>5. Types'
  BY <1>1, <1>3, <1>4, QuietTypes DEF Inv, Types, TypeOK
<1>6. /\ job' \in [Threads -> Jobs] /\ job'[t] = c
      /\ \A u \in Threads \ {t} : job'[u] = job[u]
  BY <1>1, <1>3, OneJob DEF Inv, Types
<1>7. \A g \in Files : Owed(g) => Owed(g)'
  BY <1>1, <1>6 DEF Owed
<1>8. EntriesFresh'
  BY <1>1, <1>7 DEF Inv, EntriesFresh
<1>9. ParsesFresh'
  <2> SUFFICES ASSUME NEW u \in Threads, Stands(u, "parsing")' PROVE ParseFresh(u)'
    BY DEF ParsesFresh, ParseFresh
  <2>1. CASE u = t
    <3>1. Here(t)' = f
      BY <1>3, <1>6 DEF Here, f
    <3> QED
      BY <1>1, <1>3, <1>6, <2>1, <3>1 DEF ParseFresh
  <2>2. CASE u # t
    <3>1. job'[u] = job[u] /\ Stands(u, "parsing") /\ Here(u)' = Here(u)
      BY <1>6, <2>2 DEF Stands, Here
    <3>2. Here(u) \in Files
      BY <3>1, HereIsFile DEF Inv, Stands
    <3>3. Owed(Here(u)) => Owed(Here(u))'
      BY <1>7, <3>1, <3>2
    <3> QED
      BY <1>1, <3>1, <3>3 DEF Inv, ParsesFresh, ParseFresh
  <2> QED
    BY <2>1, <2>2
<1> QED
  BY <1>5, <1>8, <1>9 DEF Inv

LEMMA InsertKeeps == ASSUME Inv, NEW t \in Threads, InsertDecomposition(t) PROVE Inv'
<1> DEFINE f == Here(t)
           entry == IF cached[f].known THEN cached[f]
                    ELSE [known |-> TRUE, text |-> job[t].base[f], raced |-> job[t].raced]
           c == Based(t, f, entry.text)
<1>1. /\ job[t].pc = "parsing" /\ job' = [job EXCEPT ![t] = c]
      /\ cached' = [cached EXCEPT ![f] = entry]
      /\ UNCHANGED <<text, staged, counter, events, left, fate>>
  BY DEF InsertDecomposition, Stands, Here
<1>2. f \in Files /\ job[t] \in Jobs
  BY <1>1, HereIsFile DEF Inv, Types, TypeOK
<1>3. entry \in [known : BOOLEAN, text : Texts, raced : BOOLEAN]
  BY <1>2 DEF Jobs, Inv, Types, TypeOK
<1>4. c \in Jobs /\ Fits(c) /\ c.pc \in {"idle", "reading", "writing"}
  BY <1>1, <1>3, BasedFacts
<1>5. entry.text # text[f] => entry.raced \/ Owed(f)
  BY <1>1, <1>2 DEF Inv, EntriesFresh, ParsesFresh, ParseFresh, Stands
<1> HIDE DEF c, entry
<1>6. /\ job' \in [Threads -> Jobs] /\ job'[t] = c
      /\ \A u \in Threads \ {t} : job'[u] = job[u]
  BY <1>1, <1>4, OneJob DEF Inv, Types
<1>7. cached' \in [Files -> [known : BOOLEAN, text : Texts, raced : BOOLEAN]]
  BY <1>1, <1>3 DEF Inv, Types, TypeOK
<1>8. Types'
  BY <1>1, <1>4, <1>7, QuietTypes DEF Inv, Types, TypeOK
<1>9. \A g \in Files : Owed(g) => Owed(g)'
  BY <1>1, <1>6 DEF Owed
<1>10. EntriesFresh'
  BY <1>1, <1>2, <1>5, <1>9 DEF Inv, Types, TypeOK, EntriesFresh
<1>11. ParsesFresh'
  <2> SUFFICES ASSUME NEW u \in Threads, Stands(u, "parsing")' PROVE ParseFresh(u)'
    BY DEF ParsesFresh, ParseFresh
  <2>1. job'[u] = job[u] /\ Stands(u, "parsing") /\ Here(u)' = Here(u)
    BY <1>4, <1>6 DEF Stands, Here
  <2>2. Here(u) \in Files
    BY <2>1, HereIsFile DEF Inv, Stands
  <2>3. Owed(Here(u)) => Owed(Here(u))'
    BY <1>9, <2>1, <2>2
  <2> QED
    BY <1>1, <2>1, <2>3 DEF Inv, ParsesFresh, ParseFresh
<1> QED
  BY <1>8, <1>10, <1>11 DEF Inv

-----------------------------------------------------------------------------
(* Text on its way to the disk.                                            *)
LEMMA NewTextTypes ==
    ASSUME TypeOK, NEW t \in Threads, NEW f \in HasOps(job[t].ops), NEW base \in Texts
    PROVE  NewText(t, f, base) \in Texts
<1>1. f \in Files /\ job[t].ops[f] \in Seq(Ops) /\ job[t].ops[f] # <<>>
  BY DEF TypeOK, Jobs, HasOps
<1> DEFINE q == job[t].ops[f]
<1>2. \A i \in DOMAIN q : q[i].edit \in 0..Gone
  <2>1. \A i \in DOMAIN q : q[i] \in Ops
    BY <1>1
  <2> QED
    BY <2>1 DEF Ops
<1>3. 1 \in DOMAIN q
  BY <1>1
<1> HIDE DEF q
<1>4. Applied(base, q) \in Texts
  <2> SUFFICES ASSUME NEW s \in Slots PROVE Applied(base, q)[s] \in 0..Gone
    BY DEF Applied, Texts
  <2> DEFINE its == {i \in DOMAIN q : q[i].slot = s}
  <2>1. its # {} => (CHOOSE i \in its : TRUE) \in DOMAIN q
    OBVIOUS
  <2>2. base[s] \in 0..Gone
    BY DEF Texts
  <2> QED
    BY <1>2, <2>1, <2>2, Constants DEF Applied
<1>5. [s \in Slots |-> q[1].edit] \in Texts
  BY <1>2, <1>3 DEF Texts
<1> QED
  BY <1>4, <1>5 DEF NewText, q

(* While a file's text changes, its change is owed from then on.           *)
LEMMA TextChanges ==
    ASSUME Inv, NEW f \in Files,
           \A g \in Files \ {f} : text'[g] = text[g],
           text'[f] # text[f] => Owed(f)', \A g \in Files : Owed(g) => Owed(g)',
           UNCHANGED cached,
           \A u \in Threads : Stands(u, "parsing")' =>
              Stands(u, "parsing") /\ job'[u] = job[u]
    PROVE  EntriesFresh' /\ ParsesFresh'
<1>1. EntriesFresh'
  <2> SUFFICES ASSUME NEW g \in Files, cached[g].known, cached[g].text # text'[g]
               PROVE  cached[g].raced \/ Owed(g)'
    BY DEF EntriesFresh
  <2>1. CASE text'[g] = text[g]
    BY <2>1 DEF Inv, EntriesFresh
  <2>2. CASE text'[g] # text[g]
    BY <2>2
  <2> QED
    BY <2>1, <2>2
<1>2. ParsesFresh'
  <2> SUFFICES ASSUME NEW u \in Threads, Stands(u, "parsing")' PROVE ParseFresh(u)'
    BY DEF ParsesFresh, ParseFresh
  <2>1. job'[u] = job[u] /\ Stands(u, "parsing") /\ Here(u)' = Here(u)
    BY DEF Stands, Here
  <2>2. Here(u) \in Files
    BY <2>1, HereIsFile DEF Inv, Stands
  <2>3. Owed(Here(u)) => Owed(Here(u))'
    BY <2>1, <2>2
  <2>4. text'[Here(u)] # text[Here(u)] => Owed(Here(u))'
    BY <2>1, <2>2
  <2> QED
    BY <2>1, <2>3, <2>4 DEF Inv, ParsesFresh, ParseFresh
<1> QED
  BY <1>1, <1>2

LEMMA BehindKeeps == ASSUME Inv, NEW f \in Files, NEW s \in Slots, WriteBehind(f, s) PROVE Inv'
<1>1. /\ NewEdit /\ text' = [text EXCEPT ![f][s] = ThisEdit] /\ events' = events \cup {f}
      /\ UNCHANGED <<cached, staged, counter, job, fate>>
  BY DEF WriteBehind
<1>2. ThisEdit \in 0..Gone
  BY <1>1, EditTypes DEF NewEdit, Inv, Types
<1>3. text' \in [Files -> Texts] /\ \A g \in Files \ {f} : text'[g] = text[g]
  BY <1>1, <1>2 DEF Inv, Types, TypeOK, Texts
<1>4. left' \in [edits : 0..MaxEdits, requests : 0..MaxRequests, failures : 0..MaxFailures]
  BY <1>1, NewEditTypes DEF Inv, Types
<1>5. Types'
  BY <1>1, <1>3, <1>4 DEF Inv, Types, TypeOK, WorkFitsRequest, ResetsFindNothing, Resetting, Stands
<1>6. Owed(f)' /\ \A g \in Files : Owed(g) => Owed(g)'
  BY <1>1 DEF Owed
<1>7. EntriesFresh' /\ ParsesFresh'
  BY <1>1, <1>3, <1>6, TextChanges DEF Stands
<1> QED
  BY <1>5, <1>7 DEF Inv

LEMMA WriteKeeps == ASSUME Inv, NEW t \in Threads, WriteSource(t) PROVE Inv'
<1>0. PICK f : f = Here(t)
  OBVIOUS
<1> DEFINE rest == job[t].todo \ {f}
           pc == IF rest = {} THEN "settling" ELSE job[t].pc
           diff == job[t].kind \in {"batch", "delete"}
           new == NewText(t, f, job[t].base[f])
           wrote == ~(diff /\ new = job[t].base[f])
           c == [job[t] EXCEPT !.todo = rest, !.base[f] = Original, !.pc = pc]
           applied == [e \in Edits |->
                IF job[t].kind = "batch" /\ wrote /\ e \in EditsIn(job[t].ops[f])
                THEN (IF fate.applied[e] < 2 THEN fate.applied[e] + 1 ELSE 2)
                ELSE fate.applied[e]]
<1>1. /\ job[t].pc = "writing"
      /\ text' = IF wrote THEN [text EXCEPT ![f] = new] ELSE text
      /\ job' = [job EXCEPT ![t] = c]
      /\ events' = IF diff /\ wrote THEN events \cup {f} ELSE events
      /\ UNCHANGED <<cached, staged, counter, left>>
  BY <1>0 DEF WriteSource, Stands, Here
<1>2. fate' = [fate EXCEPT !.applied = applied]
  <2>1. fate.applied = fate.applied /\ fate \in Fates
    BY DEF Inv, Types, TypeOK
  <2> QED
    BY <1>0 DEF WriteSource, Here
<1>3. /\ f \in Files /\ f \in job[t].todo /\ job[t] \in Jobs /\ Fits(job[t])
      /\ f \in HasOps(job[t].ops) /\ job[t].todo \subseteq HasOps(job[t].ops)
  BY <1>0, <1>1, HereIsFile DEF Inv, Types, TypeOK, WorkFitsRequest, Fits
<1>4. new \in Texts
  <2>1. job[t].base[f] \in Texts
    BY <1>3 DEF Jobs
  <2> QED
    BY <1>3, <2>1, NewTextTypes DEF Inv, Types
<1>5. fate' \in Fates /\ fate'.slipped = fate.slipped
  <2>1. applied \in [Edits -> 0..2]
    BY DEF Inv, Types, TypeOK, Fates
  <2> HIDE DEF applied
  <2> QED
    BY <1>2, <2>1 DEF Inv, Types, TypeOK, Fates
<1> HIDE DEF new, applied, wrote
<1>6. rest \in SUBSET Files /\ pc \in {"settling", "writing"} /\ (rest # {} => pc = "writing")
      /\ (rest = {} => pc = "settling") /\ rest \subseteq HasOps(job[t].ops)
  BY <1>1, <1>3 DEF HasOps
<1> HIDE DEF rest, pc
<1>7. /\ c \in Jobs /\ c.pc = pc /\ c.kind = job[t].kind /\ c.scope = job[t].scope
      /\ c.ops = job[t].ops /\ c.todo = rest
  BY <1>3, <1>6, Originals DEF Jobs
<1> HIDE DEF c
<1>8. Fits(c)
  BY <1>1, <1>3, <1>6, <1>7 DEF Fits
<1>9. text' \in [Files -> Texts] /\ (\A g \in Files \ {f} : text'[g] = text[g])
      /\ events' \subseteq Files
  BY <1>1, <1>3, <1>4 DEF Inv, Types, TypeOK
<1>10. Types'
  BY <1>1, <1>5, <1>6, <1>7, <1>8, <1>9, QuietTypes DEF Inv, Types, TypeOK
<1>11. /\ job'[t] = c
       /\ \A u \in Threads \ {t} : job'[u] = job[u]
  BY <1>1, <1>7, OneJob DEF Inv, Types
<1>12. \A g \in Files : Owed(g) => Owed(g)'
  BY <1>1, <1>11 DEF Owed
<1>13. text'[f] # text[f] => Owed(f)'
  <2> SUFFICES ASSUME text'[f] # text[f] PROVE Owed(f)'
    OBVIOUS
  <2>1. wrote
    BY <1>1
  <2>2. CASE diff
    BY <1>1, <2>1, <2>2 DEF Owed
  <2>3. CASE ~diff
    <3>1. job[t].kind # "batch" /\ job[t].scope = f /\ HasOps(job[t].ops) = {f}
      BY <1>1, <1>3, <2>3 DEF Fits
    <3>2. rest = {}
      BY <1>3, <3>1 DEF rest
    <3> QED
      BY <1>6, <1>7, <1>11, <3>1, <3>2 DEF Owed
  <2> QED
    BY <2>2, <2>3
<1>14. \A u \in Threads : Stands(u, "parsing")' => Stands(u, "parsing") /\ job'[u] = job[u]
  BY <1>6, <1>7, <1>11 DEF Stands
<1>15. EntriesFresh' /\ ParsesFresh'
  BY <1>1, <1>3, <1>9, <1>12, <1>13, <1>14, TextChanges
<1> QED
  BY <1>10, <1>15 DEF Inv

-----------------------------------------------------------------------------
(* The staging area is emptied, as a whole or for one file.                *)
LEMMA EmptiedTypes ==
    ASSUME TypeOK, NEW scope
    PROVE  LET some == [f \in Files |-> IF InScope(f, scope) THEN <<>> ELSE staged[f]] IN
           /\ some \in [Files -> Seq(Ops)]
           /\ \A f \in Files : \A i \in DOMAIN some[f] :
                some[f][i].number < counter \/ fate.slipped
           /\ staged = NoOps => some = NoOps
           /\ scope = All => some = NoOps
<1> DEFINE some == [f \in Files |-> IF InScope(f, scope) THEN <<>> ELSE staged[f]]
<1>1. some \in [Files -> Seq(Ops)]
  BY DEF TypeOK
<1>2. ASSUME NEW f \in Files, NEW i \in DOMAIN some[f]
      PROVE  some[f][i].number < counter \/ fate.slipped
  <2>1. some[f] = staged[f]
    BY <1>2
  <2> QED
    BY <1>2, <2>1 DEF TypeOK
<1>3. staged = NoOps => some = NoOps
  BY DEF NoOps
<1>4. scope = All => some = NoOps
  BY DEF NoOps, InScope
<1> QED
  BY <1>1, <1>2, <1>3, <1>4

LEMMA ClearKeeps ==
    ASSUME Inv, NEW t \in Threads, NEW scope \in Files \cup {All}, ClearStaged(t, scope)
    PROVE  Inv'
<1>1. left' \in [edits : 0..MaxEdits, requests : 0..MaxRequests, failures : 0..MaxFailures]
  BY SpentTypes DEF ClearStaged, MayStart, Inv, Types, TypeOK
<1>2. /\ \A f \in Files : cached'[f] = NoEntry \/ cached'[f] = cached[f]
      /\ cached' \in [Files -> [known : BOOLEAN, text : Texts, raced : BOOLEAN]]
  BY Originals DEF ClearStaged, Inv, Types, TypeOK
<1>3. /\ job' \in [Threads -> Jobs]
      /\ \A u \in Threads :
            /\ job'[u].pc = job[u].pc /\ job'[u].kind = job[u].kind
            /\ job'[u].scope = job[u].scope /\ job'[u].ops = job[u].ops
            /\ job'[u].todo = job[u].todo /\ job'[u].base = job[u].base
            /\ job[u].raced => job'[u].raced
  <2> DEFINE raced(u) == job[u].raced \/ (Stands(u, "parsing") /\ Scoped(scope)[First(job[u].todo)] # <<>>)
  <2>1. job' = [u \in Threads |-> [job[u] EXCEPT !.raced = raced(u)]]
    BY DEF ClearStaged
  <2>2. \A u \in Threads : job[u] \in Jobs /\ raced(u) \in BOOLEAN /\ (job[u].raced => raced(u))
    BY DEF Inv, Types, TypeOK, Jobs
  <2> HIDE DEF raced
  <2>3. \A u \in Threads : [job[u] EXCEPT !.raced = raced(u)] \in Jobs
    BY <2>2, ZenonT(40) DEF Jobs
  <2> QED
    BY <2>1, <2>2, <2>3, ZenonT(40) DEF Jobs
<1>4. /\ staged' \in [Files -> Seq(Ops)]
      /\ \A f \in Files : \A i \in DOMAIN staged'[f] :
            staged'[f][i].number < counter \/ fate.slipped
      /\ staged = NoOps => staged' = NoOps
  BY EmptiedTypes DEF ClearStaged, Inv, Types
<1>5. UNCHANGED <<text, counter, events, fate>>
  BY DEF ClearStaged
<1>6. Types'
  <2>1. TypeOK'
    BY <1>1, <1>2, <1>3, <1>4, <1>5 DEF Inv, Types, TypeOK
  <2>2. WorkFitsRequest'
    BY <1>3 DEF Inv, Types, WorkFitsRequest, Fits
  <2>3. ResetsFindNothing'
    BY <1>3, <1>4, <1>5 DEF Inv, Types, ResetsFindNothing, Resetting, Stands
  <2> QED
    BY <2>1, <2>2, <2>3 DEF Types
<1>7. \A f \in Files : Owed(f) => Owed(f)'
  BY <1>3, <1>5 DEF Owed
<1>8. EntriesFresh'
  BY <1>2, <1>5, <1>7 DEF Inv, EntriesFresh, NoEntry
<1>9. ParsesFresh'
  <2> SUFFICES ASSUME NEW u \in Threads, Stands(u, "parsing")' PROVE ParseFresh(u)'
    BY DEF ParsesFresh, ParseFresh
  <2>1. Stands(u, "parsing") /\ Here(u)' = Here(u)
    BY <1>3 DEF Stands, Here
  <2>2. Here(u) \in Files
    BY <2>1, HereIsFile DEF Inv, Stands
  <2>3. Owed(Here(u)) => Owed(Here(u))'
    BY <1>7, <2>1, <2>2
  <2> QED
    BY <1>3, <1>5, <2>1, <2>3 DEF Inv, ParsesFresh, ParseFresh
<1> QED
  BY <1>6, <1>8, <1>9 DEF Inv

LEMMA DrainKeeps == ASSUME Inv, NEW t \in Threads, DrainStaged(t) PROVE Inv'
<1> DEFINE scope == job[t].scope
           c == IF scope = All THEN [job[t] EXCEPT !.pc = "resetting"] ELSE Idle
           some == [f \in Files |-> IF InScope(f, scope) THEN <<>> ELSE staged[f]]
           more == {e \in EditsOf(Scoped(scope)) : fate.applied[e] = 0}
<1>1. /\ job[t].pc = "settling" /\ job[t].kind = "batch" /\ staged' = some
      /\ fate' = [fate EXCEPT !.dropped = @ \cup more]
      /\ UNCHANGED <<text, cached, counter, events, left>>
  BY DEF DrainStaged, Drain, Stands
<1>2. job' = [job EXCEPT ![t] = c]
  BY DEF DrainStaged, Drain, Finish
<1>3. job[t] \in Jobs /\ Fits(job[t])
  BY DEF Inv, Types, TypeOK, WorkFitsRequest
<1>4. /\ c \in Jobs /\ Fits(c) /\ c.pc \in {"idle", "resetting"}
      /\ c.pc = "resetting" => scope = All
  <2>1. CASE scope = All
    <3> DEFINE d == [job[t] EXCEPT !.pc = "resetting"]
    <3>1. /\ d \in Jobs /\ d.pc = "resetting" /\ d.kind = job[t].kind
      BY <1>3 DEF Jobs
    <3> HIDE DEF d
    <3>2. Fits(d)
      BY <1>1, <3>1 DEF Fits
    <3>3. c = d
      BY <2>1 DEF d
    <3> QED
      BY <2>1, <3>1, <3>2, <3>3
  <2>2. CASE scope # All
    BY <2>2, Originals
  <2> QED
    BY <2>1, <2>2
<1>5. more \subseteq Edits
  BY DEF EditsOf, EditsIn
<1>6. /\ some \in [Files -> Seq(Ops)]
      /\ \A f \in Files : \A i \in DOMAIN some[f] : some[f][i].number < counter \/ fate.slipped
      /\ staged = NoOps => some = NoOps
      /\ scope = All => some = NoOps
  BY EmptiedTypes DEF Inv, Types
<1> HIDE DEF c, more, some, scope
<1>7. fate' \in Fates /\ fate'.slipped = fate.slipped
  BY <1>1, <1>5 DEF Inv, Types, TypeOK, Fates
<1>8. /\ job' \in [Threads -> Jobs] /\ job'[t] = c
      /\ \A u \in Threads \ {t} : job'[u] = job[u]
  BY <1>2, <1>4, OneJob DEF Inv, Types
<1>9. TypeOK'
  BY <1>1, <1>6, <1>7, <1>8 DEF Inv, Types, TypeOK
<1>10. WorkFitsRequest'
  BY <1>4, <1>8 DEF Inv, Types, WorkFitsRequest
<1>11. ResetsFindNothing'
  BY <1>1, <1>4, <1>6, <1>7, <1>8 DEF Inv, Types, ResetsFindNothing, Resetting, Stands
<1>12. EntriesFresh' /\ ParsesFresh'
  BY <1>1, <1>2, <1>4, FreshKept
<1> QED
  BY <1>9, <1>10, <1>11, <1>12 DEF Inv, Types

(* Setting the counter back needs the map to be empty.                     *)
LEMMA ResetKeeps == ASSUME Inv, NEW t \in Threads, ResetCounter(t) PROVE Inv'
<1>1. /\ job[t].pc = "resetting" /\ counter' = 0 /\ job' = [job EXCEPT ![t] = Idle]
      /\ UNCHANGED <<text, cached, staged, events, left, fate>>
  BY DEF ResetCounter, Stands, Finish
<1>2. staged = NoOps \/ fate.slipped
  BY <1>1 DEF Inv, Types, ResetsFindNothing, Resetting, Stands
<1>3. \A f \in Files : \A i \in DOMAIN staged[f] : staged[f][i].number < 0 \/ fate.slipped
  BY <1>2 DEF NoOps
<1>4. Types'
  <2>1. /\ job' \in [Threads -> Jobs] /\ job'[t] = Idle
        /\ \A u \in Threads \ {t} : job'[u] = job[u]
    BY <1>1, OneJob, Originals DEF Inv, Types
  <2>2. TypeOK'
    BY <1>1, <1>3, <2>1 DEF Inv, Types, TypeOK
  <2>3. WorkFitsRequest'
    BY <2>1, Originals DEF Inv, Types, WorkFitsRequest
  <2>4. ResetsFindNothing'
    BY <1>1, <1>2 DEF ResetsFindNothing
  <2> QED
    BY <2>2, <2>3, <2>4 DEF Types
<1>5. EntriesFresh' /\ ParsesFresh'
  <2>1. job[t].kind = "batch" \/ job[t].pc \notin {"settling", "announcing"}
    BY <1>1
  <2> QED
    BY <1>1, <2>1, Originals, FreshKept
<1> QED
  BY <1>4, <1>5 DEF Inv

-----------------------------------------------------------------------------
LEMMA InvHoldsAtFirst == Init => Inv
<1> SUFFICES ASSUME Init PROVE Inv
  OBVIOUS
<1>1. TypeOK
  <2>1. left \in [edits : 0..MaxEdits, requests : 0..MaxRequests, failures : 0..MaxFailures]
    BY Constants DEF Init
  <2>2. fate \in Fates
    BY DEF Init, Fates
  <2>3. \A f \in Files : DOMAIN staged[f] = {}
    BY DEF Init, NoOps
  <2> QED
    BY <2>1, <2>2, <2>3, Originals DEF Init, TypeOK
<1>2. \A t \in Threads : job[t] = Idle
  BY DEF Init
<1>3. WorkFitsRequest /\ ResetsFindNothing
  BY <1>2, Originals DEF WorkFitsRequest, ResetsFindNothing, Resetting, Stands
<1>4. EntriesFresh /\ ParsesFresh
  BY <1>2, Originals DEF Init, EntriesFresh, NoEntry, ParsesFresh, ParseFresh, Stands
<1> QED
  BY <1>1, <1>3, <1>4 DEF Inv, Types

LEMMA NextKeepsInv == Inv /\ [Next]_vars => Inv'
<1> SUFFICES ASSUME Inv, [Next]_vars PROVE Inv'
  OBVIOUS
<1>1. ASSUME NEW t \in Threads, Begin(t) PROVE Inv'
  BY <1>1, BeginKeeps, ClearKeeps DEF Begin
<1>2. ASSUME NEW t \in Threads, Continue(t) PROVE Inv'
  BY <1>2, FindKeeps, ReadKeeps, InsertKeeps, EarlyEndsKeep, WriteKeeps, SettleKeeps,
     DrainKeeps, ResetKeeps DEF Continue
<1>3. CASE UNCHANGED vars
  BY <1>3 DEF vars, Inv, Types, TypeOK, WorkFitsRequest, ResetsFindNothing, Resetting, EntriesFresh,
     ParsesFresh, ParseFresh, Stands, Here, Owed
<1> QED
  BY <1>1, <1>2, <1>3, EndpointKeeps, BehindKeeps, WatcherKeeps DEF Next

LEMMA InvHolds == Spec => []Inv
BY InvHoldsAtFirst, NextKeepsInv, PTL DEF Spec

(* Every variable keeps its type, and the number of a staged operation is  *)
(* below the counter unless it slipped in while the area was being emptied *)
(* (EditStaging's next_seq).                                               *)
THEOREM TypeCorrect == Spec => []TypeOK
<1>1. Inv => TypeOK
  BY DEF Inv, Types
<1> QED
  BY <1>1, InvHolds, PTL

(* A decomposition in the cache that is not of the file's text was parsed  *)
(* across an invalidation, or somebody is on the way to drop it: the       *)
(* watcher, or the request that wrote the file (DecompositionCache's get   *)
(* and invalidate).                                                        *)
THEOREM EntriesStayCurrent == Spec => []CacheIsCurrent
<1>1. Inv => CacheIsCurrent
  BY DEF Inv, EntriesFresh, Owed, CacheIsCurrent
<1> QED
  BY <1>1, InvHolds, PTL

-----------------------------------------------------------------------------
(* Staged edits are written exactly once.  The edits a batch has taken for *)
(* a file, those that wait in the staging area, and the files of a batch   *)
(* that are written.                                                       *)

Asks(j, f) == IF j.kind = "batch" THEN EditsIn(j.ops[f]) ELSE {}
Waits(f) == EditsIn(staged[f])
Done(j, f) ==
    /\ f \in HasOps(j.ops)
    /\ j.pc \in {"settling", "resetting"} \/ (j.pc = "writing" /\ f \notin j.todo)

(* An edit that may be in a text: written there, about to be, or parsed.   *)
Shows(x, e) == \E s \in Slots : x[s] = e
Holds(j, e) ==
    \E f \in Files : Shows(j.base[f], e) \/ (j.kind # "batch" /\ e \in EditsIn(j.ops[f]))
Seen(e) ==
    \/ \E f \in Files : Shows(text[f], e) \/ Shows(cached[f].text, e)
    \/ \E t \in Threads : Holds(job[t], e)

(* The file an edit is staged for, or was when a batch took it.            *)
Home(e, f) == e \in Waits(f) \/ \E t \in Threads : e \in Asks(job[t], f)

Scoping ==
    \A t \in Threads :
        /\ Stands(t, "idle") => job[t].kind # "batch"
        /\ \A f \in Files : Asks(job[t], f) # {} => InScope(f, job[t].scope)
OneHome == \A e \in Edits, f, g \in Files : Home(e, f) /\ Home(e, g) => f = g

(* Edits not made yet are nowhere.                                         *)
Unmade ==
    \A e \in Edits : e >= ThisEdit =>
        /\ ~Seen(e) /\ fate.applied[e] = 0
        /\ \A f \in Files : ~Home(e, f)

(* A staged edit is in a text only because a batch wrote it.               *)
SeenIsApplied ==
    \A e \in Edits, f \in Files : Seen(e) /\ Home(e, f) => fate.applied[e] >= 1

(* What waits in the scope of a batch was there when it began, or is late. *)
SnapshotOrLate ==
    \A t \in Threads, f \in Files :
        job[t].kind = "batch" /\ InScope(f, job[t].scope)
            => Waits(f) \subseteq Asks(job[t], f) \cup fate.late
DoneIsApplied ==
    \A t \in Threads, f \in Files :
        Done(job[t], f) => \A e \in Asks(job[t], f) : fate.applied[e] >= 1

(* What was written and still waits is about to be drained, or its apply   *)
(* failed; what was written before a batch came to it is known too.        *)
WaitingOnce ==
    \A f \in Files : \A e \in Waits(f) :
        fate.applied[e] >= 1 =>
            \/ e \in fate.again
            \/ \E t \in Threads : e \in Asks(job[t], f) /\ ~Stands(t, "resetting")
RestOnce ==
    \A t \in Threads, f \in Files : \A e \in Asks(job[t], f) :
        ~Done(job[t], f) /\ fate.applied[e] >= 1 => e \in fate.again
SharedIsAgain ==
    \A t, u \in Threads, f, g \in Files : \A e \in Asks(job[t], f) :
        t # u /\ e \in Asks(job[u], g) => e \in fate.again

(* One operation for each endpoint, numbered once.                         *)
OneSlot(q) == \A i, k \in DOMAIN q : i # k => q[i].slot # q[k].slot
SlotsOnce ==
    \A f \in Files : /\ OneSlot(staged[f])
                     /\ \A t \in Threads : job[t].kind = "batch" => OneSlot(job[t].ops[f])
NumbersOnce ==
    \A f, g \in Files : \A i \in DOMAIN staged[f], k \in DOMAIN staged[g] :
        f # g \/ i # k => staged[f][i].number # staged[g][k].number \/ fate.slipped

DroppedAreLate == fate.dropped \subseteq fate.late
TwiceIsAgain == \A e \in Edits : fate.applied[e] > 1 => e \in fate.again

Wholes == /\ Scoping /\ OneHome /\ Unmade /\ SeenIsApplied
          /\ SnapshotOrLate /\ DoneIsApplied /\ WaitingOnce /\ RestOnce /\ SharedIsAgain
Once == SlotsOnce /\ NumbersOnce /\ DroppedAreLate /\ TwiceIsAgain

LEMMA FateTypes ==
    ASSUME TypeOK
    PROVE  /\ fate.applied \in [Edits -> 0..2] /\ fate.again \subseteq Edits
           /\ fate.late \subseteq Edits /\ fate.dropped \subseteq Edits
           /\ ThisEdit \in Nat /\ Edits \subseteq Nat
<1>1. left.edits \in 0..MaxEdits
  BY DEF TypeOK
<1> QED
  BY <1>1, Constants DEF TypeOK, Fates, ThisEdit, Edits

(* How a step leaves a batch that goes on, and a request that is none or   *)
(* ends: what was written and still waits is known to be written again.    *)
Keeps(j, k) ==
    /\ j.kind = "batch" /\ k.kind = "batch" /\ k.pc # "idle"
    /\ k.ops = j.ops /\ k.scope = j.scope
    /\ \A f \in Files : Done(k, f) <=> Done(j, f)
    /\ j.pc = "resetting" => k.pc = "resetting"
    /\ k.pc = "resetting" => j.pc = "resetting" \/ \A f \in Files : staged'[f] = <<>>
Ends(t) ==
    /\ job'[t].kind # "batch"
    /\ \A f \in Files : \A e \in Asks(job[t], f) :
         e \in EditsIn(staged'[f]) /\ fate.applied[e] >= 1 /\ ~Stands(t, "resetting")
           => e \in fate'.again

(* A step that stages nothing, takes nothing and writes no staged edit:    *)
(* what matters stays, when what ends has written all or none of what      *)
(* still waits.                                                            *)
LEMMA QuietKeeps ==
    ASSUME TypeOK, Wholes, Once,
           \A f \in Files : staged'[f] = staged[f] \/ staged'[f] = <<>>,
           \A t \in Threads : Keeps(job[t], job'[t]) \/ Ends(t),
           \A e \in Edits : Seen(e)' => Seen(e) \/ (e = ThisEdit /\ ThisEdit' > ThisEdit),
           ThisEdit' \in Nat, ThisEdit' >= ThisEdit,
           fate'.applied = fate.applied, fate'.late = fate.late, fate.again \subseteq fate'.again,
           fate'.slipped = fate.slipped, fate'.dropped \subseteq fate.late
    PROVE  Wholes' /\ Once'
<1>0. /\ fate.applied \in [Edits -> 0..2] /\ Edits \subseteq Nat /\ ThisEdit \in Nat
  BY FateTypes
<1>1. \A f \in Files : Waits(f)' \subseteq Waits(f) /\ Waits(f) \subseteq Edits
  BY DEF Waits, EditsIn
<1>2. \A t \in Threads, f \in Files :
         /\ Asks(job'[t], f) \subseteq Asks(job[t], f) /\ Asks(job[t], f) \subseteq Edits
         /\ job'[t].kind = "batch" => Keeps(job[t], job'[t]) /\ Asks(job'[t], f) = Asks(job[t], f)
  <2> SUFFICES ASSUME NEW t \in Threads, NEW f \in Files
               PROVE  /\ Asks(job'[t], f) \subseteq Asks(job[t], f) /\ Asks(job[t], f) \subseteq Edits
                      /\ job'[t].kind = "batch" =>
                           Keeps(job[t], job'[t]) /\ Asks(job'[t], f) = Asks(job[t], f)
    OBVIOUS
  <2>1. Asks(job[t], f) \subseteq Edits
    BY DEF Asks, EditsIn
  <2>2. CASE Keeps(job[t], job'[t])
    BY <2>1, <2>2 DEF Keeps, Asks
  <2>3. CASE Ends(t)
    BY <2>1, <2>3 DEF Ends, Asks
  <2> QED
    BY <2>2, <2>3
<1>3. \A e \in Edits, f \in Files : Home(e, f)' => Home(e, f)
  BY <1>1, <1>2 DEF Home
<1>4. Scoping'
  <2> SUFFICES ASSUME NEW t \in Threads
               PROVE  /\ job'[t].kind = "batch" => job'[t].pc # "idle"
                      /\ \A f \in Files : Asks(job'[t], f) # {} => InScope(f, job'[t].scope)
    BY DEF Scoping, Stands
  <2>1. CASE Keeps(job[t], job'[t])
    <3>1. \A f \in Files : Asks(job'[t], f) = Asks(job[t], f) /\ job'[t].scope = job[t].scope
      BY <2>1 DEF Keeps, Asks
    <3> QED
      BY <2>1, <3>1 DEF Keeps, Wholes, Scoping
  <2>2. CASE Ends(t)
    BY <2>2 DEF Ends, Asks
  <2> QED
    BY <2>1, <2>2
<1>5. OneHome'
  BY <1>3 DEF Wholes, OneHome
<1>6. Unmade'
  BY <1>0, <1>3 DEF Wholes, Unmade
<1>7. SeenIsApplied'
  BY <1>0, <1>3 DEF Wholes, Unmade, SeenIsApplied
<1>8. SnapshotOrLate'
  BY <1>1, <1>2 DEF Wholes, SnapshotOrLate, Keeps
<1>9. DoneIsApplied'
  BY <1>2 DEF Wholes, DoneIsApplied, Keeps, Asks
<1>10. WaitingOnce'
  <2> SUFFICES ASSUME NEW f \in Files, NEW e \in Waits(f)', fate.applied[e] >= 1, e \notin fate'.again
               PROVE  \E t \in Threads : e \in Asks(job'[t], f) /\ ~Stands(t, "resetting")'
    BY DEF WaitingOnce
  <2>1. PICK t \in Threads : e \in Asks(job[t], f) /\ ~Stands(t, "resetting")
    BY <1>1 DEF Wholes, WaitingOnce
  <2>2. Keeps(job[t], job'[t]) /\ staged'[f] # <<>>
    BY <2>1 DEF Waits, EditsIn, Ends
  <2>3. e \in Asks(job'[t], f) /\ ~Stands(t, "resetting")'
    BY <2>1, <2>2 DEF Keeps, Asks, Stands
  <2> QED
    BY <2>3
<1>11. RestOnce'
  <2> SUFFICES ASSUME NEW t \in Threads, NEW f \in Files, NEW e \in Asks(job'[t], f),
                      ~Done(job'[t], f), fate.applied[e] >= 1
               PROVE  e \in fate'.again
    BY DEF RestOnce
  <2>1. job'[t].kind = "batch"
    BY DEF Asks
  <2>2. e \in Asks(job[t], f) /\ ~Done(job[t], f)
    BY <1>2, <2>1 DEF Keeps
  <2> QED
    BY <2>2 DEF Wholes, RestOnce
<1>12. SharedIsAgain'
  BY <1>2 DEF Wholes, SharedIsAgain
<1>13. SlotsOnce'
  BY <1>2 DEF Once, SlotsOnce, OneSlot, Keeps
<1>14. NumbersOnce'
  BY DEF Once, NumbersOnce
<1>15. DroppedAreLate' /\ TwiceIsAgain'
  BY DEF Once, DroppedAreLate, TwiceIsAgain
<1> QED
  BY <1>4, <1>5, <1>6, <1>7, <1>8, <1>9, <1>10, <1>11, <1>12, <1>13, <1>14, <1>15 DEF Wholes, Once

(* The edits a step may make, and what it may leave of the budgets.        *)
New(e) == e = ThisEdit /\ ThisEdit' > ThisEdit
Counting ==
    \/ left'.edits = left.edits
    \/ left.edits > 0 /\ left'.edits = left.edits - 1

(* What a step of another thread leaves, and what one's own quiet step does. *)
Alike(j, k) ==
    k.pc = j.pc /\ k.kind = j.kind /\ k.scope = j.scope /\ k.ops = j.ops /\ k.todo = j.todo
    /\ k.base = j.base
Moves(t) ==
    \/ Alike(job[t], job'[t])
    \/ /\ Keeps(job[t], job'[t]) \/ Ends(t)
       /\ \A e \in Edits : Holds(job'[t], e) => Seen(e) \/ New(e)

LEMMA QuietStep ==
    ASSUME TypeOK, Wholes, Once, Counting,
           \A f \in Files : staged'[f] = staged[f] \/ staged'[f] = <<>>,
           \A t \in Threads : Moves(t),
           \A f \in Files, e \in Edits :
              Shows(text'[f], e) \/ Shows(cached'[f].text, e) => Seen(e) \/ New(e),
           fate'.applied = fate.applied, fate'.late = fate.late, fate.again \subseteq fate'.again,
           fate'.slipped = fate.slipped, fate'.dropped \subseteq fate.late
    PROVE  Wholes' /\ Once'
<1>1. ThisEdit' \in Nat /\ ThisEdit' >= ThisEdit
  <2>1. left.edits \in 0..MaxEdits
    BY DEF TypeOK
  <2> QED
    BY <2>1, Constants DEF Counting, ThisEdit
<1>2. \A t \in Threads : Keeps(job[t], job'[t]) \/ Ends(t)
  <2> SUFFICES ASSUME NEW t \in Threads, Alike(job[t], job'[t])
               PROVE  Keeps(job[t], job'[t]) \/ Ends(t)
    BY DEF Moves
  <2>1. CASE job[t].kind = "batch"
    <3>1. job[t].pc # "idle"
      BY <2>1 DEF Wholes, Scoping, Stands
    <3>2. \A f \in Files : Done(job'[t], f) <=> Done(job[t], f)
      BY DEF Alike, Done
    <3> QED
      BY <2>1, <3>1, <3>2 DEF Keeps, Alike
  <2>2. CASE job[t].kind # "batch"
    BY <2>2 DEF Ends, Alike, Asks
  <2> QED
    BY <2>1, <2>2
<1>3. \A t \in Threads, e \in Edits : Holds(job'[t], e) => Seen(e) \/ New(e)
  <2> SUFFICES ASSUME NEW t \in Threads, NEW e \in Edits, Alike(job[t], job'[t]), Holds(job'[t], e)
               PROVE  Seen(e)
    BY DEF Moves
  <2>1. Holds(job[t], e)
    BY DEF Holds, Alike
  <2> QED
    BY <2>1 DEF Seen
<1>4. \A e \in Edits : Seen(e)' => Seen(e) \/ New(e)
  <2> SUFFICES ASSUME NEW e \in Edits, Seen(e)' PROVE Seen(e) \/ New(e)
    OBVIOUS
  <2>1. CASE \E f \in Files : Shows(text'[f], e) \/ Shows(cached'[f].text, e)
    BY <2>1
  <2>2. CASE \E t \in Threads : Holds(job'[t], e)
    BY <1>3, <2>2
  <2> QED
    BY <2>1, <2>2 DEF Seen, Holds, Shows
<1> QED
  BY <1>1, <1>2, <1>4, QuietKeeps DEF New

(* The step of one request, when the files keep their texts.               *)
LEMMA QuietRequest ==
    ASSUME TypeOK, Wholes, Once, Counting, NEW t \in Threads, NEW c \in Jobs,
           job' = [job EXCEPT ![t] = c], Keeps(job[t], c) \/ Ends(t),
           \A e \in Edits : Holds(c, e) => Seen(e) \/ New(e),
           \A f \in Files : staged'[f] = staged[f] \/ staged'[f] = <<>>,
           UNCHANGED text,
           \A f \in Files, e \in Edits : Shows(cached'[f].text, e) => Seen(e),
           fate'.applied = fate.applied, fate'.late = fate.late, fate.again \subseteq fate'.again,
           fate'.slipped = fate.slipped, fate'.dropped \subseteq fate.late
    PROVE  Wholes' /\ Once'
<1>1. job'[t] = c /\ \A u \in Threads \ {t} : job'[u] = job[u]
  BY OneJob
<1>2. \A u \in Threads : Moves(u)
  BY <1>1 DEF Moves, Alike
<1>3. \A f \in Files, e \in Edits :
        Shows(text'[f], e) \/ Shows(cached'[f].text, e) => Seen(e) \/ New(e)
  BY DEF Seen
<1> QED
  BY <1>2, <1>3, QuietStep

(* Requests that are no batch begin with an edit of their own.             *)
LEMMA FreshIdle == ASSUME NEW e \in Edits PROVE ~Shows(Original, e) /\ ~Holds(Idle, e)
BY DEF Shows, Original, Holds, Idle, NoOps, EditsIn, Edits

LEMMA OneEditStarts ==
    ASSUME Inv, Wholes, Once, NEW t \in Threads, NEW f \in Files, NEW s \in Slots, NEW n \in {ThisEdit, Gone},
           NEW kind \in {"splice", "whole", "delete"}, MayStart(t, 1), left' = Spent(1),
           job' = [job EXCEPT ![t] = Request(kind, Only(f, s, n), f)],
           UNCHANGED <<text, cached, staged, counter, events, fate>>
    PROVE  Wholes' /\ Once'
<1> DEFINE c == Request(kind, Only(f, s, n), f)
<1>1. /\ left.edits \in 0..MaxEdits /\ left.edits >= 1 /\ left'.edits = left.edits - 1
      /\ ThisEdit' > ThisEdit /\ Counting /\ ThisEdit \in 0..Gone
  <2>1. left.edits \in 0..MaxEdits /\ left.edits >= 1 /\ left'.edits = left.edits - 1
    BY DEF MayStart, Spent, Inv, Types, TypeOK
  <2> QED
    BY <2>1, Constants, EditTypes DEF Counting, ThisEdit, Inv, Types
<1>2. /\ c \in Jobs /\ c.kind = kind /\ c.ops = Only(f, s, n) /\ c.base = Idle.base
  <2>1. n \in 0..Gone
    BY <1>1, Constants
  <2>2. c \in Jobs /\ c.kind = kind /\ c.ops = Only(f, s, n)
    BY <2>1, OnlyFacts, RequestFacts
  <2> QED
    BY <2>2 DEF Request, Idle
<1>3. \A e \in Edits : Holds(c, e) => New(e)
  <2> SUFFICES ASSUME NEW e \in Edits, Holds(c, e) PROVE e = ThisEdit
    BY <1>1 DEF New
  <2>1. PICK g \in Files : e \in EditsIn(c.ops[g])
    BY <1>2, FreshIdle DEF Holds, Idle
  <2>2. g = f
    <3>1. g # f => c.ops[g] = <<>>
      BY <1>2 DEF Only, NoOps
    <3> QED
      BY <2>1, <3>1 DEF EditsIn
  <2>3. c.ops[f] = <<Op(0, s, n)>>
    BY <1>2 DEF Only, NoOps
  <2>4. e = n
    BY <2>1, <2>2, <2>3 DEF EditsIn, Op
  <2> QED
    BY <2>4, Constants DEF Gone, Edits
<1> HIDE DEF c
<1>4. job' = [job EXCEPT ![t] = c]
  BY DEF c
<1>5. Ends(t)
  <2>1. job'[t] = c /\ job[t].kind # "batch"
    BY <1>2, <1>4, OneJob DEF Inv, Types, Wholes, Scoping, MayStart
  <2> QED
    BY <1>2, <2>1 DEF Ends, Asks
<1>6. \A g \in Files, e \in Edits : Shows(cached'[g].text, e) => Seen(e)
  BY DEF Seen
<1> QED
  BY <1>1, <1>2, <1>3, <1>4, <1>5, <1>6, QuietRequest DEF Inv, Types, Once, DroppedAreLate

-----------------------------------------------------------------------------
(* Requests on their way: what is parsed was in the file or in the cache.  *)
LEMMA EndsUnwritten ==
    ASSUME Wholes, NEW t \in Threads, job'[t].kind # "batch",
           \A f \in Files : ~Done(job[t], f), fate.again \subseteq fate'.again
    PROVE  Ends(t)
BY DEF Ends, Wholes, RestOnce

LEMMA RequestSteps ==
    ASSUME Inv, Wholes, Once, NEW t \in Threads, NEW c \in Jobs, job' = [job EXCEPT ![t] = c],
           job[t].pc \in {"reading", "parsing"},
           \/ c = Idle
           \/ /\ c.pc \in {"reading", "parsing"} \/ (c.pc = "writing" /\ c.todo = HasOps(c.ops))
              /\ c.kind = job[t].kind /\ c.ops = job[t].ops /\ c.scope = job[t].scope
              /\ \A f \in Files, e \in Edits : Shows(c.base[f], e) => Seen(e),
           UNCHANGED <<text, staged, left, fate>>,
           \A f \in Files, e \in Edits : Shows(cached'[f].text, e) => Seen(e)
    PROVE  Wholes' /\ Once'
<1>1. job'[t] = c /\ \A f \in Files : ~Done(job[t], f)
  BY OneJob DEF Inv, Types, Done
<1>2. Keeps(job[t], c) \/ Ends(t)
  <2>1. CASE c.kind # "batch"
    BY <1>1, <2>1, EndsUnwritten
  <2>2. CASE c.kind = "batch"
    <3>1. /\ c.pc \in {"reading", "parsing"} \/ (c.pc = "writing" /\ c.todo = HasOps(c.ops))
          /\ c.kind = job[t].kind /\ c.ops = job[t].ops /\ c.scope = job[t].scope
      BY <2>2 DEF Idle
    <3>2. \A f \in Files : ~Done(c, f)
      BY <3>1 DEF Done
    <3> QED
      BY <1>1, <2>2, <3>1, <3>2 DEF Keeps
  <2> QED
    BY <2>1, <2>2
<1>3. \A e \in Edits : Holds(c, e) => Seen(e)
  <2> SUFFICES ASSUME NEW e \in Edits, Holds(c, e) PROVE Seen(e)
    OBVIOUS
  <2>1. c # Idle
    BY FreshIdle
  <2>2. CASE \E f \in Files : Shows(c.base[f], e)
    BY <2>1, <2>2
  <2>3. CASE \E f \in Files : c.kind # "batch" /\ e \in EditsIn(c.ops[f])
    BY <2>1, <2>3 DEF Seen, Holds
  <2> QED
    BY <2>2, <2>3 DEF Holds
<1> QED
  BY <1>2, <1>3, QuietRequest DEF Inv, Types, Once, DroppedAreLate, Counting

LEMMA BasedSteps ==
    ASSUME Inv, Wholes, Once, NEW t \in Threads, NEW base \in Texts,
           job[t].pc \in {"reading", "parsing"}, job' = [job EXCEPT ![t] = Based(t, Here(t), base)],
           \A e \in Edits : Shows(base, e) => Seen(e),
           UNCHANGED <<text, staged, left, fate>>,
           \A f \in Files, e \in Edits : Shows(cached'[f].text, e) => Seen(e)
    PROVE  Wholes' /\ Once'
<1> DEFINE f == Here(t)
           rest == job[t].todo \ {f}
           pc == IF rest = {} THEN "writing" ELSE "reading"
           todo == IF rest = {} THEN HasOps(job[t].ops) ELSE rest
           d == [job[t] EXCEPT !.base[f] = base, !.raced = FALSE, !.pc = pc, !.todo = todo]
           c == Based(t, f, base)
<1>1. c \in Jobs
  BY BasedFacts
<1>2. c \in {Idle, d}
  BY DEF Based
<1>3. f \in Files /\ job[t] \in Jobs
  BY HereIsFile DEF Inv, Types, TypeOK
<1>4. pc = "reading" \/ (pc = "writing" /\ todo = HasOps(job[t].ops))
  OBVIOUS
<1>5. job' = [job EXCEPT ![t] = c]
  OBVIOUS
<1> HIDE DEF f, pc, todo, c
<1>6. /\ d.pc = pc /\ d.todo = todo /\ d.kind = job[t].kind /\ d.ops = job[t].ops
      /\ d.scope = job[t].scope /\ d.base[f] = base
      /\ \A g \in Files \ {f} : d.base[g] = job[t].base[g]
  BY <1>3 DEF Jobs
<1> HIDE DEF d
<1>7. \A g \in Files, e \in Edits : Shows(d.base[g], e) => Seen(e)
  BY <1>6 DEF Seen, Holds
<1>8. \/ c = Idle
      \/ /\ c.pc \in {"reading", "parsing"} \/ (c.pc = "writing" /\ c.todo = HasOps(c.ops))
         /\ c.kind = job[t].kind /\ c.ops = job[t].ops /\ c.scope = job[t].scope
         /\ \A g \in Files, e \in Edits : Shows(c.base[g], e) => Seen(e)
  BY <1>2, <1>4, <1>6, <1>7
<1> QED
  BY <1>1, <1>5, <1>8, RequestSteps

LEMMA ReadsKeep ==
    ASSUME Inv, Wholes, Once, NEW t \in Threads, FindDecomposition(t) \/ ReadSource(t)
    PROVE  Wholes' /\ Once'
<1>1. /\ job[t].pc = "reading" /\ UNCHANGED <<text, cached, staged, left, fate>>
      /\ Here(t) \in Files /\ job[t] \in Jobs
  BY HereIsFile DEF FindDecomposition, ReadSource, Stands, Inv, Types, TypeOK
<1>2. \A f \in Files, e \in Edits : Shows(cached'[f].text, e) => Seen(e)
  BY <1>1 DEF Seen
<1>3. CASE FindDecomposition(t)
  <2>1. cached[Here(t)].text \in Texts
    BY <1>1 DEF Inv, Types, TypeOK
  <2>2. \A e \in Edits : Shows(cached[Here(t)].text, e) => Seen(e)
    BY <1>1 DEF Seen
  <2>3. job' = [job EXCEPT ![t] = Based(t, Here(t), cached[Here(t)].text)]
    BY <1>3 DEF FindDecomposition, Here
  <2> QED
    BY <1>1, <1>2, <2>1, <2>2, <2>3, BasedSteps
<1>4. CASE ReadSource(t)
  <2> DEFINE f == Here(t)
             c == [job[t] EXCEPT !.pc = "parsing", !.base[f] = text[f], !.raced = FALSE]
  <2>1. job' = [job EXCEPT ![t] = c]
    BY <1>4, ZenonT(40) DEF ReadSource, Here
  <2>2. f \in Files /\ text[f] \in Texts
    BY <1>1 DEF Inv, Types, TypeOK
  <2> HIDE DEF f
  <2>3. /\ c \in Jobs /\ c.pc = "parsing" /\ c.kind = job[t].kind /\ c.ops = job[t].ops
        /\ c.scope = job[t].scope
        /\ c.base[f] = text[f] /\ \A g \in Files \ {f} : c.base[g] = job[t].base[g]
    BY <1>1, <2>2 DEF Jobs
  <2> HIDE DEF c
  <2>4. \A g \in Files, e \in Edits : Shows(c.base[g], e) => Seen(e)
    BY <2>3 DEF Seen, Holds
  <2> QED
    BY <1>1, <1>2, <2>1, <2>3, <2>4, RequestSteps
<1> QED
  BY <1>3, <1>4

LEMMA InsertKeepsEdits ==
    ASSUME Inv, Wholes, Once, NEW t \in Threads, InsertDecomposition(t)
    PROVE  Wholes' /\ Once'
<1> DEFINE f == Here(t)
           entry == IF cached[f].known THEN cached[f]
                    ELSE [known |-> TRUE, text |-> job[t].base[f], raced |-> job[t].raced]
<1>1. /\ job[t].pc = "parsing" /\ job' = [job EXCEPT ![t] = Based(t, f, entry.text)]
      /\ cached' = [cached EXCEPT ![f] = entry]
      /\ UNCHANGED <<text, staged, left, fate>>
  BY DEF InsertDecomposition, Stands, Here
<1>2. f \in Files /\ job[t] \in Jobs
  BY <1>1, HereIsFile DEF Inv, Types, TypeOK
<1>3. entry.text \in Texts
  BY <1>2 DEF Jobs, Inv, Types, TypeOK
<1>4. \A e \in Edits : Shows(entry.text, e) => Seen(e)
  BY <1>2 DEF Seen, Holds
<1> HIDE DEF entry
<1>5. \A g \in Files, e \in Edits : Shows(cached'[g].text, e) => Seen(e)
  <2> SUFFICES ASSUME NEW g \in Files, NEW e \in Edits, Shows(cached'[g].text, e) PROVE Seen(e)
    OBVIOUS
  <2>1. cached'[g] = IF g = f THEN entry ELSE cached[g]
    BY <1>1 DEF Inv, Types, TypeOK
  <2> QED
    BY <1>4, <2>1 DEF Seen
<1> QED
  BY <1>1, <1>3, <1>4, <1>5, BasedSteps

-----------------------------------------------------------------------------
(* Requests that end before they have written all of their files.          *)
LEMMA EarlyEndsKeepEdits ==
    ASSUME Inv, Wholes, Once, NEW t \in Threads, RefuseEdit(t) \/ WriteFails(t)
    PROVE  Wholes' /\ Once'
<1>1. /\ job[t].pc = "writing" /\ job' = [job EXCEPT ![t] = Idle] /\ job'[t] = Idle /\ Idle \in Jobs
      /\ UNCHANGED <<text, cached, staged>>
  <2>1. job' = [job EXCEPT ![t] = Idle]
    BY DEF RefuseEdit, WriteFails, Finish
  <2> QED
    BY <2>1, Originals, OneJob DEF RefuseEdit, WriteFails, Stands, Inv, Types
<1>2. /\ fate'.applied = fate.applied /\ fate'.late = fate.late /\ fate.again \subseteq fate'.again
      /\ fate'.slipped = fate.slipped /\ fate'.dropped = fate.dropped /\ Counting
  BY DEF RefuseEdit, WriteFails, Fail, Counting, Inv, Types, TypeOK, Fates
<1>3. Ends(t)
  <2>1. CASE RefuseEdit(t)
    <3>1. \A f \in Files : ~Done(job[t], f)
      BY <1>1, <2>1 DEF RefuseEdit, Done
    <3> QED
      BY <1>1, <1>2, <3>1, EndsUnwritten DEF Idle
  <2>2. CASE WriteFails(t)
    <3> SUFFICES ASSUME NEW f \in Files, NEW e \in Asks(job[t], f), fate.applied[e] >= 1
                 PROVE  e \in fate'.again
      BY <1>1 DEF Ends, Idle
    <3>1. CASE ~Done(job[t], f)
      BY <1>2, <3>1 DEF Wholes, RestOnce
    <3>2. CASE Done(job[t], f)
      <4>1. job[t].kind = "batch" /\ e \in EditsIn(job[t].ops[f])
        BY DEF Asks
      <4>2. f \in HasOps(job[t].ops) \ job[t].todo
        BY <1>1, <3>2 DEF Done
      <4>3. fate'.again = fate.again \cup UNION {EditsIn(job[t].ops[g]) : g \in HasOps(job[t].ops) \ job[t].todo}
        BY <2>2, <4>1 DEF WriteFails, Inv, Types, TypeOK, Fates
      <4> QED
        BY <4>1, <4>2, <4>3
    <3> QED
      BY <3>1, <3>2
  <2> QED
    BY <2>1, <2>2
<1>4. /\ \A e \in Edits : ~Holds(Idle, e)
      /\ \A f \in Files, e \in Edits : Shows(cached'[f].text, e) => Seen(e)
  BY <1>1, FreshIdle DEF Seen
<1> QED
  BY <1>1, <1>2, <1>3, <1>4, QuietRequest DEF Inv, Types, Once, DroppedAreLate

(* Invalidations show nothing and end no batch.                            *)
LEMMA InvalidateKeepsEdits ==
    ASSUME Inv, Wholes, Once, NEW f \in Files, NEW jobs \in [Threads -> Jobs], Invalidate(f, jobs),
           \A u \in Threads :
              jobs[u] = job[u] \/ /\ job[u].kind # "batch" /\ jobs[u].kind # "batch"
                                  /\ \A e \in Edits : Holds(jobs[u], e) => Holds(job[u], e),
           UNCHANGED <<text, staged, left, fate>>
    PROVE  Wholes' /\ Once'
<1>1. /\ \A u \in Threads : Alike(jobs[u], job'[u])
      /\ cached' = [cached EXCEPT ![f] = NoEntry]
  BY DroppedFacts DEF Invalidate, Alike
<1>2. \A u \in Threads : Moves(u)
  <2> SUFFICES ASSUME NEW u \in Threads PROVE Moves(u)
    OBVIOUS
  <2>1. CASE jobs[u] = job[u]
    BY <1>1, <2>1 DEF Moves
  <2>2. CASE /\ job[u].kind # "batch" /\ jobs[u].kind # "batch"
             /\ \A e \in Edits : Holds(jobs[u], e) => Holds(job[u], e)
    <3>1. Ends(u)
      BY <1>1, <2>2 DEF Ends, Asks, Alike
    <3>2. \A e \in Edits : Holds(job'[u], e) => Holds(jobs[u], e)
      BY <1>1 DEF Holds, Alike
    <3> QED
      BY <2>2, <3>1, <3>2 DEF Moves, Seen
  <2> QED
    BY <2>1, <2>2
<1>3. \A g \in Files, e \in Edits :
        Shows(text'[g], e) \/ Shows(cached'[g].text, e) => Seen(e) \/ New(e)
  <2> SUFFICES ASSUME NEW g \in Files, NEW e \in Edits, Shows(text'[g], e) \/ Shows(cached'[g].text, e)
               PROVE  Seen(e)
    OBVIOUS
  <2>1. cached'[g] = IF g = f THEN NoEntry ELSE cached[g]
    BY <1>1 DEF Inv, Types, TypeOK
  <2>2. ~Shows(NoEntry.text, e)
    BY FreshIdle DEF NoEntry
  <2> QED
    BY <2>1, <2>2 DEF Seen
<1> QED
  BY <1>2, <1>3, QuietStep DEF Inv, Types, Once, DroppedAreLate, Counting

LEMMA SettlesKeepEdits ==
    ASSUME Inv, Wholes, Once, NEW t \in Threads, SettleEdit(t) \/ Announce(t)
    PROVE  Wholes' /\ Once'
<1>1. /\ job[t] \in Jobs /\ Fits(job[t]) /\ job[t].kind # "batch" /\ job[t].scope \in Files
      /\ UNCHANGED <<text, staged, left, fate>>
  <2>1. job[t] \in Jobs /\ Fits(job[t])
    BY DEF Inv, Types, TypeOK, WorkFitsRequest
  <2> QED
    BY <2>1 DEF SettleEdit, Announce, Stands, Fits
<1>2. PICK c \in Jobs : /\ Invalidate(job[t].scope, [job EXCEPT ![t] = c])
                        /\ c.kind # "batch" /\ \A e \in Edits : Holds(c, e) => Holds(job[t], e)
  <2>1. CASE Invalidate(job[t].scope, [job EXCEPT ![t] = Idle])
    BY <2>1, FreshIdle, Originals DEF Idle
  <2>2. CASE Invalidate(job[t].scope, [job EXCEPT ![t].pc = "announcing"])
    <3> DEFINE c == [job[t] EXCEPT !.pc = "announcing"]
    <3>1. /\ c \in Jobs /\ c.kind = job[t].kind /\ c.ops = job[t].ops /\ c.base = job[t].base
          /\ [job EXCEPT ![t].pc = "announcing"] = [job EXCEPT ![t] = c]
      BY <1>1 DEF Jobs
    <3> HIDE DEF c
    <3>2. \A e \in Edits : Holds(c, e) => Holds(job[t], e)
      BY <3>1 DEF Holds
    <3>3. Invalidate(job[t].scope, [job EXCEPT ![t] = c])
      BY <2>2, <3>1
    <3> QED
      BY <1>1, <3>1, <3>2, <3>3
  <2> QED
    BY <2>1, <2>2 DEF SettleEdit, Announce, Finish
<1> DEFINE jobs == [job EXCEPT ![t] = c]
<1>3. /\ jobs \in [Threads -> Jobs] /\ jobs[t] = c /\ Invalidate(job[t].scope, jobs)
      /\ \A u \in Threads \ {t} : jobs[u] = job[u]
  BY <1>2 DEF Inv, Types, TypeOK
<1> HIDE DEF jobs
<1>4. \A u \in Threads :
        jobs[u] = job[u] \/ /\ job[u].kind # "batch" /\ jobs[u].kind # "batch"
                            /\ \A e \in Edits : Holds(jobs[u], e) => Holds(job[u], e)
  BY <1>1, <1>2, <1>3
<1> QED
  BY <1>1, <1>3, <1>4, InvalidateKeepsEdits

LEMMA WatcherKeepsEdits ==
    ASSUME Inv, Wholes, Once, NEW f \in Files, WatcherReports(f) PROVE Wholes' /\ Once'
<1>1. /\ job \in [Threads -> Jobs] /\ Invalidate(f, job)
      /\ UNCHANGED <<text, staged, left, fate>>
  BY DEF WatcherReports, Inv, Types, TypeOK
<1> QED
  BY <1>1, InvalidateKeepsEdits

LEMMA ClearKeepsEdits ==
    ASSUME Inv, Wholes, Once, NEW t \in Threads, NEW scope \in Files \cup {All}, ClearStaged(t, scope)
    PROVE  Wholes' /\ Once'
<1>1. \A u \in Threads : Moves(u)
  <2> SUFFICES ASSUME NEW u \in Threads PROVE Alike(job[u], job'[u])
    BY DEF Moves
  <2> DEFINE raced == job[u].raced \/ (Stands(u, "parsing") /\ Scoped(scope)[First(job[u].todo)] # <<>>)
  <2>1. job'[u] = [job[u] EXCEPT !.raced = raced] /\ job[u] \in Jobs
    BY DEF ClearStaged, Inv, Types, TypeOK
  <2> HIDE DEF raced
  <2> QED
    BY <2>1 DEF Alike, Jobs
<1>2. \A f \in Files : cached'[f] = NoEntry \/ cached'[f] = cached[f]
  BY DEF ClearStaged
<1>3. \A f \in Files, e \in Edits :
        Shows(text'[f], e) \/ Shows(cached'[f].text, e) => Seen(e) \/ New(e)
  BY <1>2, FreshIdle DEF Seen, NoEntry, ClearStaged
<1>4. Counting /\ UNCHANGED fate /\ \A f \in Files : staged'[f] = staged[f] \/ staged'[f] = <<>>
  BY DEF ClearStaged, Counting, Spent, Inv, Types, TypeOK
<1> QED
  BY <1>1, <1>3, <1>4, QuietStep DEF Inv, Types, Once, DroppedAreLate

(* What a drain takes unwritten was staged while its apply ran.            *)
LEMMA DrainKeepsEdits ==
    ASSUME Inv, Wholes, Once, NEW t \in Threads, DrainStaged(t) PROVE Wholes' /\ Once'
<1> DEFINE scope == job[t].scope
           d == [job[t] EXCEPT !.pc = "resetting"]
           c == IF scope = All THEN d ELSE Idle
           more == {e \in EditsOf(Scoped(scope)) : fate.applied[e] = 0}
<1>1. /\ job[t].pc = "settling" /\ job[t].kind = "batch"
      /\ staged' = [f \in Files |-> IF InScope(f, scope) THEN <<>> ELSE staged[f]]
      /\ fate' = [fate EXCEPT !.dropped = @ \cup more]
      /\ UNCHANGED <<text, cached, left>>
  BY DEF DrainStaged, Drain, Stands
<1>2. job' = [job EXCEPT ![t] = c]
  BY DEF DrainStaged, Drain, Finish
<1>3. /\ d \in Jobs /\ d.pc = "resetting" /\ d.kind = "batch" /\ d.ops = job[t].ops /\ d.scope = scope
      /\ d.base = job[t].base /\ Idle \in Jobs
  BY <1>1, Originals, ZenonT(40) DEF Inv, Types, TypeOK, Jobs
<1>4. \A f \in Files, e \in Edits : Waits(f) \subseteq Edits /\ Shows(cached'[f].text, e) => Seen(e)
  BY <1>1 DEF Seen
<1>5. \A f \in Files : /\ staged'[f] = staged[f] \/ staged'[f] = <<>>
                       /\ InScope(f, scope) => staged'[f] = <<>>
  BY <1>1
<1>6. more \subseteq fate.late
  <2> SUFFICES ASSUME NEW e \in more PROVE e \in fate.late
    OBVIOUS
  <2>1. e \in EditsOf(Scoped(scope)) /\ fate.applied[e] = 0
    OBVIOUS
  <2>2. PICK f \in Files : e \in EditsIn(Scoped(scope)[f])
    BY <2>1 DEF EditsOf
  <2>3. InScope(f, scope) /\ e \in Waits(f)
    BY <2>2 DEF Scoped, EditsIn, Waits
  <2>4. e \in Asks(job[t], f) \cup fate.late
    BY <1>1, <2>3 DEF Wholes, SnapshotOrLate
  <2>5. CASE e \in Asks(job[t], f)
    <3>1. f \in HasOps(job[t].ops)
      BY <2>5 DEF Asks, EditsIn, HasOps
    <3>2. fate.applied[e] >= 1
      BY <1>1, <2>5, <3>1 DEF Wholes, DoneIsApplied, Done
    <3> QED
      BY <2>1, <3>2
  <2> QED
    BY <2>4, <2>5
<1> HIDE DEF d, more
<1>7. Keeps(job[t], c) \/ Ends(t)
  <2>1. CASE scope = All
    <3>1. \A f \in Files : staged'[f] = <<>>
      BY <1>5, <2>1 DEF InScope
    <3>2. \A f \in Files : Done(d, f) <=> Done(job[t], f)
      BY <1>1, <1>3 DEF Done
    <3> QED
      BY <1>1, <1>3, <2>1, <3>1, <3>2 DEF Keeps
  <2>2. CASE scope # All
    <3>1. job'[t] = Idle
      BY <1>2, <1>3, <2>2, OneJob DEF Inv, Types
    <3>2. \A f \in Files : Asks(job[t], f) # {} => staged'[f] = <<>>
      BY <1>5 DEF Wholes, Scoping
    <3> QED
      BY <3>1, <3>2 DEF Ends, Idle, EditsIn
  <2> QED
    BY <2>1, <2>2
<1>8. c \in Jobs /\ \A e \in Edits : Holds(c, e) => Seen(e)
  <2>1. \A e \in Edits : Holds(d, e) => Holds(job[t], e)
    BY <1>1, <1>3 DEF Holds
  <2> QED
    BY <1>3, <2>1, FreshIdle DEF Seen
<1>9. /\ fate'.applied = fate.applied /\ fate'.late = fate.late /\ fate'.again = fate.again
      /\ fate'.slipped = fate.slipped /\ fate'.dropped \subseteq fate.late /\ Counting
  BY <1>1, <1>6 DEF Inv, Types, TypeOK, Fates, Once, DroppedAreLate, Counting
<1>10. \A f \in Files, e \in Edits : Shows(cached'[f].text, e) => Seen(e)
  BY <1>1 DEF Seen
<1> HIDE DEF c
<1> QED
  BY <1>1, <1>2, <1>5, <1>7, <1>8, <1>9, <1>10, QuietRequest DEF Inv, Types

LEMMA ResetKeepsEdits ==
    ASSUME Inv, Wholes, Once, NEW t \in Threads, ResetCounter(t) PROVE Wholes' /\ Once'
<1>1. /\ job[t].pc = "resetting" /\ job' = [job EXCEPT ![t] = Idle] /\ job'[t] = Idle
      /\ UNCHANGED <<text, cached, staged, left, fate>>
  BY OneJob, Originals DEF ResetCounter, Stands, Finish, Inv, Types
<1>2. Ends(t)
  BY <1>1 DEF Ends, Idle, Stands
<1>3. \A f \in Files, e \in Edits : ~Holds(Idle, e) /\ (Shows(cached'[f].text, e) => Seen(e))
  BY <1>1, FreshIdle DEF Seen
<1>4. \A e \in Edits : ~Holds(Idle, e)
  BY FreshIdle
<1> QED
  BY <1>1, <1>2, <1>3, <1>4, QuietRequest, Originals DEF Inv, Types, Once, DroppedAreLate, Counting

LEMMA BehindKeepsEdits ==
    ASSUME Inv, Wholes, Once, NEW f \in Files, NEW s \in Slots, WriteBehind(f, s)
    PROVE  Wholes' /\ Once'
<1>1. /\ NewEdit /\ text' = [text EXCEPT ![f][s] = ThisEdit] /\ UNCHANGED <<cached, staged, job, fate>>
  BY DEF WriteBehind
<1>2. Counting /\ ThisEdit' > ThisEdit
  <2>1. left.edits \in 0..MaxEdits /\ left.edits > 0 /\ left'.edits = left.edits - 1
    BY <1>1 DEF NewEdit, Inv, Types, TypeOK
  <2> QED
    BY <2>1, Constants DEF Counting, ThisEdit
<1>3. \A g \in Files, e \in Edits :
        Shows(text'[g], e) \/ Shows(cached'[g].text, e) => Seen(e) \/ New(e)
  <2> SUFFICES ASSUME NEW g \in Files, NEW e \in Edits, NEW r \in Slots,
                      text'[g][r] = e \/ cached[g].text[r] = e, e # ThisEdit
               PROVE  Seen(e)
    BY <1>1, <1>2 DEF Shows, New
  <2>1. text'[g][r] = text[g][r] \/ text'[g][r] = ThisEdit
    BY <1>1 DEF Inv, Types, TypeOK, Texts
  <2> QED
    BY <2>1 DEF Seen, Shows
<1>4. \A u \in Threads : Moves(u)
  BY <1>1 DEF Moves, Alike
<1> QED
  BY <1>1, <1>2, <1>3, <1>4, QuietStep DEF Inv, Types, Once, DroppedAreLate

-----------------------------------------------------------------------------
(* What a file shows once it is written: what its base showed, or what the *)
(* operations set.                                                         *)
LEMMA NewTextShows ==
    ASSUME Inv, NEW t \in Threads, NEW f \in HasOps(job[t].ops), NEW base \in Texts, NEW e \in Edits,
           Shows(NewText(t, f, base), e)
    PROVE  Shows(base, e) \/ e \in EditsIn(job[t].ops[f])
<1>1. f \in Files /\ job[t].ops[f] \in Seq(Ops) /\ job[t].ops[f] # <<>>
  BY DEF Inv, Types, TypeOK, Jobs, HasOps
<1> DEFINE q == job[t].ops[f]
<1>2. PICK s \in Slots : NewText(t, f, base)[s] = e
  BY DEF Shows
<1>3. CASE job[t].kind = "whole"
  <2>1. 1 \in DOMAIN q /\ e = q[1].edit
    BY <1>1, <1>2, <1>3 DEF NewText
  <2> QED
    BY <2>1 DEF EditsIn
<1>4. CASE job[t].kind # "whole"
  <2> DEFINE its == {i \in DOMAIN q : q[i].slot = s}
  <2>1. e = IF its = {} THEN base[s]
            ELSE IF q[CHOOSE i \in its : TRUE].edit = Empty THEN Gone ELSE q[CHOOSE i \in its : TRUE].edit
    BY <1>2, <1>4 DEF NewText, Applied
  <2>2. CASE its = {}
    BY <2>1, <2>2 DEF Shows
  <2>3. CASE its # {}
    <3>1. (CHOOSE i \in its : TRUE) \in DOMAIN q
      BY <2>3
    <3>2. e # Gone
      BY Constants DEF Edits, Gone
    <3> QED
      BY <2>1, <2>3, <3>1, <3>2 DEF EditsIn
  <2> QED
    BY <2>2, <2>3
<1> QED
  BY <1>3, <1>4

(* The shape of a write: one file's text becomes what the request makes of *)
(* its base, and the file is done.                                         *)
LEMMA WriteShape ==
    ASSUME Inv, NEW t \in Threads, WriteSource(t)
    PROVE  /\ Here(t) \in HasOps(job[t].ops) /\ Here(t) \in job[t].todo /\ job[t].pc = "writing"
           /\ Here(t) \in Files /\ job[t] \in Jobs
           /\ \A g \in Files, e \in Edits :
                Shows(text'[g], e) => \/ Shows(text[g], e) \/ Shows(job[t].base[Here(t)], e)
                                      \/ e \in EditsIn(job[t].ops[Here(t)])
           /\ \E c \in Jobs :
                /\ job' = [job EXCEPT ![t] = c] /\ c.pc \in {"writing", "settling"}
                /\ c.kind = job[t].kind /\ c.scope = job[t].scope /\ c.ops = job[t].ops
                /\ \A g \in Files : c.base[g] \in {job[t].base[g], Original}
                /\ \A g \in Files : Done(c, g) <=> (Done(job[t], g) \/ g = Here(t))
           /\ UNCHANGED <<cached, staged, left>>
<1>0. PICK f : f = Here(t)
  OBVIOUS
<1> DEFINE rest == job[t].todo \ {f}
           pc == IF rest = {} THEN "settling" ELSE job[t].pc
           diff == job[t].kind \in {"batch", "delete"}
           new == NewText(t, f, job[t].base[f])
           wrote == ~(diff /\ new = job[t].base[f])
           c == [job[t] EXCEPT !.todo = rest, !.base[f] = Original, !.pc = pc]
<1>1. /\ job[t].pc = "writing"
      /\ text' = IF wrote THEN [text EXCEPT ![f] = new] ELSE text
      /\ job' = [job EXCEPT ![t] = c]
      /\ UNCHANGED <<cached, staged, left>>
  BY <1>0 DEF WriteSource, Stands, Here
<1>2. /\ f \in Files /\ f \in job[t].todo /\ job[t] \in Jobs
      /\ f \in HasOps(job[t].ops) /\ job[t].todo \subseteq HasOps(job[t].ops)
  BY <1>0, <1>1, HereIsFile DEF Inv, Types, TypeOK, WorkFitsRequest, Fits
<1>3. \A e \in Edits : Shows(new, e) => Shows(job[t].base[f], e) \/ e \in EditsIn(job[t].ops[f])
  <2>1. job[t].base[f] \in Texts
    BY <1>2 DEF Jobs
  <2> QED
    BY <1>2, <2>1, NewTextShows
<1> HIDE DEF new, wrote
<1>4. \A g \in Files, e \in Edits :
         Shows(text'[g], e) => \/ Shows(text[g], e) \/ Shows(job[t].base[f], e)
                               \/ e \in EditsIn(job[t].ops[f])
  <2> SUFFICES ASSUME NEW g \in Files, NEW e \in Edits, Shows(text'[g], e)
               PROVE  \/ Shows(text[g], e) \/ Shows(job[t].base[f], e)
                      \/ e \in EditsIn(job[t].ops[f])
    OBVIOUS
  <2>1. text'[g] = text[g] \/ text'[g] = new
    BY <1>1, <1>2 DEF Inv, Types, TypeOK
  <2> QED
    BY <1>3, <2>1
<1>5. rest \in SUBSET Files /\ pc \in {"settling", "writing"} /\ rest \subseteq HasOps(job[t].ops)
      /\ (rest # {} => pc = "writing") /\ (rest = {} => pc = "settling")
  BY <1>1, <1>2 DEF HasOps
<1>6. \A g \in Files : g \in rest <=> (g \in job[t].todo /\ g # f)
  OBVIOUS
<1> HIDE DEF rest, pc
<1>7. /\ c \in Jobs /\ c.pc = pc /\ c.kind = job[t].kind /\ c.scope = job[t].scope
      /\ c.ops = job[t].ops /\ c.todo = rest
      /\ \A g \in Files : c.base[g] \in {job[t].base[g], Original}
  BY <1>2, <1>5, Originals DEF Jobs
<1> HIDE DEF c
<1>8. \A g \in Files : Done(c, g) <=> (Done(job[t], g) \/ g = f)
  <2> SUFFICES ASSUME NEW g \in Files PROVE Done(c, g) <=> (Done(job[t], g) \/ g = f)
    OBVIOUS
  <2>1. Done(c, g) <=> (g \in HasOps(job[t].ops) /\ g \notin rest)
    BY <1>5, <1>7 DEF Done
  <2>2. Done(job[t], g) <=> (g \in HasOps(job[t].ops) /\ g \notin job[t].todo)
    BY <1>1 DEF Done
  <2> QED
    BY <1>2, <1>6, <2>1, <2>2
<1>9. \E d \in Jobs :
         /\ job' = [job EXCEPT ![t] = d] /\ d.pc \in {"writing", "settling"}
         /\ d.kind = job[t].kind /\ d.scope = job[t].scope /\ d.ops = job[t].ops
         /\ \A g \in Files : d.base[g] \in {job[t].base[g], Original}
         /\ \A g \in Files : Done(d, g) <=> (Done(job[t], g) \/ g = f)
  <2>1. job' = [job EXCEPT ![t] = c] /\ c.pc \in {"writing", "settling"}
    BY <1>1, <1>5, <1>7
  <2> QED
    BY <1>7, <1>8, <2>1
<1> QED
  BY <1>0, <1>1, <1>2, <1>4, <1>9

(* Only a batch writes staged edits.                                       *)
LEMMA PlainWriteKeeps ==
    ASSUME Inv, Wholes, Once, NEW t \in Threads, WriteSource(t), job[t].kind # "batch"
    PROVE  Wholes' /\ Once'
<1>1. PICK c \in Jobs :
        /\ job' = [job EXCEPT ![t] = c] /\ c.kind = job[t].kind /\ c.ops = job[t].ops
        /\ \A g \in Files : c.base[g] \in {job[t].base[g], Original}
  BY WriteShape
<1>2. job'[t] = c /\ \A u \in Threads \ {t} : job'[u] = job[u]
  BY <1>1, OneJob DEF Inv, Types
<1>3. \A e \in Edits : Holds(c, e) => Seen(e)
  <2> SUFFICES ASSUME NEW e \in Edits, Holds(c, e) PROVE Holds(job[t], e)
    BY DEF Seen
  <2>1. ~Shows(Original, e)
    BY FreshIdle
  <2> QED
    BY <1>1, <2>1 DEF Holds
<1>4. \A u \in Threads : Moves(u)
  BY <1>1, <1>2, <1>3 DEF Moves, Alike, Ends, Asks
<1>5. \A g \in Files, e \in Edits :
        Shows(text'[g], e) \/ Shows(cached'[g].text, e) => Seen(e) \/ New(e)
  BY WriteShape DEF Seen, Holds
<1>6. UNCHANGED <<staged, left, fate>>
  <2>1. fate' = [fate EXCEPT !.applied = [e \in Edits |-> fate.applied[e]]]
    <3> DEFINE q == [e \in Edits |->
                IF job[t].kind = "batch" /\
                   ~(job[t].kind \in {"batch", "delete"}
                     /\ NewText(t, Here(t), job[t].base[Here(t)]) = job[t].base[Here(t)])
                   /\ e \in EditsIn(job[t].ops[Here(t)])
                THEN (IF fate.applied[e] < 2 THEN fate.applied[e] + 1 ELSE 2)
                ELSE fate.applied[e]]
    <3>1. fate' = [fate EXCEPT !.applied = q]
      BY DEF WriteSource, Here, Inv, Types, TypeOK, Fates
    <3>2. q = [e \in Edits |-> fate.applied[e]]
      OBVIOUS
    <3> QED
      BY <3>1, <3>2
  <2>2. fate \in Fates
    BY DEF Inv, Types, TypeOK
  <2>3. [e \in Edits |-> fate.applied[e]] = fate.applied
    BY <2>2 DEF Fates
  <2> QED
    BY <2>1, <2>2, <2>3, WriteShape DEF Fates
<1> QED
  BY <1>4, <1>5, <1>6, QuietStep DEF Inv, Types, Once, DroppedAreLate, Counting

(* A batch's write counts its edits, but for one that changes nothing, and *)
(* such a one finds its edits in the text already.                         *)
LEMMA BatchApplies ==
    ASSUME Inv, Wholes, Once, NEW t \in Threads, WriteSource(t), job[t].kind = "batch"
    PROVE  LET asked == Asks(job[t], Here(t)) IN
           /\ fate'.applied \in [Edits -> 0..2]
           /\ \A e \in asked : fate'.applied[e] >= 1
           /\ \A e \in Edits : fate'.applied[e] >= fate.applied[e]
           /\ \A e \in Edits \ asked : fate'.applied[e] = fate.applied[e]
           /\ \A e \in asked : fate.applied[e] = 0 => fate'.applied[e] = 1
           /\ fate'.again = fate.again /\ fate'.late = fate.late
           /\ fate'.dropped = fate.dropped /\ fate'.slipped = fate.slipped
<1>0. PICK f : f = Here(t)
  OBVIOUS
<1>1. f \in HasOps(job[t].ops) /\ f \in Files /\ job[t] \in Jobs
  BY <1>0, WriteShape
<1> DEFINE asked == Asks(job[t], f)
           q == job[t].ops[f]
           new == NewText(t, f, job[t].base[f])
           wrote == new # job[t].base[f]
           applied == [e \in Edits |->
                IF wrote /\ e \in asked
                THEN (IF fate.applied[e] < 2 THEN fate.applied[e] + 1 ELSE 2)
                ELSE fate.applied[e]]
<1>2. fate' = [fate EXCEPT !.applied = applied] /\ fate \in Fates
  BY <1>0 DEF WriteSource, Here, Asks, Inv, Types, TypeOK, Fates
<1>3. fate' \in [applied : {applied}, again : {fate.again}, late : {fate.late},
                 dropped : {fate.dropped}, slipped : {fate.slipped}]
  BY <1>2 DEF Fates
<1>4. fate.applied \in [Edits -> 0..2] /\ asked \subseteq Edits /\ asked = EditsIn(q)
  BY <1>2 DEF Fates, Asks, EditsIn
<1>5. ASSUME NEW e \in asked, ~wrote PROVE fate.applied[e] >= 1
  <2>1. PICK i \in DOMAIN q : q[i].edit = e
    BY <1>4 DEF EditsIn
  <2>2. q \in Seq(Ops) /\ q[i] \in Ops
    BY <1>1, <2>1 DEF Jobs
  <2>3. q[i].slot \in Slots
    BY <2>2 DEF Ops
  <2> DEFINE its == {k \in DOMAIN q : q[k].slot = q[i].slot}
  <2>4. OneSlot(q)
    BY <1>1 DEF Once, SlotsOnce
  <2>5. its = {i}
    BY <2>1, <2>4 DEF OneSlot
  <2>6. (CHOOSE k \in its : TRUE) = i
    BY <2>5
  <2>7. e # Empty /\ e \in Edits
    BY <1>4 DEF Empty, Edits
  <2>8. new[q[i].slot] = e
    BY <2>1, <2>3, <2>5, <2>6, <2>7 DEF NewText, Applied
  <2>9. Seen(e)
    BY <1>1, <1>5, <2>3, <2>8 DEF Seen, Holds, Shows
  <2> QED
    BY <1>0, <1>1, <2>7, <2>9 DEF Wholes, SeenIsApplied, Home
<1> HIDE DEF wrote, asked
<1>6. \A e \in Edits : fate.applied[e] \in 0..2
  BY <1>4
<1>7. applied \in [Edits -> 0..2]
  BY <1>6
<1>8. \A e \in Edits : /\ applied[e] >= fate.applied[e]
                       /\ e \notin asked => applied[e] = fate.applied[e]
                       /\ e \in asked => applied[e] >= 1
                       /\ e \in asked /\ fate.applied[e] = 0 => applied[e] = 1
  BY <1>5, <1>6
<1> HIDE DEF applied
<1>9. asked = Asks(job[t], Here(t))
  BY <1>0 DEF asked
<1> QED
  BY <1>3, <1>4, <1>7, <1>8, <1>9

LEMMA BatchWriteKeeps ==
    ASSUME Inv, Wholes, Once, NEW t \in Threads, WriteSource(t), job[t].kind = "batch"
    PROVE  Wholes' /\ Once'
<1>0. PICK f : f = Here(t)
  OBVIOUS
<1> DEFINE asked == Asks(job[t], f)
<1>1. /\ f \in Files /\ UNCHANGED <<cached, staged, left>>
      /\ ~Done(job[t], f) /\ job[t].pc = "writing"
  BY <1>0, WriteShape DEF Done
<1>2. PICK c \in Jobs :
        /\ job' = [job EXCEPT ![t] = c] /\ c.pc \in {"writing", "settling"}
        /\ c.kind = job[t].kind /\ c.scope = job[t].scope /\ c.ops = job[t].ops
        /\ \A g \in Files : c.base[g] \in {job[t].base[g], Original}
        /\ \A g \in Files : Done(c, g) <=> (Done(job[t], g) \/ g = f)
  BY <1>0, WriteShape
<1>3. job'[t] = c /\ \A u \in Threads \ {t} : job'[u] = job[u]
  BY <1>2, OneJob DEF Inv, Types
<1>4. /\ fate'.applied \in [Edits -> 0..2] /\ fate.applied \in [Edits -> 0..2]
      /\ \A e \in asked : fate'.applied[e] >= 1
      /\ \A e \in Edits : fate'.applied[e] >= fate.applied[e]
      /\ \A e \in Edits \ asked : fate'.applied[e] = fate.applied[e]
      /\ \A e \in asked : fate.applied[e] = 0 => fate'.applied[e] = 1
      /\ fate'.again = fate.again /\ fate'.late = fate.late
      /\ fate'.dropped = fate.dropped /\ fate'.slipped = fate.slipped
  BY <1>0, BatchApplies, FateTypes DEF Inv, Types
<1>5. asked \subseteq Edits /\ (\A e \in asked : Home(e, f)) /\ ThisEdit' = ThisEdit
      /\ ThisEdit \in Nat /\ Edits \subseteq Nat
  BY <1>1, FateTypes DEF Asks, EditsIn, Home, ThisEdit, Inv, Types
<1>6. \A u \in Threads :
        /\ job'[u].kind = job[u].kind /\ job'[u].scope = job[u].scope /\ (job'[u].pc = "idle" <=> job[u].pc = "idle")
        /\ job'[u].kind = "batch" => job'[u].ops = job[u].ops
        /\ job'[u].pc = "resetting" <=> job[u].pc = "resetting"
        /\ \A g \in Files : /\ Asks(job'[u], g) = Asks(job[u], g)
                            /\ Done(job'[u], g) <=> (Done(job[u], g) \/ (u = t /\ g = f))
  <2> SUFFICES ASSUME NEW u \in Threads
      PROVE
        /\ job'[u].kind = job[u].kind /\ job'[u].scope = job[u].scope /\ (job'[u].pc = "idle" <=> job[u].pc = "idle")
        /\ job'[u].kind = "batch" => job'[u].ops = job[u].ops
        /\ job'[u].pc = "resetting" <=> job[u].pc = "resetting"
        /\ \A g \in Files : /\ Asks(job'[u], g) = Asks(job[u], g)
                            /\ Done(job'[u], g) <=> (Done(job[u], g) \/ (u = t /\ g = f))
    OBVIOUS
  <2>1. CASE u = t
    BY <1>1, <1>2, <1>3, <2>1 DEF Asks
  <2>2. CASE u # t
    BY <1>3, <2>2
  <2> QED
    BY <2>1, <2>2
<1>7. \A e \in Edits, g \in Files : Home(e, g)' <=> Home(e, g)
  BY <1>1, <1>6 DEF Home, Waits
<1>8. \A e \in Edits : Seen(e)' => Seen(e) \/ e \in asked
  <2> SUFFICES ASSUME NEW e \in Edits, Seen(e)', e \notin asked PROVE Seen(e)
    OBVIOUS
  <2>0. e \notin EditsIn(job[t].ops[f]) /\ ~Shows(Original, e) /\ c.kind = "batch"
    BY <1>2, FreshIdle DEF Asks
  <2>1. CASE \E g \in Files : Shows(text'[g], e)
    BY <1>0, <1>1, <2>0, <2>1, WriteShape DEF Seen, Holds
  <2>2. CASE \E g \in Files : Shows(cached'[g].text, e)
    BY <1>1, <2>2 DEF Seen
  <2>3. CASE Holds(c, e)
    BY <1>2, <2>0, <2>3 DEF Seen, Holds
  <2>4. CASE \E u \in Threads \ {t} : Holds(job'[u], e)
    BY <1>3, <2>4 DEF Seen
  <2>5. \/ \E g \in Files : Shows(text'[g], e) \/ Shows(cached'[g].text, e)
        \/ \E u \in Threads : Holds(job'[u], e)
    BY DEF Seen, Holds, Shows
  <2> QED
    BY <1>3, <2>1, <2>2, <2>3, <2>4, <2>5
<1> HIDE DEF asked
<1>9. \A g \in Files : Waits(g)' = Waits(g) /\ Waits(g) \subseteq Edits
  BY <1>1 DEF Waits, EditsIn
<1>10. \A u \in Threads, g \in Files : Asks(job[u], g) \subseteq Edits
  BY DEF Asks, EditsIn
<1>11. Scoping' /\ OneHome'
  BY <1>6, <1>7 DEF Wholes, Scoping, OneHome, Stands
<1>12. Unmade'
  <2> SUFFICES ASSUME NEW e \in Edits, e >= ThisEdit
               PROVE  ~Seen(e)' /\ fate'.applied[e] = 0 /\ \A g \in Files : ~Home(e, g)'
    BY <1>5 DEF Unmade
  <2>1. ~Seen(e) /\ fate.applied[e] = 0 /\ \A g \in Files : ~Home(e, g)
    BY DEF Wholes, Unmade
  <2>2. e \notin asked
    BY <1>1, <1>5, <2>1
  <2> QED
    BY <1>4, <1>7, <1>8, <2>1, <2>2
<1>13. SeenIsApplied'
  BY <1>4, <1>7, <1>8 DEF Wholes, SeenIsApplied
<1>14. SnapshotOrLate'
  <2> SUFFICES ASSUME NEW u \in Threads, NEW g \in Files, job'[u].kind = "batch", InScope(g, job'[u].scope)
               PROVE  Waits(g) \subseteq Asks(job[u], g) \cup fate.late
    BY <1>4, <1>6, <1>9 DEF SnapshotOrLate
  <2> QED
    BY <1>6 DEF Wholes, SnapshotOrLate
<1>15. DoneIsApplied'
  <2> SUFFICES ASSUME NEW u \in Threads, NEW g \in Files, Done(job'[u], g), NEW e \in Asks(job'[u], g)
               PROVE  fate'.applied[e] >= 1
    BY DEF DoneIsApplied
  <2>1. e \in Asks(job[u], g) /\ e \in Edits
    BY <1>6, <1>10
  <2>2. CASE u = t /\ g = f
    BY <1>4, <2>1, <2>2 DEF asked
  <2>3. CASE Done(job[u], g)
    <3>1. fate.applied[e] >= 1 /\ fate.applied[e] \in 0..2 /\ fate'.applied[e] \in 0..2
      BY <1>4, <2>1, <2>3 DEF Wholes, DoneIsApplied
    <3> QED
      BY <1>4, <2>1, <3>1
  <2> QED
    BY <1>6, <2>2, <2>3
<1>16. WaitingOnce'
  <2> SUFFICES ASSUME NEW g \in Files, NEW e \in Waits(g), fate'.applied[e] >= 1, e \notin fate.again
               PROVE  \E u \in Threads : e \in Asks(job'[u], g) /\ job'[u].pc # "resetting"
    BY <1>4, <1>9 DEF WaitingOnce, Stands
  <2>1. e \in Edits /\ fate.applied[e] \in 0..2
    BY <1>4, <1>9
  <2>2. CASE fate.applied[e] >= 1
    <3>1. PICK u \in Threads : e \in Asks(job[u], g) /\ job[u].pc # "resetting"
      BY <2>2 DEF Wholes, WaitingOnce, Stands
    <3> QED
      BY <1>6, <3>1
  <2>3. CASE fate.applied[e] = 0
    <3>1. e \in asked
      BY <1>4, <2>1, <2>3
    <3>2. g = f
      BY <1>1, <1>5, <2>1, <3>1 DEF Wholes, OneHome, Home
    <3> QED
      BY <1>1, <1>6, <3>1, <3>2 DEF asked
  <2> QED
    BY <2>1, <2>2, <2>3
<1>17. RestOnce'
  <2> SUFFICES ASSUME NEW u \in Threads, NEW g \in Files, NEW e \in Asks(job[u], g),
                      ~Done(job'[u], g), fate'.applied[e] >= 1
               PROVE  e \in fate.again
    BY <1>4, <1>6 DEF RestOnce
  <2>1. e \in Edits /\ ~Done(job[u], g) /\ ~(u = t /\ g = f) /\ fate.applied[e] \in 0..2
    BY <1>4, <1>6, <1>10
  <2>2. CASE fate.applied[e] >= 1
    BY <2>1, <2>2 DEF Wholes, RestOnce
  <2>3. CASE fate.applied[e] = 0
    <3>1. e \in asked
      BY <1>4, <2>1, <2>3
    <3>2. g = f
      BY <1>1, <1>5, <2>1, <3>1 DEF Wholes, OneHome, Home
    <3> QED
      BY <1>1, <2>1, <3>1, <3>2 DEF Wholes, SharedIsAgain, asked
  <2> QED
    BY <2>1, <2>2, <2>3
<1>18. SharedIsAgain' /\ SlotsOnce' /\ NumbersOnce' /\ DroppedAreLate'
  <2>1. SharedIsAgain'
    BY <1>4, <1>6 DEF Wholes, SharedIsAgain
  <2>2. SlotsOnce'
    BY <1>1, <1>6 DEF Once, SlotsOnce
  <2>3. NumbersOnce'
    BY <1>1, <1>4 DEF Once, NumbersOnce
  <2> QED
    BY <1>4, <2>1, <2>2, <2>3 DEF Once, DroppedAreLate
<1>19. TwiceIsAgain'
  <2> SUFFICES ASSUME NEW e \in Edits, fate'.applied[e] > 1 PROVE e \in fate.again
    BY <1>4 DEF TwiceIsAgain
  <2>1. fate.applied[e] \in 0..2
    BY <1>4
  <2>2. CASE fate.applied[e] > 1
    BY <2>2 DEF Once, TwiceIsAgain
  <2>3. CASE fate.applied[e] = 1
    <3>1. e \in asked
      BY <1>4, <2>3
    <3> QED
      BY <1>1, <2>3, <3>1 DEF Wholes, RestOnce, asked
  <2>4. CASE fate.applied[e] = 0
    BY <1>4, <2>4
  <2> QED
    BY <2>1, <2>2, <2>3, <2>4
<1> QED
  BY <1>11, <1>12, <1>13, <1>14, <1>15, <1>16, <1>17, <1>18, <1>19 DEF Wholes, Once

-----------------------------------------------------------------------------
(* An apply takes what waits in its scope.                                 *)
LEMMA ApplyKeepsEdits ==
    ASSUME Inv, Wholes, Once, NEW t \in Threads, NEW scope \in Files \cup {All}, StartApply(t, scope)
    PROVE  Wholes' /\ Once'
<1> DEFINE ops == Scoped(scope)
           c == Request("batch", ops, scope)
           twice == {e \in EditsOf(ops) : \E u \in Threads :
                       job[u].kind = "batch" /\ e \in EditsOf(job[u].ops)}
<1>1. /\ job[t].pc = "idle" /\ job' = [job EXCEPT ![t] = c] /\ left'.edits = left.edits
      /\ fate' = [fate EXCEPT !.again = @ \cup twice] /\ fate \in Fates
      /\ UNCHANGED <<text, cached, staged>>
  <2>1. left.edits \in 0..MaxEdits /\ left'.edits = left.edits - 0
    BY DEF StartApply, Spent, Inv, Types, TypeOK
  <2> QED
    BY <2>1 DEF StartApply, MayStart, Stands, Inv, Types, TypeOK
<1>2. /\ c \in Jobs /\ c.pc = "reading" /\ c.kind = "batch" /\ c.scope = scope /\ c.ops = ops
      /\ c.base = Idle.base
  <2>1. ops \in [Files -> Seq(Ops)]
    BY DEF Scoped, Inv, Types, TypeOK
  <2>2. c \in Jobs /\ c.kind = "batch" /\ c.scope = scope /\ c.ops = ops
    BY <2>1, RequestFacts
  <2> QED
    BY <2>2 DEF Request, Idle
<1>3. \A f \in Files : /\ ops[f] = IF InScope(f, scope) THEN staged[f] ELSE <<>>
                       /\ Asks(c, f) = IF InScope(f, scope) THEN Waits(f) ELSE {}
                       /\ Asks(c, f) \subseteq Waits(f) /\ ~Done(c, f)
                       /\ Asks(job[t], f) = {} /\ Waits(f) \subseteq Edits
  <2> SUFFICES ASSUME NEW f \in Files
               PROVE  /\ ops[f] = IF InScope(f, scope) THEN staged[f] ELSE <<>>
                      /\ Asks(c, f) = IF InScope(f, scope) THEN Waits(f) ELSE {}
                      /\ Asks(c, f) \subseteq Waits(f) /\ ~Done(c, f)
                      /\ Asks(job[t], f) = {} /\ Waits(f) \subseteq Edits
    OBVIOUS
  <2>1. ops[f] = IF InScope(f, scope) THEN staged[f] ELSE <<>>
    BY DEF Scoped
  <2>2. Asks(c, f) = EditsIn(ops[f]) /\ ~Done(c, f)
    BY <1>2 DEF Asks, Done
  <2>3. Asks(job[t], f) = {}
    BY <1>1 DEF Wholes, Scoping, Stands, Asks
  <2> QED
    BY <2>1, <2>2, <2>3 DEF Waits, EditsIn
<1>4. \A e \in twice : e \in Edits
  BY DEF EditsOf, EditsIn
<1>5. \A f, g \in Files, u \in Threads : \A e \in Asks(c, f) : e \in Asks(job[u], g) => e \in twice
  BY <1>2 DEF Asks, EditsOf
<1> HIDE DEF c, twice
<1>6. /\ job'[t] = c /\ \A u \in Threads \ {t} : job'[u] = job[u]
      /\ \A f \in Files : Waits(f)' = Waits(f)
      /\ ThisEdit' = ThisEdit
  BY <1>1, <1>2, OneJob DEF Inv, Types, Waits, ThisEdit
<1>7. /\ fate'.applied = fate.applied /\ fate'.late = fate.late
      /\ fate'.again = fate.again \cup twice
      /\ fate'.dropped = fate.dropped /\ fate'.slipped = fate.slipped
  BY <1>1 DEF Fates
<1>8. \A e \in Edits, f \in Files : Home(e, f)' => Home(e, f)
  <2> SUFFICES ASSUME NEW e \in Edits, NEW f \in Files, NEW u \in Threads, e \in Asks(job'[u], f)
               PROVE  Home(e, f)
    BY <1>6 DEF Home
  <2> QED
    BY <1>3, <1>6 DEF Home
<1>9. \A e \in Edits : Seen(e)' => Seen(e)
  <2>1. \A e \in Edits : ~Holds(c, e)
    BY <1>2, FreshIdle DEF Holds, Idle
  <2>2. \A e \in Edits, u \in Threads : Holds(job'[u], e) => Seen(e)
    BY <1>6, <2>1 DEF Seen
  <2> QED
    BY <1>1, <2>2 DEF Seen, Holds, Shows
<1>10. Scoping' /\ OneHome'
  <2>1. Scoping'
    BY <1>2, <1>3, <1>6 DEF Wholes, Scoping, Stands
  <2>2. OneHome'
    BY <1>8 DEF Wholes, OneHome
  <2> QED
    BY <2>1, <2>2
<1>11. Unmade'
  BY <1>6, <1>7, <1>8, <1>9 DEF Wholes, Unmade
<1>12. SeenIsApplied'
  BY <1>7, <1>8, <1>9 DEF Wholes, SeenIsApplied
<1>13. SnapshotOrLate'
  <2> SUFFICES ASSUME NEW u \in Threads, NEW f \in Files, job'[u].kind = "batch", InScope(f, job'[u].scope)
               PROVE  Waits(f) \subseteq Asks(job'[u], f) \cup fate.late
    BY <1>6, <1>7 DEF SnapshotOrLate
  <2> QED
    BY <1>2, <1>3, <1>6 DEF Wholes, SnapshotOrLate
<1>14. DoneIsApplied'
  BY <1>3, <1>6, <1>7 DEF Wholes, DoneIsApplied
<1>15. WaitingOnce'
  <2> SUFFICES ASSUME NEW f \in Files, NEW e \in Waits(f), fate.applied[e] >= 1, e \notin fate'.again
               PROVE  \E u \in Threads : e \in Asks(job'[u], f) /\ job'[u].pc # "resetting"
    BY <1>6, <1>7 DEF WaitingOnce, Stands
  <2>1. PICK u \in Threads : e \in Asks(job[u], f) /\ job[u].pc # "resetting"
    BY <1>7 DEF Wholes, WaitingOnce, Stands
  <2> QED
    BY <1>3, <1>6, <2>1
<1>16. RestOnce'
  <2> SUFFICES ASSUME NEW u \in Threads, NEW f \in Files, NEW e \in Asks(job'[u], f),
                      ~Done(job'[u], f), fate.applied[e] >= 1
               PROVE  e \in fate.again \cup twice
    BY <1>7 DEF RestOnce
  <2>1. CASE u = t
    <3>1. e \in Asks(c, f) /\ e \in Waits(f)
      BY <1>3, <1>6, <2>1
    <3> QED
      BY <1>5, <3>1 DEF Wholes, WaitingOnce
  <2>2. CASE u # t
    BY <1>6, <2>2 DEF Wholes, RestOnce
  <2> QED
    BY <2>1, <2>2
<1>17. SharedIsAgain'
  <2> SUFFICES ASSUME NEW u \in Threads, NEW v \in Threads, NEW f \in Files, NEW g \in Files,
                      NEW e \in Asks(job'[u], f), u # v, e \in Asks(job'[v], g)
               PROVE  e \in fate.again \cup twice
    BY <1>7 DEF SharedIsAgain
  <2> QED
    BY <1>5, <1>6 DEF Wholes, SharedIsAgain
<1>18. SlotsOnce'
  <2>1. \A f \in Files : OneSlot(ops[f])
    BY <1>3 DEF Once, SlotsOnce, OneSlot
  <2> QED
    BY <1>1, <1>2, <1>6, <2>1 DEF Once, SlotsOnce
<1>19. NumbersOnce' /\ DroppedAreLate' /\ TwiceIsAgain'
  BY <1>1, <1>7 DEF Once, NumbersOnce, DroppedAreLate, TwiceIsAgain
<1> QED
  BY <1>10, <1>11, <1>12, <1>13, <1>14, <1>15, <1>16, <1>17, <1>18, <1>19 DEF Wholes, Once

(* What an endpoint leaves staged.                                         *)
LEMMA StagedFacts ==
    ASSUME Inv, Once, NEW f \in Files, NEW s \in Slots, NEW e \in 0..Gone, Stage(f, s, e)
    PROVE  /\ \A g \in Files \ {f} : staged'[g] = staged[g]
           /\ EditsIn(staged'[f]) \subseteq EditsIn(staged[f]) \cup ({e} \cap Edits)
           /\ SlotsOnce' /\ NumbersOnce'
<1>1. /\ staged \in [Files -> Seq(Ops)] /\ UNCHANGED job
      /\ fate'.slipped = (fate.slipped \/ Resetting)
  BY DEF Stage, Inv, Types, TypeOK, Fates
<1>2. CASE \E i \in DOMAIN staged[f] : staged[f][i].slot = s
  <2> DEFINE q == Restaged(staged[f], s, e)
  <2>1. staged' = [staged EXCEPT ![f] = q]
    BY <1>2 DEF Stage
  <2>2. /\ DOMAIN q = DOMAIN staged[f]
        /\ \A i \in DOMAIN q : q[i].number = staged[f][i].number
    BY StagedTypes DEF Inv, Types
  <2>3. \A i \in DOMAIN q : q[i].slot = staged[f][i].slot /\ q[i].edit \in {staged[f][i].edit, e}
    <3>1. \A i \in DOMAIN q : staged[f][i] \in Ops
      BY <1>1, <2>2
    <3> QED
      BY <2>2, <3>1 DEF Restaged, Ops
  <2> HIDE DEF q
  <2>4. EditsIn(q) \subseteq EditsIn(staged[f]) \cup ({e} \cap Edits)
    BY <2>2, <2>3 DEF EditsIn
  <2>5. OneSlot(q)
    BY <2>2, <2>3 DEF Once, SlotsOnce, OneSlot
  <2>6. \A g \in Files : staged'[g] = IF g = f THEN q ELSE staged[g]
    BY <1>1, <2>1
  <2>7. SlotsOnce'
    BY <1>1, <2>5, <2>6 DEF Once, SlotsOnce
  <2>8. NumbersOnce'
    <3>1. \A g \in Files : /\ DOMAIN staged'[g] = DOMAIN staged[g]
                           /\ \A i \in DOMAIN staged[g] : staged'[g][i].number = staged[g][i].number
      BY <2>2, <2>6
    <3> SUFFICES ASSUME NEW g \in Files, NEW h \in Files, NEW i \in DOMAIN staged'[g],
                        NEW k \in DOMAIN staged'[h], g # h \/ i # k, ~fate'.slipped
                 PROVE  staged'[g][i].number # staged'[h][k].number
      BY DEF NumbersOnce
    <3>2. ~fate.slipped /\ i \in DOMAIN staged[g] /\ k \in DOMAIN staged[h]
      BY <1>1, <3>1
    <3>3. staged[g][i].number # staged[h][k].number
      BY <3>2 DEF Once, NumbersOnce
    <3> QED
      BY <3>1, <3>2, <3>3
  <2> QED
    BY <2>4, <2>6, <2>7, <2>8
<1>3. CASE ~\E i \in DOMAIN staged[f] : staged[f][i].slot = s
  <2> DEFINE op == Op(counter, s, e)
             q == Append(staged[f], op)
             n == Len(staged[f])
  <2>1. staged' = [staged EXCEPT ![f] = q] /\ staged[f] \in Seq(Ops)
    BY <1>1, <1>3 DEF Stage
  <2>2. op.number = counter /\ op.slot = s /\ op.edit = e
    BY DEF Op
  <2> HIDE DEF op
  <2>3. /\ n \in Nat /\ DOMAIN staged[f] = 1..n /\ DOMAIN q = 1..(n + 1) /\ q[n + 1] = op
        /\ \A i \in 1..n : q[i] = staged[f][i]
    BY <2>1
  <2> HIDE DEF q, n
  <2>4. \A i \in DOMAIN q : i \in DOMAIN staged[f] \/ i = n + 1
    BY <2>3
  <2>5. EditsIn(q) \subseteq EditsIn(staged[f]) \cup ({e} \cap Edits)
    <3> SUFFICES ASSUME NEW i \in DOMAIN q, q[i].edit \in Edits
                 PROVE  q[i].edit \in EditsIn(staged[f]) \cup ({e} \cap Edits)
      BY DEF EditsIn
    <3>1. CASE i \in DOMAIN staged[f]
      BY <2>3, <3>1 DEF EditsIn
    <3>2. CASE i = n + 1
      BY <2>2, <2>3, <3>2
    <3> QED
      BY <2>4, <3>1, <3>2
  <2>6. OneSlot(q)
    <3> SUFFICES ASSUME NEW i \in DOMAIN q, NEW k \in DOMAIN q, i # k PROVE q[i].slot # q[k].slot
      BY DEF OneSlot
    <3>1. \A j \in 1..n : q[j].slot # s
      BY <1>3, <2>3
    <3>2. i \in 1..n /\ k \in 1..n => q[i].slot # q[k].slot
      BY <2>3 DEF Once, SlotsOnce, OneSlot
    <3> QED
      BY <2>2, <2>3, <2>4, <3>1, <3>2
  <2>7. \A g \in Files : staged'[g] = IF g = f THEN q ELSE staged[g]
    BY <1>1, <2>1
  <2>8. SlotsOnce'
    BY <1>1, <2>6, <2>7 DEF Once, SlotsOnce
  <2>9. NumbersOnce'
    <3> SUFFICES ASSUME NEW g \in Files, NEW h \in Files, NEW i \in DOMAIN staged'[g],
                        NEW k \in DOMAIN staged'[h], g # h \/ i # k, ~fate'.slipped
                 PROVE  staged'[g][i].number # staged'[h][k].number
      BY DEF NumbersOnce
    <3>0. ~fate.slipped
      BY <1>1
    <3>1. \A x \in Files : \A j \in DOMAIN staged'[x] :
            \/ j \in DOMAIN staged[x] /\ staged'[x][j] = staged[x][j] /\ staged[x][j].number < counter
            \/ x = f /\ j = n + 1 /\ staged'[x][j].number = counter
      <4> SUFFICES ASSUME NEW x \in Files, NEW j \in DOMAIN staged'[x]
                   PROVE
            \/ j \in DOMAIN staged[x] /\ staged'[x][j] = staged[x][j] /\ staged[x][j].number < counter
            \/ x = f /\ j = n + 1 /\ staged'[x][j].number = counter
        OBVIOUS
      <4>1. j \in DOMAIN staged[x] => staged[x][j].number < counter
        BY <3>0 DEF Inv, Types, TypeOK
      <4>2. CASE x = f
        BY <2>2, <2>3, <2>4, <2>7, <4>1, <4>2
      <4>3. CASE x # f
        BY <2>7, <4>1, <4>3
      <4> QED
        BY <4>2, <4>3
    <3>2. counter \in Nat
      BY DEF Inv, Types, TypeOK
    <3>3. CASE i \in DOMAIN staged[g] /\ k \in DOMAIN staged[h] /\ staged'[g][i] = staged[g][i]
               /\ staged'[h][k] = staged[h][k]
      BY <3>0, <3>3 DEF Once, NumbersOnce
    <3>4. CASE g = f /\ i = n + 1 /\ staged'[g][i].number = counter
      BY <3>1, <3>2, <3>4
    <3>5. CASE h = f /\ k = n + 1 /\ staged'[h][k].number = counter
      BY <3>1, <3>2, <3>5
    <3> QED
      BY <3>1, <3>3, <3>4, <3>5
  <2> QED
    BY <2>5, <2>7, <2>8, <2>9
<1> QED
  BY <1>2, <1>3

LEMMA StageKeepsEdits ==
    ASSUME Inv, Wholes, Once, NEW f \in Files, NEW s \in Slots, NEW e \in 0..Gone, Stage(f, s, e),
           e \in Edits => e = ThisEdit /\ ThisEdit' > ThisEdit,
           ThisEdit' \in Nat, ThisEdit' >= ThisEdit
    PROVE  Wholes' /\ Once'
<1>1. /\ UNCHANGED <<text, cached, job>> /\ SlotsOnce' /\ NumbersOnce'
      /\ \A g \in Files : Waits(g)' \subseteq Waits(g) \cup (IF g = f THEN {e} \cap Edits ELSE {})
      /\ \A g \in Files : Waits(g) \subseteq Edits
  <2>1. /\ \A g \in Files \ {f} : staged'[g] = staged[g]
        /\ EditsIn(staged'[f]) \subseteq EditsIn(staged[f]) \cup ({e} \cap Edits)
        /\ SlotsOnce' /\ NumbersOnce'
    BY StagedFacts
  <2>2. \A g \in Files : Waits(g)' = EditsIn(staged'[g]) /\ Waits(g) = EditsIn(staged[g])
    BY DEF Waits, EditsIn
  <2>3. \A g \in Files : Waits(g) \subseteq Edits
    BY DEF Waits, EditsIn
  <2> QED
    BY <2>1, <2>2, <2>3 DEF Stage
<1>2. /\ fate'.applied = fate.applied /\ fate'.again = fate.again /\ fate'.dropped = fate.dropped
      /\ fate'.late = IF UnderWay(f) THEN fate.late \cup ({e} \cap Edits) ELSE fate.late
      /\ fate.applied \in [Edits -> 0..2] /\ ThisEdit \in Nat /\ Edits \subseteq Nat
  BY FateTypes DEF Stage, Inv, Types, TypeOK, Fates
<1>3. e \in Edits => ~Seen(e) /\ fate.applied[e] = 0 /\ \A g \in Files : ~Home(e, g)
  BY <1>2 DEF Wholes, Unmade
<1>4. /\ \A x \in Edits, g \in Files : Home(x, g)' => Home(x, g) \/ (x = e /\ g = f)
      /\ \A x \in Edits : Seen(x)' <=> Seen(x)
  <2>1. \A x \in Edits, g \in Files : Home(x, g)' => Home(x, g) \/ (x = e /\ g = f)
    BY <1>1 DEF Home
  <2> QED
    BY <1>1, <2>1 DEF Seen
<1>5. Scoping' /\ DoneIsApplied' /\ RestOnce' /\ SharedIsAgain'
  BY <1>1, <1>2 DEF Wholes, Scoping, DoneIsApplied, RestOnce, SharedIsAgain, Stands
<1>6. OneHome'
  BY <1>3, <1>4 DEF Wholes, OneHome
<1>7. Unmade'
  <2> SUFFICES ASSUME NEW x \in Edits, x >= ThisEdit'
               PROVE  ~Seen(x) /\ fate.applied[x] = 0 /\ \A g \in Files : ~Home(x, g)'
    BY <1>2, <1>4 DEF Unmade
  <2>1. x >= ThisEdit /\ x # e
    BY <1>2
  <2> QED
    BY <1>4, <2>1 DEF Wholes, Unmade
<1>8. SeenIsApplied'
  BY <1>2, <1>3, <1>4 DEF Wholes, SeenIsApplied
<1>9. SnapshotOrLate'
  <2> SUFFICES ASSUME NEW u \in Threads, NEW g \in Files, job[u].kind = "batch", InScope(g, job[u].scope)
               PROVE  Waits(g)' \subseteq Asks(job[u], g) \cup fate'.late
    BY <1>1 DEF SnapshotOrLate
  <2>1. Waits(g) \subseteq Asks(job[u], g) \cup fate.late /\ (g = f => UnderWay(f))
    BY DEF Wholes, SnapshotOrLate, UnderWay
  <2> QED
    BY <1>1, <1>2, <2>1
<1>10. WaitingOnce'
  <2> SUFFICES ASSUME NEW g \in Files, NEW x \in Waits(g)', fate.applied[x] >= 1
               PROVE  \/ x \in fate.again
                      \/ \E u \in Threads : x \in Asks(job[u], g) /\ ~Stands(u, "resetting")
    BY <1>1, <1>2 DEF WaitingOnce, Stands
  <2>1. x \in Waits(g)
    BY <1>1, <1>3
  <2> QED
    BY <2>1 DEF Wholes, WaitingOnce
<1>11. DroppedAreLate' /\ TwiceIsAgain'
  BY <1>2 DEF Once, DroppedAreLate, TwiceIsAgain
<1> QED
  BY <1>1, <1>5, <1>6, <1>7, <1>8, <1>9, <1>10, <1>11 DEF Wholes, Once

LEMMA EndpointsKeepEdits ==
    ASSUME Inv, Wholes, Once, NEW f \in Files, NEW s \in Slots,
           CreateEndpoint(f, s) \/ WriteEndpoint(f, s)
    PROVE  Wholes' /\ Once'
<1>1. left.edits \in 0..MaxEdits /\ MaxEdits \in Nat
  BY Constants DEF Inv, Types, TypeOK
<1>2. CASE CreateEndpoint(f, s)
  <2>1. Empty \in 0..Gone /\ Empty \notin Edits
    BY Constants DEF Empty, Edits
  <2>2. ThisEdit' = ThisEdit /\ ThisEdit \in Nat
    BY <1>1, <1>2 DEF CreateEndpoint, ThisEdit
  <2> QED
    BY <1>2, <2>1, <2>2, StageKeepsEdits DEF CreateEndpoint
<1>3. CASE WriteEndpoint(f, s)
  <2>1. NewEdit /\ Stage(f, s, ThisEdit)
    BY <1>3 DEF WriteEndpoint
  <2>2. ThisEdit \in 0..Gone /\ ThisEdit \in Edits
    BY <2>1, EditTypes DEF NewEdit, Inv, Types
  <2>3. ThisEdit' \in Nat /\ ThisEdit' > ThisEdit
    <3>1. left.edits > 0 /\ left'.edits = left.edits - 1
      BY <2>1 DEF NewEdit, Inv, Types, TypeOK
    <3> QED
      BY <1>1, <3>1 DEF ThisEdit
  <2>4. ThisEdit' >= ThisEdit
    BY <2>2, <2>3, Constants
  <2> QED
    BY <2>1, <2>2, <2>3, <2>4, StageKeepsEdits
<1> QED
  BY <1>2, <1>3

-----------------------------------------------------------------------------
LEMMA EditsStartWhole == Init => Wholes /\ Once
<1> SUFFICES ASSUME Init PROVE Wholes /\ Once
  OBVIOUS
<1>1. \A t \in Threads : job[t] = Idle
  BY DEF Init
<1>2. /\ \A f \in Files : staged[f] = <<>> /\ Waits(f) = {}
      /\ \A t \in Threads, f \in Files : Asks(job[t], f) = {}
  BY <1>1 DEF Init, NoOps, Waits, EditsIn, Asks, Idle
<1>3. \A e \in Edits : ~Seen(e) /\ fate.applied[e] = 0 /\ \A f \in Files : ~Home(e, f)
  <2> SUFFICES ASSUME NEW e \in Edits PROVE ~Seen(e) /\ fate.applied[e] = 0 /\ \A f \in Files : ~Home(e, f)
    OBVIOUS
  <2>1. ~Seen(e)
    BY <1>1, FreshIdle DEF Init, Seen, NoEntry
  <2> QED
    BY <1>2, <2>1 DEF Init, Home
<1>4. Wholes
  <2>1. Scoping /\ SnapshotOrLate
    <3>1. \A t \in Threads : job[t].kind # "batch"
      BY <1>1 DEF Idle
    <3> QED
      BY <1>2, <3>1 DEF Scoping, SnapshotOrLate
  <2>2. OneHome /\ Unmade /\ SeenIsApplied
    BY <1>3 DEF OneHome, Unmade, SeenIsApplied
  <2>3. DoneIsApplied /\ WaitingOnce /\ RestOnce /\ SharedIsAgain
    BY <1>2 DEF DoneIsApplied, WaitingOnce, RestOnce, SharedIsAgain
  <2> QED
    BY <2>1, <2>2, <2>3 DEF Wholes
<1>5. Once
  <2>1. SlotsOnce /\ NumbersOnce
    BY <1>1, <1>2 DEF SlotsOnce, OneSlot, NumbersOnce, Idle
  <2> QED
    BY <1>3, <2>1 DEF Init, Once, DroppedAreLate, TwiceIsAgain
<1> QED
  BY <1>4, <1>5

LEMMA NextKeepsEdits == Inv /\ Wholes /\ Once /\ [Next]_vars => Wholes' /\ Once'
<1> SUFFICES ASSUME Inv, Wholes, Once, [Next]_vars PROVE Wholes' /\ Once'
  OBVIOUS
<1>1. ASSUME NEW t \in Threads, Begin(t) PROVE Wholes' /\ Once'
  <2>1. ASSUME NEW f \in Files, NEW s \in Slots, StartSplice(t, f, s) \/ StartDelete(t, f, s)
        PROVE  Wholes' /\ Once'
    BY <2>1, OneEditStarts DEF StartSplice, StartDelete
  <2>2. ASSUME NEW f \in Files, StartWhole(t, f) PROVE Wholes' /\ Once'
    BY <2>2, OneEditStarts DEF StartWhole
  <2> QED
    BY <1>1, <2>1, <2>2, ApplyKeepsEdits, ClearKeepsEdits DEF Begin
<1>2. ASSUME NEW t \in Threads, Continue(t) PROVE Wholes' /\ Once'
  BY <1>2, ReadsKeep, InsertKeepsEdits, EarlyEndsKeepEdits, PlainWriteKeeps, BatchWriteKeeps,
     SettlesKeepEdits, DrainKeepsEdits, ResetKeepsEdits DEF Continue
<1>3. CASE UNCHANGED vars
  <2>1. \A t \in Threads : Moves(t)
    BY <1>3 DEF vars, Moves, Alike
  <2>2. \A f \in Files, e \in Edits : Shows(text'[f], e) \/ Shows(cached'[f].text, e) => Seen(e) \/ New(e)
    BY <1>3 DEF vars, Seen
  <2> QED
    BY <1>3, <2>1, <2>2, QuietStep DEF vars, Inv, Types, Once, DroppedAreLate, Counting
<1> QED
  BY <1>1, <1>2, <1>3, EndpointsKeepEdits, BehindKeepsEdits, WatcherKeepsEdits DEF Next

(* A staged edit is written exactly once: what an apply takes out of the   *)
(* staging area it has written, but for what was staged while it ran; only *)
(* an apply that failed midway, or two at a time, write an edit twice; and *)
(* staged operations have an endpoint each, and a number each unless one   *)
(* slipped into the emptying (apply_diff, EditStaging's stage and clear).  *)
THEOREM EditsAppliedOnce == Spec => []AppliedExactlyOnce
<1>1. Once => AppliedExactlyOnce
  <2> SUFFICES ASSUME Once PROVE AppliedExactlyOnce
    OBVIOUS
  <2> DEFINE there == UNION {{<<f, i>> : i \in DOMAIN staged[f]} : f \in Files}
             op(p) == staged[p[1]][p[2]]
  <2>1. \A p \in there : p[1] \in Files /\ p[2] \in DOMAIN staged[p[1]] /\ p = <<p[1], p[2]>>
    OBVIOUS
  <2>2. ASSUME NEW p \in there, NEW q \in there, p # q
        PROVE  /\ p[1] = q[1] => op(p).slot # op(q).slot
               /\ op(p).number # op(q).number \/ fate.slipped
    <3>1. p[1] # q[1] \/ p[2] # q[2]
      BY <2>1, <2>2
    <3>2. p[1] = q[1] => p[2] # q[2]
      BY <3>1
    <3> HIDE DEF there
    <3>3. op(p).number # op(q).number \/ fate.slipped
      BY <2>1, <3>1 DEF Once, NumbersOnce
    <3>4. p[1] = q[1] => op(p).slot # op(q).slot
      BY <2>1, <3>2 DEF Once, SlotsOnce, OneSlot
    <3> QED
      BY <3>3, <3>4
  <2>3. fate.dropped \subseteq fate.late /\ \A e \in Edits : fate.applied[e] > 1 => e \in fate.again
    BY DEF Once, DroppedAreLate, TwiceIsAgain
  <2> QED
    BY <2>2, <2>3 DEF AppliedExactlyOnce
<1> QED
  BY <1>1, EditsStartWhole, NextKeepsEdits, InvHolds, PTL DEF Spec

-----------------------------------------------------------------------------
(* TextEdits: the places of the edits of a plan.                          *)

(* An edit has a place in the text.                                        *)
Placed(e) == e.from \in Nat /\ e.to \in Nat /\ e.from <= e.to

(* The order of the staged edits of a plan is total.                       *)
LEMMA StagedOrder ==
    ASSUME NEW edits, \A i \in DOMAIN edits : Placed(edits[i]), DOMAIN edits \subseteq Nat
    PROVE  /\ \A i, j \in DOMAIN edits :
                 i # j => (StagedBefore(edits, i, j) <=> ~StagedBefore(edits, j, i))
           /\ \A i, j, k \in DOMAIN edits :
                 StagedBefore(edits, i, j) /\ StagedBefore(edits, j, k) => StagedBefore(edits, i, k)
<1>1. ASSUME NEW i \in DOMAIN edits, NEW j \in DOMAIN edits, i # j
      PROVE  StagedBefore(edits, i, j) <=> ~StagedBefore(edits, j, i)
  <2>1. i \in Nat /\ j \in Nat
    OBVIOUS
  <2> QED
    BY <1>1, <2>1 DEF StagedBefore, cmp_ascending, IsInsertion, Placed
<1>2. ASSUME NEW i \in DOMAIN edits, NEW j \in DOMAIN edits, NEW k \in DOMAIN edits,
             StagedBefore(edits, i, j), StagedBefore(edits, j, k)
      PROVE  StagedBefore(edits, i, k)
  <2>1. i \in Nat /\ j \in Nat /\ k \in Nat
    OBVIOUS
  <2> QED
    BY <1>2, <2>1 DEF StagedBefore, cmp_ascending, IsInsertion, Placed
<1> QED
  BY <1>1, <1>2

(* So each edit has a place of its own in the sorted plan.                 *)
Place(edits, i) == 1 + Cardinality(Earlier(edits, i))

LEMMA PlacesAreOrdered ==
    ASSUME NEW n \in Nat, NEW edits, DOMAIN edits = 1..n, \A i \in 1..n : Placed(edits[i])
    PROVE  /\ \A i \in 1..n : Place(edits, i) \in 1..n
           /\ \A i, j \in 1..n :
                 i # j /\ StagedBefore(edits, i, j) => Place(edits, i) < Place(edits, j)
<1>1. IsFiniteSet(1..n) /\ Cardinality(1..n) = n
  BY FS_Interval
<1>2. ASSUME NEW i \in 1..n
      PROVE  /\ Earlier(edits, i) \in SUBSET (1..n) /\ i \notin Earlier(edits, i)
             /\ IsFiniteSet(Earlier(edits, i)) /\ Cardinality(Earlier(edits, i)) \in Nat
             /\ Cardinality(Earlier(edits, i)) < n
  <2>1. Earlier(edits, i) \in SUBSET (1..n) /\ i \notin Earlier(edits, i)
    BY DEF Earlier
  <2>2. /\ IsFiniteSet(Earlier(edits, i)) /\ Cardinality(Earlier(edits, i)) <= n
        /\ (n = Cardinality(Earlier(edits, i)) => 1..n = Earlier(edits, i))
    BY <1>1, <2>1, FS_Subset
  <2>3. Cardinality(Earlier(edits, i)) \in Nat
    BY <2>2, FS_CardinalityType
  <2> QED
    BY <2>1, <2>2, <2>3
<1>3. ASSUME NEW i \in 1..n, NEW j \in 1..n, i # j, StagedBefore(edits, i, j)
      PROVE  Place(edits, i) < Place(edits, j)
  <2>1. /\ \A k \in 1..n : StagedBefore(edits, k, i) => StagedBefore(edits, k, j)
        /\ ~StagedBefore(edits, j, i)
    BY <1>3, StagedOrder
  <2>2. Earlier(edits, i) \in SUBSET Earlier(edits, j) /\ i \in Earlier(edits, j)
    BY <1>3, <2>1 DEF Earlier
  <2>3. /\ Cardinality(Earlier(edits, i)) <= Cardinality(Earlier(edits, j))
        /\ (Cardinality(Earlier(edits, j)) = Cardinality(Earlier(edits, i))
            => Earlier(edits, j) = Earlier(edits, i))
    BY <1>2, <2>2, FS_Subset
  <2>4. Cardinality(Earlier(edits, i)) < Cardinality(Earlier(edits, j))
    BY <1>2, <2>2, <2>3
  <2> QED
    BY <1>2, <2>4 DEF Place
<1>4. ASSUME NEW i \in 1..n PROVE Place(edits, i) \in 1..n
  BY <1>2 DEF Place
<1> QED
  BY <1>3, <1>4

(* The sorted plan is the staged one, rearranged, and in order.            *)
Rearranges(edits, index, n) ==
    /\ index \in [1..n -> 1..n]
    /\ \A i \in 1..n : \E p \in 1..n : index[p] = i
    /\ \A p, q \in 1..n : p < q => index[p] # index[q] /\ StagedBefore(edits, index[p], index[q])

LEMMA PlansAreSorted ==
    ASSUME NEW n \in Nat, NEW edits, DOMAIN edits = 1..n, \A i \in 1..n : Placed(edits[i])
    PROVE  \E index : Rearranges(edits, index, n)
                      /\ InOrder(edits) = [p \in 1..n |-> edits[index[p]]]
<1> DEFINE f == [i \in 1..n |-> Place(edits, i)]
           index == [p \in 1..n |-> CHOOSE i \in 1..n : Place(edits, i) = p]
<1>1. f \in [1..n -> 1..n]
  BY PlacesAreOrdered
<1>2. \A i, j \in 1..n : i # j => f[i] # f[j]
  <2> SUFFICES ASSUME NEW i \in 1..n, NEW j \in 1..n, i # j PROVE f[i] # f[j]
    OBVIOUS
  <2>1. StagedBefore(edits, i, j) \/ StagedBefore(edits, j, i)
    <3>1. /\ DOMAIN edits \subseteq Nat /\ i \in DOMAIN edits /\ j \in DOMAIN edits
          /\ \A k \in DOMAIN edits : Placed(edits[k])
      OBVIOUS
    <3> HIDE DEF f, index
    <3> QED
      BY <3>1, StagedOrder
  <2>2. Place(edits, i) < Place(edits, j) \/ Place(edits, j) < Place(edits, i)
    BY <2>1, PlacesAreOrdered
  <2>3. Place(edits, i) \in Nat /\ Place(edits, j) \in Nat
    BY PlacesAreOrdered
  <2> QED
    BY <2>2, <2>3
<1>3. f \in Injection(1..n, 1..n)
  BY <1>1, <1>2 DEF Injection, IsInjective
<1>4. f \in Surjection(1..n, 1..n)
  <2>1. IsFiniteSet(1..n)
    BY FS_Interval
  <2> HIDE DEF f
  <2> QED
    BY <1>3, <2>1, FS_Injection
<1>5. \A p \in 1..n : \E i \in 1..n : Place(edits, i) = p
  BY <1>4 DEF Surjection
<1>6. \A p \in 1..n : index[p] \in 1..n /\ Place(edits, index[p]) = p
  BY <1>5
<1>7. \A i \in 1..n : index[Place(edits, i)] = i
  <2> SUFFICES ASSUME NEW i \in 1..n PROVE index[Place(edits, i)] = i
    OBVIOUS
  <2>1. Place(edits, i) \in 1..n
    BY PlacesAreOrdered
  <2>2. index[Place(edits, i)] \in 1..n /\ Place(edits, index[Place(edits, i)]) = Place(edits, i)
    BY <1>6, <2>1
  <2> HIDE DEF index
  <2> QED
    BY <1>2, <2>2
<1>8. InOrder(edits) = [p \in 1..n |-> edits[index[p]]]
  BY DEF InOrder, Place
<1>9. index \in [1..n -> 1..n]
  BY <1>6
<1> HIDE DEF index, f
<1>10. \A i \in 1..n : \E p \in 1..n : index[p] = i
  BY <1>7, PlacesAreOrdered
<1>11. ASSUME NEW p \in 1..n, NEW q \in 1..n, p < q
       PROVE  index[p] # index[q] /\ StagedBefore(edits, index[p], index[q])
  <2>1. index[p] \in 1..n /\ index[q] \in 1..n /\ index[p] # index[q]
    BY <1>6, <1>11
  <2>2. CASE StagedBefore(edits, index[q], index[p])
    <3>1. Place(edits, index[q]) < Place(edits, index[p])
      BY <2>1, <2>2, PlacesAreOrdered
    <3> QED
      BY <1>6, <1>11, <3>1
  <2> QED
    BY <2>1, <2>2, StagedOrder
<1> QED
  BY <1>8, <1>9, <1>10, <1>11 DEF Rearranges

(* Two edits in the sorted plan overlap if and only if two neighbours do.  *)
LEMMA NeighboursTell ==
    ASSUME NEW n \in Nat, NEW sorted, DOMAIN sorted = 1..n, Len(sorted) = n,
           \A p \in 1..n : Placed(sorted[p]),
           \A p, q \in 1..n : p < q => ~cmp_ascending(sorted[q], sorted[p])
    PROVE  check_conflicts(sorted) <=>
               \A p, q \in 1..n : p # q => ~Overlap(sorted[p], sorted[q])
<1> DEFINE e(p) == sorted[p]
<1>1. ASSUME NEW p \in 1..n, NEW q \in 1..n, p < q PROVE e(p).from <= e(q).from
  BY <1>1 DEF cmp_ascending, Placed
<1>2. ASSUME check_conflicts(sorted), NEW p \in 1..n, NEW q \in 1..n, p < q
      PROVE  ~Overlap(e(p), e(q)) /\ ~Overlap(e(q), e(p))
  <2>1. p \in 1..n - 1 /\ p + 1 \in 1..n
    BY <1>2
  <2>2. e(p).to <= e(p + 1).from
    <3>1. \/ IsInsertion(e(p)) /\ IsInsertion(e(p + 1))
          \/ e(p).to <= e(p + 1).from
      BY <1>2, <2>1 DEF check_conflicts
    <3>2. e(p).from <= e(p + 1).from
      BY <1>1, <2>1
    <3> QED
      BY <3>1, <3>2 DEF IsInsertion
  <2>3. e(p + 1).from <= e(q).from
    <3>1. CASE q = p + 1
      BY <2>1, <3>1 DEF Placed
    <3>2. CASE q # p + 1
      BY <1>1, <1>2, <2>1, <3>2
    <3> QED
      BY <3>1, <3>2
  <2>4. Placed(e(p)) /\ Placed(e(q)) /\ Placed(e(p + 1))
    BY <2>1
  <2>5. e(p).to <= e(q).from
    BY <2>2, <2>3, <2>4 DEF Placed
  <2> HIDE DEF e
  <2> QED
    BY <2>4, <2>5 DEF Overlap, IsInsertion, Placed
<1>3. ASSUME \A p, q \in 1..n : p # q => ~Overlap(sorted[p], sorted[q]),
             NEW p \in 1..n - 1
      PROVE  \/ IsInsertion(e(p)) /\ IsInsertion(e(p + 1))
             \/ e(p).to <= e(p + 1).from
  <2>1. p \in 1..n /\ p + 1 \in 1..n /\ p # p + 1 /\ p < p + 1
    BY <1>3
  <2>2. ~Overlap(e(p), e(p + 1))
    BY <1>3, <2>1
  <2>3. ~cmp_ascending(e(p + 1), e(p))
    BY <2>1
  <2>4. Placed(e(p)) /\ Placed(e(p + 1))
    BY <2>1
  <2> HIDE DEF e
  <2> QED
    BY <2>2, <2>3, <2>4 DEF Overlap, IsInsertion, Placed, cmp_ascending
<1>4. check_conflicts(sorted) <=>
        \A p \in 1..n - 1 : \/ IsInsertion(e(p)) /\ IsInsertion(e(p + 1))
                            \/ e(p).to <= e(p + 1).from
  BY DEF check_conflicts
<1> HIDE DEF e
<1>5. ASSUME check_conflicts(sorted), NEW p \in 1..n, NEW q \in 1..n, p # q
      PROVE  ~Overlap(e(p), e(q))
  <2>1. p < q \/ q < p
    BY <1>5
  <2> QED
    BY <1>2, <1>5, <2>1
<1> QED
  BY <1>3, <1>4, <1>5 DEF e

(* A plan of edits staged for one text is refused exactly when two of them *)
(* overlap, whatever their number, their places and the order they were    *)
(* staged in: sorting them and comparing neighbours misses no pair and     *)
(* refuses no edits that only touch (EditPlan::resolve, check_conflicts).  *)
THEOREM ConflictsAreOverlaps ==
    ASSUME NEW E, \A e \in E : Placed(e), NEW edits \in Seq(E)
    PROVE  check_conflicts(InOrder(edits)) <=>
               \A i, j \in DOMAIN edits : i # j => ~Overlap(edits[i], edits[j])
<1> DEFINE n == Len(edits)
           sorted == InOrder(edits)
<1>1. n \in Nat /\ DOMAIN edits = 1..n /\ \A i \in 1..n : edits[i] \in E
  BY LenProperties, ElementOfSeq
<1>2. \A i \in 1..n : Placed(edits[i])
  BY <1>1
<1> HIDE DEF n, sorted
<1>3. PICK index : Rearranges(edits, index, n) /\ sorted = [p \in 1..n |-> edits[index[p]]]
  BY <1>1, <1>2, PlansAreSorted DEF sorted
<1>4. /\ index \in [1..n -> 1..n]
      /\ \A i \in 1..n : \E p \in 1..n : index[p] = i
      /\ \A p, q \in 1..n : p < q => index[p] # index[q] /\ StagedBefore(edits, index[p], index[q])
  BY <1>3 DEF Rearranges
<1>5. sorted \in Seq(E) /\ DOMAIN sorted = 1..n /\ Len(sorted) = n
  BY <1>1, <1>3, <1>4
<1>6. \A p \in 1..n : index[p] \in 1..n /\ sorted[p] = edits[index[p]] /\ Placed(sorted[p])
  BY <1>2, <1>3, <1>4
<1>7. ASSUME NEW p \in 1..n, NEW q \in 1..n, p < q
      PROVE  ~cmp_ascending(sorted[q], sorted[p])
  <2>1. StagedBefore(edits, index[p], index[q])
    BY <1>4, <1>7
  <2>2. cmp_ascending(sorted[p], sorted[q]) \/ ~cmp_ascending(sorted[q], sorted[p])
    BY <1>6, <2>1 DEF StagedBefore
  <2>3. Placed(sorted[p]) /\ Placed(sorted[q])
    BY <1>6
  <2> QED
    BY <2>2, <2>3 DEF cmp_ascending, IsInsertion, Placed
<1>8. check_conflicts(sorted) <=> \A p, q \in 1..n : p # q => ~Overlap(sorted[p], sorted[q])
  BY <1>1, <1>5, <1>6, <1>7, NeighboursTell
<1>9. \A p, q \in 1..n : p # q => index[p] # index[q]
  <2> SUFFICES ASSUME NEW p \in 1..n, NEW q \in 1..n, p # q PROVE index[p] # index[q]
    OBVIOUS
  <2>1. p < q \/ q < p
    BY <1>1
  <2> QED
    BY <1>4, <2>1
<1>10. (\A p, q \in 1..n : p # q => ~Overlap(sorted[p], sorted[q])) <=>
       (\A i, j \in 1..n : i # j => ~Overlap(edits[i], edits[j]))
  <2>1. ASSUME \A p, q \in 1..n : p # q => ~Overlap(sorted[p], sorted[q]),
               NEW i \in 1..n, NEW j \in 1..n, i # j
        PROVE  ~Overlap(edits[i], edits[j])
    <3>1. PICK p \in 1..n : index[p] = i
      BY <1>4
    <3>2. PICK q \in 1..n : index[q] = j
      BY <1>4
    <3>3. ~Overlap(sorted[p], sorted[q])
      BY <2>1, <3>1, <3>2
    <3> QED
      BY <1>6, <3>1, <3>2, <3>3
  <2>2. ASSUME \A i, j \in 1..n : i # j => ~Overlap(edits[i], edits[j]),
               NEW p \in 1..n, NEW q \in 1..n, p # q
        PROVE  ~Overlap(sorted[p], sorted[q])
    BY <1>6, <1>9, <2>2
  <2> QED
    BY <2>1, <2>2
<1> QED
  BY <1>1, <1>8, <1>10 DEF sorted

-----------------------------------------------------------------------------
(* The smallest and the largest of some offsets.                           *)
LEMMA SmallestOffset ==
    ASSUME NEW S, S \subseteq Nat, S # {}
    PROVE  Smallest(S) \in S /\ \A y \in S : Smallest(S) <= y
<1> DEFINE R == {p \in Nat \X Nat : p[1] < p[2]}
<1>1. IsWellFoundedOn(R, Nat)
  BY NatLessThanWellFounded DEF OpToRel
<1> HIDE DEF R
<1>2. PICK x \in S : \A y \in S : ~(<<y, x>> \in R)
  BY <1>1, WFMin
<1>3. \A y \in S : ~(y < x)
  BY <1>2 DEF R
<1>4. \A y \in S : x <= y
  BY <1>3
<1> QED
  BY <1>4 DEF Smallest

LEMMA LargestOffset ==
    ASSUME NEW n \in Nat, NEW S, S \subseteq 0..n, S # {}
    PROVE  Largest(S) \in S /\ \A y \in S : y <= Largest(S)
<1> DEFINE T == {n - y : y \in S}
<1>1. T \subseteq Nat /\ T # {}
  <2>1. \A y \in S : n - y \in Nat
    OBVIOUS
  <2>2. PICK y \in S : TRUE
    OBVIOUS
  <2>3. n - y \in T
    BY <2>2
  <2> QED
    BY <2>1, <2>3
<1>2. PICK x \in S : \A t \in T : n - x <= t
  BY <1>1, SmallestOffset
<1>3. \A y \in S : y <= x
  BY <1>2
<1> QED
  BY <1>3 DEF Largest

(* A range of a text, and a fragment whose own range, children's and       *)
(* grandchildren's are ranges of the text.                                 *)
Lies(s, r) == r.from \in 0..Len(s) /\ r.to \in 0..Len(s) /\ r.from <= r.to
Parent(s, f) == Lies(s, f) /\ \A c \in ToSet(f.children) : Lies(s, c)
OfText(s, f) ==
    /\ Parent(s, f) /\ f.children \in Seq(ToSet(f.children))
    /\ \A c \in ToSet(f.children) : Parent(s, c)

LEMMA FullSpanLies ==
    ASSUME NEW s, Len(s) \in Nat, NEW f, Parent(s, f)
    PROVE  Lies(s, full_span(f))
<1> DEFINE starts == {f.from} \cup {c.from : c \in ToSet(f.children)}
           ends == {f.to} \cup {c.to : c \in ToSet(f.children)}
<1>1. starts \subseteq 0..Len(s) /\ ends \subseteq 0..Len(s) /\ f.from \in starts /\ f.to \in ends
      /\ f.from <= f.to
  BY DEF Parent, Lies
<1>2. full_span(f) = [from |-> Smallest(starts), to |-> Largest(ends)]
  BY DEF full_span
<1> HIDE DEF starts, ends
<1>3. Smallest(starts) \in 0..Len(s) /\ Smallest(starts) <= f.from
  <2>1. starts \subseteq Nat /\ starts # {}
    BY <1>1
  <2>2. Smallest(starts) \in starts /\ Smallest(starts) <= f.from
    BY <1>1, <2>1, SmallestOffset
  <2> QED
    BY <1>1, <2>2
<1>4. Largest(ends) \in 0..Len(s) /\ f.to <= Largest(ends)
  BY <1>1, LargestOffset
<1>5. f.from \in Nat /\ f.to \in Nat /\ f.from <= f.to
  <2>1. f.from \in 0..Len(s) /\ f.to \in 0..Len(s)
    BY <1>1
  <2> QED
    BY <1>1, <2>1
<1>6. Smallest(starts) <= Largest(ends)
  BY <1>3, <1>4, <1>5
<1> QED
  BY <1>2, <1>3, <1>4, <1>6 DEF Lies

LEMMA LineStartBefore ==
    ASSUME NEW s, NEW o \in Nat
    PROVE  line_start_of(s, o) \in 0..o
<1> DEFINE S == {k \in 0..o : k = 0 \/ At(s, k - 1) = Newline}
<1>1. S \subseteq 0..o /\ 0 \in S
  OBVIOUS
<1>2. line_start_of(s, o) = Largest(S)
  BY DEF line_start_of
<1> HIDE DEF S
<1> QED
  BY <1>1, <1>2, LargestOffset

LEMMA DeleteRangeLies ==
    ASSUME NEW s, Len(s) \in Nat, NEW r, Lies(s, r)
    PROVE  Lies(s, extend_delete_range(s, r))
<1> DEFINE line_ends == {k \in r.to..Len(s) : k \in {r.to, Len(s)} \/ At(s, k - 1) = Newline}
           S == {k \in line_ends : \A i \in r.to..k - 1 : White(At(s, i))}
<1>1. r.to \in line_ends /\ \A i \in r.to..r.to - 1 : White(At(s, i))
  BY DEF Lies
<1>2. r.to \in S /\ S \subseteq 0..Len(s)
  BY <1>1 DEF Lies
<1>3. extend_delete_range(s, r) = [from |-> r.from, to |-> Largest(S)]
  BY DEF extend_delete_range
<1> HIDE DEF S, line_ends
<1>4. Largest(S) \in 0..Len(s) /\ r.to <= Largest(S)
  BY <1>2, LargestOffset
<1>5. r.from \in 0..Len(s) /\ r.from <= Largest(S)
  BY <1>4 DEF Lies
<1> QED
  BY <1>3, <1>4, <1>5 DEF Lies

LEMMA AppendOffsetLies ==
    ASSUME NEW s, Len(s) \in Nat, NEW f, OfText(s, f)
    PROVE  append_offset(s, f) \in 0..Len(s)
<1>1. CASE f.children # <<>>
  <2>1. Last(f.children) \in ToSet(f.children)
    BY <1>1 DEF OfText, Last, ToSet
  <2>2. Lies(s, full_span(Last(f.children)))
    BY <2>1, FullSpanLies DEF OfText
  <2> QED
    BY <1>1, <2>2 DEF append_offset, Lies
<1>2. CASE f.children = <<>>
  <2> DEFINE braces == {k \in f.from..f.to - 1 : At(s, k) = Brace}
  <2>1. f.from \in 0..Len(s) /\ f.to \in 0..Len(s)
    BY DEF OfText, Parent, Lies
  <2>2. braces \subseteq 0..Len(s)
    BY <2>1
  <2>3. append_offset(s, f) = IF braces = {} THEN f.to ELSE Largest(braces)
    BY <1>2 DEF append_offset
  <2> HIDE DEF braces
  <2> QED
    BY <2>1, <2>2, <2>3, LargestOffset
<1> QED
  BY <1>1, <1>2

(* Every edit a plan resolves to lies in the text it was staged for, so    *)
(* that no slice of the text is out of bounds (EditOp::resolve_edit).      *)
THEOREM EditsStayInText ==
    ASSUME NEW s, Len(s) \in Nat, NEW op, op.kind \in OpKinds, OfText(s, op.frag)
    PROVE  Lies(s, ResolvedEdit(s, op))
<1> DEFINE span == full_span(op.frag)
<1>1. Lies(s, span)
  BY FullSpanLies DEF OfText
<1>2. line_start_of(s, span.from) \in 0..span.from
  BY <1>1, LineStartBefore DEF Lies
<1> HIDE DEF span
<1>3. CASE op.kind = "replace"
  <2>1. ResolvedEdit(s, op) = Edit(line_start_of(s, span.from), span.to, op.content)
    BY <1>3 DEF ResolvedEdit, span
  <2> QED
    BY <1>1, <1>2, <2>1 DEF Lies, Edit
<1>4. CASE op.kind = "delete"
  <2>1. Lies(s, extend_delete_range(s, span))
    BY <1>1, DeleteRangeLies
  <2>2. ResolvedEdit(s, op) = Edit(extend_delete_range(s, span).from, extend_delete_range(s, span).to, <<>>)
    BY <1>4 DEF ResolvedEdit, span
  <2> QED
    BY <2>1, <2>2 DEF Lies, Edit
<1>5. CASE op.kind = "insert-before"
  <2>1. ResolvedEdit(s, op) = Edit(line_start_of(s, span.from), line_start_of(s, span.from),
                                   ensure_trailing_newline(op.content))
    BY <1>5 DEF ResolvedEdit, span
  <2> QED
    BY <1>1, <1>2, <2>1 DEF Lies, Edit
<1>6. CASE op.kind = "insert-after"
  <2>1. ResolvedEdit(s, op) = Edit(span.to, span.to, ensure_leading_newline(s, span.to, op.content))
    BY <1>6 DEF ResolvedEdit, span
  <2> QED
    BY <1>1, <2>1 DEF Lies, Edit
<1>7. CASE op.kind = "append"
  <2> DEFINE o == append_offset(s, op.frag)
  <2>1. o \in 0..Len(s)
    BY AppendOffsetLies
  <2>2. ResolvedEdit(s, op) = Edit(o, o, ensure_leading_newline(s, o, op.content))
    BY <1>7 DEF ResolvedEdit
  <2> HIDE DEF o
  <2> QED
    BY <2>1, <2>2 DEF Lies, Edit
<1> QED
  BY <1>3, <1>4, <1>5, <1>6, <1>7 DEF OpKinds

(* So a plan is refused exactly when two of the operations staged on the   *)
(* fragments of its file cannot both be done (EditPlan::resolve).          *)
THEOREM PlansRefuseOverlaps ==
    ASSUME NEW s, Len(s) \in Nat, NEW Staged, NEW ops \in Seq(Staged),
           \A op \in Staged : op.kind \in OpKinds /\ OfText(s, op.frag)
    PROVE  check_conflicts(resolve(s, ops)) <=>
               \A i, j \in DOMAIN ops :
                   i # j => ~Overlap(ResolvedEdit(s, ops[i]), ResolvedEdit(s, ops[j]))
<1> DEFINE E == {ResolvedEdit(s, op) : op \in Staged}
           edits == [i \in DOMAIN ops |-> ResolvedEdit(s, ops[i])]
<1>1. \A e \in E : Placed(e)
  <2> SUFFICES ASSUME NEW op \in Staged PROVE Placed(ResolvedEdit(s, op))
    OBVIOUS
  <2>1. Lies(s, ResolvedEdit(s, op))
    BY EditsStayInText
  <2> QED
    BY <2>1 DEF Lies, Placed
<1>2. edits \in Seq(E)
  <2>1. Len(ops) \in Nat /\ DOMAIN ops = 1..Len(ops) /\ \A i \in 1..Len(ops) : ops[i] \in Staged
    BY LenProperties, ElementOfSeq
  <2>2. edits \in [1..Len(ops) -> E]
    BY <2>1
  <2> QED
    BY <2>1, <2>2, IsASeq
<1>3. resolve(s, ops) = InOrder(edits) /\ DOMAIN edits = DOMAIN ops
      /\ \A i \in DOMAIN ops : edits[i] = ResolvedEdit(s, ops[i])
  BY DEF resolve
<1> HIDE DEF E, edits
<1>4. check_conflicts(InOrder(edits)) <=>
        \A i, j \in DOMAIN edits : i # j => ~Overlap(edits[i], edits[j])
  BY <1>1, <1>2, ConflictsAreOverlaps
<1> QED
  BY <1>3, <1>4

-----------------------------------------------------------------------------
(* Bodies: a text, cut at two places and put together again.               *)
LEMMA PutTogether ==
    ASSUME NEW C, NEW s \in Seq(C), NEW a \in Nat, NEW b \in Nat, a <= b, b <= Len(s)
    PROVE  Part(s, 0, a) \o Part(s, a, b) \o Part(s, b, Len(s)) = s
<1>1. /\ Part(s, 0, a) \in Seq(C) /\ Len(Part(s, 0, a)) = a
      /\ \A i \in 1..a : Part(s, 0, a)[i] = s[i]
  BY SMTT(30) DEF Part
<1>2. /\ Part(s, a, b) \in Seq(C) /\ Len(Part(s, a, b)) = b - a
      /\ \A i \in 1..b - a : Part(s, a, b)[i] = s[a + i]
  BY SMTT(30) DEF Part
<1>3. /\ Part(s, b, Len(s)) \in Seq(C) /\ Len(Part(s, b, Len(s))) = Len(s) - b
      /\ \A i \in 1..Len(s) - b : Part(s, b, Len(s))[i] = s[b + i]
  BY SMTT(30) DEF Part
<1> DEFINE x == Part(s, 0, a)
           y == Part(s, a, b)
           z == Part(s, b, Len(s))
<1> HIDE DEF x, y, z
<1>4. /\ x \o y \in Seq(C) /\ Len(x \o y) = b
      /\ \A i \in 1..b : (x \o y)[i] = s[i]
  <2>1. /\ x \in Seq(C) /\ y \in Seq(C) /\ Len(x) = a /\ Len(y) = b - a
        /\ \A i \in 1..a : x[i] = s[i]
        /\ \A i \in 1..b - a : y[i] = s[a + i]
    BY <1>1, <1>2 DEF x, y
  <2>2. /\ x \o y \in Seq(C) /\ Len(x \o y) = b
        /\ \A i \in 1..b : (x \o y)[i] = IF i <= a THEN x[i] ELSE y[i - a]
    <3>1. Len(x) + Len(y) = b
      BY <2>1
    <3>2. /\ x \o y \in Seq(C) /\ Len(x \o y) = b
          /\ \A i \in 1..b : (x \o y)[i] = IF i <= Len(x) THEN x[i] ELSE y[i - Len(x)]
      BY <2>1, <3>1, ConcatProperties
    <3> QED
      BY <2>1, <3>2
  <2>3. ASSUME NEW i \in 1..b PROVE (x \o y)[i] = s[i]
    <3>1. CASE i <= a
      BY <2>1, <2>2, <3>1
    <3>2. CASE ~(i <= a)
      <4>1. i - a \in 1..b - a /\ a + (i - a) = i
        BY <3>2
      <4> QED
        BY <2>1, <2>2, <3>2, <4>1
    <3> QED
      BY <3>1, <3>2
  <2> QED
    BY <2>2, <2>3
<1>5. /\ (x \o y) \o z \in Seq(C) /\ Len((x \o y) \o z) = Len(s)
      /\ \A i \in 1..Len(s) : ((x \o y) \o z)[i] = s[i]
  <2> DEFINE w == x \o y
  <2>1. /\ w \in Seq(C) /\ z \in Seq(C) /\ Len(w) = b /\ Len(z) = Len(s) - b
        /\ \A i \in 1..b : w[i] = s[i]
        /\ \A i \in 1..Len(s) - b : z[i] = s[b + i]
    BY <1>3, <1>4 DEF z
  <2> HIDE DEF w
  <2>2. Len(s) \in Nat
    BY LenProperties
  <2>3. /\ w \o z \in Seq(C) /\ Len(w \o z) = Len(s)
        /\ \A i \in 1..Len(s) : (w \o z)[i] = IF i <= b THEN w[i] ELSE z[i - b]
    BY <2>1, <2>2, ConcatProperties
  <2>4. ASSUME NEW i \in 1..Len(s) PROVE (w \o z)[i] = s[i]
    <3>1. CASE i <= b
      BY <2>1, <2>2, <2>3, <3>1
    <3>2. CASE ~(i <= b)
      <4>1. i - b \in 1..Len(s) - b /\ b + (i - b) = i
        BY <2>2, <3>2
      <4> QED
        BY <2>1, <2>3, <3>2, <4>1
    <3> QED
      BY <3>1, <3>2
  <2> QED
    BY <2>3, <2>4 DEF w
<1>6. (x \o y) \o z = s
  BY <1>5, SeqEqual
<1> QED
  BY <1>6 DEF x, y, z

(* What a slice node shows ends in a newline, and that is taken off again. *)
LEMMA SlicesRoundTrip ==
    ASSUME NEW C, NEW t \in Seq(C)
    PROVE  SliceWritable(SliceReadable(t)) = t
<1> DEFINE u == Append(t, Newline)
<1>1. /\ u \in Seq(C \cup {Newline}) /\ Len(u) = Len(t) + 1 /\ u[Len(t) + 1] = Newline
      /\ Len(t) \in Nat /\ \A i \in 1..Len(t) : u[i] = t[i]
  OBVIOUS
<1>2. u # <<>> /\ Last(u) = Newline
  BY <1>1 DEF Last
<1> HIDE DEF u
<1>3. Front(u) = t
  <2>1. Front(u) = SubSeq(u, 1, Len(t))
    BY <1>1 DEF Front
  <2>2. /\ Front(u) \in Seq(C \cup {Newline}) /\ Len(Front(u)) = Len(t)
        /\ \A i \in 1..Len(t) : Front(u)[i] = t[i]
    BY <1>1, <2>1
  <2>3. t \in Seq(C \cup {Newline})
    OBVIOUS
  <2> QED
    BY <2>2, <2>3, SeqEqual
<1> QED
  BY <1>2, <1>3 DEF SliceWritable, SliceReadable, u

(* What a splice puts into a text with what it takes out is the text, with *)
(* a newline at its end.                                                   *)
LEMMA SplicedAsItWas ==
    ASSUME NEW C, NEW s \in Seq(C), NEW a \in Nat, NEW b \in Nat, a <= b, b <= Len(s)
    PROVE  SameText(s, splice_rope(s, a, b, Part(s, a, b)))
BY PutTogether DEF splice_rope, SameText

(* A body as its slice reads it: as it is, or blank outside the symbol.    *)
LEMMA LineBodies ==
    ASSUME NEW C, NEW s \in Seq(C), NEW f, Parent(s, f)
    PROVE  ReadBody(s, f, "Line") = Part(s, line_start_of(s, full_span(f).from), full_span(f).to)
<1> DEFINE a == line_start_of(s, full_span(f).from)
           b == full_span(f).to
<1>1. Len(s) \in Nat
  BY LenProperties
<1>2. Lies(s, full_span(f))
  BY <1>1, FullSpanLies
<1>3. a \in 0..full_span(f).from
  BY <1>2, LineStartBefore DEF Lies
<1>4. a \in Nat /\ b \in Nat /\ a <= b /\ b <= Len(s)
  BY <1>1, <1>2, <1>3 DEF Lies
<1>5. ReadBody(s, f, "Line") = [i \in 1..b - a |-> At(s, a + i - 1)]
  BY DEF ReadBody
<1> HIDE DEF a, b
<1>6. \A i \in 1..b - a : At(s, a + i - 1) = s[a + i]
  BY <1>4 DEF At
<1>7. ReadBody(s, f, "Line") = [i \in 1..b - a |-> s[a + i]]
  BY <1>5, <1>6
<1>8. Part(s, a, b) = [i \in 1..b - a |-> s[a + i]]
  <2>1. /\ Part(s, a, b) \in Seq(C) /\ Len(Part(s, a, b)) = b - a
        /\ \A i \in 1..b - a : Part(s, a, b)[i] = s[a + i]
    BY <1>4, SMTT(30) DEF Part
  <2>2. Part(s, a, b) = [i \in 1..Len(Part(s, a, b)) |-> Part(s, a, b)[i]]
    BY <2>1, LenProperties
  <2> QED
    BY <2>1, <2>2
<1> QED
  BY <1>7, <1>8 DEF a, b

(* Trimming takes off what is white around a text that begins and ends     *)
(* with code.                                                              *)
LEMMA TrimsToCode ==
    ASSUME NEW C, NEW t \in Seq(C), NEW m \in Nat, NEW n \in Nat,
           1 <= m, m <= n, n <= Len(t), ~White(t[m]), ~White(t[n]),
           \A i \in 1..Len(t) : i < m \/ i > n => White(t[i])
    PROVE  Trim(t) = SubSeq(t, m, n)
<1> DEFINE code == {i \in DOMAIN t : ~White(t[i])}
<1>1. DOMAIN t = 1..Len(t) /\ Len(t) \in Nat
  BY LenProperties
<1>2. m \in code /\ n \in code /\ code \subseteq Nat /\ code \subseteq 0..Len(t)
  BY <1>1
<1>3. \A i \in code : m <= i /\ i <= n
  BY <1>1
<1>4. Trim(t) = IF code = {} THEN <<>> ELSE SubSeq(t, Smallest(code), Largest(code))
  BY DEF Trim
<1> HIDE DEF code
<1>5. Smallest(code) \in code /\ Smallest(code) <= m
  BY <1>2, SmallestOffset
<1>6. Largest(code) \in code /\ n <= Largest(code)
  BY <1>1, <1>2, LargestOffset
<1>7. Smallest(code) \in Nat /\ m <= Smallest(code) /\ Largest(code) \in Nat /\ Largest(code) <= n
  BY <1>2, <1>3, <1>5, <1>6
<1>8. Smallest(code) = m /\ Largest(code) = n
  BY <1>5, <1>6, <1>7
<1> QED
  BY <1>2, <1>4, <1>8

LEMMA LineEndBehind ==
    ASSUME NEW s, NEW o \in 0..Len(s), Len(s) \in Nat
    PROVE  line_end_of(s, o) \in o..Len(s)
<1> DEFINE S == {k \in o + 1..Len(s) : At(s, k - 1) = Newline} \cup {Len(s)}
<1>1. S \subseteq o..Len(s) /\ S \subseteq Nat /\ Len(s) \in S
  OBVIOUS
<1>2. line_end_of(s, o) = Smallest(S)
  BY DEF line_end_of
<1> HIDE DEF S
<1> QED
  BY <1>1, <1>2, SmallestOffset

(* A symbol begins and ends with code.                                     *)
CodeAtBothEnds(s, r) == r.from < r.to /\ ~White(At(s, r.from)) /\ ~White(At(s, r.to - 1))

LEMMA MaskedBodies ==
    ASSUME NEW C, NEW s \in Seq(C), NEW f, Parent(s, f), CodeAtBothEnds(s, full_span(f))
    PROVE  /\ ReadBody(s, f, "Byte") \in Seq(C \cup {Blank})
           /\ Trim(ReadBody(s, f, "Byte")) = Part(s, full_span(f).from, full_span(f).to)
<1> DEFINE from == full_span(f).from
           to == full_span(f).to
           start == line_start_of(s, from)
           end == line_end_of(s, to)
           t == ReadBody(s, f, "Byte")
           m == from - start + 1
           n == to - start
<1>1. Len(s) \in Nat /\ DOMAIN s = 1..Len(s) /\ \A i \in 1..Len(s) : s[i] \in C
  BY LenProperties, ElementOfSeq
<1>2. from \in Nat /\ to \in 0..Len(s) /\ from < to
  BY <1>1, FullSpanLies DEF Lies, CodeAtBothEnds
<1>3. start \in 0..from
  BY <1>2, LineStartBefore
<1>4. end \in to..Len(s)
  BY <1>1, <1>2, LineEndBehind
<1>5. ~White(At(s, from)) /\ ~White(At(s, to - 1))
  BY DEF CodeAtBothEnds
<1>6. t = [i \in 1..end - start |->
             IF start + i - 1 \in from..to - 1 \/ At(s, start + i - 1) = Newline
             THEN At(s, start + i - 1) ELSE Blank]
  BY DEF ReadBody
<1> HIDE DEF from, to, start, end, t
<1>7. \A i \in 1..end - start : start + i \in 1..Len(s) /\ At(s, start + i - 1) = s[start + i]
  BY <1>1, <1>2, <1>3, <1>4 DEF At
<1>8. end - start \in Nat /\ \A i \in 1..end - start : t[i] \in C \cup {Blank}
  <2>1. end - start \in Nat
    BY <1>1, <1>2, <1>3, <1>4
  <2>2. ASSUME NEW i \in 1..end - start PROVE t[i] \in C \cup {Blank}
    <3>1. At(s, start + i - 1) \in C
      BY <1>1, <1>7
    <3>2. t[i] = At(s, start + i - 1) \/ t[i] = Blank
      BY <1>6
    <3> QED
      BY <3>1, <3>2
  <2> QED
    BY <2>1, <2>2
<1>9. t \in Seq(C \cup {Blank}) /\ Len(t) = end - start
  <2>1. t \in [1..end - start -> C \cup {Blank}]
    BY <1>6, <1>8
  <2> QED
    BY <1>8, <2>1
<1>10. m \in Nat /\ n \in Nat /\ 1 <= m /\ m <= n /\ n <= Len(t)
  BY <1>1, <1>2, <1>3, <1>4, <1>9
<1>11. ASSUME NEW i \in 1..Len(t), m <= i, i <= n PROVE t[i] = s[start + i]
  <2>1. start + i - 1 \in from..to - 1 /\ i \in 1..end - start
    BY <1>1, <1>2, <1>3, <1>4, <1>9, <1>11
  <2> QED
    BY <1>6, <1>7, <2>1
<1>12. ~White(t[m]) /\ ~White(t[n])
  <2>1. m \in 1..Len(t) /\ n \in 1..Len(t)
    BY <1>10, <1>9, <1>8
  <2>2. t[m] = s[start + m] /\ t[n] = s[start + n]
    BY <1>10, <1>11, <2>1
  <2>3. start + m = from + 1 /\ start + n = (to - 1) + 1
    BY <1>1, <1>2, <1>3
  <2> QED
    BY <1>5, <2>2, <2>3 DEF At
<1>13. ASSUME NEW i \in 1..Len(t), i < m \/ i > n PROVE White(t[i])
  <2>1. start + i - 1 \notin from..to - 1 /\ i \in 1..end - start
    BY <1>1, <1>2, <1>3, <1>4, <1>9, <1>13
  <2> QED
    BY <1>6, <2>1 DEF White
<1> HIDE DEF m, n
<1>14. Trim(t) = SubSeq(t, m, n)
  BY <1>9, <1>10, <1>12, <1>13, TrimsToCode
<1>15. SubSeq(t, m, n) = Part(s, from, to)
  <2>1. /\ SubSeq(t, m, n) \in Seq(C \cup {Blank}) /\ Len(SubSeq(t, m, n)) = n - m + 1
        /\ \A i \in 1..n - m + 1 : SubSeq(t, m, n)[i] = t[m + i - 1]
    BY <1>9, <1>10, SMTT(30)
  <2>2. /\ Part(s, from, to) \in Seq(C) /\ Len(Part(s, from, to)) = to - from
        /\ \A i \in 1..to - from : Part(s, from, to)[i] = s[from + i]
    BY <1>1, <1>2, SMTT(30) DEF Part
  <2>3. n - m + 1 = to - from /\ start \in Nat /\ start + m = from + 1 /\ start + n = to
    BY <1>1, <1>2, <1>3 DEF m, n
  <2>4. ASSUME NEW i \in 1..to - from PROVE t[m + i - 1] = s[from + i]
    <3>1. m + i - 1 \in 1..Len(t) /\ m <= m + i - 1 /\ m + i - 1 <= n
      BY <1>2, <1>9, <1>8, <1>10, <2>3
    <3>2. start + (m + i - 1) = from + i
      BY <1>2, <1>10, <2>3
    <3> QED
      BY <1>11, <3>1, <3>2
  <2>5. Part(s, from, to) \in Seq(C \cup {Blank})
    BY <2>2
  <2> DEFINE u == SubSeq(t, m, n)
             v == Part(s, from, to)
  <2> HIDE DEF u, v
  <2>6. /\ u \in Seq(C \cup {Blank}) /\ v \in Seq(C \cup {Blank})
        /\ Len(u) = to - from /\ Len(v) = to - from
    BY <2>1, <2>2, <2>3, <2>5 DEF u, v
  <2>7. ASSUME NEW i \in 1..Len(u) PROVE u[i] = v[i]
    <3>1. u[i] = t[m + i - 1]
      BY <2>1, <2>3, <2>6 DEF u
    <3>2. v[i] = s[from + i]
      BY <2>2, <2>6 DEF v
    <3> QED
      BY <2>4, <2>6, <3>1, <3>2
  <2> QED
    BY <2>6, <2>7, SeqEqual DEF u, v
<1> QED
  BY <1>9, <1>14, <1>15 DEF t, from, to

(* Saving a symbol's body as its file shows it leaves the source as it     *)
(* was, but for a newline at its end, in a body of whole lines and in one  *)
(* masked to the symbol, whatever stands around the symbol in its lines    *)
(* (Slice::body, BodySplice, SliceReadable, SliceWritable).                *)
THEOREM BodiesRoundTrip ==
    ASSUME NEW C, NEW s \in Seq(C), NEW f, Parent(s, f), NEW mode \in Modes,
           mode = "Byte" => CodeAtBothEnds(s, full_span(f))
    PROVE  BodyRoundTrips(s, f, mode)
<1> DEFINE span == full_span(f)
<1>1. Len(s) \in Nat
  BY LenProperties
<1>2. Lies(s, span)
  BY <1>1, FullSpanLies
<1>3. span.from \in Nat /\ span.to \in Nat /\ span.from <= span.to /\ span.to <= Len(s)
  BY <1>1, <1>2 DEF Lies
<1>4. CASE mode = "Line"
  <2> DEFINE a == line_start_of(s, span.from)
  <2>1. a \in 0..span.from
    BY <1>3, LineStartBefore
  <2>2. a \in Nat /\ a <= span.to
    BY <1>3, <2>1
  <2>3. ReadBody(s, f, "Line") = Part(s, a, span.to)
    BY LineBodies
  <2>4. WriteBody(s, f, "Line", Part(s, a, span.to)) = splice_rope(s, a, span.to, Part(s, a, span.to))
    BY DEF WriteBody
  <2> HIDE DEF a, span
  <2>5. Part(s, a, span.to) \in Seq(C)
    BY <1>3, <2>2, SMTT(30) DEF Part
  <2>6. SliceWritable(SliceReadable(Part(s, a, span.to))) = Part(s, a, span.to)
    BY <2>5, SlicesRoundTrip
  <2>7. SameText(s, splice_rope(s, a, span.to, Part(s, a, span.to)))
    BY <1>3, <2>2, SplicedAsItWas
  <2> QED
    BY <1>4, <2>3, <2>4, <2>6, <2>7 DEF BodyRoundTrips
<1>5. CASE mode = "Byte"
  <2> DEFINE t == ReadBody(s, f, "Byte")
  <2>1. t \in Seq(C \cup {Blank}) /\ Trim(t) = Part(s, span.from, span.to)
    BY <1>5, MaskedBodies
  <2>2. WriteBody(s, f, "Byte", t) = splice_rope(s, span.from, span.to, Trim(t))
    BY DEF WriteBody
  <2> HIDE DEF t
  <2>3. SliceWritable(SliceReadable(t)) = t
    BY <2>1, SlicesRoundTrip
  <2>4. SameText(s, splice_rope(s, span.from, span.to, Part(s, span.from, span.to)))
    BY <1>3, SplicedAsItWas
  <2> QED
    BY <1>5, <2>1, <2>2, <2>3, <2>4 DEF BodyRoundTrips, t
<1> QED
  BY <1>4, <1>5 DEF Modes
=============================================================================
