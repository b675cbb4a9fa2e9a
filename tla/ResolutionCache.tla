-------------------------- MODULE ResolutionCache --------------------------
(* The resolution cache: GenCache and GenerationMap (nyne/src/router/      *)
(* cache) under CacheProvider (plugins/cache/src/provider/mod.rs), shared  *)
(* by the FUSE worker threads, and invalidated by their own mutations and  *)
(* by the watcher's change notifications.                                  *)
(*                                                                         *)
(* The provider chain behind the cache is what the directories really      *)
(* hold, `listing'.  A lock is held only for one map access, so every      *)
(* access is an action of its own.                                         *)
EXTENDS Naturals, Sequences, FiniteSets

CONSTANTS
    Threads,        \* FUSE workers
    Plain,          \* directories of the source tree
    Companions,     \* companion directories (file.rs@/...)
    Names,          \* names a directory may hold
    FileOf,         \* [Companions -> Plain \X Names]: the companion's file
    Everything,     \* stands for the name in a readdir key
    Resolved,       \* bound: the keys clients ask for, a subset of Keys
    MaxChanges      \* bound: changes of a listing in one behaviour

Dirs == Plain \cup Companions
Files == Plain \X Names
Paths == Plain \cup Files

(* readdir_cache is keyed by the directory, lookup_cache by the directory  *)
(* and the name.                                                           *)
Keys == [dir : Dirs, name : Names \cup {Everything}]
ReaddirKey(d) == [dir |-> d, name |-> Everything]

ASSUME ResolutionCacheAssumption ==
    /\ Dirs # {}
    /\ Plain \cap (Companions \cup Files) = {} /\ Companions \cap Files = {}
    /\ FileOf \in [Companions -> Files]
    /\ Everything \notin Names
    /\ Resolved \subseteq Keys
    /\ MaxChanges \in Nat

(* The path an event is for lies in a directory.                          *)
Parent(p) == p[1]

(* source_from_request: the companion's file, or the request's directory.  *)
SourceOf(d) == IF d \in Companions THEN FileOf[d] ELSE d

(* CacheEntry.  `birth' is history: whether the value was sound when the   *)
(* entry was made, or how it was not.                                      *)
Births == {"sound", "raced", "failed"}
Entry == [generation : Nat, value : SUBSET Names, birth : Births]
NoEntry == [generation |-> 0, value |-> {}, birth |-> "none"]

VARIABLES
    listing,        \* what each directory holds
    store,          \* GenCache: key -> entry or NoEntry
    generation,     \* GenerationMap
    pc,             \* where each worker is
    work,           \* the locals of each worker's request
    events,         \* paths the watcher has yet to report to on_change
    reporting,      \* generations the on_change in progress has yet to bump
    owed,           \* history: sources with a change nobody has bumped for
    unseen,         \* history: those of them a change raised no event for that
                    \* no request bumps for either
    changes         \* number of changes so far

requestvars == <<pc, work>>
vars == <<listing, store, generation, pc, work, events, reporting, owed, unseen, changes>>

(* A worker's locals: the key it resolves, the value and generation it has *)
(* read; the directories whose readdir entry is still to be invalidated,   *)
(* the first of which is the request's own, and the source to bump.        *)
Work == [key : Keys, value : SUBSET Names, generation : Nat, birth : Births,
         dirs : Seq(Dirs), source : Paths]
AnyDir == CHOOSE d \in Dirs : TRUE
NoWork == [key |-> ReaddirKey(AnyDir), value |-> {}, generation |-> 0,
           birth |-> "sound", dirs |-> << >>, source |-> SourceOf(AnyDir)]

Steps == {"idle", "compute", "generation", "insert", "invalidate", "bump"}

Init ==
    /\ listing = [d \in Dirs |-> {}]
    /\ store = [k \in Keys |-> NoEntry]
    /\ generation = [p \in Paths |-> 0]
    /\ pc = [t \in Threads |-> "idle"]
    /\ work = [t \in Threads |-> NoWork]
    /\ events = {} /\ reporting = << >>
    /\ owed = {} /\ unseen = {} /\ changes = 0

-----------------------------------------------------------------------------
(* GenCache.                                                               *)

(* What the chain answers for a key.                                       *)
View(k) == IF k.name = Everything THEN listing[k.dir]
                                  ELSE listing[k.dir] \cap {k.name}

Source(k) == SourceOf(k.dir)

(* An entry a lookup is answered from: tagged with its source's current    *)
(* generation.  A hit changes nothing and is not a step.                   *)
(* Mutant: an entry of any past generation is a hit.                       *)
FreshIfStored(k) == store[k] # NoEntry
Fresh(k) == store[k] # NoEntry /\ store[k].generation = generation[Source(k)]

(* The read lock finds no entry or a stale one.                            *)
Miss(t, k) ==
    /\ pc[t] = "idle" /\ ~Fresh(k)
    /\ pc' = [pc EXCEPT ![t] = "compute"]
    /\ work' = [work EXCEPT ![t] = [NoWork EXCEPT !.key = k]]
    /\ UNCHANGED <<listing, store, generation, events, reporting, owed, unseen, changes>>

(* compute(): the chain is run with no lock held.                          *)
Compute(t) ==
    /\ pc[t] = "compute"
    /\ pc' = [pc EXCEPT ![t] = "generation"]
    /\ work' = [work EXCEPT ![t].value = View(work[t].key)]
    /\ UNCHANGED <<listing, store, generation, events, reporting, owed, unseen, changes>>

(* The chain fails; the error is dropped (`.ok()') and what it had not     *)
(* resolved counts as absent.                                              *)
ComputeFails(t) ==
    /\ pc[t] = "compute"
    /\ pc' = [pc EXCEPT ![t] = "generation"]
    /\ work' = [work EXCEPT ![t].value = {}, ![t].birth = "failed"]
    /\ UNCHANGED <<listing, store, generation, events, reporting, owed, unseen, changes>>

(* generations.get(&source), after compute().  A value that is already out *)
(* of date, with its invalidation come and gone, is born stale.            *)
ReadGeneration(t) ==
    LET k == work[t].key
        raced == work[t].value # View(k) /\ Source(k) \notin owed
    IN
    /\ pc[t] = "generation"
    /\ pc' = [pc EXCEPT ![t] = "insert"]
    /\ work' = [work EXCEPT
        ![t].generation = generation[Source(k)],
        ![t].birth = IF @ = "sound" /\ raced THEN "raced" ELSE @]
    /\ UNCHANGED <<listing, store, generation, events, reporting, owed, unseen, changes>>

(* store.write().insert: over whatever is there.                           *)
Insert(t) ==
    /\ pc[t] = "insert"
    /\ store' = [store EXCEPT ![work[t].key] =
        [generation |-> work[t].generation, value |-> work[t].value,
         birth |-> work[t].birth]]
    /\ pc' = [pc EXCEPT ![t] = "idle"]
    /\ work' = [work EXCEPT ![t] = NoWork]
    /\ UNCHANGED <<listing, generation, events, reporting, owed, unseen, changes>>

-----------------------------------------------------------------------------
(* Changes.  A change of what is on disk, whoever made it, may reach the   *)
(* watcher as an event for the path concerned and need not: directories    *)
(* that are ignored are never watched, new ones only once they have been   *)
(* walked, and an entry of the inline writes takes the event of its path.  *)

Toggled(d, n) == IF n \in listing[d] THEN listing[d] \ {n} ELSE listing[d] \cup {n}
EventPath(d, n) == IF d \in Companions THEN FileOf[d] ELSE <<d, n>>

(* Mutant: the request's own path is bumped, a companion's too.            *)
MutatesOwnPath(t, dirs) ==
    /\ pc[t] = "idle" /\ changes < MaxChanges
    /\ changes' = changes + 1
    /\ owed' = owed \cup {SourceOf(dirs[i]) : i \in DOMAIN dirs}
    /\ pc' = [pc EXCEPT ![t] = "invalidate"]
    /\ work' = [work EXCEPT ![t] = [NoWork EXCEPT !.dirs = dirs, !.source = dirs[1]]]
    /\ UNCHANGED <<store, generation, reporting>>

(* The chain has made the change; the rest of the request invalidates.     *)
Mutates(t, dirs) ==
    /\ pc[t] = "idle" /\ changes < MaxChanges
    /\ changes' = changes + 1
    /\ owed' = owed \cup {SourceOf(dirs[i]) : i \in DOMAIN dirs}
    /\ pc' = [pc EXCEPT ![t] = "invalidate"]
    /\ work' = [work EXCEPT ![t] =
        [NoWork EXCEPT !.dirs = dirs, !.source = SourceOf(dirs[1])]]
    /\ UNCHANGED <<store, generation, reporting>>

(* Op::Create, Op::Mkdir, Op::Remove.                                      *)
Mutate(t, d, n) ==
    /\ Mutates(t, <<d>>)
    /\ listing' = [listing EXCEPT ![d] = Toggled(d, n)]
    /\ events' \in {events, events \cup {EventPath(d, n)}}
    /\ UNCHANGED unseen

(* Op::Rename of d/n to e/m, which it replaces: the target's directory is  *)
(* left to the watcher.                                                    *)
Rename(t, d, n, e, m) ==
    /\ n \in listing[d] /\ <<d, n>> # <<e, m>>
    /\ d \in Plain /\ e \in Plain
    /\ Mutates(t, <<d, e>>)
    /\ listing' = [[listing EXCEPT ![d] = @ \ {n}] EXCEPT ![e] = @ \cup {m}]
    /\ \E told \in SUBSET {<<d, n>>, <<e, m>>} :
        /\ events' = events \cup told
        /\ unseen' = IF d = e \/ <<e, m>> \in told THEN unseen ELSE unseen \cup {e}

(* CacheProvider::invalidate: readdir_cache only.                          *)
Invalidate(t) ==
    LET dirs == work[t].dirs IN
    /\ pc[t] = "invalidate"
    /\ store' = [store EXCEPT ![ReaddirKey(Head(dirs))] = NoEntry]
    /\ work' = [work EXCEPT ![t].dirs = Tail(dirs)]
    /\ pc' = [pc EXCEPT ![t] = IF Tail(dirs) = << >> THEN "bump" ELSE @]
    /\ UNCHANGED <<listing, generation, events, reporting, owed, unseen, changes>>

Bumped(p) ==
    /\ generation' = [generation EXCEPT ![p] = @ + 1]
    /\ owed' = owed \ {p}
    /\ unseen' = unseen \ {p}

(* Mutant: the mutation is not followed by a bump.                         *)
BumpNothing(t) ==
    /\ pc[t] = "bump"
    /\ pc' = [pc EXCEPT ![t] = "idle"]
    /\ work' = [work EXCEPT ![t] = NoWork]
    /\ owed' = owed \ {work[t].source}
    /\ unseen' = unseen \ {work[t].source}
    /\ UNCHANGED <<listing, store, generation, events, reporting, changes>>

(* generations.bump(&source_from_request(req)): the request's own source;  *)
(* a rename does not bump its target's.                                    *)
Bump(t) ==
    /\ pc[t] = "bump"
    /\ Bumped(work[t].source)
    /\ pc' = [pc EXCEPT ![t] = "idle"]
    /\ work' = [work EXCEPT ![t] = NoWork]
    /\ UNCHANGED <<listing, store, events, reporting, changes>>

(* A change made behind the filesystem's back.                             *)
ExternalChange(d, n) ==
    /\ changes < MaxChanges
    /\ changes' = changes + 1
    /\ listing' = [listing EXCEPT ![d] = Toggled(d, n)]
    /\ owed' = owed \cup {SourceOf(d)}
    /\ \/ events' = events \cup {EventPath(d, n)} /\ UNCHANGED unseen
       \/ unseen' = unseen \cup {SourceOf(d)} /\ UNCHANGED events
    /\ UNCHANGED <<store, generation, requestvars, reporting>>

(* Mutant: only the changed path is bumped, not its parent.                *)
OnChangeChildOnly(p) ==
    /\ reporting = << >> /\ p \in events
    /\ events' = events \ {p}
    /\ reporting' = <<p>>
    /\ UNCHANGED <<listing, store, generation, requestvars, owed, unseen, changes>>

(* on_change: the changed path, then its parent.                           *)
OnChange(p) ==
    /\ reporting = << >> /\ p \in events
    /\ events' = events \ {p}
    /\ reporting' = <<p, Parent(p)>>
    /\ UNCHANGED <<listing, store, generation, requestvars, owed, unseen, changes>>

BumpChanged ==
    /\ reporting # << >>
    /\ Bumped(Head(reporting))
    /\ reporting' = Tail(reporting)
    /\ UNCHANGED <<listing, store, requestvars, events, changes>>

-----------------------------------------------------------------------------
Proceed(t) ==
    \/ Compute(t) \/ ComputeFails(t) \/ ReadGeneration(t) \/ Insert(t)
    \/ Invalidate(t) \/ Bump(t)

Watcher == BumpChanged \/ \E p \in Files : OnChange(p)

Begin(t) ==
    \/ \E k \in Resolved : Miss(t, k)
    \/ \E d \in Dirs, n \in Names : Mutate(t, d, n)
    \/ \E d, e \in Plain, n, m \in Names : Rename(t, d, n, e, m)

Next ==
    \/ \E t \in Threads : Begin(t) \/ Proceed(t)
    \/ \E d \in Dirs, n \in Names : ExternalChange(d, n)
    \/ Watcher

Spec == Init /\ [][Next]_vars

-----------------------------------------------------------------------------
TypeOK ==
    /\ listing \in [Dirs -> SUBSET Names]
    /\ store \in [Keys -> Entry \cup {NoEntry}]
    /\ generation \in [Paths -> Nat]
    /\ pc \in [Threads -> Steps]
    /\ work \in [Threads -> Work]
    /\ events \subseteq Files
    /\ reporting \in Seq(Paths)
    /\ owed \subseteq Paths /\ unseen \subseteq Paths
    /\ changes \in 0 .. MaxChanges

Outdated(k) == store[k].value # View(k)

(* router/cache/mod.rs:20-24, 48-58.  A hit is only ever out of date while *)
(* no generation has been bumped for the change it misses, or when the     *)
(* entry was unsound from its birth: computed across an invalidation, or   *)
(* from a failed chain.                                                    *)
HitsAreCurrent ==
    \A k \in Keys :
        Fresh(k) /\ Outdated(k) => Source(k) \in owed \/ store[k].birth # "sound"

(* A change waits for its bump only while the request that made it is on   *)
(* its way to it, an event that reaches the source is under way, or the    *)
(* on_change of such an event is yet to come to it.  Only a change no      *)
(* event was raised for may be forgotten, and of those only one made       *)
(* behind the mount's back or by a rename in its target's directory, whose *)
(* worker bumps for the other directory alone.                             *)
WillBump(t, p) == pc[t] \in {"invalidate", "bump"} /\ work[t].source = p

Coming(p) ==
    \/ \E e \in events : p \in {e, Parent(e)}
    \/ \E i \in DOMAIN reporting : reporting[i] = p
    \/ \E t \in Threads : WillBump(t, p)

OwedIsUnderWay == \A p \in owed : Coming(p) \/ p \in unseen

(* The doc of get_or_compute: an entry whose source was bumped while it    *)
(* was computed "is immediately stale", so never served.                   *)
BornStaleNeverServed == \A k \in Keys : Fresh(k) => store[k].birth # "raced"
=============================================================================
