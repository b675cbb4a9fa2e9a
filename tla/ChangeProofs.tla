----------------------------- MODULE ChangeProofs -----------------------------
(***************************************************************************)
(* Proofs about how a change of the source tree reaches what is kept of    *)
(* it: the resolution cache (ResolutionCache), for any number of workers,  *)
(* directories, names and changes, and the filesystem watcher (Watcher),   *)
(* for any paths, writers and changes and any window, delays and           *)
(* latencies that WatcherAssumption orders.  The two share no state.       *)
(***************************************************************************)
EXTENDS ResolutionCache, Watcher, SequenceTheorems, TLAPS

-----------------------------------------------------------------------------
(* The resolution cache.                                                   *)

(* A request that invalidates has a directory left to invalidate.          *)
InvalidatesSomething == \A t \in Threads : pc[t] = "invalidate" => work[t].dirs # << >>

Typed == TypeOK /\ InvalidatesSomething

(* What a worker is about to store, or has stored, is tagged with a        *)
(* generation its source has reached; a sound value tagged with the        *)
(* current one is current, or its change is still to be announced.         *)
Sound(k, e) ==
    /\ e.generation <= generation[Source(k)]
    /\ e.generation = generation[Source(k)] /\ e.value # View(k)
        => Source(k) \in owed \/ e.birth # "sound"

EntriesSound == \A k \in Keys : store[k] # NoEntry => Sound(k, store[k])
WorkSound == \A t \in Threads : pc[t] = "insert" => Sound(work[t].key, work[t])

Soundness == EntriesSound /\ WorkSound

-----------------------------------------------------------------------------
LEMMA SourceFacts ==
    /\ \A d \in Dirs : SourceOf(d) \in Paths
    /\ \A k \in Keys : k.dir \in Dirs /\ Source(k) \in Paths
    /\ \A p \in Files : Parent(p) \in Paths
    /\ \A d \in Dirs, n \in Names :
        /\ EventPath(d, n) \in Files
        /\ SourceOf(d) \in {EventPath(d, n), Parent(EventPath(d, n))}
<1>1. \A d \in Dirs : SourceOf(d) \in Paths
  BY ResolutionCacheAssumption DEF Dirs, SourceOf, Paths
<1>2. \A k \in Keys : k.dir \in Dirs
  BY DEF Keys
<1>3. \A p \in Files : Parent(p) \in Paths
  BY DEF Files, Parent, Paths
<1>4. ASSUME NEW d \in Dirs, NEW n \in Names
      PROVE  /\ EventPath(d, n) \in Files
             /\ SourceOf(d) \in {EventPath(d, n), Parent(EventPath(d, n))}
  BY ResolutionCacheAssumption DEF Dirs, SourceOf, EventPath, Parent, Files
<1> QED
  BY <1>1, <1>2, <1>3, <1>4 DEF Source

LEMMA NoWorkTyped ==
    /\ NoWork \in Work
    /\ \A k \in Keys : [NoWork EXCEPT !.key = k] \in Work
    /\ \A ds \in Seq(Dirs), p \in Paths :
        [NoWork EXCEPT !.dirs = ds, !.source = p] \in Work
<1>1. AnyDir \in Dirs
  BY ResolutionCacheAssumption DEF AnyDir
<1>2. ReaddirKey(AnyDir) \in Keys /\ SourceOf(AnyDir) \in Paths
  BY <1>1, SourceFacts DEF ReaddirKey, Keys
<1>3. << >> \in Seq(Dirs)
  OBVIOUS
<1>4. NoWork \in Work
  BY <1>2, <1>3 DEF NoWork, Work, Births
<1> QED
  BY <1>4 DEF Work

(* The moves of a request that leave directories, cache and generations.   *)
LEMMA MutatesTyped ==
    ASSUME Typed, NEW t \in Threads, NEW ds \in Seq(Dirs), ds # << >>, Mutates(t, ds)
    PROVE  /\ pc' \in [Threads -> Steps] /\ work' \in [Threads -> Work]
           /\ owed' \subseteq Paths /\ changes' \in 0 .. MaxChanges
           /\ UNCHANGED <<store, generation, reporting>>
           /\ InvalidatesSomething'
<1>1. \A i \in DOMAIN ds : ds[i] \in Dirs
  OBVIOUS
<1>2. 1 \in DOMAIN ds
  OBVIOUS
<1>3. SourceOf(ds[1]) \in Paths /\ \A i \in DOMAIN ds : SourceOf(ds[i]) \in Paths
  BY <1>1, <1>2, SourceFacts
<1>4. [NoWork EXCEPT !.dirs = ds, !.source = SourceOf(ds[1])] \in Work
  BY <1>3, NoWorkTyped
<1>5. pc' \in [Threads -> Steps] /\ work' \in [Threads -> Work]
  BY <1>4 DEF Typed, TypeOK, Mutates, Steps
<1>6. owed' \subseteq Paths /\ changes' \in 0 .. MaxChanges
  BY <1>3, ResolutionCacheAssumption DEF Typed, TypeOK, Mutates
<1>7. InvalidatesSomething'
  <2>1. \A u \in Threads : u # t => pc'[u] = pc[u] /\ work'[u] = work[u]
    BY DEF Typed, TypeOK, Mutates
  <2>2. work'[t].dirs = ds
    BY NoWorkTyped DEF Typed, TypeOK, Mutates, NoWork
  <2> QED
    BY <2>1, <2>2 DEF Typed, InvalidatesSomething
<1> QED
  BY <1>5, <1>6, <1>7 DEF Mutates

LEMMA TypedInit == Init => Typed
<1> SUFFICES ASSUME Init PROVE Typed
  OBVIOUS
<1>1. << >> \in Seq(Paths)
  OBVIOUS
<1>2. changes \in 0 .. MaxChanges /\ work \in [Threads -> Work]
  <2>1. NoWork \in Work
    BY NoWorkTyped
  <2>2. MaxChanges \in Nat
    BY ResolutionCacheAssumption
  <2> QED
    BY <2>1, <2>2 DEF Init
<1>3. listing \in [Dirs -> SUBSET Names] /\ store \in [Keys -> Entry \cup {NoEntry}]
  BY DEF Init
<1>4. generation \in [Paths -> Nat] /\ pc \in [Threads -> Steps]
  BY DEF Init, Steps
<1>5. TypeOK
  BY <1>1, <1>2, <1>3, <1>4 DEF Init, TypeOK
<1> QED
  BY <1>5 DEF Init, Typed, InvalidatesSomething

LEMMA TypedStep == Typed /\ [Next]_vars => Typed'
<1> SUFFICES ASSUME Typed, [Next]_vars PROVE Typed'
  OBVIOUS
<1>a. TypeOK /\ InvalidatesSomething
  BY DEF Typed
<1>1. ASSUME NEW t \in Threads, NEW k \in Resolved, Miss(t, k) PROVE Typed'
  <2>1. [NoWork EXCEPT !.key = k] \in Work
    BY NoWorkTyped, ResolutionCacheAssumption
  <2> QED
    BY <1>a, <1>1, <2>1 DEF Miss, Typed, TypeOK, Steps, InvalidatesSomething
<1>2. ASSUME NEW t \in Threads, Compute(t) PROVE Typed'
  <2>1. work[t].key \in Keys /\ View(work[t].key) \in SUBSET Names
    BY <1>a DEF TypeOK, Work, View, Keys
  <2>2. [work[t] EXCEPT !.value = View(work[t].key)] \in Work
    BY <1>a, <2>1 DEF TypeOK, Work
  <2>3. work' \in [Threads -> Work]
    BY <1>a, <1>2, <2>2 DEF TypeOK, Compute
  <2> QED
    BY <1>a, <1>2, <2>3 DEF Compute, Typed, TypeOK, Steps, InvalidatesSomething
<1>3. ASSUME NEW t \in Threads, ComputeFails(t) PROVE Typed'
  <2>1. [[work[t] EXCEPT !.value = {}] EXCEPT !.birth = "failed"] \in Work
    BY <1>a DEF TypeOK, Work, Births
  <2>2. work' \in [Threads -> Work]
    BY <1>a, <1>3, <2>1 DEF TypeOK, ComputeFails
  <2> QED
    BY <1>a, <1>3, <2>2 DEF ComputeFails, Typed, TypeOK, Steps, InvalidatesSomething
<1>4. ASSUME NEW t \in Threads, ReadGeneration(t) PROVE Typed'
  <2>1. work[t].key \in Keys /\ generation[Source(work[t].key)] \in Nat
    BY <1>a, SourceFacts DEF TypeOK, Work
  <2>2. ASSUME NEW b \in Births
        PROVE  [[work[t] EXCEPT !.generation = generation[Source(work[t].key)]]
                    EXCEPT !.birth = b] \in Work
    BY <1>a, <2>1 DEF TypeOK, Work
  <2>3. work[t].birth \in Births /\ "raced" \in Births
    BY <1>a DEF TypeOK, Work, Births
  <2>4. work' \in [Threads -> Work]
    BY <1>a, <1>4, <2>2, <2>3 DEF TypeOK, ReadGeneration
  <2> QED
    BY <1>a, <1>4, <2>4 DEF ReadGeneration, Typed, TypeOK, Steps, InvalidatesSomething
<1>5. ASSUME NEW t \in Threads, Insert(t) PROVE Typed'
  <2>1. [generation |-> work[t].generation, value |-> work[t].value,
         birth |-> work[t].birth] \in Entry
    BY <1>a DEF TypeOK, Work, Entry
  <2> QED
    BY <1>a, <1>5, <2>1, NoWorkTyped
    DEF Insert, Typed, TypeOK, Steps, InvalidatesSomething
<1>6. ASSUME NEW t \in Threads, NEW d \in Dirs, NEW n \in Names, Mutate(t, d, n)
      PROVE Typed'
  <2>1. Mutates(t, <<d>>) /\ <<d>> \in Seq(Dirs) /\ <<d>> # << >>
    BY <1>6 DEF Mutate
  <2>2. Toggled(d, n) \in SUBSET Names
    BY <1>a DEF TypeOK, Toggled
  <2>3. listing' \in [Dirs -> SUBSET Names] /\ events' \subseteq Files /\ unseen' \subseteq Paths
    BY <1>a, <1>6, <2>2, SourceFacts DEF TypeOK, Mutate
  <2>4. /\ pc' \in [Threads -> Steps] /\ work' \in [Threads -> Work]
        /\ owed' \subseteq Paths /\ changes' \in 0 .. MaxChanges
        /\ UNCHANGED <<store, generation, reporting>> /\ InvalidatesSomething'
    BY <2>1, MutatesTyped
  <2> QED
    BY <1>a, <2>3, <2>4 DEF Typed, TypeOK
<1>7. ASSUME NEW t \in Threads, NEW d \in Plain, NEW e \in Plain,
             NEW n \in Names, NEW m \in Names, Rename(t, d, n, e, m)
      PROVE Typed'
  <2>1. Mutates(t, <<d, e>>) /\ <<d, e>> \in Seq(Dirs) /\ <<d, e>> # << >>
    BY <1>7 DEF Rename, Dirs
  <2>2. listing' \in [Dirs -> SUBSET Names] /\ events' \subseteq Files /\ unseen' \subseteq Paths
    <3>1. listing' \in [Dirs -> SUBSET Names] /\ events' \subseteq Files
      BY <1>a, <1>7 DEF TypeOK, Rename, Files, Dirs
    <3>2. unseen' \in {unseen, unseen \cup {e}}
      BY <1>7 DEF Rename
    <3> QED
      BY <1>a, <3>1, <3>2 DEF TypeOK, Paths
  <2>3. /\ pc' \in [Threads -> Steps] /\ work' \in [Threads -> Work]
        /\ owed' \subseteq Paths /\ changes' \in 0 .. MaxChanges
        /\ UNCHANGED <<store, generation, reporting>> /\ InvalidatesSomething'
    BY <2>1, MutatesTyped
  <2> QED
    BY <1>a, <2>2, <2>3 DEF Typed, TypeOK
<1>8. ASSUME NEW t \in Threads, Invalidate(t) PROVE Typed'
  <2>1. work[t].dirs \in Seq(Dirs) /\ work[t].dirs # << >>
    BY <1>a, <1>8 DEF TypeOK, Work, Invalidate, InvalidatesSomething
  <2>2. Tail(work[t].dirs) \in Seq(Dirs)
    BY <2>1
  <2>3. [work[t] EXCEPT !.dirs = Tail(work[t].dirs)] \in Work
    BY <1>a, <2>2 DEF TypeOK, Work
  <2>4. work' \in [Threads -> Work] /\ work'[t].dirs = Tail(work[t].dirs)
    BY <1>a, <1>8, <2>3 DEF TypeOK, Invalidate, Work
  <2>5. store' \in [Keys -> Entry \cup {NoEntry}]
    BY <1>a, <1>8 DEF TypeOK, Invalidate
  <2>6. pc' \in [Threads -> Steps]
    BY <1>a, <1>8 DEF TypeOK, Invalidate, Steps
  <2>7. InvalidatesSomething'
    BY <1>a, <1>8, <2>4 DEF TypeOK, Invalidate, InvalidatesSomething
  <2> QED
    BY <1>a, <1>8, <2>4, <2>5, <2>6, <2>7 DEF Typed, TypeOK, Invalidate
<1>9. ASSUME NEW t \in Threads, Bump(t) PROVE Typed'
  <2>1. work[t].source \in Paths
    BY <1>a DEF TypeOK, Work
  <2>2. generation' \in [Paths -> Nat] /\ owed' \subseteq Paths /\ unseen' \subseteq Paths
    BY <1>a, <1>9, <2>1 DEF TypeOK, Bump, Bumped
  <2>3. pc' \in [Threads -> Steps] /\ work' \in [Threads -> Work]
    BY <1>a, <1>9, NoWorkTyped DEF TypeOK, Bump, Steps
  <2>4. InvalidatesSomething'
    BY <1>a, <1>9 DEF TypeOK, Bump, InvalidatesSomething
  <2> QED
    BY <1>a, <1>9, <2>2, <2>3, <2>4 DEF Bump, Typed, TypeOK
<1>10. ASSUME NEW d \in Dirs, NEW n \in Names, ExternalChange(d, n) PROVE Typed'
  <2>1. Toggled(d, n) \in SUBSET Names
    BY <1>a DEF TypeOK, Toggled
  <2> QED
    BY <1>a, <1>10, <2>1, SourceFacts, ResolutionCacheAssumption
    DEF ExternalChange, requestvars, Typed, TypeOK, InvalidatesSomething
<1>11. ASSUME NEW p \in Files, OnChange(p) PROVE Typed'
  <2>1. p \in Paths /\ Parent(p) \in Paths
    BY SourceFacts DEF Paths
  <2>2. <<p, Parent(p)>> \in Seq(Paths)
    BY <2>1
  <2> QED
    BY <1>a, <1>11, <2>2 DEF OnChange, requestvars, Typed, TypeOK, InvalidatesSomething
<1>12. ASSUME BumpChanged PROVE Typed'
  <2>1. Tail(reporting) \in Seq(Paths)
    BY <1>a, <1>12 DEF TypeOK, BumpChanged
  <2> QED
    BY <1>a, <1>12, <2>1
    DEF BumpChanged, Bumped, requestvars, Typed, TypeOK, InvalidatesSomething
<1>13. ASSUME UNCHANGED vars PROVE Typed'
  BY <1>a, <1>13 DEF vars, requestvars, Typed, TypeOK, InvalidatesSomething
<1> QED
  BY <1>1, <1>2, <1>3, <1>4, <1>5, <1>6, <1>7, <1>8, <1>9, <1>10, <1>11, <1>12, <1>13
  DEF Next, Begin, Proceed, Watcher

(* The cache, its generations, the workers and the watcher's reports stay  *)
(* well-formed: no invalidation runs out of directories.                   *)
THEOREM TypeCorrect == Spec => []TypeOK
<1>1. Typed => TypeOK
  BY DEF Typed
<1> QED
  BY <1>1, TypedInit, TypedStep, PTL DEF Spec

-----------------------------------------------------------------------------
(* A step that leaves the cache, its sources and the workers' results      *)
(* alone may owe more and list anything it owes for.                       *)
LEMMA OweKeepsSound ==
    ASSUME Typed, Soundness, UNCHANGED <<store, generation>>, owed \subseteq owed',
           \A k \in Keys : View(k)' # View(k) => Source(k) \in owed',
           \A t \in Threads : pc'[t] = "insert" => pc[t] = "insert" /\ work'[t] = work[t]
    PROVE  Soundness'
<1>1. EntriesSound'
  BY DEF Soundness, EntriesSound, Sound, Source
<1>2. WorkSound'
  <2>1. \A t \in Threads : work[t].key \in Keys
    BY DEF Typed, TypeOK, Work
  <2> QED
    BY <2>1 DEF Soundness, WorkSound, Sound, Source
<1> QED
  BY <1>1, <1>2 DEF Soundness

(* A bump outdates every tag of its source at once.                        *)
LEMMA BumpKeepsSound ==
    ASSUME Typed, Soundness, NEW p \in Paths, Bumped(p), UNCHANGED <<store, listing>>,
           \A t \in Threads : pc'[t] = "insert" => pc[t] = "insert" /\ work'[t] = work[t]
    PROVE  Soundness'
<1>1. ASSUME NEW k \in Keys, NEW e, e.generation \in Nat, Sound(k, e) PROVE Sound(k, e)'
  <2>1. Source(k) \in Paths /\ generation \in [Paths -> Nat]
    BY SourceFacts DEF Typed, TypeOK
  <2>2. CASE Source(k) = p
    BY <1>1, <2>1, <2>2 DEF Sound, Bumped, Source
  <2>3. CASE Source(k) # p
    BY <1>1, <2>1, <2>3 DEF Sound, Bumped, Source, View
  <2> QED
    BY <2>2, <2>3
<1>2. EntriesSound'
  <2>1. \A k \in Keys : store[k] # NoEntry => store[k].generation \in Nat
    BY DEF Typed, TypeOK, Entry
  <2> QED
    BY <1>1, <2>1 DEF Soundness, EntriesSound
<1>3. WorkSound'
  <2>1. \A t \in Threads : work[t].key \in Keys /\ work[t].generation \in Nat
    BY DEF Typed, TypeOK, Work
  <2> QED
    BY <1>1, <2>1 DEF Soundness, WorkSound
<1> QED
  BY <1>2, <1>3 DEF Soundness

(* A change of a directory owes for every key whose view it changes.       *)
LEMMA ChangeIsOwed ==
    ASSUME Typed, NEW S \in SUBSET Dirs,
           \A d \in Dirs \ S : listing'[d] = listing[d],
           \A d \in S : SourceOf(d) \in owed'
    PROVE  \A k \in Keys : View(k)' # View(k) => Source(k) \in owed'
<1>1. \A k \in Keys : k.dir \in Dirs
  BY SourceFacts
<1> QED
  BY <1>1 DEF View, Source

LEMMA MutatesKeepsWork ==
    ASSUME Typed, NEW t \in Threads, NEW ds \in Seq(Dirs), Mutates(t, ds)
    PROVE  \A u \in Threads : pc'[u] = "insert" => pc[u] = "insert" /\ work'[u] = work[u]
BY DEF Typed, TypeOK, Mutates

LEMMA SoundStep == Typed /\ Soundness /\ [Next]_vars => Soundness'
<1> SUFFICES ASSUME Typed, Soundness, [Next]_vars PROVE Soundness'
  OBVIOUS
<1>a. TypeOK /\ EntriesSound /\ WorkSound
  BY DEF Typed, Soundness
<1>1. ASSUME NEW t \in Threads, NEW k \in Resolved, Miss(t, k) PROVE Soundness'
  BY <1>a, <1>1, OweKeepsSound DEF Miss, TypeOK, View
<1>2. ASSUME NEW t \in Threads, Compute(t) \/ ComputeFails(t) PROVE Soundness'
  <2>1. \A u \in Threads : pc'[u] = "insert" => pc[u] = "insert" /\ work'[u] = work[u]
    BY <1>a, <1>2 DEF Compute, ComputeFails, TypeOK
  <2> QED
    BY <1>2, <2>1, OweKeepsSound DEF Compute, ComputeFails, View
<1>3. ASSUME NEW t \in Threads, ReadGeneration(t) PROVE Soundness'
  <2> DEFINE k == work[t].key
  <2>1. k \in Keys /\ generation[Source(k)] \in Nat
    BY <1>a, SourceFacts DEF TypeOK, Work
  <2>2. /\ work'[t].key = k /\ work'[t].value = work[t].value
        /\ work'[t].generation = generation[Source(k)]
        /\ work[t].value # View(k) /\ Source(k) \notin owed => work'[t].birth # "sound"
    BY <1>a, <1>3 DEF TypeOK, ReadGeneration, Work
  <2>3. Sound(k, work'[t])
    BY <2>1, <2>2 DEF Sound
  <2>4. \A u \in Threads \ {t} : work'[u] = work[u] /\ pc'[u] = pc[u]
    BY <1>a, <1>3 DEF TypeOK, ReadGeneration
  <2>5. UNCHANGED <<generation, listing, owed>>
    BY <1>3 DEF ReadGeneration
  <2>7. WorkSound'
    BY <1>a, <2>2, <2>3, <2>4, <2>5 DEF WorkSound, Sound, View, Source
  <2>6. EntriesSound'
    BY <1>a, <1>3 DEF EntriesSound, Sound, ReadGeneration, View, Source
  <2> QED
    BY <2>6, <2>7 DEF Soundness
<1>4. ASSUME NEW t \in Threads, Insert(t) PROVE Soundness'
  <2> DEFINE k == work[t].key
  <2>1. k \in Keys /\ Sound(k, work[t])
    BY <1>a, <1>4 DEF TypeOK, Work, WorkSound, Insert
  <2>2. /\ store'[k].generation = work[t].generation /\ store'[k].value = work[t].value
        /\ store'[k].birth = work[t].birth
        /\ \A q \in Keys \ {k} : store'[q] = store[q]
    BY <1>a, <1>4, <2>1 DEF TypeOK, Insert
  <2>3. EntriesSound'
    <3> SUFFICES ASSUME NEW q \in Keys, store'[q] # NoEntry PROVE Sound(q, store[q])'
      BY DEF EntriesSound
    <3>1. UNCHANGED <<generation, listing, owed>>
      BY <1>4 DEF Insert
    <3>2. CASE q = k
      BY <2>1, <2>2, <3>1, <3>2 DEF Sound, View, Source
    <3>3. CASE q # k
      BY <1>a, <2>2, <3>1, <3>3 DEF EntriesSound, Sound, View, Source
    <3> QED
      BY <3>2, <3>3
  <2>4. \A u \in Threads : pc'[u] = "insert" => pc[u] = "insert" /\ work'[u] = work[u]
    BY <1>a, <1>4 DEF TypeOK, Insert
  <2>5. WorkSound'
    BY <1>a, <1>4, <2>4 DEF WorkSound, Sound, Insert, View, Source
  <2> QED
    BY <2>3, <2>5 DEF Soundness
<1>5. ASSUME NEW t \in Threads, NEW d \in Dirs, NEW n \in Names, Mutate(t, d, n)
      PROVE Soundness'
  <2>1. Mutates(t, <<d>>) /\ <<d>> \in Seq(Dirs)
    BY <1>5 DEF Mutate
  <2>2. owed' = owed \cup {SourceOf(<<d>>[i]) : i \in DOMAIN <<d>>}
    BY <2>1 DEF Mutates
  <2>3. SourceOf(d) \in owed' /\ owed \subseteq owed'
    <3>1. 1 \in DOMAIN <<d>> /\ <<d>>[1] = d
      OBVIOUS
    <3> QED
      BY <2>2, <3>1
  <2>4. \A c \in Dirs \ {d} : listing'[c] = listing[c]
    BY <1>a, <1>5 DEF TypeOK, Mutate
  <2>5. \A k \in Keys : View(k)' # View(k) => Source(k) \in owed'
    <3>1. {d} \in SUBSET Dirs /\ \A c \in {d} : SourceOf(c) \in owed'
      BY <2>3
    <3> QED
      BY <2>4, <3>1, ChangeIsOwed
  <2> QED
    BY <2>1, <2>3, <2>5, OweKeepsSound, MutatesKeepsWork DEF Mutates
<1>6. ASSUME NEW t \in Threads, NEW d \in Plain, NEW e \in Plain,
             NEW n \in Names, NEW m \in Names, Rename(t, d, n, e, m)
      PROVE Soundness'
  <2>1. Mutates(t, <<d, e>>) /\ <<d, e>> \in Seq(Dirs)
    BY <1>6 DEF Rename, Dirs
  <2>2. owed' = owed \cup {SourceOf(<<d, e>>[i]) : i \in DOMAIN <<d, e>>}
    BY <2>1 DEF Mutates
  <2>3. SourceOf(d) \in owed' /\ SourceOf(e) \in owed' /\ owed \subseteq owed'
    <3>1. /\ 1 \in DOMAIN <<d, e>> /\ <<d, e>>[1] = d
          /\ 2 \in DOMAIN <<d, e>> /\ <<d, e>>[2] = e
      OBVIOUS
    <3> QED
      BY <2>2, <3>1
  <2>4. \A c \in Dirs \ {d, e} : listing'[c] = listing[c]
    BY <1>a, <1>6 DEF TypeOK, Rename
  <2>5. {d, e} \in SUBSET Dirs
    BY DEF Dirs
  <2>6. \A k \in Keys : View(k)' # View(k) => Source(k) \in owed'
    BY <2>3, <2>4, <2>5, ChangeIsOwed
  <2> QED
    BY <2>1, <2>3, <2>6, OweKeepsSound, MutatesKeepsWork DEF Mutates
<1>7. ASSUME NEW t \in Threads, Invalidate(t) PROVE Soundness'
  <2>1. \A k \in Keys : store'[k] \in {store[k], NoEntry}
    BY <1>a, <1>7 DEF TypeOK, Invalidate
  <2>2. EntriesSound'
    BY <1>a, <1>7, <2>1 DEF EntriesSound, Sound, Invalidate, View, Source
  <2>3. \A u \in Threads : pc'[u] = "insert" => pc[u] = "insert" /\ work'[u] = work[u]
    BY <1>a, <1>7 DEF TypeOK, Invalidate
  <2>4. UNCHANGED <<generation, listing, owed>>
    BY <1>7 DEF Invalidate
  <2>5. WorkSound'
    BY <1>a, <2>3, <2>4 DEF WorkSound, Sound, View, Source
  <2> QED
    BY <2>2, <2>5 DEF Soundness
<1>8. ASSUME NEW t \in Threads, Bump(t) PROVE Soundness'
  <2>1. work[t].source \in Paths
    BY <1>a DEF TypeOK, Work
  <2>2. \A u \in Threads : pc'[u] = "insert" => pc[u] = "insert" /\ work'[u] = work[u]
    BY <1>a, <1>8 DEF TypeOK, Bump
  <2> QED
    BY <1>8, <2>1, <2>2, BumpKeepsSound DEF Bump
<1>9. ASSUME NEW d \in Dirs, NEW n \in Names, ExternalChange(d, n) PROVE Soundness'
  <2>1. \A c \in Dirs \ {d} : listing'[c] = listing[c]
    BY <1>a, <1>9 DEF TypeOK, ExternalChange
  <2>2. {d} \in SUBSET Dirs /\ \A c \in {d} : SourceOf(c) \in owed'
    BY <1>9 DEF ExternalChange
  <2>3. \A k \in Keys : View(k)' # View(k) => Source(k) \in owed'
    BY <2>1, <2>2, ChangeIsOwed
  <2> QED
    BY <1>9, <2>3, OweKeepsSound DEF ExternalChange, requestvars
<1>10. ASSUME NEW p \in Files, OnChange(p) PROVE Soundness'
  BY <1>10, OweKeepsSound DEF OnChange, requestvars, View
<1>11. ASSUME BumpChanged PROVE Soundness'
  <2>1. Head(reporting) \in Paths
    BY <1>a, <1>11 DEF TypeOK, BumpChanged
  <2> QED
    BY <1>11, <2>1, BumpKeepsSound DEF BumpChanged, requestvars
<1>12. ASSUME UNCHANGED vars PROVE Soundness'
  BY <1>12, OweKeepsSound DEF vars, requestvars, View
<1> QED
  BY <1>1, <1>2, <1>3, <1>4, <1>5, <1>6, <1>7, <1>8, <1>9, <1>10, <1>11, <1>12
  DEF Next, Begin, Proceed, Watcher

(* router/cache/mod.rs:20-24.  Whatever changes, renames, failures and     *)
(* reports interleave, a hit is out of date only while no bump has come    *)
(* for its source's change or when its entry was unsound from birth.       *)
THEOREM HitsStayCurrent == Spec => []HitsAreCurrent
<1>1. Init => Soundness
  BY DEF Init, Soundness, EntriesSound, WorkSound
<1>2. Typed /\ Soundness => HitsAreCurrent
  <2> SUFFICES ASSUME Soundness, NEW k \in Keys, Fresh(k), Outdated(k)
               PROVE  Source(k) \in owed \/ store[k].birth # "sound"
    BY DEF HitsAreCurrent
  <2> QED
    BY DEF Soundness, EntriesSound, Sound, Fresh, Outdated
<1> QED
  BY <1>1, <1>2, TypedInit, TypedStep, SoundStep, PTL DEF Spec

-----------------------------------------------------------------------------
(* A step keeps every owed change under way when it takes back no event,   *)
(* no report and no request's bump but the one it makes, and owes for      *)
(* nothing new that is neither coming nor unseen.                          *)
LEMMA StaysUnderWay ==
    ASSUME OwedIsUnderWay, events \subseteq events', reporting' = reporting,
           owed' \cap unseen \subseteq unseen',
           \A u \in Threads, p \in owed' : WillBump(u, p) => WillBump(u, p)',
           \A p \in owed' \ owed : Coming(p)' \/ p \in unseen'
    PROVE  OwedIsUnderWay'
<1> SUFFICES ASSUME NEW p \in owed' PROVE Coming(p)' \/ p \in unseen'
  BY DEF OwedIsUnderWay
<1>1. CASE p \notin owed
  BY <1>1
<1>2. CASE p \in owed
  <2>1. Coming(p) \/ p \in unseen
    BY <1>2 DEF OwedIsUnderWay
  <2>2. CASE \E e \in events : p \in {e, Parent(e)}
    BY <2>2 DEF Coming, Parent
  <2>3. CASE \E i \in DOMAIN reporting : reporting[i] = p
    BY <2>3 DEF Coming
  <2>4. CASE \E u \in Threads : WillBump(u, p)
    BY <2>4 DEF Coming
  <2> QED
    BY <2>1, <2>2, <2>3, <2>4 DEF Coming
<1> QED
  BY <1>1, <1>2

(* What the owner of a change that is begun does for the others.           *)
LEMMA MutatesWillBump ==
    ASSUME TypeOK, NEW t \in Threads, NEW ds, Mutates(t, ds)
    PROVE  /\ WillBump(t, SourceOf(ds[1]))'
           /\ \A u \in Threads : \A p : WillBump(u, p) => WillBump(u, p)'
<1>1. /\ pc[t] = "idle" /\ pc'[t] = "invalidate" /\ work'[t].source = SourceOf(ds[1])
      /\ \A u \in Threads \ {t} : pc'[u] = pc[u] /\ work'[u] = work[u]
  BY DEF TypeOK, Mutates, NoWork
<1> QED
  BY <1>1 DEF WillBump

LEMMA OwedIsUnderWayStep == Typed /\ OwedIsUnderWay /\ [Next]_vars => OwedIsUnderWay'
<1> SUFFICES ASSUME Typed, OwedIsUnderWay, [Next]_vars PROVE OwedIsUnderWay'
  OBVIOUS
<1>a. TypeOK
  BY DEF Typed
<1>2. ASSUME NEW t \in Threads, NEW d \in Dirs, NEW n \in Names, Mutate(t, d, n)
      PROVE  OwedIsUnderWay'
  <2>1. Mutates(t, <<d>>) /\ events \subseteq events' /\ unseen' = unseen
    BY <1>2 DEF Mutate
  <2>2. owed' = owed \cup {SourceOf(<<d>>[i]) : i \in DOMAIN <<d>>} /\ reporting' = reporting
    BY <2>1 DEF Mutates
  <2>3. \A i \in DOMAIN <<d>> : <<d>>[i] = d
    OBVIOUS
  <2>4. owed' \ owed \subseteq {SourceOf(d)}
    BY <2>2, <2>3
  <2>5. /\ WillBump(t, SourceOf(d))'
        /\ \A u \in Threads : \A p : WillBump(u, p) => WillBump(u, p)'
    BY <1>a, <2>1, MutatesWillBump
  <2>6. \A p \in owed' \ owed : Coming(p)'
    BY <2>4, <2>5 DEF Coming
  <2> QED
    BY <2>1, <2>2, <2>5, <2>6, StaysUnderWay
<1>3. ASSUME NEW t \in Threads, NEW d \in Plain, NEW e \in Plain,
             NEW n \in Names, NEW m \in Names, Rename(t, d, n, e, m)
      PROVE  OwedIsUnderWay'
  <2>1. PICK told \in SUBSET {<<d, n>>, <<e, m>>} :
          /\ events' = events \cup told
          /\ unseen' = IF d = e \/ <<e, m>> \in told THEN unseen ELSE unseen \cup {e}
    BY <1>3 DEF Rename
  <2>2. Mutates(t, <<d, e>>)
    BY <1>3 DEF Rename
  <2>3. owed' = owed \cup {SourceOf(<<d, e>>[i]) : i \in DOMAIN <<d, e>>} /\ reporting' = reporting
    BY <2>2 DEF Mutates
  <2>4. \A i \in DOMAIN <<d, e>> : <<d, e>>[i] \in {d, e}
    OBVIOUS
  <2>5. SourceOf(d) = d /\ SourceOf(e) = e
    BY ResolutionCacheAssumption DEF SourceOf
  <2>6. owed' \ owed \subseteq {d, e}
    BY <2>3, <2>4, <2>5
  <2>7. /\ WillBump(t, d)'
        /\ \A u \in Threads : \A p : WillBump(u, p) => WillBump(u, p)'
    BY <1>a, <2>2, <2>5, MutatesWillBump
  <2>8. Coming(d)'
    BY <2>7 DEF Coming
  <2>9. d = e \/ Coming(e)' \/ e \in unseen'
    <3>1. CASE <<e, m>> \in told
      BY <2>1, <3>1 DEF Coming, Parent
    <3>2. CASE <<e, m>> \notin told
      BY <2>1, <3>2
    <3> QED
      BY <3>1, <3>2
  <2>10. \A p \in owed' \ owed : Coming(p)' \/ p \in unseen'
    BY <2>6, <2>8, <2>9
  <2> QED
    BY <2>1, <2>3, <2>7, <2>10, StaysUnderWay
<1>4. ASSUME NEW d \in Dirs, NEW n \in Names, ExternalChange(d, n) PROVE OwedIsUnderWay'
  <2>1. SourceOf(d) \in {EventPath(d, n), Parent(EventPath(d, n))}
    BY SourceFacts
  <2>2. /\ events \subseteq events' /\ reporting' = reporting /\ unseen \subseteq unseen'
        /\ owed' = owed \cup {SourceOf(d)} /\ UNCHANGED <<pc, work>>
        /\ EventPath(d, n) \in events' \/ SourceOf(d) \in unseen'
    BY <1>4 DEF ExternalChange, requestvars
  <2>3. Coming(SourceOf(d))' \/ SourceOf(d) \in unseen'
    <3>1. CASE EventPath(d, n) \in events'
      <4>1. \E x \in events' : SourceOf(d) \in {x, Parent(x)}
        BY <2>1, <3>1
      <4> QED
        BY <4>1 DEF Coming, Parent, SourceOf
    <3> QED
      BY <2>2, <3>1
  <2> QED
    BY <2>2, <2>3, StaysUnderWay DEF WillBump
<1>5. ASSUME NEW q \in Files, OnChange(q) PROVE OwedIsUnderWay'
  <2>1. /\ UNCHANGED <<pc, work, owed, unseen>> /\ reporting = << >>
        /\ events' = events \ {q} /\ reporting' = <<q, Parent(q)>>
    BY <1>5 DEF OnChange, requestvars
  <2>2. ASSUME NEW p \in owed PROVE Coming(p)' \/ p \in unseen'
    <3>1. Coming(p) \/ p \in unseen
      BY DEF OwedIsUnderWay
    <3>2. ASSUME NEW e \in events, p \in {e, Parent(e)} PROVE Coming(p)'
      <4>1. CASE e = q
        <5>1. 1 \in DOMAIN reporting' /\ 2 \in DOMAIN reporting'
              /\ reporting'[1] = q /\ reporting'[2] = Parent(q)
          BY <2>1
        <5> QED
          BY <3>2, <4>1, <5>1 DEF Coming
      <4>2. CASE e # q
        BY <2>1, <3>2, <4>2 DEF Coming, Parent
      <4> QED
        BY <4>1, <4>2
    <3>3. CASE \E u \in Threads : WillBump(u, p)
      BY <2>1, <3>3 DEF Coming, WillBump
    <3>4. ~\E i \in DOMAIN reporting : reporting[i] = p
      BY <2>1
    <3> QED
      BY <2>1, <3>1, <3>2, <3>3, <3>4 DEF Coming
  <2> QED
    BY <2>1, <2>2 DEF OwedIsUnderWay
<1>6. ASSUME BumpChanged PROVE OwedIsUnderWay'
  <2>1. reporting \in Seq(Paths) /\ reporting # << >> /\ reporting' = Tail(reporting)
    BY <1>a, <1>6 DEF TypeOK, BumpChanged
  <2>2. /\ owed' = owed \ {Head(reporting)} /\ unseen' = unseen \ {Head(reporting)}
        /\ UNCHANGED <<events, pc, work>>
    BY <1>6 DEF BumpChanged, Bumped, requestvars
  <2>3. ASSUME NEW p \in owed', NEW i \in DOMAIN reporting, reporting[i] = p
        PROVE  \E j \in DOMAIN reporting' : reporting'[j] = p
    <3>1. i \in 1 .. Len(reporting) /\ i # 1
      BY <2>1, <2>2, <2>3
    <3>2. i - 1 \in DOMAIN Tail(reporting) /\ Tail(reporting)[i - 1] = reporting[i]
      BY <2>1, <3>1
    <3> QED
      BY <2>1, <2>3, <3>2
  <2>4. ASSUME NEW p \in owed' PROVE Coming(p)' \/ p \in unseen'
    <3>1. Coming(p) \/ p \in unseen
      BY <2>2 DEF OwedIsUnderWay
    <3>2. CASE \E e \in events : p \in {e, Parent(e)}
      BY <2>2, <3>2 DEF Coming, Parent
    <3>3. CASE \E i \in DOMAIN reporting : reporting[i] = p
      BY <2>3, <3>3 DEF Coming
    <3>4. CASE \E u \in Threads : WillBump(u, p)
      BY <2>2, <3>4 DEF Coming, WillBump
    <3>5. CASE p \in unseen
      BY <2>2, <3>5
    <3> QED
      BY <3>1, <3>2, <3>3, <3>4, <3>5 DEF Coming
  <2> QED
    BY <2>4 DEF OwedIsUnderWay
<1>7. ASSUME NEW t \in Threads,
             Compute(t) \/ ComputeFails(t) \/ ReadGeneration(t) \/ Insert(t) \/ Invalidate(t)
      PROVE  OwedIsUnderWay'
  <2>1. UNCHANGED <<events, reporting, owed, unseen>>
    BY <1>7 DEF Compute, ComputeFails, ReadGeneration, Insert, Invalidate
  <2>2. \A u \in Threads \ {t} : pc'[u] = pc[u] /\ work'[u] = work[u]
    BY <1>a, <1>7 DEF TypeOK, Compute, ComputeFails, ReadGeneration, Insert, Invalidate
  <2>3. \A p : WillBump(t, p) => WillBump(t, p)'
    <3>1. CASE Invalidate(t)
      <4>1. work' = [work EXCEPT ![t].dirs = Tail(work[t].dirs)] /\ work[t] \in Work
        BY <1>a, <3>1 DEF TypeOK, Invalidate
      <4>2. work'[t].source = work[t].source
        BY <1>a, <4>1 DEF TypeOK, Work
      <4>3. pc'[t] \in {"invalidate", "bump"}
        BY <1>a, <3>1 DEF TypeOK, Invalidate
      <4> QED
        BY <4>2, <4>3 DEF WillBump
    <3>2. CASE ~Invalidate(t)
      BY <1>7, <3>2 DEF WillBump, Compute, ComputeFails, ReadGeneration, Insert
    <3> QED
      BY <3>1, <3>2
  <2>4. \A u \in Threads : \A p : WillBump(u, p) => WillBump(u, p)'
    BY <2>2, <2>3 DEF WillBump
  <2> QED
    BY <2>1, <2>4, StaysUnderWay
<1>8. ASSUME NEW t \in Threads, NEW k \in Resolved, Miss(t, k) PROVE OwedIsUnderWay'
  <2>1. UNCHANGED <<events, reporting, owed, unseen>> /\ pc[t] = "idle"
    BY <1>8 DEF Miss
  <2>2. \A u \in Threads \ {t} : pc'[u] = pc[u] /\ work'[u] = work[u]
    BY <1>a, <1>8 DEF TypeOK, Miss
  <2>3. \A u \in Threads : \A p : WillBump(u, p) => WillBump(u, p)'
    BY <2>1, <2>2 DEF WillBump
  <2> QED
    BY <2>1, <2>3, StaysUnderWay
<1>9. ASSUME NEW t \in Threads, Bump(t) PROVE OwedIsUnderWay'
  <2>1. /\ UNCHANGED <<events, reporting>>
        /\ owed' = owed \ {work[t].source} /\ unseen' = unseen \ {work[t].source}
    BY <1>9 DEF Bump, Bumped
  <2>2. \A u \in Threads \ {t} : pc'[u] = pc[u] /\ work'[u] = work[u]
    BY <1>a, <1>9 DEF TypeOK, Bump
  <2>3. \A u \in Threads, p \in owed' : WillBump(u, p) => WillBump(u, p)'
    BY <2>1, <2>2 DEF WillBump
  <2> QED
    BY <2>1, <2>3, StaysUnderWay
<1>10. ASSUME UNCHANGED vars PROVE OwedIsUnderWay'
  BY <1>10, StaysUnderWay DEF vars, requestvars, WillBump
<1> QED
  BY <1>2, <1>3, <1>4, <1>5, <1>6, <1>7, <1>8, <1>9, <1>10 DEF Next, Begin, Proceed, Watcher

(* Every change of a directory that no generation shows yet, a rename's    *)
(* target included, has a bump on its way: its request's own, or that of   *)
(* the event it raised.  Only a change that raised none may be forgotten.  *)
THEOREM OwedStaysUnderWay == Spec => []OwedIsUnderWay
<1>1. Init => OwedIsUnderWay
  BY DEF Init, OwedIsUnderWay
<1> QED
  BY <1>1, TypedInit, TypedStep, OwedIsUnderWayStep, PTL DEF Spec

-----------------------------------------------------------------------------
(* The watcher: what becomes of a change that is due.                      *)
Events == [path : SourcePaths, kind : Kinds, age : 0 .. EventLatency]
Flying == Range(raised)
Brings(e, p) == e.path = p /\ e.kind # "metadata"
EventComing(p) == \E e \in Flying : Brings(e, p)
Recorded(w, p) == stage[w] = "recorded" /\ target[w] = p
Storing(p) == \E w \in Writers : stage[w] \in {"truncated", "written"} /\ target[w] = p

(* Its event is on the way, or its path in the batch, or a write of the    *)
(* path has taken its announcement over.                                   *)
Arriving(p) == \E e \in Flying : Brings(e, p) /\ due[p] <= e.age
Batched(p) == p \in pending /\ due[p] + batch_deadline <= EventLatency + MAX_BATCH_DELAY
TakenOver(p) ==
    \E w \in Writers : Recorded(w, p) /\ due[p] + WriteLatency <= AnnounceLimit + spent[w]
OnItsWay == \A p \in DOMAIN due \ masked : Arriving(p) \/ Batched(p) \/ TakenOver(p)
EntriesHeld == \A p \in DOMAIN due \ masked : p \in Live => \E w \in Writers : Recorded(w, p)

(* What becomes of an inline write that met no other change: unless the    *)
(* batch is cut by its deadline, the window stays open until its events    *)
(* have come and its entry is made; and the entry is there until then.     *)
Cut == timeout = batch_deadline
WindowHeld ==
    Cut \/ \A p \in alone \cap pending :
        /\ \A e \in Flying : Brings(e, p) => timeout + e.age + WriteLatency >= DEBOUNCE_TIMEOUT
        /\ \A w \in Writers : stage[w] # "idle" /\ target[w] = p
              => timeout + spent[w] >= DEBOUNCE_TIMEOUT
EntryThere ==
    \A p \in alone : p \in pending \/ EventComing(p) =>
        \/ Storing(p)
        \/ /\ p \in DOMAIN inline_writes
           /\ p \in pending => inline_writes[p] + batch_deadline <= EventLatency + MAX_BATCH_DELAY
           /\ \A e \in Flying : Brings(e, p) => inline_writes[p] <= e.age

WatcherInv == WatcherTypeOK /\ OnItsWay /\ EntriesHeld /\ WindowHeld /\ EntryThere

LEMMA Limits ==
    /\ DEBOUNCE_TIMEOUT \in Nat /\ MAX_BATCH_DELAY \in Nat /\ INLINE_WRITE_SUPPRESSION_TTL \in Nat
    /\ EventLatency \in Nat /\ WriteLatency \in Nat /\ MaxChanged \in Nat /\ AnnounceLimit \in Nat
    /\ AnnounceLimit = EventLatency + MAX_BATCH_DELAY + WriteLatency
    /\ WriteLatency + EventLatency < DEBOUNCE_TIMEOUT /\ DEBOUNCE_TIMEOUT < MAX_BATCH_DELAY
    /\ MAX_BATCH_DELAY + EventLatency < INLINE_WRITE_SUPPRESSION_TTL
BY WatcherAssumption DEF AnnounceLimit

(* A table of ages.                                                        *)
Ages(cap) == UNION {[S -> 0 .. cap] : S \in SUBSET SourcePaths}
LEMMA AgesAre ==
    ASSUME NEW cap \in Nat
    PROVE  /\ \A f \in Ages(cap) : DOMAIN f \subseteq SourcePaths /\ \A p \in DOMAIN f : f[p] \in 0 .. cap
           /\ \A S \in SUBSET SourcePaths : \A f \in [S -> 0 .. cap] : f \in Ages(cap)
BY DEF Ages

LEMMA SmallerOf ==
    /\ \A a, b \in Nat : Min({a, b}) \in {a, b} /\ Min({a, b}) <= a /\ Min({a, b}) <= b
    /\ \A age, cap \in Nat : Older(age, cap) \in 0 .. cap /\ Older(age, cap) <= age + 1
<1>1. ASSUME NEW a \in Nat, NEW b \in Nat PROVE Min({a, b}) \in {a, b} /\ Min({a, b}) <= a /\ Min({a, b}) <= b
  <2>1. \E x \in {a, b} : \A y \in {a, b} : x =< y
    OBVIOUS
  <2> QED
    BY <2>1 DEF Min
<1> QED
  BY <1>1 DEF Older

LEMMA WatcherTypes ==
    ASSUME WatcherTypeOK
    PROVE  /\ Flying \subseteq Events /\ raised \in Seq(Events)
           /\ timeout \in Nat /\ batch_deadline \in Nat /\ timeout <= batch_deadline
           /\ batch_deadline <= MAX_BATCH_DELAY
           /\ inline_writes \in Ages(INLINE_WRITE_SUPPRESSION_TTL) /\ due \in Ages(AnnounceLimit + 1)
           /\ \A p \in DOMAIN inline_writes : inline_writes[p] \in Nat
           /\ \A p \in DOMAIN due : due[p] \in Nat
           /\ \A w \in Writers : spent[w] \in Nat /\ spent[w] <= WriteLatency /\ target[w] \in SourcePaths
           /\ \A e \in Flying : e.age \in Nat /\ e.age <= EventLatency
<1>1. raised \in Seq(Events) /\ inline_writes \in Ages(INLINE_WRITE_SUPPRESSION_TTL)
      /\ due \in Ages(AnnounceLimit + 1)
  BY DEF WatcherTypeOK, Events, Ages
<1>2. Flying \subseteq Events
  BY <1>1, ElementOfSeq, LenProperties DEF Flying, Range
<1>3. /\ \A p \in DOMAIN inline_writes : inline_writes[p] \in Nat
      /\ \A p \in DOMAIN due : due[p] \in Nat
  BY <1>1, Limits, AgesAre
<1>4. \A e \in Flying : e.age \in Nat /\ e.age <= EventLatency
  BY <1>2, Limits DEF Events
<1>5. /\ timeout \in Nat /\ batch_deadline \in Nat /\ timeout <= batch_deadline
      /\ batch_deadline <= MAX_BATCH_DELAY
      /\ \A w \in Writers : spent[w] \in Nat /\ spent[w] <= WriteLatency /\ target[w] \in SourcePaths
  BY Limits DEF WatcherTypeOK
<1> QED
  BY <1>1, <1>2, <1>3, <1>4, <1>5

LEMMA WatcherTypesKept ==
    ASSUME raised' \in Seq(Events), pending' \subseteq SourcePaths,
           timeout' \in 0 .. DEBOUNCE_TIMEOUT, batch_deadline' \in 0 .. MAX_BATCH_DELAY,
           timeout' <= batch_deadline', pending' = {} => batch_deadline' = 0,
           inline_writes' \in Ages(INLINE_WRITE_SUPPRESSION_TTL),
           stage' \in [Writers -> {"idle", "truncated", "written", "recorded"}],
           target' \in [Writers -> SourcePaths], spent' \in [Writers -> 0 .. WriteLatency],
           folder' \in {"absent", "made", "watched"}, changed' \in 0 .. MaxChanged,
           due' \in Ages(AnnounceLimit + 1), masked' \subseteq DOMAIN due', alone' \subseteq SourcePaths
    PROVE  WatcherTypeOK'
BY DEF WatcherTypeOK, Events, Ages

(* The events on their way.                                                *)
JustRaised(p, kind) == [path |-> p, kind |-> kind, age |-> 0]
LEMMA RaiseFacts ==
    ASSUME WatcherTypeOK, NEW p \in SourcePaths, NEW kind \in Kinds, Raise(p, kind)
    PROVE  /\ raised' \in Seq(Events) /\ JustRaised(p, kind) \in Events
           /\ Flying' = IF Watched(p) THEN Flying \cup {JustRaised(p, kind)} ELSE Flying
<1>1. raised \in Seq(Events) /\ JustRaised(p, kind) \in Events
  BY WatcherTypes, Limits DEF JustRaised, Events
<1>2. CASE Watched(p)
  <2> DEFINE e == JustRaised(p, kind)
  <2>1. raised' = Append(raised, e)
    BY <1>2 DEF Raise, JustRaised
  <2> HIDE DEF e
  <2>2. /\ raised' \in Seq(Events) /\ Len(raised') = Len(raised) + 1 /\ Len(raised) \in Nat
        /\ DOMAIN raised = 1 .. Len(raised) /\ DOMAIN raised' = 1 .. (Len(raised) + 1)
        /\ \A i \in DOMAIN raised : raised'[i] = raised[i]
        /\ raised'[Len(raised) + 1] = e
    BY <1>1, <2>1 DEF e
  <2>3. Flying' = Flying \cup {e}
    BY <2>2 DEF Flying, Range
  <2> QED
    BY <1>1, <1>2, <2>2, <2>3 DEF e
<1>3. CASE ~Watched(p)
  BY <1>1, <1>3 DEF Raise, Flying
<1> QED
  BY <1>2, <1>3

LEMMA HeadTaken ==
    ASSUME WatcherTypeOK, raised # << >>, raised' = Tail(raised)
    PROVE  /\ raised' \in Seq(Events) /\ Head(raised) \in Flying
           /\ Flying' \subseteq Flying /\ Flying \subseteq Flying' \cup {Head(raised)}
<1>1. raised \in Seq(Events)
  BY WatcherTypes
<1>2. /\ raised' \in Seq(Events) /\ Len(raised) \in Nat \ {0} /\ Len(raised') = Len(raised) - 1
      /\ DOMAIN raised = 1 .. Len(raised) /\ DOMAIN raised' = 1 .. (Len(raised) - 1)
      /\ \A i \in DOMAIN raised' : raised'[i] = raised[i + 1]
      /\ Head(raised) = raised[1]
  BY <1>1
<1>3. ASSUME NEW i \in DOMAIN raised PROVE raised[i] \in Flying' \cup {Head(raised)}
  <2>1. CASE i = 1
    BY <1>2, <2>1
  <2>2. CASE i # 1
    <3>1. i - 1 \in DOMAIN raised' /\ raised'[i - 1] = raised[i]
      BY <1>2, <2>2
    <3> QED
      BY <3>1 DEF Flying, Range
  <2> QED
    BY <2>1, <2>2
<1>4. ASSUME NEW i \in DOMAIN raised' PROVE raised'[i] \in Flying
  <2>1. i + 1 \in DOMAIN raised
    BY <1>2
  <2> QED
    BY <1>2, <2>1 DEF Flying, Range
<1> QED
  BY <1>2, <1>3, <1>4 DEF Flying, Range

Aged(e) == [e EXCEPT !.age = @ + 1]
LEMMA EventsAge ==
    ASSUME WatcherTypeOK, \A i \in DOMAIN raised : raised[i].age < EventLatency,
           raised' = [i \in DOMAIN raised |-> Aged(raised[i])]
    PROVE  /\ raised' \in Seq(Events) /\ Flying' = {Aged(e) : e \in Flying}
           /\ \A e \in Flying : Aged(e).path = e.path /\ Aged(e).kind = e.kind /\ Aged(e).age = e.age + 1
<1>1. raised \in Seq(Events) /\ Flying \subseteq Events
  BY WatcherTypes
<1>2. \A e \in Events : Aged(e).path = e.path /\ Aged(e).kind = e.kind /\ Aged(e).age = e.age + 1
  BY DEF Events, Aged
<1>3. \A e \in Events : e.age < EventLatency => Aged(e) \in Events
  BY Limits DEF Events, Aged
<1>4. \A i \in DOMAIN raised : raised[i] \in Events /\ Aged(raised[i]) \in Events
  BY <1>1, <1>3
<1>5. raised' \in Seq(Events)
  <2>1. Len(raised) \in Nat /\ DOMAIN raised = 1 .. Len(raised)
    BY <1>1
  <2>2. raised' \in [1 .. Len(raised) -> Events]
    BY <1>4, <2>1
  <2>3. [1 .. Len(raised) -> Events] \in {[1 .. m -> Events] : m \in Nat}
    BY <2>1
  <2> QED
    BY <2>2, <2>3, SeqDef
<1>6. Flying' = {Aged(e) : e \in Flying}
  BY DEF Flying, Range
<1> QED
  BY <1>1, <1>2, <1>5, <1>6

LEMMA WatcherInitially == ASSUME WatcherInit PROVE WatcherInv
<1>1. DOMAIN due = {} /\ Flying = {} /\ alone = {} /\ pending = {} /\ timeout = batch_deadline
  BY DEF WatcherInit, Flying, Range
<1>2. OnItsWay /\ EntriesHeld /\ WindowHeld /\ EntryThere
  BY <1>1 DEF OnItsWay, EntriesHeld, WindowHeld, EntryThere, Cut
<1>3. WatcherTypeOK
  <2>1. << >> \in Ages(INLINE_WRITE_SUPPRESSION_TTL) /\ << >> \in Ages(AnnounceLimit + 1)
    <3>1. \A cap : << >> \in [{} -> 0 .. cap] /\ {} \in SUBSET SourcePaths
      OBVIOUS
    <3> QED
      BY <3>1 DEF Ages
  <2>2. << >> \in Seq(Events)
    OBVIOUS
  <2>3. Folder \in SourcePaths /\ 0 \in 0 .. WriteLatency /\ 0 \in 0 .. DEBOUNCE_TIMEOUT
        /\ 0 \in 0 .. MAX_BATCH_DELAY /\ 0 \in 0 .. MaxChanged
    BY WatcherAssumption, Limits
  <2>4. /\ stage \in [Writers -> {"idle", "truncated", "written", "recorded"}]
        /\ target \in [Writers -> SourcePaths] /\ spent \in [Writers -> 0 .. WriteLatency]
        /\ timeout <= batch_deadline /\ (pending = {} => batch_deadline = 0)
    BY <2>3 DEF WatcherInit
  <2>5. raised \in Seq(Events) /\ inline_writes \in Ages(INLINE_WRITE_SUPPRESSION_TTL)
        /\ due \in Ages(AnnounceLimit + 1)
    BY <2>1, <2>2 DEF WatcherInit
  <2> QED
    BY <2>3, <2>4, <2>5 DEF WatcherInit, WatcherTypeOK, Events, Ages
<1> QED
  BY <1>2, <1>3 DEF WatcherInv

(* A change from outside the mount.                                        *)
LEMMA OutsideChangeKeeps ==
    ASSUME WatcherInv, NEW p \in SourcePaths, NEW kind \in {"modify", "folder"},
           Raise(p, kind), Owe(p), Change, folder' \in {"absent", "made", "watched"},
           UNCHANGED <<watchvars, inline_writes, writevars>>
    PROVE  WatcherInv'
<1> DEFINE e == JustRaised(p, kind)
           again == ~Watched(p) \/ p \in DOMAIN due \ masked \/ (p \in masked /\ p \in Live)
           now == [q \in DOMAIN due \cup {p} |-> IF q = p THEN 0 ELSE due[q]]
<1>0. WatcherTypeOK /\ kind \in Kinds
  BY DEF WatcherInv, Kinds
<1>1. /\ raised' \in Seq(Events) /\ Flying' = IF Watched(p) THEN Flying \cup {e} ELSE Flying
      /\ e.age = 0 /\ Brings(e, p) /\ \A q : Brings(e, q) => q = p
  BY <1>0, RaiseFacts DEF JustRaised, Brings
<1>2. /\ due' = IF again THEN due ELSE now
      /\ masked' = IF ~Watched(p) \/ p \in DOMAIN due \ masked THEN masked
                   ELSE IF p \in Live THEN masked \cup {p} ELSE masked \ {p}
      /\ alone' = alone \ {p}
  BY DEF Owe
<1>3. UNCHANGED <<pending, timeout, batch_deadline, inline_writes, stage, target, spent>> /\ Live' = Live
  BY DEF watchvars, writevars, Live
<1>4. WatcherTypeOK'
  <2>1. now \in Ages(AnnounceLimit + 1)
    <3>1. due \in Ages(AnnounceLimit + 1) /\ AnnounceLimit + 1 \in Nat
      BY <1>0, WatcherTypes, Limits
    <3>2. DOMAIN due \cup {p} \in SUBSET SourcePaths /\ \A q \in DOMAIN due : due[q] \in 0 .. AnnounceLimit + 1
      BY <3>1, AgesAre
    <3>3. now \in [DOMAIN due \cup {p} -> 0 .. AnnounceLimit + 1]
      BY <3>1, <3>2
    <3> HIDE DEF now
    <3> QED
      BY <3>1, <3>2, <3>3, AgesAre
  <2>2. DOMAIN now = DOMAIN due \cup {p}
    OBVIOUS
  <2> HIDE DEF now
  <2>3. due' \in Ages(AnnounceLimit + 1) /\ masked' \subseteq DOMAIN due' /\ alone' \subseteq SourcePaths
    BY <1>0, <1>2, <2>1, <2>2, WatcherTypes DEF WatcherTypeOK
  <2>4. changed' \in 0 .. MaxChanged
    BY <1>0, Limits DEF Change, WatcherTypeOK
  <2>5. inline_writes' \in Ages(INLINE_WRITE_SUPPRESSION_TTL)
    BY <1>0, <1>3, WatcherTypes
  <2> QED
    BY <1>0, <1>1, <1>3, <2>3, <2>4, <2>5, WatcherTypesKept DEF WatcherTypeOK
<1>5. \A q \in DOMAIN due' \ masked' :
          \/ q \in DOMAIN due \ masked /\ due'[q] = due[q]
          \/ q = p /\ due'[q] = 0 /\ e \in Flying' /\ p \notin Live
  BY <1>1, <1>2
<1> HIDE DEF e, again, now
<1>6. Flying \subseteq Flying' /\ Flying' \subseteq Flying \cup {e}
  BY <1>1
<1>7. OnItsWay'
  <2> SUFFICES ASSUME NEW q \in DOMAIN due' \ masked' PROVE (Arriving(q) \/ Batched(q) \/ TakenOver(q))'
    BY DEF OnItsWay
  <2>1. CASE q \in DOMAIN due \ masked /\ due'[q] = due[q]
    BY <1>3, <1>6, <2>1 DEF WatcherInv, OnItsWay, Arriving, Batched, TakenOver, Recorded
  <2>2. CASE q = p /\ due'[q] = 0 /\ e \in Flying'
    BY <1>1, <2>2 DEF Arriving
  <2> QED
    BY <1>5, <2>1, <2>2
<1>8. EntriesHeld'
  BY <1>3, <1>5 DEF WatcherInv, EntriesHeld, Recorded
<1>9. WindowHeld'
  BY <1>1, <1>2, <1>3, <1>6 DEF WatcherInv, WindowHeld, Cut
<1>10. EntryThere'
  BY <1>1, <1>2, <1>3, <1>6 DEF WatcherInv, EntryThere, EventComing, Storing
<1> QED
  BY <1>4, <1>7, <1>8, <1>9, <1>10 DEF WatcherInv

LEMMA SetMetadataKeeps ==
    ASSUME WatcherInv, NEW p \in SourcePaths, SetMetadata(p)
    PROVE  WatcherInv'
<1> DEFINE e == JustRaised(p, "metadata")
<1>0. WatcherTypeOK
  BY DEF WatcherInv
<1>1. /\ raised' \in Seq(Events) /\ Flying \subseteq Flying' /\ Flying' \subseteq Flying \cup {e}
      /\ \A q : ~Brings(e, q)
  BY <1>0, RaiseFacts DEF SetMetadata, JustRaised, Brings, Kinds
<1> HIDE DEF e
<1>2. UNCHANGED <<pending, timeout, batch_deadline, inline_writes, stage, target, spent, folder, due, masked, alone>>
      /\ Live' = Live
  BY DEF SetMetadata, watchvars, writevars, history, Live
<1>3. WatcherTypeOK'
  <2>1. changed' \in 0 .. MaxChanged
    BY <1>0, Limits DEF SetMetadata, Change, WatcherTypeOK
  <2>2. inline_writes' \in Ages(INLINE_WRITE_SUPPRESSION_TTL) /\ due' \in Ages(AnnounceLimit + 1)
    BY <1>0, <1>2, WatcherTypes
  <2> QED
    BY <1>0, <1>1, <1>2, <2>1, <2>2, WatcherTypesKept DEF WatcherTypeOK
<1>4. OnItsWay' /\ EntriesHeld'
  BY <1>1, <1>2 DEF WatcherInv, OnItsWay, EntriesHeld, Arriving, Batched, TakenOver, Recorded
<1>5. WindowHeld' /\ EntryThere'
  BY <1>1, <1>2 DEF WatcherInv, WindowHeld, Cut, EntryThere, EventComing, Storing
<1> QED
  BY <1>3, <1>4, <1>5 DEF WatcherInv

-----------------------------------------------------------------------------
(* A write through the mount.                                              *)
LEMMA BeginWriteKeeps ==
    ASSUME WatcherInv, NEW w \in Writers, NEW p \in SourcePaths, BeginWrite(w, p)
    PROVE  WatcherInv'
<1> DEFINE e == JustRaised(p, "modify")
<1>0. WatcherTypeOK
  BY DEF WatcherInv
<1>1. /\ raised' \in Seq(Events) /\ Flying \subseteq Flying' /\ Flying' \subseteq Flying \cup {e}
      /\ \A q : Brings(e, q) => q = p
  BY <1>0, RaiseFacts DEF BeginWrite, JustRaised, Brings, Kinds
<1>2. /\ stage[w] = "idle" /\ \E s \in {"truncated", "written"} : stage' = [stage EXCEPT ![w] = s]
      /\ target' = [target EXCEPT ![w] = p] /\ spent' = [spent EXCEPT ![w] = 0]
      /\ UNCHANGED <<pending, timeout, batch_deadline, inline_writes, folder, due, masked>>
      /\ Live' = Live
  BY DEF BeginWrite, watchvars, Live
<1>3. /\ alone' \subseteq alone \cup {p}
      /\ p \in alone' => p \notin pending /\ \A i \in DOMAIN raised : raised[i].path # p
  BY DEF BeginWrite
<1>4. p \in alone' => p \notin pending /\ \A x \in Flying : ~Brings(x, p)
  BY <1>3 DEF Flying, Range, Brings
<1>5. /\ stage'[w] \in {"truncated", "written"} /\ target'[w] = p /\ spent'[w] = 0
      /\ \A v \in Writers \ {w} : stage'[v] = stage[v] /\ target'[v] = target[v] /\ spent'[v] = spent[v]
      /\ stage' \in [Writers -> {"idle", "truncated", "written", "recorded"}]
      /\ target' \in [Writers -> SourcePaths] /\ spent' \in [Writers -> 0 .. WriteLatency]
  <2>1. /\ stage'[w] \in {"truncated", "written"} /\ \A v \in Writers \ {w} : stage'[v] = stage[v]
        /\ stage' \in [Writers -> {"idle", "truncated", "written", "recorded"}]
    BY <1>0, <1>2 DEF WatcherTypeOK
  <2>2. /\ target'[w] = p /\ \A v \in Writers \ {w} : target'[v] = target[v]
        /\ target' \in [Writers -> SourcePaths]
    BY <1>0, <1>2 DEF WatcherTypeOK
  <2>3. /\ spent'[w] = 0 /\ \A v \in Writers \ {w} : spent'[v] = spent[v]
        /\ spent' \in [Writers -> 0 .. WriteLatency]
    BY <1>0, <1>2, Limits DEF WatcherTypeOK
  <2> QED
    BY <2>1, <2>2, <2>3
<1> HIDE DEF e
<1>6. WatcherTypeOK'
  <2>1. changed' \in 0 .. MaxChanged /\ alone' \subseteq SourcePaths
    BY <1>0, <1>3, Limits DEF BeginWrite, Change, WatcherTypeOK
  <2>2. inline_writes' \in Ages(INLINE_WRITE_SUPPRESSION_TTL) /\ due' \in Ages(AnnounceLimit + 1)
    BY <1>0, <1>2, WatcherTypes
  <2> QED
    BY <1>0, <1>1, <1>2, <1>5, <2>1, <2>2, WatcherTypesKept DEF WatcherTypeOK
<1>7. \A q, v : v \in Writers /\ Recorded(v, q) => Recorded(v, q)' /\ spent'[v] = spent[v]
  BY <1>2, <1>5 DEF Recorded
<1>8. OnItsWay' /\ EntriesHeld'
  BY <1>1, <1>2, <1>7 DEF WatcherInv, OnItsWay, EntriesHeld, Arriving, Batched, TakenOver
<1>9. WindowHeld'
  BY <1>1, <1>2, <1>3, <1>4, <1>5 DEF WatcherInv, WindowHeld, Cut
<1>10. EntryThere'
  <2> SUFFICES ASSUME NEW q \in alone', (q \in pending \/ EventComing(q))', ~Storing(q)'
               PROVE  /\ q \in DOMAIN inline_writes
                      /\ q \in pending => inline_writes[q] + batch_deadline <= EventLatency + MAX_BATCH_DELAY
                      /\ \A x \in Flying' : Brings(x, q) => inline_writes[q] <= x.age
    BY <1>2 DEF EntryThere
  <2>1. q # p /\ q \in alone
    BY <1>3, <1>5 DEF Storing
  <2>2. ~Storing(q) /\ (q \in pending \/ EventComing(q))
    BY <1>1, <1>2, <1>5, <2>1 DEF Storing, EventComing
  <2> QED
    BY <1>1, <2>1, <2>2 DEF WatcherInv, EntryThere
<1> QED
  BY <1>6, <1>8, <1>9, <1>10 DEF WatcherInv

LEMMA EndWriteKeeps ==
    ASSUME WatcherInv, NEW w \in Writers, EndWrite(w)
    PROVE  WatcherInv'
<1> DEFINE p == target[w]
           e == JustRaised(p, "modify")
<1>0. WatcherTypeOK /\ p \in SourcePaths
  BY WatcherTypes DEF WatcherInv
<1>1. /\ raised' \in Seq(Events) /\ Flying \subseteq Flying' /\ Flying' \subseteq Flying \cup {e}
      /\ (\A q : Brings(e, q) => q = p) /\ e.age = 0
  BY <1>0, RaiseFacts DEF EndWrite, JustRaised, Brings, Kinds
<1>2. /\ stage[w] = "truncated" /\ stage' = [stage EXCEPT ![w] = "written"]
      /\ UNCHANGED <<pending, timeout, batch_deadline, inline_writes, target, spent, folder, changed, due, masked, alone>>
      /\ Live' = Live
  BY DEF EndWrite, watchvars, history, Live
<1>3. /\ stage'[w] = "written" /\ \A v \in Writers \ {w} : stage'[v] = stage[v]
      /\ stage' \in [Writers -> {"idle", "truncated", "written", "recorded"}]
  BY <1>0, <1>2 DEF WatcherTypeOK
<1> HIDE DEF e
<1>4. WatcherTypeOK'
  <2>1. inline_writes' \in Ages(INLINE_WRITE_SUPPRESSION_TTL) /\ due' \in Ages(AnnounceLimit + 1)
    BY <1>0, <1>2, WatcherTypes
  <2> QED
    BY <1>0, <1>1, <1>2, <1>3, <2>1, WatcherTypesKept DEF WatcherTypeOK
<1>5. /\ \A q, v : v \in Writers /\ Recorded(v, q) => Recorded(v, q)'
      /\ \A q : Storing(q)' <=> Storing(q)
  BY <1>2, <1>3 DEF Recorded, Storing
<1>6. OnItsWay' /\ EntriesHeld'
  BY <1>1, <1>2, <1>5 DEF WatcherInv, OnItsWay, EntriesHeld, Arriving, Batched, TakenOver
<1>7. WindowHeld'
  <2> SUFFICES ASSUME ~Cut, NEW q \in alone \cap pending
               PROVE  /\ \A x \in Flying' : Brings(x, q) => timeout + x.age + WriteLatency >= DEBOUNCE_TIMEOUT
                      /\ \A v \in Writers : stage'[v] # "idle" /\ target[v] = q
                            => timeout + spent[v] >= DEBOUNCE_TIMEOUT
    BY <1>2 DEF WindowHeld, Cut
  <2>1. /\ \A x \in Flying : Brings(x, q) => timeout + x.age + WriteLatency >= DEBOUNCE_TIMEOUT
        /\ \A v \in Writers : stage[v] # "idle" /\ target[v] = q => timeout + spent[v] >= DEBOUNCE_TIMEOUT
    BY DEF WatcherInv, WindowHeld
  <2>2. q = p => timeout + 0 + WriteLatency >= DEBOUNCE_TIMEOUT
    BY <1>0, <1>2, <2>1, WatcherTypes, Limits
  <2> QED
    BY <1>1, <1>2, <1>3, <2>1, <2>2
<1>8. EntryThere'
  <2>1. Storing(p)
    BY <1>2 DEF Storing
  <2> QED
    BY <1>1, <1>2, <1>5, <2>1 DEF WatcherInv, EntryThere, EventComing
<1> QED
  BY <1>4, <1>6, <1>7, <1>8 DEF WatcherInv

LEMMA RecordWriteKeeps ==
    ASSUME WatcherInv, NEW w \in Writers, RecordWrite(w)
    PROVE  WatcherInv'
<1> DEFINE p == target[w]
           now == [q \in DOMAIN inline_writes \cup {p} |-> IF q = p THEN 0 ELSE inline_writes[q]]
<1>0. WatcherTypeOK /\ p \in SourcePaths
  BY WatcherTypes DEF WatcherInv
<1>1. /\ stage[w] = "written" /\ stage' = [stage EXCEPT ![w] = "recorded"] /\ inline_writes' = now
      /\ UNCHANGED <<raised, pending, timeout, batch_deadline, target, spent, folder, changed, due, masked, alone>>
      /\ Flying' = Flying
  BY DEF RecordWrite, watchvars, history, Flying
<1>2. /\ stage'[w] = "recorded" /\ \A v \in Writers \ {w} : stage'[v] = stage[v]
      /\ stage' \in [Writers -> {"idle", "truncated", "written", "recorded"}]
  BY <1>0, <1>1 DEF WatcherTypeOK
<1>3. /\ DOMAIN inline_writes' = DOMAIN inline_writes \cup {p} /\ inline_writes'[p] = 0
      /\ \A q \in DOMAIN inline_writes \ {p} : inline_writes'[q] = inline_writes[q]
  BY <1>1
<1>4. \A q : q # p => (q \in Live' <=> q \in Live)
  BY <1>3 DEF Live
<1>5. WatcherTypeOK'
  <2>1. inline_writes \in Ages(INLINE_WRITE_SUPPRESSION_TTL) /\ INLINE_WRITE_SUPPRESSION_TTL \in Nat
        /\ due' \in Ages(AnnounceLimit + 1)
    BY <1>0, <1>1, WatcherTypes, Limits
  <2>2. DOMAIN inline_writes \cup {p} \in SUBSET SourcePaths
        /\ \A q \in DOMAIN inline_writes : inline_writes[q] \in 0 .. INLINE_WRITE_SUPPRESSION_TTL
    BY <1>0, <2>1, AgesAre
  <2>3. now \in [DOMAIN inline_writes \cup {p} -> 0 .. INLINE_WRITE_SUPPRESSION_TTL]
    BY <2>1, <2>2
  <2> HIDE DEF now
  <2>4. inline_writes' \in Ages(INLINE_WRITE_SUPPRESSION_TTL)
    BY <1>1, <2>1, <2>2, <2>3, AgesAre
  <2>5. raised' \in Seq(Events)
    BY <1>0, <1>1, WatcherTypes
  <2> QED
    BY <1>0, <1>1, <1>2, <2>1, <2>4, <2>5, WatcherTypesKept DEF WatcherTypeOK
<1> HIDE DEF now
<1>6. \A q, v : v \in Writers /\ Recorded(v, q) => Recorded(v, q)'
  BY <1>1, <1>2 DEF Recorded
<1>7. OnItsWay'
  BY <1>1, <1>6 DEF WatcherInv, OnItsWay, Arriving, Batched, TakenOver
<1>8. EntriesHeld'
  <2>1. Recorded(w, p)'
    BY <1>1, <1>2 DEF Recorded
  <2> QED
    BY <1>1, <1>4, <1>6, <2>1 DEF WatcherInv, EntriesHeld
<1>9. WindowHeld'
  BY <1>1, <1>2 DEF WatcherInv, WindowHeld, Cut
<1>10. EntryThere'
  <2> SUFFICES ASSUME NEW q \in alone, q \in pending \/ EventComing(q), ~Storing(q)'
               PROVE  /\ q \in DOMAIN inline_writes'
                      /\ q \in pending => inline_writes'[q] + batch_deadline <= EventLatency + MAX_BATCH_DELAY
                      /\ \A x \in Flying : Brings(x, q) => inline_writes'[q] <= x.age
    BY <1>1 DEF EntryThere, EventComing
  <2>1. CASE q = p
    BY <1>0, <1>3, <2>1, WatcherTypes, Limits
  <2>2. CASE q # p
    <3>1. ~Storing(q)
      BY <1>1, <1>2, <2>2 DEF Storing
    <3> QED
      BY <1>3, <2>2, <3>1 DEF WatcherInv, EntryThere
  <2> QED
    BY <2>1, <2>2
<1> QED
  BY <1>5, <1>7, <1>8, <1>9, <1>10 DEF WatcherInv

(* Paths are announced: their changes are no longer due.                   *)
LEMMA Announced ==
    ASSUME WatcherTypeOK, NEW ps, Announce(ps)
    PROVE  /\ due' \in Ages(AnnounceLimit + 1) /\ masked' \subseteq DOMAIN due'
           /\ \A q \in DOMAIN due' \ masked' : q \notin ps /\ q \in DOMAIN due \ masked /\ due'[q] = due[q]
<1>1. due \in Ages(AnnounceLimit + 1) /\ AnnounceLimit + 1 \in Nat
  <2>1. due \in Ages(AnnounceLimit + 1)
    BY WatcherTypes
  <2>2. AnnounceLimit + 1 \in Nat
    BY Limits
  <2> QED
    BY <2>1, <2>2
<1>2. DOMAIN due \ ps \in SUBSET SourcePaths /\ \A q \in DOMAIN due : due[q] \in 0 .. AnnounceLimit + 1
  BY <1>1, AgesAre
<1>3. due' = [q \in DOMAIN due \ ps |-> due[q]] /\ masked' = masked \ ps
  BY DEF Announce, Restrict
<1>4. due' \in Ages(AnnounceLimit + 1)
  <2>1. [q \in DOMAIN due \ ps |-> due[q]] \in [DOMAIN due \ ps -> 0 .. AnnounceLimit + 1]
    BY <1>2
  <2> QED
    BY <1>1, <1>2, <1>3, <2>1, AgesAre
<1> QED
  BY <1>3, <1>4 DEF WatcherTypeOK

LEMMA AnnounceWriteKeeps ==
    ASSUME WatcherInv, NEW w \in Writers, AnnounceWrite(w)
    PROVE  WatcherInv'
<1>0. WatcherTypeOK
  BY DEF WatcherInv
<1>1. /\ stage[w] = "recorded" /\ stage' = [stage EXCEPT ![w] = "idle"] /\ Announce({target[w]})
      /\ UNCHANGED <<raised, pending, timeout, batch_deadline, inline_writes, target, spent, folder, changed, alone>>
      /\ Flying' = Flying /\ Live' = Live
  BY DEF AnnounceWrite, watchvars, Flying, Live
<1>2. /\ stage'[w] = "idle" /\ \A v \in Writers \ {w} : stage'[v] = stage[v]
      /\ stage' \in [Writers -> {"idle", "truncated", "written", "recorded"}]
  BY <1>0, <1>1 DEF WatcherTypeOK
<1>3. /\ due' \in Ages(AnnounceLimit + 1) /\ masked' \subseteq DOMAIN due'
      /\ \A q \in DOMAIN due' \ masked' : q # target[w] /\ q \in DOMAIN due \ masked /\ due'[q] = due[q]
  BY <1>0, <1>1, Announced
<1>4. WatcherTypeOK'
  <2>1. raised' \in Seq(Events) /\ inline_writes' \in Ages(INLINE_WRITE_SUPPRESSION_TTL)
    BY <1>0, <1>1, WatcherTypes
  <2> QED
    BY <1>0, <1>1, <1>2, <1>3, <2>1, WatcherTypesKept DEF WatcherTypeOK
<1>5. \A q, v : q # target[w] /\ v \in Writers /\ Recorded(v, q) => Recorded(v, q)'
  BY <1>1, <1>2 DEF Recorded
<1>6. OnItsWay' /\ EntriesHeld'
  BY <1>1, <1>3, <1>5 DEF WatcherInv, OnItsWay, EntriesHeld, Arriving, Batched, TakenOver
<1>7. \A q : Storing(q) => Storing(q)'
  BY <1>1, <1>2 DEF Storing
<1>8. WindowHeld' /\ EntryThere'
  BY <1>1, <1>2, <1>7 DEF WatcherInv, WindowHeld, Cut, EntryThere, EventComing
<1> QED
  BY <1>4, <1>6, <1>8 DEF WatcherInv

-----------------------------------------------------------------------------
(* The watcher's thread takes an event or flushes the batch.               *)
LEMMA ReceiveKeeps ==
    ASSUME WatcherInv, Receive
    PROVE  WatcherInv'
<1> DEFINE h == Head(raised)
<1>0. WatcherTypeOK
  BY DEF WatcherInv
<1>1. /\ raised # << >> /\ (pending # {} => batch_deadline > 0) /\ raised' = Tail(raised)
      /\ pending' = IF h.kind # "metadata" THEN pending \cup {h.path} ELSE pending
      /\ folder' = IF h.kind = "folder" THEN "watched" ELSE folder
      /\ batch_deadline' = IF pending = {} /\ pending' # {} THEN MAX_BATCH_DELAY ELSE batch_deadline
      /\ timeout' = IF pending' = {} THEN 0 ELSE Wait(batch_deadline')
      /\ UNCHANGED <<inline_writes, stage, target, spent, changed, due, masked, alone>> /\ Live' = Live
  BY DEF Receive, process_raw_event, is_relevant_event, writevars, history, Live
<1>2. /\ raised' \in Seq(Events) /\ h \in Flying /\ Flying' \subseteq Flying /\ Flying \subseteq Flying' \cup {h}
  BY <1>0, <1>1, HeadTaken
<1>3. /\ h \in Events /\ h.path \in SourcePaths /\ h.age \in Nat /\ h.age <= EventLatency
      /\ \A q : Brings(h, q) <=> h.kind # "metadata" /\ q = h.path
  BY <1>0, <1>2, WatcherTypes DEF Events, Brings
<1> HIDE DEF h
<1>4. /\ pending \subseteq pending' /\ \A q : Brings(h, q) => q \in pending'
      /\ \A q \in pending' : q \in pending \/ Brings(h, q)
  BY <1>1, <1>3
<1>5. batch_deadline' \in Nat /\ batch_deadline' <= MAX_BATCH_DELAY
      /\ (pending # {} => batch_deadline' = batch_deadline)
      /\ (pending' = {} => batch_deadline' = batch_deadline)
  <2>1. batch_deadline \in Nat /\ batch_deadline <= MAX_BATCH_DELAY /\ MAX_BATCH_DELAY \in Nat
    BY <1>0, WatcherTypes, Limits
  <2>2. batch_deadline' = IF pending = {} /\ pending' # {} THEN MAX_BATCH_DELAY ELSE batch_deadline
    BY <1>1
  <2> QED
    BY <2>1, <2>2
<1>6. /\ timeout' \in 0 .. DEBOUNCE_TIMEOUT /\ timeout' <= batch_deadline'
      /\ pending' # {} => timeout' = batch_deadline' \/ timeout' = DEBOUNCE_TIMEOUT
  <2>1. timeout' = IF pending' = {} THEN 0 ELSE Min({DEBOUNCE_TIMEOUT, batch_deadline'})
    BY <1>1 DEF Wait
  <2> DEFINE least == Min({DEBOUNCE_TIMEOUT, batch_deadline'})
  <2>2. least \in {DEBOUNCE_TIMEOUT, batch_deadline'} /\ least <= DEBOUNCE_TIMEOUT /\ least <= batch_deadline'
    BY <1>5, Limits, SmallerOf
  <2>3. timeout' = IF pending' = {} THEN 0 ELSE least
    BY <2>1
  <2> HIDE DEF least
  <2> QED
    BY <1>5, <2>2, <2>3, Limits
<1>7. WatcherTypeOK'
  <2>1. inline_writes' \in Ages(INLINE_WRITE_SUPPRESSION_TTL) /\ due' \in Ages(AnnounceLimit + 1)
    BY <1>0, <1>1, WatcherTypes
  <2>2. pending' \subseteq SourcePaths /\ (pending' = {} => batch_deadline' = 0)
    BY <1>0, <1>1, <1>3, <1>4, <1>5 DEF WatcherTypeOK
  <2>3. folder' \in {"absent", "made", "watched"}
    BY <1>0, <1>1 DEF WatcherTypeOK
  <2>4. batch_deadline' \in 0 .. MAX_BATCH_DELAY
    BY <1>5, Limits
  <2> QED
    BY <1>0, <1>1, <1>2, <1>6, <2>1, <2>2, <2>3, <2>4, WatcherTypesKept DEF WatcherTypeOK
<1>8. OnItsWay'
  <2> SUFFICES ASSUME NEW q \in DOMAIN due \ masked PROVE (Arriving(q) \/ Batched(q) \/ TakenOver(q))'
    BY <1>1 DEF OnItsWay
  <2>1. CASE TakenOver(q)
    BY <1>1, <2>1 DEF TakenOver, Recorded
  <2>2. CASE Batched(q)
    <3>1. q \in pending /\ pending # {} /\ batch_deadline' = batch_deadline
      BY <1>5, <2>2 DEF Batched
    <3> QED
      BY <1>1, <1>4, <2>2, <3>1 DEF Batched
  <2>3. CASE Arriving(q)
    <3>1. PICK e \in Flying : Brings(e, q) /\ due[q] <= e.age
      BY <2>3 DEF Arriving
    <3>2. CASE e \in Flying'
      BY <1>1, <3>1, <3>2 DEF Arriving
    <3>3. CASE e = h
      <4>a. q \in pending' /\ due[q] <= h.age
        BY <1>4, <3>1, <3>3
      <4>b. due[q] \in Nat
        BY <1>0, WatcherTypes
      <4>1. q \in pending' /\ due[q] <= EventLatency /\ due[q] \in Nat
        BY <1>3, <4>a, <4>b, Limits
      <4>2. due' = due /\ due[q] + batch_deadline' <= EventLatency + MAX_BATCH_DELAY
        BY <1>1, <1>5, <4>1, Limits, SMTT(30)
      <4> QED
        BY <4>1, <4>2 DEF Batched
    <3> QED
      BY <1>2, <3>2, <3>3
  <2> QED
    BY <2>1, <2>2, <2>3 DEF WatcherInv, OnItsWay
<1>9. EntriesHeld'
  BY <1>1 DEF WatcherInv, EntriesHeld, Recorded
<1>10. WindowHeld'
  <2>1. CASE pending' = {}
    BY <2>1 DEF WindowHeld
  <2>2. CASE pending' # {} /\ timeout' = batch_deadline'
    BY <2>2 DEF WindowHeld, Cut
  <2>3. CASE timeout' = DEBOUNCE_TIMEOUT
    <3>1. \A x \in Flying' : x.age \in Nat
      BY <1>0, <1>2, WatcherTypes
    <3>2. \A v \in Writers : spent'[v] \in Nat
      BY <1>0, <1>1, WatcherTypes
    <3> QED
      BY <2>3, <3>1, <3>2, Limits DEF WindowHeld
  <2> QED
    BY <1>6, <2>1, <2>2, <2>3
<1>11. EntryThere'
  <2> SUFFICES ASSUME NEW q \in alone, q \in pending' \/ EventComing(q)', ~Storing(q)
               PROVE  /\ q \in DOMAIN inline_writes
                      /\ q \in pending' => inline_writes[q] + batch_deadline' <= EventLatency + MAX_BATCH_DELAY
                      /\ \A x \in Flying' : Brings(x, q) => inline_writes[q] <= x.age
    BY <1>1 DEF EntryThere, Storing
  <2>1. q \in pending \/ EventComing(q)
    BY <1>2, <1>4 DEF EventComing
  <2>2. /\ q \in DOMAIN inline_writes
        /\ q \in pending => inline_writes[q] + batch_deadline <= EventLatency + MAX_BATCH_DELAY
        /\ \A x \in Flying : Brings(x, q) => inline_writes[q] <= x.age
    BY <2>1 DEF WatcherInv, EntryThere
  <2>3. ASSUME q \in pending' PROVE inline_writes[q] + batch_deadline' <= EventLatency + MAX_BATCH_DELAY
    <3>1. CASE q \in pending
      <4>1. batch_deadline' = batch_deadline
        BY <1>5, <3>1
      <4> QED
        BY <2>2, <3>1, <4>1
    <3>2. CASE Brings(h, q)
      <4>1. inline_writes[q] <= EventLatency /\ inline_writes[q] \in Nat
        BY <1>0, <1>2, <1>3, <2>2, <3>2, WatcherTypes, Limits
      <4> QED
        BY <1>5, <4>1, Limits
    <3> QED
      BY <1>4, <2>3, <3>1, <3>2
  <2> QED
    BY <1>2, <2>2, <2>3
<1> QED
  BY <1>7, <1>8, <1>9, <1>10, <1>11 DEF WatcherInv

LEMMA FlushKeeps ==
    ASSUME WatcherInv, flush
    PROVE  WatcherInv'
<1>0. WatcherTypeOK
  BY DEF WatcherInv
<1>1. /\ pending # {} /\ (timeout = 0 \/ batch_deadline = 0)
      /\ Announce(pending \ Live)
      /\ inline_writes' = [q \in Live \ pending |-> inline_writes[q]]
      /\ pending' = {} /\ timeout' = 0 /\ batch_deadline' = 0
      /\ alone' = IF batch_deadline = 0 THEN alone \ pending ELSE alone
      /\ UNCHANGED <<raised, stage, target, spent, folder, changed>> /\ Flying' = Flying
  BY DEF flush, drain, Restrict, writevars, Flying
<1>2. /\ due' \in Ages(AnnounceLimit + 1) /\ masked' \subseteq DOMAIN due'
      /\ \A q \in DOMAIN due' \ masked' :
            q \notin pending \ Live /\ q \in DOMAIN due \ masked /\ due'[q] = due[q]
  BY <1>0, <1>1, Announced
<1>3. /\ DOMAIN inline_writes' = Live \ pending /\ Live' \subseteq Live
      /\ \A q \in Live \ pending : inline_writes'[q] = inline_writes[q]
  BY <1>1 DEF Live
<1>4. WatcherTypeOK'
  <2>1. inline_writes \in Ages(INLINE_WRITE_SUPPRESSION_TTL) /\ INLINE_WRITE_SUPPRESSION_TTL \in Nat
    BY <1>0, WatcherTypes, Limits
  <2>2. Live \ pending \in SUBSET SourcePaths
        /\ \A q \in Live \ pending : inline_writes[q] \in 0 .. INLINE_WRITE_SUPPRESSION_TTL
    BY <2>1, AgesAre DEF Live
  <2>3. inline_writes' \in [Live \ pending -> 0 .. INLINE_WRITE_SUPPRESSION_TTL]
    BY <1>1, <2>2
  <2>4. inline_writes' \in Ages(INLINE_WRITE_SUPPRESSION_TTL)
    BY <2>1, <2>2, <2>3, AgesAre
  <2>5. raised' \in Seq(Events) /\ alone' \subseteq SourcePaths
    BY <1>0, <1>1, WatcherTypes DEF WatcherTypeOK
  <2>6. /\ timeout' \in 0 .. DEBOUNCE_TIMEOUT /\ batch_deadline' \in 0 .. MAX_BATCH_DELAY
        /\ timeout' <= batch_deadline' /\ (pending' = {} => batch_deadline' = 0)
        /\ pending' \subseteq SourcePaths
    BY <1>1, Limits
  <2>7. /\ stage' \in [Writers -> {"idle", "truncated", "written", "recorded"}]
        /\ target' \in [Writers -> SourcePaths] /\ spent' \in [Writers -> 0 .. WriteLatency]
        /\ folder' \in {"absent", "made", "watched"} /\ changed' \in 0 .. MaxChanged
    BY <1>0, <1>1 DEF WatcherTypeOK
  <2> QED
    BY <1>2, <2>4, <2>5, <2>6, <2>7, WatcherTypesKept
<1>5. \A q, v : Recorded(v, q)' <=> Recorded(v, q)
  BY <1>1 DEF Recorded
<1>6. OnItsWay'
  <2> SUFFICES ASSUME NEW q \in DOMAIN due \ masked, q \notin pending \ Live, due'[q] = due[q]
               PROVE  (Arriving(q) \/ Batched(q) \/ TakenOver(q))'
    BY <1>2 DEF OnItsWay
  <2>1. CASE Arriving(q) \/ TakenOver(q)
    BY <1>1, <1>5, <2>1 DEF Arriving, TakenOver
  <2>2. CASE Batched(q)
    <3>1. PICK v \in Writers : Recorded(v, q)
      BY <2>2 DEF Batched, WatcherInv, EntriesHeld
    <3>2. due[q] + WriteLatency <= AnnounceLimit + spent[v]
      <4>1. due[q] + batch_deadline <= EventLatency + MAX_BATCH_DELAY
        BY <2>2 DEF Batched
      <4>2. due[q] \in Nat /\ batch_deadline \in Nat /\ spent[v] \in Nat
        BY <1>0, WatcherTypes
      <4> QED
        BY <4>1, <4>2, Limits
    <3> QED
      BY <1>1, <1>5, <3>1, <3>2 DEF TakenOver
  <2> QED
    BY <2>1, <2>2 DEF WatcherInv, OnItsWay
<1>7. EntriesHeld'
  BY <1>2, <1>3, <1>5 DEF WatcherInv, EntriesHeld
<1>8. WindowHeld'
  BY <1>1 DEF WindowHeld
<1>9. EntryThere'
  <2> SUFFICES ASSUME NEW q \in alone', NEW e \in Flying, Brings(e, q), ~Storing(q)
               PROVE  /\ q \in DOMAIN inline_writes'
                      /\ \A x \in Flying : Brings(x, q) => inline_writes'[q] <= x.age
    BY <1>1 DEF EntryThere, Storing, EventComing
  <2>1. q \notin pending
    <3> SUFFICES ASSUME q \in pending PROVE FALSE
      OBVIOUS
    <3>1. timeout = 0 /\ batch_deadline # 0 /\ q \in alone
      BY <1>1
    <3>2. timeout + e.age + WriteLatency >= DEBOUNCE_TIMEOUT
      BY <3>1 DEF WatcherInv, WindowHeld, Cut
    <3> QED
      BY <1>0, <3>1, <3>2, WatcherTypes, Limits
  <2>2. q \in alone /\ EventComing(q)
    BY <1>1 DEF EventComing
  <2>3. q \in DOMAIN inline_writes /\ \A x \in Flying : Brings(x, q) => inline_writes[q] <= x.age
    BY <2>2 DEF WatcherInv, EntryThere
  <2>4. q \in Live
    BY <1>0, <2>3, WatcherTypes, Limits DEF Live
  <2> QED
    BY <1>3, <2>1, <2>3, <2>4
<1> QED
  BY <1>4, <1>6, <1>7, <1>8, <1>9 DEF WatcherInv

LEMMA AgesPass ==
    ASSUME NEW f, NEW g, NEW cap \in Nat, \A q \in DOMAIN f : f[q] \in Nat,
           g = [q \in DOMAIN f |-> Older(f[q], cap)]
    PROVE  /\ DOMAIN g = DOMAIN f
           /\ \A q \in DOMAIN f : /\ g[q] <= f[q] + 1 /\ g[q] \in 0 .. cap
                                  /\ g[q] < cap => f[q] < cap
<1>1. ASSUME NEW q \in DOMAIN f
      PROVE  g[q] <= f[q] + 1 /\ g[q] \in 0 .. cap /\ (g[q] < cap => f[q] < cap)
  <2> DEFINE a == f[q]
  <2>1. a \in Nat /\ a + 1 \in Nat /\ g[q] = Older(a, cap)
    OBVIOUS
  <2> HIDE DEF a
  <2>2. Older(a, cap) \in 0 .. cap /\ Older(a, cap) <= a + 1
    BY <2>1, SmallerOf
  <2>3. Min({a + 1, cap}) \in {a + 1, cap}
    BY <2>1, SmallerOf
  <2>4. g[q] = a + 1 \/ g[q] = cap
    BY <2>1, <2>3 DEF Older
  <2>5. g[q] < cap => a < cap
    BY <2>1, <2>4
  <2> QED
    BY <2>1, <2>2, <2>5 DEF a
<1> QED
  BY <1>1

LEMMA TickKeeps ==
    ASSUME WatcherInv, Tick
    PROVE  WatcherInv'
<1>0. WatcherTypeOK
  BY DEF WatcherInv
<1>1. /\ \A i \in DOMAIN raised : raised[i].age < EventLatency
      /\ raised' = [i \in DOMAIN raised |-> Aged(raised[i])]
      /\ \A v \in Writers : stage[v] # "idle" => spent[v] < WriteLatency
      /\ pending # {} => timeout > 0
      /\ timeout' = Less(timeout) /\ batch_deadline' = Less(batch_deadline)
      /\ inline_writes' = [q \in DOMAIN inline_writes |-> Older(inline_writes[q], INLINE_WRITE_SUPPRESSION_TTL)]
      /\ spent' = [v \in Writers |-> IF stage[v] = "idle" THEN spent[v] ELSE spent[v] + 1]
      /\ due' = [q \in DOMAIN due |-> Older(due[q], AnnounceLimit + 1)]
      /\ UNCHANGED <<pending, stage, target, folder, changed, masked, alone>>
  BY DEF Tick, Aged
<1>2. /\ raised' \in Seq(Events) /\ Flying' = {Aged(e) : e \in Flying}
      /\ \A e \in Flying : Aged(e).path = e.path /\ Aged(e).kind = e.kind /\ Aged(e).age = e.age + 1
  BY <1>0, <1>1, EventsAge
<1>3. /\ \A e \in Flying : \A q : Aged(e) \in Flying' /\ Aged(e).age = e.age + 1 /\ (Brings(Aged(e), q) <=> Brings(e, q))
      /\ \A x \in Flying' : \E e \in Flying : x = Aged(e)
  BY <1>2 DEF Brings
<1>4. /\ timeout' \in Nat /\ batch_deadline' \in Nat /\ timeout' <= batch_deadline'
      /\ timeout' <= timeout /\ batch_deadline' <= batch_deadline
      /\ pending # {} => timeout' = timeout - 1 /\ batch_deadline' = batch_deadline - 1
  <2>1. timeout \in Nat /\ batch_deadline \in Nat /\ timeout <= batch_deadline
    BY <1>0, WatcherTypes
  <2>2. /\ timeout' = IF timeout = 0 THEN 0 ELSE timeout - 1
        /\ batch_deadline' = IF batch_deadline = 0 THEN 0 ELSE batch_deadline - 1
        /\ pending # {} => timeout > 0
    BY <1>1 DEF Less
  <2> QED
    BY <2>1, <2>2
<1>5. /\ DOMAIN inline_writes' = DOMAIN inline_writes /\ DOMAIN due' = DOMAIN due
      /\ \A q \in DOMAIN inline_writes :
            /\ inline_writes[q] \in Nat /\ inline_writes'[q] <= inline_writes[q] + 1
            /\ inline_writes'[q] \in 0 .. INLINE_WRITE_SUPPRESSION_TTL
            /\ inline_writes'[q] < INLINE_WRITE_SUPPRESSION_TTL
                  => inline_writes[q] < INLINE_WRITE_SUPPRESSION_TTL
      /\ \A q \in DOMAIN due :
            due[q] \in Nat /\ due'[q] <= due[q] + 1 /\ due'[q] \in 0 .. AnnounceLimit + 1
  <2>1. INLINE_WRITE_SUPPRESSION_TTL \in Nat /\ AnnounceLimit + 1 \in Nat
    BY Limits
  <2>2. (\A q \in DOMAIN inline_writes : inline_writes[q] \in Nat) /\ \A q \in DOMAIN due : due[q] \in Nat
    BY <1>0, WatcherTypes
  <2>3. /\ DOMAIN inline_writes' = DOMAIN inline_writes
        /\ \A q \in DOMAIN inline_writes :
              /\ inline_writes'[q] <= inline_writes[q] + 1
              /\ inline_writes'[q] \in 0 .. INLINE_WRITE_SUPPRESSION_TTL
              /\ inline_writes'[q] < INLINE_WRITE_SUPPRESSION_TTL
                    => inline_writes[q] < INLINE_WRITE_SUPPRESSION_TTL
    BY <1>1, <2>1, <2>2, AgesPass
  <2>4. /\ DOMAIN due' = DOMAIN due
        /\ \A q \in DOMAIN due : due'[q] <= due[q] + 1 /\ due'[q] \in 0 .. AnnounceLimit + 1
    BY <1>1, <2>1, <2>2, AgesPass
  <2> QED
    BY <2>2, <2>3, <2>4
<1>6. /\ \A v \in Writers : spent[v] \in Nat /\ (stage[v] # "idle" => spent'[v] = spent[v] + 1)
      /\ spent' \in [Writers -> 0 .. WriteLatency]
  <2>1. \A v \in Writers : spent[v] \in Nat /\ spent[v] <= WriteLatency
    BY <1>0, WatcherTypes
  <2> QED
    BY <1>1, <2>1, Limits
<1>7. Live' \subseteq Live
  BY <1>5 DEF Live
<1>8. WatcherTypeOK'
  <2>1. INLINE_WRITE_SUPPRESSION_TTL \in Nat /\ AnnounceLimit + 1 \in Nat
        /\ DOMAIN inline_writes \in SUBSET SourcePaths /\ DOMAIN due \in SUBSET SourcePaths
    BY <1>0, WatcherTypes, Limits, AgesAre
  <2>2. inline_writes' \in [DOMAIN inline_writes -> 0 .. INLINE_WRITE_SUPPRESSION_TTL]
        /\ due' \in [DOMAIN due -> 0 .. AnnounceLimit + 1]
    BY <1>1, <1>5
  <2>3. inline_writes' \in Ages(INLINE_WRITE_SUPPRESSION_TTL) /\ due' \in Ages(AnnounceLimit + 1)
    BY <2>1, <2>2, AgesAre
  <2>4. timeout' \in 0 .. DEBOUNCE_TIMEOUT /\ batch_deadline' \in 0 .. MAX_BATCH_DELAY
        /\ (pending = {} => batch_deadline' = 0)
    <3>1. timeout \in 0 .. DEBOUNCE_TIMEOUT /\ batch_deadline \in 0 .. MAX_BATCH_DELAY
          /\ (pending = {} => batch_deadline = 0)
      BY <1>0 DEF WatcherTypeOK
    <3> QED
      BY <1>4, <3>1, Limits
  <2>5. /\ pending' \subseteq SourcePaths /\ alone' \subseteq SourcePaths /\ masked' \subseteq DOMAIN due'
        /\ stage' \in [Writers -> {"idle", "truncated", "written", "recorded"}]
        /\ target' \in [Writers -> SourcePaths]
        /\ folder' \in {"absent", "made", "watched"} /\ changed' \in 0 .. MaxChanged
    BY <1>0, <1>1, <1>5 DEF WatcherTypeOK
  <2> QED
    BY <1>1, <1>2, <1>4, <1>6, <2>3, <2>4, <2>5, WatcherTypesKept
<1>9. /\ \A q, v : Recorded(v, q)' <=> Recorded(v, q)
      /\ \A q : Storing(q)' <=> Storing(q)
      /\ \A q : EventComing(q)' => EventComing(q)
  BY <1>1, <1>3 DEF Recorded, Storing, EventComing
<1>10. OnItsWay'
  <2> SUFFICES ASSUME NEW q \in DOMAIN due \ masked PROVE (Arriving(q) \/ Batched(q) \/ TakenOver(q))'
    BY <1>1, <1>5 DEF OnItsWay
  <2>0. due[q] \in Nat /\ due'[q] \in Nat /\ due'[q] <= due[q] + 1
    BY <1>5, Limits
  <2>1. CASE Arriving(q)
    <3>1. PICK e \in Flying : Brings(e, q) /\ due[q] <= e.age
      BY <2>1 DEF Arriving
    <3>2. e.age \in Nat
      BY <1>0, WatcherTypes
    <3>3. Aged(e) \in Flying' /\ Brings(Aged(e), q) /\ due'[q] <= Aged(e).age
      BY <1>3, <2>0, <3>1, <3>2
    <3> QED
      BY <3>3 DEF Arriving
  <2>2. CASE Batched(q)
    <3>1. batch_deadline' = batch_deadline - 1 /\ batch_deadline \in Nat
      BY <1>0, <1>4, <2>2, WatcherTypes DEF Batched
    <3>2. due[q] + batch_deadline <= EventLatency + MAX_BATCH_DELAY /\ q \in pending'
      BY <1>1, <2>2 DEF Batched
    <3>3. due'[q] + batch_deadline' <= EventLatency + MAX_BATCH_DELAY
      BY <1>4, <2>0, <3>1, <3>2, Limits
    <3> QED
      BY <3>2, <3>3 DEF Batched
  <2>3. CASE TakenOver(q)
    <3>1. PICK v \in Writers : Recorded(v, q) /\ due[q] + WriteLatency <= AnnounceLimit + spent[v]
      BY <2>3 DEF TakenOver
    <3>2. spent'[v] = spent[v] + 1 /\ spent[v] \in Nat
      BY <1>6, <3>1 DEF Recorded
    <3>3. due'[q] + WriteLatency <= AnnounceLimit + spent'[v]
      BY <2>0, <3>1, <3>2, Limits
    <3> QED
      BY <1>9, <3>1, <3>3 DEF TakenOver
  <2> QED
    BY <2>1, <2>2, <2>3 DEF WatcherInv, OnItsWay
<1>11. EntriesHeld'
  BY <1>1, <1>5, <1>7, <1>9 DEF WatcherInv, EntriesHeld
<1>12. WindowHeld'
  <2> SUFFICES ASSUME ~Cut', NEW q \in alone \cap pending
               PROVE  /\ \A x \in Flying' : Brings(x, q) => timeout' + x.age + WriteLatency >= DEBOUNCE_TIMEOUT
                      /\ \A v \in Writers : stage[v] # "idle" /\ target[v] = q
                            => timeout' + spent'[v] >= DEBOUNCE_TIMEOUT
    BY <1>1 DEF WindowHeld
  <2>1. timeout' = timeout - 1 /\ batch_deadline' = batch_deadline - 1 /\ timeout \in Nat /\ batch_deadline \in Nat
    BY <1>0, <1>4, WatcherTypes
  <2>2. ~Cut
    BY <2>1 DEF Cut
  <2>3. /\ \A e \in Flying : Brings(e, q) => timeout + e.age + WriteLatency >= DEBOUNCE_TIMEOUT
        /\ \A v \in Writers : stage[v] # "idle" /\ target[v] = q => timeout + spent[v] >= DEBOUNCE_TIMEOUT
    BY <2>2 DEF WatcherInv, WindowHeld
  <2>4. ASSUME NEW x \in Flying', Brings(x, q) PROVE timeout' + x.age + WriteLatency >= DEBOUNCE_TIMEOUT
    <3>1. PICK e \in Flying : x = Aged(e)
      BY <1>3
    <3>2. x.age = e.age + 1 /\ Brings(e, q) /\ e.age \in Nat
      BY <1>0, <1>3, <2>4, <3>1, WatcherTypes
    <3> QED
      BY <2>1, <2>3, <3>2, Limits
  <2>5. ASSUME NEW v \in Writers, stage[v] # "idle", target[v] = q PROVE timeout' + spent'[v] >= DEBOUNCE_TIMEOUT
    <3>1. spent'[v] = spent[v] + 1 /\ spent[v] \in Nat
      BY <1>6, <2>5
    <3> QED
      BY <2>1, <2>3, <2>5, <3>1, Limits
  <2> QED
    BY <2>4, <2>5
<1>13. EntryThere'
  <2> SUFFICES ASSUME NEW q \in alone, q \in pending \/ EventComing(q), ~Storing(q)
               PROVE  /\ q \in DOMAIN inline_writes
                      /\ q \in pending => inline_writes'[q] + batch_deadline' <= EventLatency + MAX_BATCH_DELAY
                      /\ \A x \in Flying' : Brings(x, q) => inline_writes'[q] <= x.age
    BY <1>1, <1>5, <1>9 DEF EntryThere
  <2>1. /\ q \in DOMAIN inline_writes
        /\ q \in pending => inline_writes[q] + batch_deadline <= EventLatency + MAX_BATCH_DELAY
        /\ \A e \in Flying : Brings(e, q) => inline_writes[q] <= e.age
    BY DEF WatcherInv, EntryThere
  <2>2. inline_writes[q] \in Nat /\ inline_writes'[q] \in Nat /\ inline_writes'[q] <= inline_writes[q] + 1
    BY <1>5, <2>1, Limits
  <2>3. ASSUME q \in pending PROVE inline_writes'[q] + batch_deadline' <= EventLatency + MAX_BATCH_DELAY
    <3>1. batch_deadline' = batch_deadline - 1 /\ batch_deadline \in Nat
      BY <1>0, <1>4, <2>3, WatcherTypes
    <3> QED
      BY <1>4, <2>1, <2>2, <2>3, <3>1, Limits
  <2>4. ASSUME NEW x \in Flying', Brings(x, q) PROVE inline_writes'[q] <= x.age
    <3>1. PICK e \in Flying : x = Aged(e)
      BY <1>3
    <3>2. x.age = e.age + 1 /\ Brings(e, q) /\ e.age \in Nat
      BY <1>0, <1>3, <2>4, <3>1, WatcherTypes
    <3> QED
      BY <2>1, <2>2, <3>2
  <2> QED
    BY <2>1, <2>3, <2>4
<1> QED
  BY <1>8, <1>10, <1>11, <1>12, <1>13 DEF WatcherInv

LEMMA WatcherKept == WatcherInv /\ [WatcherNext]_watcherVars => WatcherInv'
<1> SUFFICES ASSUME WatcherInv, [WatcherNext]_watcherVars PROVE WatcherInv'
  OBVIOUS
<1>1. ASSUME NEW p \in SourcePaths, ExternalWrite(p) PROVE WatcherInv'
  <2>1. folder' \in {"absent", "made", "watched"}
    BY <1>1 DEF ExternalWrite, WatcherInv, WatcherTypeOK
  <2> QED
    BY <1>1, <2>1, OutsideChangeKeeps DEF ExternalWrite
<1>2. CASE MakeFolder
  <2>1. Folder \in SourcePaths /\ folder' \in {"absent", "made", "watched"}
    BY <1>2, WatcherAssumption DEF MakeFolder
  <2> QED
    BY <1>2, <2>1, OutsideChangeKeeps DEF MakeFolder
<1>3. CASE UNCHANGED watcherVars
  <2>1. /\ UNCHANGED <<raised, pending, timeout, batch_deadline, inline_writes, stage, target, spent>>
        /\ UNCHANGED <<folder, changed, due, masked, alone>> /\ Flying' = Flying /\ Live' = Live
    BY <1>3 DEF watcherVars, watchvars, writevars, history, Flying, Live
  <2>2. WatcherTypeOK'
    BY <2>1 DEF WatcherInv, WatcherTypeOK
  <2>3. OnItsWay' /\ EntriesHeld'
    BY <2>1 DEF WatcherInv, OnItsWay, EntriesHeld, Arriving, Batched, TakenOver, Recorded
  <2>4. WindowHeld' /\ EntryThere'
    BY <2>1 DEF WatcherInv, WindowHeld, Cut, EntryThere, EventComing, Storing
  <2> QED
    BY <2>2, <2>3, <2>4 DEF WatcherInv
<1> QED
  BY <1>1, <1>2, <1>3, SetMetadataKeeps, BeginWriteKeeps, EndWriteKeeps, RecordWriteKeeps, AnnounceWriteKeeps,
     ReceiveKeeps, FlushKeeps, TickKeeps DEF WatcherNext

(* The watcher's variables keep their types.                               *)
THEOREM WatcherTypeCorrect == WatcherSpec => []WatcherTypeOK
<1>1. WatcherInv => WatcherTypeOK
  BY DEF WatcherInv
<1> QED
  BY WatcherInitially, WatcherKept, <1>1, PTL DEF WatcherSpec

(* A change from outside is announced within the event's delay, the        *)
(* longest batch and a write's time, unless it was made over a live entry  *)
(* of an inline write (EventLoop::step, drain_pending_with_suppression).   *)
THEOREM ChangesAnnouncedInTime == WatcherSpec => []AnnouncedInTime
<1>1. ASSUME WatcherInv PROVE AnnouncedInTime
  <2> SUFFICES ASSUME NEW p \in DOMAIN due \ masked PROVE due[p] <= AnnounceLimit
    BY DEF AnnouncedInTime
  <2>0. WatcherTypeOK /\ (Arriving(p) \/ Batched(p) \/ TakenOver(p))
    BY <1>1 DEF WatcherInv, OnItsWay
  <2>1. due[p] \in Nat /\ batch_deadline \in Nat
    BY <2>0, WatcherTypes
  <2>2. CASE Arriving(p)
    <3>1. PICK e \in Flying : due[p] <= e.age
      BY <2>2 DEF Arriving
    <3>2. e.age \in Nat /\ e.age <= EventLatency
      BY <2>0, WatcherTypes
    <3> QED
      BY <2>1, <3>1, <3>2, Limits
  <2>3. CASE Batched(p)
    BY <2>1, <2>3, Limits DEF Batched
  <2>4. CASE TakenOver(p)
    <3>1. PICK w \in Writers : due[p] + WriteLatency <= AnnounceLimit + spent[w]
      BY <2>4 DEF TakenOver
    <3>2. spent[w] \in Nat /\ spent[w] <= WriteLatency
      BY <2>0, WatcherTypes
    <3> QED
      BY <2>1, <3>1, <3>2, Limits
  <2> QED
    BY <2>0, <2>2, <2>3, <2>4
<1> QED
  BY WatcherInitially, WatcherKept, <1>1, PTL DEF WatcherSpec

(* When a batch ends quietly, an inline write that met no other change is  *)
(* recognised by its entry (notify_change, drain_pending_with_suppression) *)
(* and not announced a second time.                                        *)
THEOREM QuietBatchesKnowEchoes == WatcherSpec => []EchoesRecognised
<1>1. ASSUME WatcherInv PROVE EchoesRecognised
  <2> SUFFICES ASSUME timeout = 0, batch_deadline > 0, NEW p \in pending \cap alone PROVE p \in Live
    BY DEF EchoesRecognised
  <2>0. WatcherTypeOK /\ ~Cut /\ batch_deadline \in Nat
    BY <1>1, WatcherTypes DEF WatcherInv, Cut
  <2>1. ~Storing(p)
    <3> SUFFICES ASSUME NEW w \in Writers, stage[w] \in {"truncated", "written"}, target[w] = p PROVE FALSE
      BY DEF Storing
    <3>1. timeout + spent[w] >= DEBOUNCE_TIMEOUT
      BY <1>1, <2>0 DEF WatcherInv, WindowHeld
    <3>2. spent[w] \in Nat /\ spent[w] <= WriteLatency
      BY <2>0, WatcherTypes
    <3> QED
      BY <3>1, <3>2, Limits
  <2>2. p \in DOMAIN inline_writes /\ inline_writes[p] + batch_deadline <= EventLatency + MAX_BATCH_DELAY
    BY <1>1, <2>1 DEF WatcherInv, EntryThere
  <2>3. inline_writes[p] \in Nat
    BY <2>0, <2>2, WatcherTypes
  <2> QED
    BY <2>0, <2>2, <2>3, Limits DEF Live
<1> QED
  BY WatcherInitially, WatcherKept, <1>1, PTL DEF WatcherSpec
=============================================================================
