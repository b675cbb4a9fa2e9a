------------------------------ MODULE Watcher ------------------------------
(* The filesystem watcher (nyne/src/watcher/mod.rs) and the record of      *)
(* inline writes it shares with the FUSE handlers (notify_change,          *)
(* fuse/mod.rs).  A change made through the mount is announced twice: at   *)
(* once by its handler, and again when its fsnotify events come back; the  *)
(* watcher drops the second by the record.  A change made outside the      *)
(* mount has only the watcher to announce it.                              *)
(*                                                                         *)
(* Time is counted in ticks and kept as ages and remaining waits.  What    *)
(* "announced" does behind propagate_source_changes is ResolutionCache's   *)
(* subject; the queue to the kernel is not modelled.                       *)
EXTENDS Naturals, Sequences, FiniteSets, FiniteSetsExt, Functions

CONSTANTS
    Writers,            \* FUSE workers that write
    SourcePaths,        \* source paths, relative to the root
    Folder,             \* one of them, a directory that appears during the run
    InFolder,           \* those inside it
    DEBOUNCE_TIMEOUT,
    MAX_BATCH_DELAY,
    INLINE_WRITE_SUPPRESSION_TTL,
    EventLatency,       \* bound: from a change to its event's arrival
    WriteLatency,       \* bound: from a store write to the end of notify_change
    MaxChanged          \* bound: changes made in a run

ASSUME WatcherAssumption ==
    /\ Folder \in SourcePaths /\ InFolder \subseteq SourcePaths \ {Folder}
    /\ {DEBOUNCE_TIMEOUT, MAX_BATCH_DELAY, INLINE_WRITE_SUPPRESSION_TTL,
        EventLatency, WriteLatency, MaxChanged} \subseteq Nat
    /\ WriteLatency + EventLatency < DEBOUNCE_TIMEOUT
    /\ DEBOUNCE_TIMEOUT < MAX_BATCH_DELAY
    /\ MAX_BATCH_DELAY + EventLatency < INLINE_WRITE_SUPPRESSION_TTL

VARIABLES
    raised,         \* fsnotify events on their way to `rx', oldest first
    pending,        \* EventLoop: the batch
    timeout,        \* ticks until recv_timeout gives up
    batch_deadline, \* ticks until the batch may wait no longer
    inline_writes,  \* path -> the age of its entry
    stage, target,  \* each writer: where it is, and the path it writes
    spent,          \* ticks since it began
    folder,         \* the directory: "absent", "made" or "watched"
    changed,        \* changes made so far
    due,            \* history: path -> age of its oldest unannounced change
    masked,         \* history: of those, the ones made over a live entry
    alone           \* history: paths whose inline write met no other change

watchvars == <<pending, timeout, batch_deadline>>
writevars == <<stage, target, spent>>
history == <<due, masked, alone>>
watcherVars == <<raised, watchvars, inline_writes, writevars, folder, changed, history>>

Kinds == {"modify", "folder", "metadata"}
\* A write that takes the announcement over may still have it before it.
AnnounceLimit == EventLatency + MAX_BATCH_DELAY + WriteLatency

Live == {p \in DOMAIN inline_writes : inline_writes[p] < INLINE_WRITE_SUPPRESSION_TTL}
Writing(p) == \E w \in Writers : stage[w] # "idle" /\ target[w] = p

WatcherInit ==
    /\ raised = << >> /\ pending = {} /\ timeout = 0 /\ batch_deadline = 0
    /\ inline_writes = << >>
    /\ stage = [w \in Writers |-> "idle"]
    /\ target = [w \in Writers |-> Folder] /\ spent = [w \in Writers |-> 0]
    /\ folder = "absent" /\ changed = 0
    /\ due = << >> /\ masked = {} /\ alone = {}

-----------------------------------------------------------------------------
(* Changes of the source tree.  A file in a directory without a watch      *)
(* raises no event.                                                        *)

Exists(p) == p = Folder \/ p \in InFolder => folder # "absent"
Watched(p) == p \in InFolder => folder = "watched"

Raise(p, kind) ==
    raised' = IF Watched(p) THEN Append(raised, [path |-> p, kind |-> kind, age |-> 0])
              ELSE raised

Change == changed < MaxChanged /\ changed' = changed + 1

(* A change outside the mount is owed an announcement.  A change over a    *)
(* live entry does not reset the wait of an earlier one.                   *)
Owe(p) ==
    /\ due' = IF ~Watched(p) \/ p \in DOMAIN due \ masked \/ (p \in masked /\ p \in Live)
               THEN due
               ELSE [q \in DOMAIN due \cup {p} |-> IF q = p THEN 0 ELSE due[q]]
    /\ masked' = IF ~Watched(p) \/ p \in DOMAIN due \ masked THEN masked
                 ELSE IF p \in Live THEN masked \cup {p} ELSE masked \ {p}
    /\ alone' = alone \ {p}

ExternalWrite(p) ==
    /\ Change /\ Exists(p) /\ p # Folder
    /\ Raise(p, "modify") /\ Owe(p)
    /\ UNCHANGED <<watchvars, inline_writes, writevars, folder>>

MakeFolder ==
    /\ Change /\ folder = "absent" /\ folder' = "made"
    /\ Raise(Folder, "folder") /\ Owe(Folder)
    /\ UNCHANGED <<watchvars, inline_writes, writevars>>

SetMetadata(p) ==
    /\ Change /\ Exists(p) /\ Raise(p, "metadata")
    /\ UNCHANGED <<watchvars, inline_writes, writevars, folder, history>>

-----------------------------------------------------------------------------
(* A write, create or removal through the mount.                           *)

(* The store is written in one event, or in two when a file with content   *)
(* is truncated first.  One inode is written by one worker at a time.      *)
BeginWrite(w, p) ==
    /\ stage[w] = "idle" /\ ~Writing(p) /\ Change /\ Exists(p) /\ p # Folder
    /\ \E s \in {"truncated", "written"} : stage' = [stage EXCEPT ![w] = s]
    /\ target' = [target EXCEPT ![w] = p] /\ spent' = [spent EXCEPT ![w] = 0]
    /\ Raise(p, "modify")
    /\ alone' = IF p \in pending \/ \E i \in DOMAIN raised : raised[i].path = p
                THEN alone \ {p} ELSE alone \cup {p}
    /\ UNCHANGED <<watchvars, inline_writes, folder, due, masked>>

EndWrite(w) ==
    /\ stage[w] = "truncated" /\ stage' = [stage EXCEPT ![w] = "written"]
    /\ Raise(target[w], "modify")
    /\ UNCHANGED <<watchvars, inline_writes, target, spent, folder, changed, history>>

(* notify_change: the entry, then the announcement.                        *)
RecordWrite(w) ==
    /\ stage[w] = "written" /\ stage' = [stage EXCEPT ![w] = "recorded"]
    /\ inline_writes' = [p \in DOMAIN inline_writes \cup {target[w]} |->
                            IF p = target[w] THEN 0 ELSE inline_writes[p]]
    /\ UNCHANGED <<raised, watchvars, target, spent, folder, changed, history>>

Announce(ps) ==
    /\ due' = Restrict(due, DOMAIN due \ ps)
    /\ masked' = masked \ ps

AnnounceWrite(w) ==
    /\ stage[w] = "recorded" /\ stage' = [stage EXCEPT ![w] = "idle"]
    /\ Announce({target[w]})
    /\ UNCHANGED <<raised, watchvars, inline_writes, target, spent, folder, changed, alone>>

-----------------------------------------------------------------------------
(* The watcher's thread.                                                   *)

is_relevant_event(event) == event.kind # "metadata"

(* The wait step() computes: the debounce window, cut at the deadline.     *)
Wait(deadline) == Min({DEBOUNCE_TIMEOUT, deadline})

(* Mutant: the record is asked when an event arrives.                      *)
process_raw_event_suppressing(event) ==
    LET echo == event.path \in Live IN
    /\ pending' = IF is_relevant_event(event) /\ ~echo
                  THEN pending \cup {event.path} ELSE pending
    /\ folder' = IF event.kind = "folder" THEN "watched" ELSE folder
    /\ inline_writes' = Restrict(inline_writes, DOMAIN inline_writes \ {event.path})

process_raw_event(event) ==
    /\ pending' = IF is_relevant_event(event) THEN pending \cup {event.path} ELSE pending
    /\ folder' = IF event.kind = "folder" THEN "watched" ELSE folder
    /\ UNCHANGED inline_writes

(* step(): an event arrives.  The batch's first path sets the deadline.    *)
Receive ==
    /\ raised # << >> /\ (pending # {} => batch_deadline > 0)
    /\ raised' = Tail(raised)
    /\ process_raw_event(Head(raised))
    /\ batch_deadline' = IF pending = {} /\ pending' # {} THEN MAX_BATCH_DELAY
                         ELSE batch_deadline
    /\ timeout' = IF pending' = {} THEN 0 ELSE Wait(batch_deadline')
    /\ UNCHANGED <<writevars, changed, history>>

(* evict_expired_inline_writes, then drain_pending_with_suppression.       *)
(* Mutant: expired entries stay.                                           *)
drain_unevicted(batch) ==
    [paths |-> batch \ DOMAIN inline_writes,
     writes |-> Restrict(inline_writes, DOMAIN inline_writes \ batch)]

drain(batch) ==
    [paths |-> batch \ Live, writes |-> Restrict(inline_writes, Live \ batch)]

(* step(): the wait is over or the deadline has come.  History: a batch    *)
(* cut by its deadline parts a write from its entry or its second event.   *)
flush ==
    /\ pending # {} /\ (timeout = 0 \/ batch_deadline = 0)
    /\ Announce(drain(pending).paths)
    /\ inline_writes' = drain(pending).writes
    /\ pending' = {} /\ timeout' = 0 /\ batch_deadline' = 0
    /\ alone' = IF batch_deadline = 0 THEN alone \ pending ELSE alone
    /\ UNCHANGED <<raised, writevars, folder, changed>>

-----------------------------------------------------------------------------
(* Time passes while nobody is late.                                       *)
Older(age, cap) == Min({age + 1, cap})
Less(ticks) == IF ticks = 0 THEN 0 ELSE ticks - 1

Tick ==
    /\ \A i \in DOMAIN raised : raised[i].age < EventLatency
    /\ \A w \in Writers : stage[w] # "idle" => spent[w] < WriteLatency
    /\ pending # {} => timeout > 0
    /\ raised' = [i \in DOMAIN raised |-> [raised[i] EXCEPT !.age = @ + 1]]
    /\ timeout' = Less(timeout) /\ batch_deadline' = Less(batch_deadline)
    /\ inline_writes' = [p \in DOMAIN inline_writes |->
                            Older(inline_writes[p], INLINE_WRITE_SUPPRESSION_TTL)]
    /\ spent' = [w \in Writers |-> IF stage[w] = "idle" THEN spent[w] ELSE spent[w] + 1]
    /\ due' = [p \in DOMAIN due |-> Older(due[p], AnnounceLimit + 1)]
    /\ UNCHANGED <<pending, stage, target, folder, changed, masked, alone>>

WatcherNext ==
    \/ \E p \in SourcePaths :
        \/ ExternalWrite(p)
        \/ SetMetadata(p)
        \/ \E w \in Writers : BeginWrite(w, p)
    \/ \E w \in Writers : EndWrite(w) \/ RecordWrite(w) \/ AnnounceWrite(w)
    \/ MakeFolder \/ Receive \/ flush \/ Tick

WatcherSpec == WatcherInit /\ [][WatcherNext]_watcherVars

-----------------------------------------------------------------------------
WatcherTypeOK ==
    /\ raised \in Seq([path : SourcePaths, kind : Kinds, age : 0 .. EventLatency])
    /\ pending \subseteq SourcePaths
    /\ timeout \in 0 .. DEBOUNCE_TIMEOUT /\ batch_deadline \in 0 .. MAX_BATCH_DELAY
    /\ timeout <= batch_deadline /\ (pending = {} => batch_deadline = 0)
    /\ inline_writes \in UNION {[S -> 0 .. INLINE_WRITE_SUPPRESSION_TTL] : S \in SUBSET SourcePaths}
    /\ stage \in [Writers -> {"idle", "truncated", "written", "recorded"}]
    /\ target \in [Writers -> SourcePaths] /\ spent \in [Writers -> 0 .. WriteLatency]
    /\ folder \in {"absent", "made", "watched"} /\ changed \in 0 .. MaxChanged
    /\ due \in UNION {[S -> 0 .. AnnounceLimit + 1] : S \in SUBSET SourcePaths}
    /\ masked \subseteq DOMAIN due /\ alone \subseteq SourcePaths

(* mod.rs:36-38, "Caps total latency under sustained event rates", and     *)
(* :40-43.  A change made outside the mount is announced within the        *)
(* event's own delay, MAX_BATCH_DELAY and, if an inline write takes it      *)
(* over, that write's, unless an inline write of the same path had         *)
(* recorded an entry less than the TTL before it.                          *)
AnnouncedInTime == \A p \in DOMAIN due \ masked : due[p] <= AnnounceLimit

(* mod.rs:189-193, "The entry is guaranteed to be visible if the write     *)
(* went through the VFS".  When a batch is flushed because no event came   *)
(* for DEBOUNCE_TIMEOUT, an inline write that met no other change of its   *)
(* path has its entry there, and neither of its events is taken for an     *)
(* external change.                                                        *)
EchoesRecognised ==
    pending # {} /\ timeout = 0 /\ batch_deadline > 0 => pending \cap alone \subseteq Live

(* watcher/tests.rs:159-160, "suppression must never swallow genuine       *)
(* external changes".                                                      *)
ExternalChangesAnnounced == \A p \in DOMAIN due : due[p] <= AnnounceLimit
=============================================================================
