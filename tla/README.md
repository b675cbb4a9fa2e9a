# nyne: TLA+ models, model checks and proofs

nyne is a FUSE filesystem that lays virtual files and directories over a source
tree: symbols of a file as files of their own, git views, LSP queries. Reads go
through a chain of providers, writes are spliced back into the source. This
directory models the system's own logic in TLA+, checks it with TLC on small
instances and proves its most important safety properties with TLAPS for every
value of the constants.

Paths below are relative to `src/`; `ops.rs`, `mutations.rs` and so on are the
files of `nyne/src/fuse/`. `PROJECT.json` lists every component with its status,
the hazards at their lines, each definition with the lines it models, and what
was found on the way (`findings`).

## Inventory

| Component | State | Operations | Hard behaviour | What makes it correct |
|---|---|---|---|---|
| Handle table (`fuse/handles`) | slab of entries: buffer, source, dirty generation, append flag, truncation state | open, open_direct, read, write, truncate, dirty_snapshot, clear_dirty, release | lazy population of buffers, deferred truncation, slab indices reused at once | what a client wrote is what is stored; a number names one open file |
| Request handlers (`ops.rs`, `mod.rs`) | passthrough flag; locals of each request | open, write, setattr, flush, release, lookup, readdir; `do_flush` | four workers; a snapshot, a mutex, a chain call and `clear_dirty` in four critical sections | nothing accepted is lost silently; every request answered; answers agree |
| Per-inode state (`inode_state.rs`) | write locks, write errors, atimes | write_lock, set/clear error, evict | evict races with open and flush | nothing left for closed inodes |
| create / remove / rename (`mutations.rs`) | none of their own | do_create, do_mkdir, do_remove, do_rename | the chain moves the file, then two steps on the inode map | the kernel's names still reach their file |
| Inode map (`inode_map`) | slab of (directory, name), reverse index, bound nodes with a TTL | allocate, find_inode, update, resolve_path, bind/touch | find and allocate under separate locks; entries never removed | index and entries agree; the kernel agrees with both |
| Resolution cache (`router/cache`, `plugins/cache`) | two maps of entries tagged with a generation; generation per source | get_or_compute, invalidate, bump, on_change | compute runs with no lock; mutations, renames, the watcher invalidate | a hit is current, or a change has yet to be announced |
| Watcher (`watcher`) | batch, debounce window, batch deadline; record of inline writes shared with handlers | step, flush, process_raw_event | races against a clock; suppression by path and age | external changes announced in time; own echoes recognised |
| Change propagation, kernel notifier (`fuse/notify`) | bounded queue of 1024 messages | propagate_source_changes, inval_inode, inval_entry | queue full: dropped | what changed is invalidated |
| Router, chain, trees, nodes (`router`) | none between requests | dispatch, merge, extensions, order of providers | trees of several plugins under one name; a request rewritten on its way | what is listed is found; a change is owned by one provider |
| Providers (`plugins/fs`, `companion`, `source`, `git`, `lsp`, `todo`, `slice`, `diff`, `visibility`, `claude`) | request state; branches, index | their routes and callbacks | the same name reached in several ways | as above |
| LSP session manager (`plugins/lsp/src/session`) | documents with versions, diagnostics, result cache, registry, clients | ensure_document_open, invalidate_file, close_document, publish, mark_dirty, client_for_ext, queries | messages sent outside the lock that numbered them; two threads spawn one server | versions increase; the server holds the text; answers are about it |
| LSP client (`session/client`) | progress gate, pending map, pipes | request, arm, wait_ready, note_begin/end, reader and writer threads | debounce and deadline; death of the server at any moment | every request returns; no wakeup lost |
| WorkspaceEdits (`session/edit`, `uri`) | none | resolve, apply, positions | order of edits and of operations on files | what the server meant is what is written |
| Edit staging, plans, diff (`plugins/source/src/edit`, `plugins/diff`) | staged operations, counter | stage, snapshot, apply, drain, clear | operations staged between snapshot and drain; several files, one failing | no staged edit lost, none applied twice |
| Decomposition (`plugins/source/src/syntax`) | decomposition cache | decompose, name, find | a stale decomposition against the file; documents inside templates | an entry is current or about to be dropped; fragments are found by their names |
| Visibility, processes (`plugins/visibility`, `process`) | overrides, rules, stored answers, cgroups, names | resolve, set_pid, set_name_rule | resolution without the lock; exec and pid reuse | an explicit override wins; an answer has grounds |
| Sessions, command line (`session`, `cli`) | session files, sockets, state trees | mount, attach, list; scan with removal | kills at any step; names reused | what is live is found; what is dead is removed, and only that |
| Sandbox, control server (`sandbox`) | mounts, namespaces, state trees | plan, overlay, binds, teardown; one control thread | order of mounts; a client that never ends its line | a command finds its parts, and not what is hidden |
| Configuration, templates and rendering, analysis | – | parsing, formatting, rules over syntax trees | – | – |

How they interact. A worker thread serves a FUSE request; it resolves inode
numbers to paths with the inode map and runs the provider chain, of which the
cache is a middle link and the filesystem the last. On a write it calls
`notify_change`, which records the path for the watcher and then runs
`propagate_source_changes`: every provider's `on_change` (the cache bumps
generations, the LSP manager sends `didChange`, the decomposition cache drops
its entry) and invalidations queued to the kernel. The watcher thread gets
fsnotify events for the same source tree, drops those it finds in the record,
and calls the same propagation for the rest. The LSP manager, shared by all
threads, talks to server processes through a client each. A mount is a
supervisor process, a daemon per directory, and a control socket over which
`attach` and the sandboxed commands reach the daemon.

## Modules

| Module | Role |
|---|---|
| `HandleEntry` | one handle entry as a data type: construction, write, truncate, clear, read |
| `FileContract`, `SingleHandle` | what an open file owes its client request by request; one client and one file, byte by byte, which implements it |
| `FuseHandles` | the handle table, `do_flush` and the inode state under concurrent workers |
| `FuseReplies` | the answers about one inode: attributes, access, errors, times, bound nodes, pages of a directory, invalidations |
| `InodeMap` | inode map and rename against the kernel's name cache |
| `ResolutionCache` | GenCache, GenerationMap and CacheProvider under workers and the watcher |
| `Watcher` | the event loop and the record of inline writes |
| `Router`, `ChainOrder` | nodes, trees, dispatch, extensions; the order of providers |
| `TextEdits`, `Decompose` | slices, splices and plans over texts; documents to named fragments |
| `SymbolTree`, `GitTree`, `LspTree`, `TodoTree`, `Routing` | the routes of the plugins, each over the one before, and the whole chain |
| `SourceEdits` | edits through symbols, the decomposition cache, staging and applying |
| `LspServers`, `LspDocuments`, `LspClient` | which server answers; what it is told of one document; one client and its server |
| `LspEdits`, `LspQueries` | WorkspaceEdits and positions; queries, their cache keys and answers |
| `Sessions`, `Sandbox`, `VisibilityMap` | the life of mounts; what a sandbox shows; which processes see virtual nodes |
| `HandleProofs`, `InodeMapProofs`, `ChangeProofs`, `SourceEditsProofs`, `LspManagerProofs`, `LspClientProofs`, `SessionProofs`, `VisibilityProofs` | theorems |
| `MC*.tla`, `*.cfg` | instances for TLC |

Composition: `Routing` is the chain over `TodoTree` → `LspTree` → `GitTree` →
`SymbolTree` → `Router` and `Decompose`; `MCOperators` extends its instance
`MCRouting` and instantiates `MCSandbox`, `MCFuseReplies` and `MCLspEdits`.
`MCLspDocuments` composes `LspDocuments` and `LspServers`, `MCDaemon` composes
`Sessions` and `VisibilityMap`, each pair in disjoint behaviours as they share
no state. `SingleHandle` implements `FileContract` (INSTANCE ... WITH).

### HandleEntry, SingleHandle, FileContract

`HandleEntry` has no variables. `Written`, `TruncatedTo`, `Cleared`,
`MustFlush` are what `HandleTable::write`, `truncate_entry`, `clear_dirty` and
the early returns of `do_flush` compute. `fd` is what a read of the entry's
descriptor returns at that moment. `SingleHandle` runs the handlers one at a
time with real bytes, so that the offset arithmetic, the gap fill, `O_APPEND`,
the population of a buffer on the first write and the deferred flush of an
emptied buffer are compared with `FileContract`. The contract knows a content,
a stored copy, what the client opened the file with, and the request it sent:
`request` is recorded as the kernel hands it over, before the handler looks at
it, and `turn` flips with each one, so that no request can be served by a
stutter. Of each the contract says what it does: a write puts its own bytes at
its own offset, or behind all others when the client appends; a truncation cuts
at its own size; what is due reaches the store at a flush or the close unless it
is refused. The refinement maps the contract's content to what a read of the
handle shows, its copy to the store, and what is due to the dirty generation. A
population that fails is left out here: `FuseHandles` has it (`WriteFails`, with
the empty or NUL-filled buffer it leaves).

### FuseHandles

A handler is cut where it lets go of a lock: `Snapshot` (under the table's
lock), `GetLock` (`InodeState::write_lock`), `Lock`, `StoreWrite` or
`FlushFails` (the chain's write), `ClearDirty`, then for release `DropHandle`,
`CheckLastHandle`, `Evict`. Bytes do not matter here: a history variable says
which handles hold an accepted write that the store lacks, another which
workers carry an outdated snapshot. The kernel's guarantees are explicit
guards: writes and setattr of one inode are serialised, release comes last on
an open file. Two switches name what else the kernel may do:
`OverlappingFlushes` (two duplicates of a descriptor closed at once) and
`KernelPassthrough` (opens served by the kernel, answered with handle 0).

### FuseReplies

Operators over the state of one inode: what lookup, getattr, access, open,
setattr, flush and xattr requests answer from the binding, the chain's node,
the backing metadata, the recorded error and time, and the number of open
handles. `OneRequest` is one request of a course, or a tick of the clock;
`MCFuseReplies` runs every short course and compares the answers with each
other. A stat answers with a node's whole time, however little of it the binding
has left, so the kernel may show attributes for longer than the endpoint answers;
`BindingHolds` bounds the binding, not the kernel. Of a name in the root only the
inode is invalidated, which is a finding. Visibility by process is left out; that
a directory changes between two of its pages is a finding only.

### InodeMap

`tree` is the backing filesystem, `slab` and `by_path` the map, `dentry` and
`seen` the kernel's cache: the inode it holds for a name and the object it saw
there. A request names things as the kernel does, by the inode of the
directory and a name, and the handler rebuilds a path from the map. Lookups and
creates end in `Reply`, renames run `Rename`, `Find`, `Update`. Directory locks
of the kernel are guards (`Changes`, `Reads`). Switches: `OverlappingLookups`,
`DirectoryRenames`, `NestingRenames`.

### ResolutionCache

Each map access is an action, because each takes and releases its own lock:
`Miss`, `Compute` (or `ComputeFails`: the chain's error is dropped),
`ReadGeneration`, `Insert`; a mutation is `Mutate` or `Rename`, then
`Invalidate` for one or two directories, then `Bump`. The chain's answer is the
directory's real listing at that moment. `owed` remembers the sources changed
since their last bump; an entry's `birth` remembers whether it was sound,
computed across an invalidation (`raced`) or the result of a dropped error
(`failed`). A hit changes nothing and is not a step. A change raises an event or
it does not: directories may be ignored or not watched yet, and an inline write's
entry swallows the event of another change. `unseen` remembers the sources of
changes that were not seen and that no request under way bumps for.

### Watcher

Time is counted in ticks: ages of events, entries and unannounced changes
(`due`), remaining waits of the loop. `Tick` is possible only while nobody is
late: an event arrives within `EventLatency`, a handler gets from its write to
the end of `notify_change` within `WriteLatency`, and the watcher flushes when
its wait is over. `Receive` is one step of the loop with an event in hand,
`flush` one with the wait over; an inline write is `BeginWrite`, `EndWrite`,
`RecordWrite`, `AnnounceWrite`. One directory appears during the run and is
watched only once its own event was received. The fsnotify queue is taken as
loss-free. `masked` remembers the changes made over a live entry, `alone` the
inline writes that met no other change of their path.

### LspDocuments, LspServers, LspClient

`LspDocuments` follows one file: its sentinel entry and version, the `didOpen`,
`didChange` and `didClose` each call sends, the server that handles them in the
order of the pipe and publishes diagnostics, the result cache and the readers
that wait for diagnostics. A call is cut at every lock, file read and send.
`Overlap` lets calls on the tracked document overlap, which the code does not
prevent; what breaks then is in the findings. `LspServers` builds the registry
from the configuration and lets threads find, spawn, register and drop clients
while processes die; closing is left to `LspDocuments`. `LspClient` is the gate
(uninitialized, active, quiescent, ready or shut down, with its debounce and
deadline), the pending map, the writer and the reader. Of the server nothing is
assumed: it answers late or never, reports progress in any order and dies at any
step.

### LspEdits, LspQueries

Positions are lines and UTF-16 units of texts with wide characters; text edits
are applied from the last to the first; operations on files by path. A query is
made from a symbol, keyed, answered in several shapes and turned into places.
Empty texts and positions inside a surrogate pair are left out; workspace
symbols and the listing of code actions are in `LspTree`.

### SourceEdits, TextEdits, Decompose

`SourceEdits` runs the writes that go through symbols: a splice, a write by
lines, a removal and a batch all begin with the file's cached decomposition and
write the whole file. Steps are the cache's lookup, the parse, the write, the
invalidation, and for batches snapshot, one write per file and the drain.
`Outside` lets others write the files and the watcher report it. `TextEdits`
has the arithmetic: slices of bodies and lines, splices, and a plan's edits in
one pass. `Decompose` takes Markdown sections, template blocks and the document
inside a template to fragments with names, and finds them by name and line; what
tree-sitter makes of a program's text is an input.

### Routing and its trees

Nodes with capability slots, the accumulator that merges them, route trees with
callbacks and extensions, and what each provider of the chain does to a
request: the phases of slice, companion's rewriting of the path, the cache's
second lookup, visibility's filter, the filesystem at the end. `MCRouting` is a
small mount with two decomposable files, a repository with four branches and a
language server for one extension; the run walks through every directory of it.

### Sessions, VisibilityMap, Sandbox

`Sessions` has supervisors, daemons and clients as processes that may be killed
at any step: scanning with the removal of stale files, planning of ids, fork,
bind, readiness, session file, signals, teardown; clients connect and send.
`VisibilityMap` resolves a process through stored answers, name rules, cgroups
and ancestors while processes fork, exec, exit and their pids come back.
`Sandbox` is the sequence of mounts as a function from worlds to worlds.

## Runs

| Run | Configuration | Question | Checked |
|---|---|---|---|
| `single_handle` | `SingleHandle.cfg` | do the bytes come out right? | `CleanIsSaved`, `RefinesContract`, `EmptyWaitsForRelease` |
| `fuse_exclusive` | `MCFuseExclusive.cfg` | two workers, two opens of a virtual file | `HandleIdentity`, `CleanMeansStored`, `NoResidue`, `NoSilentDrop` |
| `fuse_shared` | `MCFuseShared.cfg` | a real file, a duplicated descriptor, passthrough | `RequestsAnswered` |
| `cache` | `MCCache.cfg` | are hits current? | `HitsAreCurrent`, `OwedIsUnderWay` |
| `inode_map` | `MCInodeMap.cfg` | do names keep their file? | `IndexMatchesEntries`, `KernelAgrees`, `NamesReachTheirFile` |
| `watcher` | `Watcher.cfg` | external and inline changes against the clock | `AnnouncedInTime`, `EchoesRecognised` |
| `lsp_documents` | `MCLspDocuments.cfg` | does the server know the document? who is asked? | `ProtocolKept`, `ServerCatchesUp`, `StaleOnlyIfRaced`, `DiagnosticsConverge`, `ClientsAreShared` |
| `lsp_client` | `MCLspClient.cfg` | is anyone left waiting? | `PendingMatchesWaiters`, `OpenGateWakesSleepers`, `GateWaitsForCycles`, `EveryCallReturns` |
| `source_edits` | `MCSourceEdits.cfg` | are edits applied once, to the text they were made for? | `CacheIsCurrent`, `AppliedExactlyOnce` |
| `operators` | `MCOperators.cfg` | the pure algorithms over small inputs | `EditsAreSimultaneous`, `ReadWriteRoundTrip`, `FragmentsAreFound`, `ListedIsFound`, `MutationsAreOwned`, `MergesLoseNothing`, `SandboxShowsItsParts`, `RepliesAgree`, `ServerAnswersLand` |
| `daemon` | `MCDaemon.cfg` | do sessions end? do overrides hold? | `OverridesHold`, `AnswersHaveGrounds`, `OnlyRacesTake`, `StoppedSessionsEnd` |
| `passthrough_hidden` | `MCPassthrough.cfg` | is git always hidden, as a comment says? | `PassthroughAlwaysHidden` (violated) |

What the passing runs show:

* With one flush of an open file at a time, every accepted write is what was
  stored last once its handle is clean; a handle that leaves the table with an
  unstored write does so because this very release's flush was refused; no
  mutex or error stays behind for a closed inode, though `release` checks for
  other handles and evicts in two steps. With overlapping flushes and
  passthrough every request is still answered.
* Each request to an open file has the effect its own arguments name, on what a
  read shows and on the store, however lazily it was loaded and flushed; a
  virtual file being rewritten is never stored empty before its data. A file
  truncated by descriptor and closed without a write is the exception of
  `CleanIsSaved`, and a finding.
* A cache hit differs from the directory only while its source's change is
  still to be announced, or when the entry was raced or failed at birth. A change
  that is still to be announced is on its way, unless the watcher did not see it
  and no request bumps for it.
* With one resolution of a name at a time and files renamed, the kernel's
  inodes, the map and the tree agree.
* An external change is announced within event latency + `MAX_BATCH_DELAY` (+
  the write that takes it over), under any stream of events, unless an entry of
  an inline write less than the TTL old masks it. A batch that ends quietly
  finds the entry of every write that met no other change of its path.
* While calls on a tracked document do not overlap, the server gets messages
  its protocol permits, holds the file's text when all is delivered, and a
  cached answer about another text was asked across a change; diagnostics come
  to the last text. Threads that race to start a server end with one.
* Requests return whatever the server does; the pending map has exactly the
  waiters; the gate lets nobody sleep on and opens early for impatience only.
* A cached decomposition of another text is about to be dropped or was parsed
  across an invalidation; an apply drops what was staged meanwhile, and doubles
  an edit only by failing midway or overlapping another apply.
* Sessions that were stopped are taken down, whoever is killed, but for the
  socket of a killed daemon, and a live one is lost to processes already at work
  only. An override set while
  no resolution is under way holds, and answers come from layers.

What contradicts a doc, a comment or a test is listed in PROJECT.json under
`findings`, each with the line it contradicts. One is shown by the run that is
expected to fail; the others were met while a guard, a switch or an exception
of a property had to be written and are documented with their source lines.

### Bounds

* `single_handle`: two byte values (the fill byte and another), contents up to
  3 bytes, generations up to 3: enough for a write inside, at the end, beyond
  the end with a gap, and for a truncation between two writes.
* `fuse_*`: two workers are enough for every pair of critical sections; the
  third mutex is the one that exists when an inode's mutex is evicted while a
  worker holds it and another has fetched its successor. One byte of length
  and two generations (one in `fuse_shared`) tell full from empty and a new
  write from the one snapshotted. The clients use one inode, the case in which
  they meet.
* `cache`: two changes let one invalidation fall between any two steps of a
  resolution and another after it; two workers and the watcher; clients resolve
  a key of `lib` and the listing of the companion, whose staleness differs.
* `inode_map`: two workers, one file, a second to be created, one directory,
  four paths; four inodes leave room for an inode a rename orphaned.
* `watcher`: window 3, deadline 4, TTL 6 and latencies 1 keep the order of the
  real constants (50 ms, 500 ms, 2 s): latencies together shorter than the
  window, the window shorter than the deadline, the deadline and a latency
  shorter than the TTL. `WatcherAssumption` states just that. Four changes are
  one more than it takes to keep a batch open past its window and disturb it.
* `lsp_documents`: two threads, two texts, one failing send and one query of
  the document; five configured servers of which two serve an extension in
  common, three spawns and one refusal.
* `lsp_client`: two threads, one progress token, three calls, two events of the
  server beside its answers: a cycle that begins again behind its end fits.
* `source_edits`: two threads, two files with one symbol each, two edits, two
  requests, two staged operations, one failure, and writes from outside.
* `operators`: every text of four characters with two symbols, documents of
  five lines, templates of four, directories of three fragments; pairs of route
  trees and chains of three providers; a walk by three processes through a
  mount, up to eight names deep; courses of requests to one inode up to six
  clock ticks; answers of a language server with two edits or operations.
* `daemon`: casts of two or three mounts and clients with up to two kills, or
  two pids with two names, up to two readers, one fork and one exec, and up to
  two settings. A process and its parent are enough for a walk that finds the
  parent gone, or its pid taken by another, between two of its reads.

`CHECK_DEADLOCK FALSE` in `cache`, `inode_map`, `lsp_documents`, `lsp_client`,
`source_edits`, `daemon` and `passthrough_hidden`: their bounds exhaust and the
system may rest; in `operators` a state is a case and leads nowhere. Workers are
symmetric where no liveness is checked.

### Fairness

* `FuseHandles!FairSpec`: a worker that took a request runs on (weak fairness;
  threads are scheduled and the chain's calls return), and a waiter gets the
  mutex in the end (strong fairness; parking_lot's mutexes hand over fairly from
  time to time). None is assumed of clients.
* `LspDocuments`: a call runs on, an invalidation that is owed is begun (the
  watcher's thread), the server handles what it is sent.
* `LspClient`: threads, timers, the writer and the reader run on. Nothing is
  assumed of the server, so a call returns by an answer, a timeout or the death
  of the pipe.
* `Sessions`: a teardown, a daemon's end, the control thread and a connected
  client that was told to send run on. None is assumed of the user's signals,
  the end of a command, kills or failures.
* `Watcher` has none: its promises are deadlines, stated as safety over ages.

## Proofs

Each theorem holds for any number of workers, files, paths, symbols, handles and
so on; the assumptions are the ones the modules name about their constants
(`...Assumption`) and, where the table says so, switches as hypotheses of the
theorem. A switch is a hypothesis only where the property is false with it on,
which is then one of the findings.

| Theorem | Says | Under |
|---|---|---|
| `HandleProofs!AppendKeepsContent` | an `O_APPEND` write keeps all it is appended to | – |
| `HandleProofs!SingleTypeCorrect`, `CleanStaysSaved`, `RewritesAreNotStoredEmpty` | `SingleTypeOK`, `CleanIsSaved`, `EmptyWaitsForRelease` | – |
| `HandleProofs!HandleImplementsContract` | `SingleSpec => RefinesContract`: every request has the effect it names | – |
| `HandleProofs!TypeCorrect` | `TypeOK` of `FuseHandles` | – |
| `HandleProofs!HandlesKeepIdentity`, `NothingKeptForClosed` | `HandleIdentity`, `NoResidue` | no passthrough |
| `HandleProofs!CleanHandlesAreStored`, `NothingDroppedSilently` | `CleanMeansStored`, `NoSilentDrop` | no passthrough, no overlapping flushes |
| `HandleProofs!AccessAgreesWithMode` | `AccessMatchesMode` of one inode's state, a part of `RepliesAgree` | the node's permissions are r, w and x |
| `HandleProofs!EndpointsAnswerInTime` | `GoneStaysGone` and `BindingHolds` along every course of requests, parts of `RepliesAgree` | the created node's policy is a TTL, as a sink's is |
| `ChangeProofs!TypeCorrect`, `HitsStayCurrent`, `OwedStaysUnderWay` | the cache's `TypeOK`, `HitsAreCurrent`, `OwedIsUnderWay` | – |
| `ChangeProofs!WatcherTypeCorrect`, `ChangesAnnouncedInTime`, `QuietBatchesKnowEchoes` | `WatcherTypeOK`, `AnnouncedInTime`, `EchoesRecognised` | the order of latencies, window, delay and TTL |
| `InodeMapProofs!TypeCorrect`, `IndexIsSound` | `TypeOK`, `IndexMatchesEntries` | – |
| `InodeMapProofs!KernelAndMapAgree`, `NamesKeepTheirFile` | `KernelAgrees`, `NamesReachTheirFile` | no overlapping lookups, directory renames, nesting renames |
| `LspManagerProofs!ClientsStayShared` | `ClientsAreShared` | – |
| `LspManagerProofs!MessagesKeepProtocol`, `ServerHoldsTheText`, `StaleAnswersWereRaced` | `ProtocolKept`, `ServerCatchesUp`, `StaleOnlyIfRaced` | calls on the tracked document do not overlap |
| `LspClientProofs!TypeCorrect`, `PendingIsExact`, `NoWakeupIsLost` | `TypeOK`, `PendingMatchesWaiters`, `OpenGateWakesSleepers` | – |
| `LspClientProofs!GateOpensInTime` | `GateWaitsForCycles` | – |
| `SourceEditsProofs!TypeCorrect`, `EntriesStayCurrent`, `EditsAppliedOnce` | `TypeOK`, `CacheIsCurrent`, `AppliedExactlyOnce` | – |
| `SourceEditsProofs!ConflictsAreOverlaps`, `EditsStayInText`, `PlansRefuseOverlaps` | a plan is refused exactly when two of its edits overlap; edits lie in the text; a part of `EditsAreSimultaneous` | fragments lie in the text |
| `SourceEditsProofs!BodiesRoundTrip` | `BodyRoundTrips`, a part of `ReadWriteRoundTrip` | a masked symbol begins and ends with code |
| `SessionProofs!SessionInvariant`, `RacesAlone` | `SessionInv`; `OnlyRacesTake` | – |
| `SessionProofs!DoneMeansTakenDown` | the safety half of `StoppedSessionsEnd` | – |
| `VisibilityProofs!MapInvariant`, `SetOverridesHold`, `AnswersStandOnLayers` | `MapInv`; `OverridesHold`, `AnswersHaveGrounds` | – |

*Handles.* `HandleIdentity` is not inductive: it says that the numbers in use
are right, not who may come to use them. `Ownership` adds what is missing:
types, that a worker's request fits the step it is at (`StepsFitRequests`), and
that a write or flush in progress keeps its file open (`UsersKeepOpen`). Then a
step can only hand out a vacant number and vacate one that its release alone
still used. `Tracking` builds on it for the contents: no two requests use one
handle (`SingleUser`); a snapshot's generation never exceeds its handle's and
is smaller once a write came after it; what was stored from a snapshot that
lacks no write is all there is (`SnapshotsTrack`); so `clear_dirty`, which
compares generations, cleans a handle only when nothing came after the
snapshot. `SingleUser` is what overlapping flushes break: `clear_dirty` sets
the generation to 0, it climbs to an old value again, and the comparison of
the other flush succeeds. `NoResidue` needs that somebody attends to what is
kept: a handle in the table has an open file or its releasing worker
(`HandlesOwned`), and an inode with a mutex or an error has an open file or a
worker that will come to evict it (`Attended`). Overlapping flushes are allowed
there.

*One handle.* `CleanIsSaved` is strengthened by two facts: nothing is written
through a handle that still reads its descriptor (`DescriptorIsClean`), and a
loaded buffer that was emptied is marked so that an eager flush defers it
(`EmptiedIsMarked`). The refinement goes step by step: a write of bytes at an
offset, with the offset an appending handle clamps it to, is the contract's
overwrite at the offset that was asked for (`SpliceIsOverwrite`), a truncation
its shrinking (`CutIsShrink`), a flush its storing or its waiting
(`StepsAreTheContracts`); `FlagsAreKept` ties the flags of the entry to those the
client opened the file with.

*Cache.* `Soundness` says of every stored entry, and of every value about to be
stored, that its tag is a generation its source has reached and that a sound
value with the current tag is current or still owed for. A change owes for the
sources of all keys whose answer it alters; a bump pays for one source and, in
the same step, outdates every tag of it. That covers everything but the window
between `Compute` and `ReadGeneration`, which is why an entry's birth is part
of the statement. `OwedIsUnderWay` needs only types: what a change owes for and
no request is going to bump (`MutatesWillBump`) is the path or the parent of its
event, or went unseen; and what is under way stays so until it is bumped
(`StaysUnderWay`).

*Watcher.* `WatcherInv` gives each change that is due its place: its event is
flying, its path is in the batch, or a recorded write of the path has taken the
announcement over, and each place has a budget of time that the change's age
fits (`OnItsWay`, with `EntriesHeld`: a live entry that would swallow it belongs
to a write that is about to announce it). For echoes, `WindowHeld` says that the
debounce window outlasts a write and its events unless the deadline cuts it, and
`EntryThere` that from the end of the write to the flush the entry is there and
younger than the TTL. Ticks move ages and waits together, so the sums stay; the
four inequalities of `WatcherAssumption` are all that is used of the numbers.

*Inodes.* `IndexMatchesEntries` needs that a path in a request comes from
`Paths` (`PathsChosen`) and that `allocate` takes a vacant entry; two overlapping
allocations of one path leave the index on the second. The kernel's view needs
the whole of `Cache`: requests do not touch the same name (`Apart`), what a
request holds is still so (`RequestsSound`), an inode the kernel caches is the
one in the index (`CacheIndexed`), an unknown name was not seen
(`UnknownUnseen`), cached names hang together with the cached directories
(`CacheConnected`) and lead to what was seen (`CacheTrue`). Renames are handled
by lemmas on paths and on what moves with a file (`PathFacts`, `AboveFacts`,
`PlaceFacts`, `MovedFile`, `MovedRest`).

*LSP servers.* `ServersInv`: a thread's call has the fields of its step
(`CallShape`), a running client is its server's registered one or about to be
registered or stopped by one thread (`OneClientPerServer`), and while every
spawn works nobody gets past the first candidate, whose client stays
(`FirstChoice`).

*LSP documents.* `DocInv`: at most one thread is in a call on the document
that opens or changes it (`OneBusy`), at a step its entry fits (`Doing`); each
message in the pipe is permitted after the one before it (`Orderly`); what the
server was told last fits the entry or the call under way (`Together`);
queries belong to their threads (`QueriesOwned`) and cached answers to the
present text or to a change (`AnswersCurrent`). A message that leaves the pipe
leaves the rest orderly.

*LSP client.* A registered request has a number of its own (`NumbersOwned`)
and there is one left for each on its way (`NumbersLast`, over the cardinality
of a set of threads), no result comes before the registration (`GotLater`), and
who sleeps knows the phase it went to sleep in (`SleepersKnow`). For the gate,
`Cycles`: in what the reader has yet to read a token begins again only once it
has ended (`CyclesAlternate`), and while the gate may be shut the tracker has
every cycle that was seen to be open (`TrackerKnows`).

*Source edits.* `CacheIsCurrent` needs that a request's work fits its step
(`WorkFitsRequest`), that between the emptying of the staging area and the
reset of its counter only slipped operations come in (`ResetsFindNothing`),
and that entries and texts in hand are current or owed for (`EntriesFresh`,
`ParsesFresh`). `AppliedExactlyOnce` follows the numbers of the edits: each
has one home, staged, in the snapshots of applies or applied (`Wholes`), what
is dropped came late, and one that is applied twice is one an apply that
failed or overlapped another asks for again (`Once`). Most steps touch neither
and go through one lemma (`QuietStep`).

*Texts.* That a plan's neighbours tell of all its pairs needs that `InOrder` is
a rearrangement of what was staged (`PlansAreSorted`): the place of an edit is
the number of edits before it, so places are distinct and, by the pigeonhole
principle, all taken. Between two edits that overlap, every edit in the sorted
plan reaches far enough to overlap its neighbour. `BodiesRoundTrip` cuts a text
into what is before, in and after the body and puts it together again; the
masked body also keeps the code that shares its first and last line.

*One inode.* `EndpointsAnswerInTime` speaks of courses, not of a behaviour: its
invariant `CourseInv` holds at the beginning of each, is kept by every request
(`OneRequest`) and gives the two properties. It says that a binding has no more
time left than its node gives, and that of a name found to be gone no binding
is left at all, since a request that finds none clears the slot it looked at;
so the `touch` of an open whose lookup came earlier has nothing to revive.

*Sessions.* `SessionInv` adds to the types the order of a launch: a supervisor's
ids are planned one per mount, no two alike (`PlannedOnce`), its daemons come up
one after the other, each before its socket and its session file (`Launched`),
and a scan or a client past its first step has an id in mind (`Aimed`). `LateOnesSee` carries
`OnlyRacesTake`: a process that came to work after a session was announced sees
its file wherever it is in its reading of the directory, so it plans another id
and sweeps nothing of it. `DoneMeansTakenDown` needs besides what a supervisor
has done by each step of its teardown (`Started`, `Ended`, `FilesGone`,
`SocketsLeft`, together `Teardown`); a socket that is left belongs to a daemon
that was killed.

*Visibility.* `MapInv` is `SettledHolds` (an override that was set with no
resolution under way is in the map, and no resolution of its process is past its
look at the map) and `Grounded`: the grounds of a pid cover all that the layers
ever said of it, its entry, what the resolutions under way hold for it, and the
names that were read stay names of it. The ancestors are read one at a time from
processes that change meanwhile; each hop leads to a resolution with one more, all
or none of them (`NextHop`), and from then on the overrides of a new one are among
the grounds (`CoveredByHop`).

`DocInv`, `WatcherInv`, `SessionInv`, `Teardown` and `MapInv` were model-checked
on instances of their runs before they were proved. The assumptions on the
constants of `Sessions` and `VisibilityMap` (`SessionConstants`,
`VisibilityConstants`) fix shapes only: which sets the casts, the specs and the
rules are drawn from, and that no process is a session or a level. `Casts` and
`Processes` say who takes part; the run `daemon` uses them to keep the two
modules, which `MCDaemon` extends, in behaviours of their own.

*Only model-checked.* Liveness (`RequestsAnswered`, `DiagnosticsConverge`,
`EveryCallReturns`, `StoppedSessionsEnd` beyond its safety half), which is out
of the prover's reach. And the properties of `operators` as a whole: the trees, fragments, chains and mount lists of `ListedIsFound`,
`FragmentsAreFound`, `MutationsAreOwned`, `MergesLoseNothing`,
`SandboxShowsItsParts` and `ServerAnswersLand` are followed by recursive
operators or by folds, and what those compute for every input takes an induction
over data that the installed provers cannot do. What needs none is proved, as
the table says: of `EditsAreSimultaneous`, which plans are refused, but not that
the splices from the last edit to the first give the text all of them together
give; of `ReadWriteRoundTrip`, the bodies, but not the ranges of lines;
of `RepliesAgree`, access and bindings, but not the pages of a directory, the
extended attributes and the invalidations.

## Not modelled, and why

Configuration, templates and rendering, and the analysis plugin parse, format
and judge data, without state of their own. Of the parts modelled partly:

* FUSE request handlers: statfs, setxattr and the handlers that only answer
  ENOTSUP or ok.
* Cache provider: the content cache (`CachedReadable`) and the restoring of
  request state. Filesystem provider: the overlay.
* Change propagation: the bounded queue to the kernel and the kernel's
  attribute and page caches.
* Decomposition: what tree-sitter makes of a program's text, and the overview's
  formatting.
* Visibility: `remove_pid`, which nothing calls, and the eviction of names by
  the LRU; of processes, its bound and the spawning of commands.
* Sandbox and control server: locked mount flags, permissions, propagation,
  the environment, signals to the command, the reaping of its orphans, exec
  requests. Home directories outside /home are shown whole.
* Command line: exec, config and ctl, which send one request or print. Git:
  blame, status, clones. Claude: all but its routes. Path filter: the matching
  of patterns.

Eight hazards have no property that would catch them. Of four a switch shows the
failure, and the checked property is stated without it: lookups of one name that
overlap (`inode_map/mod.rs:83`), entries below a renamed directory
(`mutations.rs:129`), renames redirected by the shape of their paths
(`mutations.rs:106`) and overlapping calls on one document
(`session/manager/mod.rs:220`). The others are a population that fails halfway
(`handles/mod.rs:405`), files written in a new directory before it is watched
(`watcher/mod.rs:211`), the full notification queue (`notify/mod.rs:117`) and
requests served before the notifier is set (`nyne/src/cli/mount.rs:396`).
PROJECT.json says why, and for some of the other hazards which part of them a
property leaves out.

## What is left

A model of the notification queue with the kernel's caches; `InodeMap` composed
with `FuseHandles` (flushes through an inode a rename orphaned); the content
cache; theorems of the operators that recurse over trees.
