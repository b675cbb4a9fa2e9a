----------------------------- MODULE LspServers -----------------------------
(***************************************************************************)
(* Which language server answers for a file: the registry built from the   *)
(* configuration, and the threads that find or spawn the client they talk  *)
(* to.  Servers are numbered in the order of their names.  What is said    *)
(* about one document once its client is found is LspDocuments.            *)
(***************************************************************************)
EXTENDS Naturals, Sequences, SequencesExt, FiniteSets, FiniteSetsExt, Functions

CONSTANTS
    Workers,     \* the threads: FUSE's, the watcher's, the one that warms up
    Sources,     \* the files
    ExtOf,       \* the extension of each
    Grammars,    \* the extensions there is a grammar for
    LspEnabled,  \* the setting "enabled"
    Config,      \* the entry of each server
    RootNames,   \* what the project's root directory holds
    MaxSpawns,   \* clients ever started
    MaxRefusals  \* spawns that fail

VARIABLES
    clients,   \* the registered client of a server, for some
    running,   \* the server each live process is one of
    call,      \* what each thread is doing
    tracked,   \* the files in open_documents
    toldOf,    \* the client a tracked file's didOpen went to
    spawned,   \* clients started so far
    refused    \* spawns failed so far

serverVars == <<clients, running, call, tracked, toldOf, spawned, refused>>

NoClient == 0

----------------------------------------------------------------------------
(* The registry: of the servers that are enabled and name extensions, for  *)
(* the extensions that have a grammar.                                     *)

Handles(server, ext) ==
    Config[server].enabled /\ ext \in Config[server].extensions /\ ext \in Grammars
servers_for(ext) == SelectSeq([i \in 1 .. Len(Config) |-> i], LAMBDA server : Handles(server, ext))

(* The language of an extension: of the first server that names one.       *)
Resolves(server, ext) == ext \in DOMAIN Config[server].language_ids
language_id_for(ext) ==
    LET named == SelectSeq(servers_for(ext), LAMBDA server : Resolves(server, ext))
    IN IF named = <<>> THEN "none" ELSE Config[Head(named)].language_ids[ext]

extensions == {ext \in Grammars : servers_for(ext) # <<>>}
server_commands == {Config[server].command : server \in UNION {ToSet(servers_for(ext)) : ext \in extensions}}

is_applicable(server) ==
    Config[server].root_markers = {} \/ Config[server].root_markers \cap RootNames # {}
has_lsp_support(ext) == LspEnabled /\ ext \in Grammars /\ servers_for(ext) # <<>>

(* The servers client_for_ext tries, in turn.                              *)
Candidates(ext) == IF has_lsp_support(ext) THEN SelectSeq(servers_for(ext), is_applicable) ELSE <<>>

----------------------------------------------------------------------------
Free == [job |-> "none", file |-> CHOOSE f \in Sources : TRUE, left |-> <<>>, own |-> NoClient, client |-> NoClient]

ServersInit ==
    /\ clients = <<>> /\ running = <<>>
    /\ call = [t \in Workers |-> Free]
    /\ tracked = {} /\ toldOf = [f \in Sources |-> NoClient]
    /\ spawned = 0 /\ refused = 0

Begin(t, job, f) ==
    /\ call[t].job = "none" /\ Candidates(ExtOf[f]) # <<>>
    /\ call' = [call EXCEPT ![t] = [Free EXCEPT !.job = job, !.file = f, !.left = Candidates(ExtOf[f])]]

(* Handle::for_file: the first to open a file leaves its sentinel.         *)
OpenSource(t, f) ==
    /\ f \notin tracked /\ language_id_for(ExtOf[f]) # "none"
    /\ tracked' = tracked \cup {f}
    /\ Begin(t, "open", f) /\ UNCHANGED <<clients, running, toldOf, spawned, refused>>
(* A didChange, a query or a didClose of a tracked file.                   *)
UseSource(t, f) ==
    /\ f \in tracked
    /\ Begin(t, "use", f) /\ UNCHANGED <<clients, running, tracked, toldOf, spawned, refused>>

(* One extension of spawn_all_applicable's.                                *)
WarmUp(t, f) ==
    /\ ExtOf[f] \in extensions
    /\ Begin(t, "warm", f) /\ UNCHANGED <<clients, running, tracked, toldOf, spawned, refused>>

(* get_or_spawn, without and with a process to start.                      *)
Seeking(t) == call[t].left # <<>> /\ call[t].client = NoClient /\ call[t].own = NoClient
Wanted(t) == Head(call[t].left)
FindRunning(t) ==
    /\ Seeking(t) /\ Wanted(t) \in DOMAIN clients
    /\ call' = [call EXCEPT ![t].client = clients[Wanted(t)]]
    /\ UNCHANGED <<clients, running, tracked, toldOf, spawned, refused>>

SpawnServer(t) ==
    /\ Seeking(t) /\ Wanted(t) \notin DOMAIN clients /\ spawned < MaxSpawns
    /\ spawned' = spawned + 1
    /\ running' = [c \in DOMAIN running \cup {spawned'} |-> IF c = spawned' THEN Wanted(t) ELSE running[c]]
    /\ call' = [call EXCEPT ![t].own = spawned']
    /\ UNCHANGED <<clients, tracked, toldOf, refused>>

(* The next candidate is tried; after the last, a file is not open.        *)
SpawnFails(t) ==
    /\ Seeking(t) /\ Wanted(t) \notin DOMAIN clients /\ refused < MaxRefusals
    /\ refused' = refused + 1
    /\ LET left == Tail(call[t].left) IN
        /\ call' = [call EXCEPT ![t] = IF left = <<>> THEN Free ELSE [@ EXCEPT !.left = left]]
        /\ tracked' = IF left = <<>> /\ call[t].job = "open" THEN tracked \ {call[t].file} ELSE tracked
    /\ UNCHANGED <<clients, running, toldOf, spawned>>

(* Mutant: the map is not looked at again under the write lock.            *)
RegisterAnyway(t) ==
    /\ call[t].own # NoClient
    /\ clients' = [s \in DOMAIN clients \cup {Wanted(t)} |-> IF s = Wanted(t) THEN call[t].own ELSE clients[s]]
    /\ call' = [call EXCEPT ![t].client = call[t].own, ![t].own = NoClient]
    /\ UNCHANGED <<running, tracked, toldOf, spawned, refused>>

(* Under the write lock: who comes second drops the client it has started. *)
Register(t) ==
    /\ call[t].own # NoClient
    /\ IF Wanted(t) \in DOMAIN clients
       THEN /\ running' = [c \in DOMAIN running \ {call[t].own} |-> running[c]]
            /\ call' = [call EXCEPT ![t].client = clients[Wanted(t)], ![t].own = NoClient]
            /\ UNCHANGED clients
       ELSE /\ clients' = [s \in DOMAIN clients \cup {Wanted(t)} |-> IF s = Wanted(t) THEN call[t].own ELSE clients[s]]
            /\ call' = [call EXCEPT ![t].client = call[t].own, ![t].own = NoClient]
            /\ UNCHANGED running
    /\ UNCHANGED <<tracked, toldOf, spawned, refused>>

(* The message of the call is sent.                                        *)
Deliver(t) ==
    /\ call[t].client # NoClient
    /\ toldOf' = IF call[t].job = "open" THEN [toldOf EXCEPT ![call[t].file] = call[t].client] ELSE toldOf
    /\ call' = [call EXCEPT ![t] = Free]
    /\ UNCHANGED <<clients, running, tracked, spawned, refused>>

(* A server's process ends by itself; its client stays where it is.        *)
ServerDies(c) ==
    /\ c \in DOMAIN running /\ c \in Range(clients)
    /\ running' = [d \in DOMAIN running \ {c} |-> running[d]]
    /\ UNCHANGED <<clients, call, tracked, toldOf, spawned, refused>>

ServersNext ==
    \/ \E t \in Workers, f \in Sources :
          OpenSource(t, f) \/ UseSource(t, f) \/ WarmUp(t, f)
    \/ \E t \in Workers : FindRunning(t) \/ SpawnServer(t) \/ SpawnFails(t) \/ Register(t) \/ Deliver(t)
    \/ \E c \in 1 .. MaxSpawns : ServerDies(c)

ServersSpec == ServersInit /\ [][ServersNext]_serverVars

----------------------------------------------------------------------------
(* Threads that race for a server share one client: a process that is not  *)
(* the registered one of its server is in the hands of the thread that     *)
(* will register or stop it (get_or_spawn).                                *)
OneClientPerServer ==
    /\ \A c \in DOMAIN running : c \in Range(clients) \/ \E t \in Workers : call[t].own = c
    /\ \A t \in Workers : call[t].client # NoClient => call[t].client \in Range(clients)

(* While every spawn works, what is said and asked of a document goes to   *)
(* the server it was opened in; a spawn that fails once and works later    *)
(* takes the document's later messages to a server that never saw it       *)
(* opened (client_for_ext, ensure_document_open, invalidate_file).         *)
OneServerPerDocument ==
    refused = 0 =>
        \A t \in Workers : call[t].client # NoClient /\ toldOf[call[t].file] # NoClient =>
            call[t].client = toldOf[call[t].file]

(* Both: whoever needs a server talks to the one client of it.             *)
ClientsAreShared == OneClientPerServer /\ OneServerPerDocument
=============================================================================
