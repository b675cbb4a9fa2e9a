------------------------------ MODULE Sessions ------------------------------
(***************************************************************************)
(* The life of a mount.  nyne mount scans the session directory, plans the *)
(* session ids, forks a daemon for each directory, awaits its readiness,   *)
(* writes its session file and takes everything down on a signal.  The     *)
(* daemon binds the control socket, serves it on one thread and removes    *)
(* its path when it ends.  nyne attach and nyne list find a daemon by its  *)
(* session file and speak to it through the path of its socket.  Processes *)
(* may be killed at any moment; the next ones find what they left behind.  *)
(***************************************************************************)
EXTENDS Naturals, Sequences, FiniteSets

CONSTANTS
    Supervisors,  \* invocations of nyne mount
    Specs,        \* Specs[s]: its arguments, a sequence of [base, explicit]
    Clients,      \* invocations of nyne attach and nyne list
    Listers,      \* those of nyne list
    Wants,        \* Wants[c]: the session id a client is given, or Nobody
    Nobody,
    MaxSuffix,    \* session ids are a base, base-2, up to base-MaxSuffix
    Casts         \* [who, kills]: who takes part, how many are killed outright

Daemons == UNION {{s} \X DOMAIN Specs[s] : s \in Supervisors}
Bases == {Specs[d[1]][d[2]].base : d \in Daemons}
Ids == Bases \X (1..MaxSuffix)

ASSUME SessionConstants ==
    /\ Listers \subseteq Clients
    /\ \A s \in Supervisors :
          Specs[s] \in Seq([base : Bases, explicit : BOOLEAN]) /\ Specs[s] # <<>>
    /\ \A c \in Clients : Wants[c] \in Ids \cup {Nobody}
    /\ Nobody \notin Daemons \cup Ids \cup Clients /\ Clients \cap Daemons = {}
    /\ MaxSuffix \in Nat \ {0}
    /\ \A cast \in Casts : cast.who \subseteq Supervisors \cup Clients /\ cast.kills \in Nat

VARIABLES
    file,     \* file[i]: the daemon a session file names
    socket,   \* socket[i]: the daemon that bound the path of a control socket
    daemon,   \* [pc, ready, killed]; ready: the byte is in the readiness pipe
    sup,      \* [pc, at, ids]: a supervisor and the mount it is about
    client,   \* [pc, request, id, to, guard]: a client and its connection
    scan,     \* [pc, left, at, found]: a reading of the session directory
    server,   \* [queue, with]: connections to a daemon, the one it reads from
    trees,    \* the processes with a state tree under state_root
    begun,    \* begun[d]: who was already at work when d was announced
    kills     \* processes that may still be killed outright

vars == <<file, socket, daemon, sup, client, scan, server, trees, begun, kills>>

IdOf(d) == sup[d[1]].ids[d[2]]
Alive(d) == daemon[d].pc \notin {"none", "dead"}
Current(s) == <<s, sup[s].at>>

Init ==
    /\ file = [i \in Ids |-> Nobody]
    /\ socket = [i \in Ids |-> Nobody]
    /\ daemon = [d \in Daemons |-> [pc |-> "none", ready |-> FALSE, killed |-> FALSE]]
    /\ \E cast \in Casts :
          /\ sup = [s \in Supervisors |-> [pc |-> IF s \in cast.who THEN "start" ELSE "done",
                                           at |-> 1, ids |-> <<>>]]
          /\ client = [c \in Clients |-> [pc |-> IF c \in cast.who THEN "start" ELSE "done",
                                          request |-> "none", id |-> Nobody,
                                          to |-> Nobody, guard |-> FALSE]]
          /\ kills = cast.kills
    /\ scan = [p \in Supervisors \cup Clients |->
                  [pc |-> "idle", left |-> {}, at |-> Nobody, found |-> {}]]
    /\ server = [d \in Daemons |-> [queue |-> <<>>, with |-> Nobody]]
    /\ trees = {}
    /\ begun = [d \in Daemons |-> {}]

----------------------------------------------------------------------------
(* SessionRegistry::scan: each session file is read, its socket looked for *)
(* and, when that is missing, the file removed: three calls apart.         *)

CanScan(p) ==
    IF p \in Supervisors THEN sup[p].pc = "start" ELSE client[p].pc = "start"

Scanned(p) == CanScan(p) /\ scan[p].pc = "read" /\ scan[p].left = {}

StartScan(p) ==
    /\ CanScan(p) /\ scan[p].pc = "idle"
    /\ scan' = [scan EXCEPT ![p].pc = "read", ![p].left = {i \in Ids : file[i] # Nobody}]
    /\ UNCHANGED <<file, socket, daemon, sup, client, server, trees, begun, kills>>

ReadFile(p) ==
    /\ CanScan(p) /\ scan[p].pc = "read"
    /\ \E i \in scan[p].left :
          scan' = [scan EXCEPT ![p].left = @ \ {i}, ![p].at = i,
                               ![p].pc = IF file[i] = Nobody THEN "read" ELSE "check"]
    /\ UNCHANGED <<file, socket, daemon, sup, client, server, trees, begun, kills>>

CheckSocket(p) ==
    /\ CanScan(p) /\ scan[p].pc = "check"
    /\ scan' = IF socket[scan[p].at] = Nobody
               THEN [scan EXCEPT ![p].pc = "sweep"]
               ELSE [scan EXCEPT ![p].pc = "read", ![p].found = @ \cup {scan[p].at}]
    /\ UNCHANGED <<file, socket, daemon, sup, client, server, trees, begun, kills>>

Sweep(p) ==
    /\ CanScan(p) /\ scan[p].pc = "sweep"
    /\ file' = [file EXCEPT ![scan[p].at] = Nobody]
    /\ scan' = [scan EXCEPT ![p].pc = "read"]
    /\ UNCHANGED <<socket, daemon, sup, client, server, trees, begun, kills>>

----------------------------------------------------------------------------
(* nyne mount: the plan, the daemons one by one, the wait, the teardown.   *)

is_active(s, i) == i \in scan[s].found

(* Mutant: an explicit id is taken as it is.                               *)
from_explicitUnchecked(s, spec) == <<spec.base, 1>>

(* An explicit id in use is an error.                                      *)
from_explicit(s, spec) == IF is_active(s, <<spec.base, 1>>) THEN Nobody ELSE <<spec.base, 1>>

(* The name of the directory, or the first of its numbers not in use.      *)
from_path(s, spec) ==
    <<spec.base, CHOOSE n \in 1..MaxSuffix :
          /\ ~is_active(s, <<spec.base, n>>)
          /\ \A m \in 1..(n - 1) : is_active(s, <<spec.base, m>>)>>

PlannedId(s, spec) == IF spec.explicit THEN from_explicit(s, spec) ELSE from_path(s, spec)
PlannedIds(s) == [k \in DOMAIN Specs[s] |-> PlannedId(s, Specs[s][k])]

Valid(ids) ==
    \A k \in DOMAIN ids : ids[k] # Nobody /\ \A j \in 1..(k - 1) : ids[j] # ids[k]

(* The processes behind the state trees: a daemon, an attached command.    *)
Running(p) == IF p \in Clients THEN client[p].pc \in {"running", "orphan"} ELSE Alive(p)
reap_stale == {p \in trees : Running(p)}

Plan(s) ==
    /\ Scanned(s)
    /\ \A spec \in {Specs[s][k] : k \in DOMAIN Specs[s]} :
          \E n \in 1..MaxSuffix : ~is_active(s, <<spec.base, n>>)
    /\ IF Valid(PlannedIds(s))
       THEN /\ sup' = [sup EXCEPT ![s].pc = "launch", ![s].ids = PlannedIds(s)]
            /\ trees' = reap_stale
       ELSE /\ sup' = [sup EXCEPT ![s].pc = "done"]
            /\ UNCHANGED trees
    /\ scan' = [scan EXCEPT ![s] = [pc |-> "idle", left |-> {}, at |-> Nobody, found |-> {}]]
    /\ UNCHANGED <<file, socket, daemon, client, server, begun, kills>>

Fork(s) ==
    /\ sup[s].pc = "launch"
    /\ daemon' = [daemon EXCEPT ![Current(s)].pc = "starting"]
    /\ sup' = [sup EXCEPT ![s].pc = "awaiting"]
    /\ UNCHANGED <<file, socket, client, scan, server, trees, begun, kills>>

AtWork(p) == scan[p].pc # "idle" \/ (p \in Supervisors /\ sup[p].ids # <<>>)

Announce(s) ==
    /\ sup[s].pc = "awaiting" /\ daemon[Current(s)].ready
    /\ file' = [file EXCEPT ![IdOf(Current(s))] = Current(s)]
    /\ begun' = [begun EXCEPT ![Current(s)] =
                    {p \in (Supervisors \cup Clients) \ {s} : AtWork(p)}]
    /\ sup' = IF sup[s].at < Len(sup[s].ids)
              THEN [sup EXCEPT ![s].pc = "launch", ![s].at = @ + 1]
              ELSE [sup EXCEPT ![s].pc = "waiting"]
    /\ UNCHANGED <<socket, daemon, client, scan, server, trees, kills>>

(* The pipe closes without a byte, or the session file cannot be written.  *)
StartFails(s) ==
    /\ sup[s].pc = "awaiting"
    /\ daemon[Current(s)].ready \/ ~Alive(Current(s))
    /\ sup' = [sup EXCEPT ![s].pc = "aborting"]
    /\ UNCHANGED <<file, socket, daemon, client, scan, server, trees, begun, kills>>

(* What SIGTERM or SIGINT does to a daemon: before its handlers are set it *)
(* dies on the spot, the connections it holds with it.                     *)
Signalled(d) ==
    CASE daemon[d].pc = "serving" -> [daemon[d] EXCEPT !.pc = "stopping"]
      [] daemon[d].pc \in {"starting", "prepared", "unlinked", "bound", "ready"} ->
            [daemon[d] EXCEPT !.pc = "dead", !.killed = TRUE]
      [] OTHER -> daemon[d]

Signal(D) ==
    LET fallen == {d \in D : Alive(d) /\ Signalled(d).pc = "dead"} IN
    /\ daemon' = [d \in Daemons |-> IF d \in D THEN Signalled(d) ELSE daemon[d]]
    /\ server' = [d \in Daemons |->
                     IF d \in fallen THEN [queue |-> <<>>, with |-> Nobody] ELSE server[d]]
    /\ client' = [c \in Clients |->
                     IF client[c].to \in fallen /\ client[c].pc \in {"connected", "sent"}
                     THEN [client[c] EXCEPT !.pc = "failed"] ELSE client[c]]

(* ChildGuard::drop of the mount that failed, then the earlier ones.       *)
Abort(s) ==
    /\ sup[s].pc = "aborting"
    /\ IF Alive(Current(s))
       THEN /\ daemon[Current(s)].pc \notin {"stopping", "joined"}
            /\ Signal({Current(s)})
            /\ UNCHANGED sup
       ELSE /\ sup' = [sup EXCEPT ![s].pc = IF sup[s].at = 1 THEN "done" ELSE "teardown",
                                  ![s].ids = SubSeq(@, 1, sup[s].at - 1), ![s].at = 1]
            /\ UNCHANGED <<daemon, server, client>>
    /\ UNCHANGED <<file, socket, scan, trees, begun, kills>>

(* SIGTERM to the supervisor alone, or Ctrl+C to the whole process group.  *)
Stop(s) ==
    /\ sup[s].pc = "waiting"
    /\ sup' = [sup EXCEPT ![s].pc = "teardown", ![s].at = 1]
    /\ \E group \in BOOLEAN : Signal(IF group THEN {s} \X DOMAIN Specs[s] ELSE {})
    /\ UNCHANGED <<file, socket, scan, trees, begun, kills>>

RemoveFile(s) ==
    /\ sup[s].pc = "teardown"
    /\ file' = [file EXCEPT ![IdOf(Current(s))] = Nobody]
    /\ sup' = [sup EXCEPT ![s].pc = "terminating"]
    /\ UNCHANGED <<socket, daemon, client, scan, server, trees, begun, kills>>

Terminate(s) ==
    /\ sup[s].pc = "terminating"
    /\ Signal({Current(s)})
    /\ sup' = [sup EXCEPT ![s].pc = "reaping"]
    /\ UNCHANGED <<file, socket, scan, trees, begun, kills>>

Reap(s) ==
    /\ sup[s].pc = "reaping" /\ ~Alive(Current(s))
    /\ trees' = trees \ {Current(s)}
    /\ sup' = IF sup[s].at < Len(sup[s].ids)
              THEN [sup EXCEPT ![s].pc = "teardown", ![s].at = @ + 1]
              ELSE [sup EXCEPT ![s].pc = "done"]
    /\ UNCHANGED <<file, socket, daemon, client, scan, server, begun, kills>>

----------------------------------------------------------------------------
(* The daemon: build_fuse_session, then the wait for a signal.             *)

Becomes(d, pc) == daemon' = [daemon EXCEPT ![d].pc = pc]

PrepareStorage(d) ==
    /\ daemon[d].pc = "starting" /\ Becomes(d, "prepared")
    /\ trees' = trees \cup {d}
    /\ UNCHANGED <<file, socket, sup, client, scan, server, begun, kills>>

RemoveStale(d) ==
    /\ daemon[d].pc = "prepared" /\ Becomes(d, "unlinked")
    /\ socket' = [socket EXCEPT ![IdOf(d)] = Nobody]
    /\ UNCHANGED <<file, sup, client, scan, server, trees, begun, kills>>

Bind(d) ==
    /\ daemon[d].pc = "unlinked"
    /\ IF socket[IdOf(d)] = Nobody
       THEN /\ Becomes(d, "bound")
            /\ socket' = [socket EXCEPT ![IdOf(d)] = d]
       ELSE Becomes(d, "dead") /\ UNCHANGED socket
    /\ UNCHANGED <<file, sup, client, scan, server, trees, begun, kills>>

(* The mount and the watcher stand and the byte is written; a supervisor   *)
(* that is gone has closed the pipe, and the session is dropped again.     *)
SignalReady(d) ==
    /\ daemon[d].pc = "bound"
    /\ daemon' = IF sup[d[1]].pc = "dead"
                 THEN [daemon EXCEPT ![d].pc = "stopping"]
                 ELSE [daemon EXCEPT ![d].pc = "ready", ![d].ready = TRUE]
    /\ UNCHANGED <<file, socket, sup, client, scan, server, trees, begun, kills>>

(* Storage or a plugin fails; the mount or the watcher fails, and the      *)
(* server already started is dropped.                                      *)
BuildFails(d) ==
    /\ \/ daemon[d].pc \in {"starting", "prepared"} /\ Becomes(d, "dead")
       \/ daemon[d].pc = "bound" /\ Becomes(d, "stopping")
    /\ UNCHANGED <<file, socket, sup, client, scan, server, trees, begun, kills>>

SetHandlers(d) ==
    /\ daemon[d].pc = "ready" /\ Becomes(d, "serving")
    /\ UNCHANGED <<file, socket, sup, client, scan, server, trees, begun, kills>>

(* The server thread: the shutdown pipe comes before a connection.         *)
Listening(d) == daemon[d].pc \in {"bound", "ready", "serving", "stopping"}

Accept(d) ==
    /\ daemon[d].pc \in {"bound", "ready", "serving"}
    /\ server[d].with = Nobody /\ server[d].queue # <<>>
    /\ server' = [server EXCEPT ![d] = [queue |-> Tail(@.queue), with |-> Head(@.queue)]]
    /\ UNCHANGED <<file, socket, daemon, sup, client, scan, trees, begun, kills>>

(* Mutant: the end of a connection without a request is not noticed.       *)
handle_connectionPatient(d) ==
    LET c == server[d].with IN
    /\ c # Nobody /\ Alive(d) /\ client[c].pc = "sent"
    /\ client' = [client EXCEPT ![c].pc = "answered"]
    /\ server' = [server EXCEPT ![d].with = Nobody]
    /\ UNCHANGED <<file, socket, daemon, sup, scan, trees, begun, kills>>

(* read_line returns when the client has sent its request or has gone.     *)
handle_connection(d) ==
    LET c == server[d].with IN
    /\ c # Nobody /\ Alive(d)
    /\ \/ /\ client[c].pc = "sent"
          /\ client' = [client EXCEPT ![c].pc = "answered"]
       \/ /\ client[c].pc \in {"orphan", "dead"}
          /\ UNCHANGED client
    /\ server' = [server EXCEPT ![d].with = Nobody]
    /\ UNCHANGED <<file, socket, daemon, sup, scan, trees, begun, kills>>

EndServer(d) ==
    /\ daemon[d].pc = "stopping" /\ server[d].with = Nobody
    /\ Becomes(d, "joined")
    /\ server' = [server EXCEPT ![d].queue = <<>>]
    /\ client' = [c \in Clients |->
                     IF client[c].to = d /\ client[c].pc \in {"connected", "sent"}
                     THEN [client[c] EXCEPT !.pc = "failed"] ELSE client[c]]
    /\ UNCHANGED <<file, socket, sup, scan, trees, begun, kills>>

(* The path is removed, whoever has bound it since.                        *)
RemoveSocket(d) ==
    /\ daemon[d].pc = "joined" /\ Becomes(d, "dead")
    /\ socket' = [socket EXCEPT ![IdOf(d)] = Nobody]
    /\ UNCHANGED <<file, sup, client, scan, server, trees, begun, kills>>

----------------------------------------------------------------------------
(* nyne attach and nyne list.                                              *)

Asks(c, request) == [client[c] EXCEPT !.pc = "connect", !.request = request, !.to = Nobody]
Ends(c) == [client[c] EXCEPT !.pc = "done", !.request = "none", !.to = Nobody]

(* The session a client is about; Nobody when it gives up or needs none.   *)
Resolved(c) ==
    CASE c \in Listers -> Wants[c]
      [] Wants[c] # Nobody -> IF Wants[c] \in scan[c].found THEN Wants[c] ELSE Nobody
      [] OTHER -> IF Cardinality(scan[c].found) = 1
                  THEN CHOOSE i \in scan[c].found : TRUE ELSE Nobody

Resolve(c) ==
    /\ Scanned(c)
    /\ client' = [client EXCEPT ![c] =
          IF Resolved(c) = Nobody THEN Ends(c)
          ELSE [Asks(c, IF c \in Listers THEN "list" ELSE "register") EXCEPT !.id = Resolved(c)]]
    /\ scan' = [scan EXCEPT ![c] = [pc |-> "idle", left |-> {}, at |-> Nobody, found |-> {}]]
    /\ UNCHANGED <<file, socket, daemon, sup, server, trees, begun, kills>>

Connect(c) ==
    /\ client[c].pc = "connect"
    /\ LET d == socket[client[c].id] IN
       IF d # Nobody /\ Listening(d)
       THEN /\ client' = [client EXCEPT ![c].pc = "connected", ![c].to = d]
            /\ server' = [server EXCEPT ![d].queue = Append(@, c)]
       ELSE /\ client' = [client EXCEPT ![c].pc = "failed"]
            /\ UNCHANGED server
    /\ UNCHANGED <<file, socket, daemon, sup, scan, trees, begun, kills>>

Send(c) ==
    /\ client[c].pc = "connected"
    /\ client' = [client EXCEPT ![c].pc = "sent"]
    /\ UNCHANGED <<file, socket, daemon, sup, scan, server, trees, begun, kills>>

(* The guard of a registration asks for its end when the command is over.  *)
Leaves(c) == IF client[c].guard THEN [Asks(c, "unregister") EXCEPT !.guard = FALSE] ELSE Ends(c)

(* A failed registration is only logged; without the namespaces of the     *)
(* daemon there is no command to run.                                      *)
Proceed(c) ==
    /\ client[c].pc \in {"answered", "failed"}
    /\ client' = [client EXCEPT ![c] =
          CASE client[c].request = "register" ->
                  [Asks(c, "fds") EXCEPT !.guard = client[c].pc = "answered"]
            [] client[c].request = "fds" /\ client[c].pc = "answered" ->
                  [client[c] EXCEPT !.pc = "running"]
            [] client[c].request = "fds" /\ client[c].pc = "failed" -> Leaves(c)
            [] OTHER -> Ends(c)]
    /\ trees' = IF client'[c].pc = "running" THEN trees \cup {c} ELSE trees
    /\ UNCHANGED <<file, socket, daemon, sup, scan, server, begun, kills>>

CommandEnds(c) ==
    /\ client[c].pc \in {"running", "orphan"}
    /\ IF client[c].pc = "running"
       THEN client' = [client EXCEPT ![c] = Leaves(c)] /\ trees' = trees \ {c}
       ELSE client' = [client EXCEPT ![c].pc = "dead"] /\ UNCHANGED trees
    /\ UNCHANGED <<file, socket, daemon, sup, scan, server, begun, kills>>

----------------------------------------------------------------------------
(* Death without notice.  Nothing takes the children of the dead along.    *)

KillDaemon(d) ==
    /\ Alive(d) /\ kills > 0 /\ kills' = kills - 1
    /\ daemon' = [daemon EXCEPT ![d].pc = "dead", ![d].killed = TRUE]
    /\ server' = [server EXCEPT ![d] = [queue |-> <<>>, with |-> Nobody]]
    /\ client' = [c \in Clients |->
                     IF client[c].to = d /\ client[c].pc \in {"connected", "sent"}
                     THEN [client[c] EXCEPT !.pc = "failed"] ELSE client[c]]
    /\ UNCHANGED <<file, socket, sup, scan, trees, begun>>

KillSupervisor(s) ==
    /\ sup[s].pc \notin {"done", "dead"} /\ kills > 0 /\ kills' = kills - 1
    /\ sup' = [sup EXCEPT ![s].pc = "dead"]
    /\ UNCHANGED <<file, socket, daemon, client, scan, server, trees, begun>>

KillClient(c) ==
    /\ client[c].pc \notin {"start", "done", "dead", "orphan"}
    /\ kills > 0 /\ kills' = kills - 1
    /\ client' = [client EXCEPT ![c].pc = IF @ = "running" THEN "orphan" ELSE "dead"]
    /\ UNCHANGED <<file, socket, daemon, sup, scan, server, trees, begun>>

Scans(p) == StartScan(p) \/ ReadFile(p) \/ CheckSocket(p) \/ Sweep(p)
Tears(s) == Abort(s) \/ RemoveFile(s) \/ Terminate(s) \/ Reap(s)
Supervises(s) == Plan(s) \/ Fork(s) \/ Announce(s) \/ StartFails(s) \/ Stop(s) \/ Tears(s)
Ending(d) == EndServer(d) \/ RemoveSocket(d)
Serves(d) == Accept(d) \/ handle_connection(d)
Builds(d) == PrepareStorage(d) \/ RemoveStale(d) \/ Bind(d) \/ SignalReady(d)
             \/ BuildFails(d) \/ SetHandlers(d)
Calls(c) == Resolve(c) \/ Connect(c) \/ Send(c) \/ Proceed(c) \/ CommandEnds(c)

Next ==
    \/ \E p \in Supervisors \cup Clients : Scans(p)
    \/ \E s \in Supervisors : Supervises(s) \/ KillSupervisor(s)
    \/ \E d \in Daemons : Builds(d) \/ Serves(d) \/ Ending(d) \/ KillDaemon(d)
    \/ \E c \in Clients : Calls(c) \/ KillClient(c)

(* Processes run; a client sends what it has connected for.  Nothing is    *)
(* asked of the user's signals, the command's end or the failures.         *)
Fairness ==
    /\ \A s \in Supervisors : WF_vars(Tears(s))
    /\ \A d \in Daemons : WF_vars(Ending(d)) /\ WF_vars(handle_connection(d))
    /\ \A c \in Clients : WF_vars(Send(c))

Spec == Init /\ [][Next]_vars /\ Fairness

----------------------------------------------------------------------------

SessionTypeOK ==
    /\ file \in [Ids -> Daemons \cup {Nobody}] /\ socket \in [Ids -> Daemons \cup {Nobody}]
    /\ daemon \in [Daemons ->
          [pc : {"none", "starting", "prepared", "unlinked", "bound", "ready", "serving",
                 "stopping", "joined", "dead"},
           ready : BOOLEAN, killed : BOOLEAN]]
    /\ sup \in [Supervisors ->
          [pc : {"start", "launch", "awaiting", "waiting", "aborting", "teardown",
                 "terminating", "reaping", "done", "dead"},
           at : Nat, ids : Seq(Ids)]]
    /\ client \in [Clients ->
          [pc : {"start", "connect", "connected", "sent", "answered", "failed", "running",
                 "orphan", "done", "dead"},
           request : {"none", "list", "register", "fds", "unregister"},
           id : Ids \cup {Nobody}, to : Daemons \cup {Nobody}, guard : BOOLEAN]]
    /\ scan \in [Supervisors \cup Clients ->
          [pc : {"idle", "read", "check", "sweep"}, left : SUBSET Ids,
           at : Ids \cup {Nobody}, found : SUBSET Ids]]
    /\ server \in [Daemons -> [queue : Seq(Clients), with : Clients \cup {Nobody}]]
    /\ trees \subseteq Daemons \cup Clients
    /\ begun \in [Daemons -> SUBSET (Supervisors \cup Clients)]
    /\ kills \in Nat

Mounted(d) == d[2] \in DOMAIN sup[d[1]].ids
Found(d) ==
    /\ Mounted(d) /\ file[IdOf(d)] = d /\ socket[IdOf(d)] = d
    /\ daemon[d].pc \in {"ready", "serving"}

Moves(p) ==
    \/ scan'[p] # scan[p]
    \/ p \in Supervisors /\ (sup'[p] # sup[p] \/ \E k \in DOMAIN Specs[p] :
                                                    daemon'[<<p, k>>] # daemon[<<p, k>>])

(* A session that nyne attach can find - its file and its socket lead to   *)
(* its serving daemon - is lost only by its own end, or to a process that  *)
(* was already at work when it was announced: a mount that scanned before, *)
(* an older daemon of that id, a scan that read an older file.             *)
OnlyRacesTake ==
    [][\A d \in Daemons :
          Found(d) /\ ~Found(d)' =>
             \/ daemon'[d].pc # daemon[d].pc
             \/ sup[d[1]].pc = "teardown" /\ Current(d[1]) = d
             \/ \E p \in begun[d] : Moves(p)]_vars

(* A supervisor that takes its sessions down, on a signal or because one   *)
(* mount failed, comes to the end of it: every daemon has ended, nothing   *)
(* leads to them any more but the socket of one that was killed, and their *)
(* state trees are gone.                                                   *)
TakenDown(s) ==
    \A d \in {s} \X DOMAIN sup[s].ids :
        /\ daemon[d].pc = "dead" /\ file[IdOf(d)] # d /\ d \notin trees
        /\ socket[IdOf(d)] = d => daemon[d].killed

StoppedSessionsEnd ==
    \A s \in Supervisors :
        sup[s].pc \in {"aborting", "teardown"} ~>
            (sup[s].pc = "dead" \/ (sup[s].pc = "done" /\ TakenDown(s)))
=============================================================================
