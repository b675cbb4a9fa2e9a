--------------------------- MODULE VisibilityMap ---------------------------
(***************************************************************************)
(* Which processes see the virtual nodes.  A FUSE thread resolves the      *)
(* visibility of the requesting process through its layers: the map of     *)
(* pids, the rules on names, the cgroup of a session, the overrides of its *)
(* ancestors; what it finds it stores under the pid.  The control server   *)
(* sets overrides and rules in between, while the processes fork, exec and *)
(* exit and their pids come back.                                          *)
(***************************************************************************)
EXTENDS Naturals, Sequences

CONSTANTS
    Pids,         \* the pids processes may have
    First,        \* the process running at the start
    Names,        \* their names, as /proc/<pid>/comm shows them
    Shell,        \* the name of the first
    name_rules,   \* name -> level: passthrough_processes and the plugins'
    Readers,      \* the threads that serve FUSE requests
    MAX_ANCESTOR_DEPTH,
    Unset,        \* no entry, no rule, no process
    Processes     \* [readers, cgroups, forks, execs, sets]: the threads there are,
                  \* cgroups v2 or not, how many events of each kind there may be

Level == {"all", "default", "none"}
Entry == [kind : {"explicit", "cached"}, level : Level]

ASSUME VisibilityConstants ==
    /\ First \in Pids /\ Shell \in Names
    /\ DOMAIN name_rules \subseteq Names /\ name_rules \in [DOMAIN name_rules -> Level]
    /\ MAX_ANCESTOR_DEPTH \in Nat
    /\ Unset \notin Pids \cup Names \cup Level \cup Entry
    /\ Processes \subseteq [readers : SUBSET Readers, cgroups : BOOLEAN,
                           forks : Nat, execs : Nat, sets : Nat]

VARIABLES
    proc,      \* [alive, parent, comm, cgroup]: the processes of the system
    cgroup_tracker,
    pid_entries,         \* pid -> [kind, level]
    dynamic_name_rules,  \* name -> level
    sessions,            \* the pid a session cgroup is named after -> level
    process_names,       \* pid -> comm, read once and kept
    attached,            \* the pids in the process table
    reader,    \* [pc, pid, line, level]: a resolution under way, or its answer
    setter,    \* [pc, pid, level]: the control thread in SetVisibility
    settled,   \* settled[p]: the override set with no resolution of p under way
    grounds,   \* grounds[p]: the levels a layer has given p at some time
    events     \* the cast, and what is left of it

mapVars == <<proc, cgroup_tracker, pid_entries, dynamic_name_rules, sessions, process_names,
             attached, reader, setter, settled, grounds, events>>

system == <<proc>>
layers == <<cgroup_tracker, pid_entries, dynamic_name_rules, sessions>>

----------------------------------------------------------------------------
(* The layers.                                                             *)

explicit(p) == pid_entries[p] # Unset /\ pid_entries[p].kind = "explicit"

(* Mutant: what an ancestor was merely found to have is inherited too.     *)
inheritedFromAny(line) ==
    LET heirs == {k \in DOMAIN line : pid_entries[line[k]] # Unset} IN
    IF heirs = {} THEN Unset
    ELSE pid_entries[line[CHOOSE k \in heirs : \A j \in heirs : k <= j]].level

(* The override of the nearest ancestor that has one.                      *)
inherited(line) ==
    LET heirs == {k \in DOMAIN line : explicit(line[k])} IN
    IF heirs = {} THEN Unset
    ELSE pid_entries[line[CHOOSE k \in heirs : \A j \in heirs : k <= j]].level

rule_of(comm) ==
    IF dynamic_name_rules[comm] # Unset THEN dynamic_name_rules[comm]
    ELSE IF comm \in DOMAIN name_rules THEN name_rules[comm] ELSE Unset

session_level(p) ==
    IF cgroup_tracker /\ proc[p].alive /\ proc[p].cgroup # Unset
    THEN sessions[proc[p].cgroup] ELSE Unset

(* Every override an ancestor has, not only the nearest one's.             *)
overrides_above(line) ==
    {pid_entries[line[k]].level : k \in {j \in DOMAIN line : explicit(line[j])}}

(* What the layers say of p as they stand: of its ancestors, those that    *)
(* have been read for a resolution of it under way.                        *)
Given(p) ==
    {rule_of(proc[p].comm), session_level(p)}
        \cup (IF process_names[p] = Unset THEN {} ELSE {rule_of(process_names[p])})
        \cup (UNION {overrides_above(reader[r].line) :
                      r \in {x \in Readers : reader[x].pid = p}})
        \cup (IF explicit(p) THEN {pid_entries[p].level} ELSE {})

Recorded == grounds' = [p \in Pids |-> grounds[p] \cup (Given(p)' \ {Unset})]

MapInit ==
    /\ events \in Processes
    /\ proc = [p \in Pids |-> [alive |-> p = First /\ events.readers # {}, parent |-> Unset,
                               comm |-> Shell, cgroup |-> Unset]]
    /\ cgroup_tracker = events.cgroups
    /\ pid_entries = [p \in Pids |-> Unset]
    /\ dynamic_name_rules = [n \in Names |-> Unset]
    /\ sessions = [p \in Pids |-> Unset]
    /\ process_names = [p \in Pids |-> Unset]
    /\ attached = {}
    /\ reader = [r \in Readers |-> [pc |-> "idle", pid |-> First, line |-> <<>>,
                                    level |-> "default"]]
    /\ setter = [pc |-> "idle", pid |-> First, level |-> "default"]
    /\ settled = [p \in Pids |-> Unset]
    /\ grounds = [p \in Pids |-> {"default"} \cup (Given(p) \ {Unset})]

----------------------------------------------------------------------------
(* The processes.                                                          *)

ForkProcess(p, q) ==
    /\ proc[p].alive /\ ~proc[q].alive /\ events.forks > 0
    /\ proc' = [proc EXCEPT ![q] = [proc[p] EXCEPT !.parent = p]]
    /\ events' = [events EXCEPT !.forks = @ - 1]
    /\ UNCHANGED <<layers, process_names, attached, reader, setter, settled>> /\ Recorded

(* A process waits for the answers to its own requests.                    *)
Exec(p, n) ==
    /\ proc[p].alive /\ proc[p].comm # n /\ events.execs > 0
    /\ \A r \in Readers : reader[r].pc = "idle" \/ reader[r].pid # p
    /\ proc' = [proc EXCEPT ![p].comm = n]
    /\ events' = [events EXCEPT !.execs = @ - 1]
    /\ UNCHANGED <<layers, process_names, attached, reader, setter, settled>> /\ Recorded

Exit(p) ==
    /\ proc[p].alive
    /\ proc' = [q \in Pids |->
                   IF q = p THEN [proc[q] EXCEPT !.alive = FALSE, !.parent = Unset]
                   ELSE IF proc[q].parent = p THEN [proc[q] EXCEPT !.parent = Unset]
                   ELSE proc[q]]
    /\ UNCHANGED <<layers, process_names, attached, reader, setter, settled, events>> /\ Recorded

----------------------------------------------------------------------------
(* The control thread.                                                     *)

handle_register(p) ==
    /\ setter.pc = "idle" /\ proc[p].alive /\ p \notin attached
    /\ attached' = attached \cup {p}
    /\ UNCHANGED <<system, layers, process_names, reader, setter, settled, grounds, events>>

handle_unregister(p) ==
    /\ setter.pc = "idle" /\ p \in attached
    /\ attached' = attached \ {p}
    /\ UNCHANGED <<system, layers, process_names, reader, setter, settled, grounds, events>>

handle_list ==
    /\ setter.pc = "idle"
    /\ attached' = {p \in attached : proc[p].alive}
    /\ UNCHANGED <<system, layers, process_names, reader, setter, settled, grounds, events>>

(* The process is looked for in the table and the table let go.            *)
handle_set_visibility(p, level) ==
    /\ setter.pc = "idle" /\ p \in attached /\ events.sets > 0
    /\ setter' = [pc |-> "set", pid |-> p, level |-> level]
    /\ events' = [events EXCEPT !.sets = @ - 1]
    /\ UNCHANGED <<system, layers, process_names, attached, reader, settled, grounds>>

(* A resolution of p that has looked and found no entry.                   *)
InFlight(p) ==
    \E r \in Readers : reader[r].pid = p /\ reader[r].pc \notin {"idle", "lookup"}

set_pid ==
    /\ setter.pc = "set"
    /\ pid_entries' = [pid_entries EXCEPT
                          ![setter.pid] = [kind |-> "explicit", level |-> setter.level]]
    /\ setter' = [setter EXCEPT !.pc = IF cgroup_tracker THEN "track" ELSE "idle"]
    /\ settled' = [settled EXCEPT ![setter.pid] =
                      IF InFlight(setter.pid) THEN Unset ELSE setter.level]
    /\ UNCHANGED <<system, cgroup_tracker, dynamic_name_rules, sessions, process_names,
                   attached, reader, events>>
    /\ Recorded

(* The process moves into the cgroup of its session, or the write fails.   *)
track ==
    /\ setter.pc = "track"
    /\ \/ /\ proc[setter.pid].alive
          /\ proc' = [proc EXCEPT ![setter.pid].cgroup = setter.pid]
          /\ setter' = [setter EXCEPT !.pc = "insert"]
       \/ /\ UNCHANGED system
          /\ setter' = [setter EXCEPT !.pc = "idle"]
    /\ UNCHANGED <<layers, process_names, attached, reader, settled, events>> /\ Recorded

insert_session ==
    /\ setter.pc = "insert"
    /\ sessions' = [sessions EXCEPT ![setter.pid] = setter.level]
    /\ setter' = [setter EXCEPT !.pc = "idle"]
    /\ UNCHANGED <<system, cgroup_tracker, pid_entries, dynamic_name_rules, process_names,
                   attached, reader, settled, events>>
    /\ Recorded

set_name_rule(n, level) ==
    /\ setter.pc = "idle" /\ events.sets > 0
    /\ dynamic_name_rules' = [dynamic_name_rules EXCEPT ![n] = level]
    /\ events' = [events EXCEPT !.sets = @ - 1]
    /\ UNCHANGED <<system, cgroup_tracker, pid_entries, sessions, process_names,
                   attached, reader, setter, settled>>
    /\ Recorded

----------------------------------------------------------------------------
(* A request is labelled with the name of its process; then the process is *)
(* resolved layer by layer, and what is found has yet to be stored.        *)

Goes(r, pc, level) == reader' = [reader EXCEPT ![r].pc = pc, ![r].level = level]
Finds(r, level, otherwise) ==
    IF level = Unset THEN Goes(r, otherwise, "default") ELSE Goes(r, "store", level)

(* ProcessNameCache::get_or_read: what procfs said first, be it nothing.   *)
process_from(r, p) ==
    /\ reader[r].pc = "idle" /\ proc[p].alive
    /\ process_names' = [process_names EXCEPT ![p] = IF @ = Unset THEN proc[p].comm ELSE @]
    /\ reader' = [reader EXCEPT ![r] = [pc |-> "lookup", pid |-> p, line |-> <<>>,
                                        level |-> "default"]]
    /\ UNCHANGED <<system, layers, attached, setter, settled, events>> /\ Recorded

has_rules == DOMAIN name_rules # {} \/ \E n \in Names : dynamic_name_rules[n] # Unset

(* Mutant: the rules for names come before the overrides.                  *)
resolveByNameFirst(r) ==
    LET entry == pid_entries[reader[r].pid] IN
    /\ reader[r].pc = "lookup"
    /\ IF has_rules THEN Goes(r, "rules", "default")
       ELSE IF entry # Unset THEN Goes(r, "idle", entry.level)
       ELSE Goes(r, "cgroup", "default")
    /\ UNCHANGED <<system, layers, process_names, attached, setter, settled, grounds, events>>

(* The direct lookup: an override or what an earlier request has stored.   *)
resolve(r) ==
    LET entry == pid_entries[reader[r].pid] IN
    /\ reader[r].pc = "lookup"
    /\ IF entry # Unset THEN Goes(r, "idle", entry.level)
       ELSE Goes(r, IF has_rules THEN "rules" ELSE "cgroup", "default")
    /\ UNCHANGED <<system, layers, process_names, attached, setter, settled, grounds, events>>

resolve_by_comm(r) ==
    /\ reader[r].pc = "rules"
    /\ Finds(r, rule_of(process_names[reader[r].pid]), "cgroup")
    /\ UNCHANGED <<system, layers, process_names, attached, setter, settled, grounds, events>>

resolve_by_cgroup(r) ==
    /\ reader[r].pc = "cgroup"
    /\ Finds(r, session_level(reader[r].pid), "ancestors")
    /\ UNCHANGED <<system, layers, process_names, attached, setter, settled, grounds, events>>

(* First the pids, a read of procfs for each parent, up to init or to the  *)
(* depth of the walk.  When the process at hand has gone nothing is found. *)
collect_ancestors(r) ==
    LET line == reader[r].line
        current == IF line = <<>> THEN reader[r].pid ELSE line[Len(line)]
        parent == proc[current].parent
    IN
    /\ reader[r].pc = "ancestors"
    /\ \/ /\ Len(line) < MAX_ANCESTOR_DEPTH /\ proc[current].alive /\ parent # Unset
          /\ reader' = [reader EXCEPT ![r].line = Append(line, parent)]
       \/ /\ Len(line) = MAX_ANCESTOR_DEPTH \/ (proc[current].alive /\ parent = Unset)
          /\ reader' = [reader EXCEPT ![r].pc = "inherit"]
       \/ /\ Len(line) < MAX_ANCESTOR_DEPTH /\ ~proc[current].alive
          /\ reader' = [reader EXCEPT ![r].pc = "store", ![r].line = <<>>]
    /\ UNCHANGED <<system, layers, process_names, attached, setter, settled, events>> /\ Recorded

(* Then their entries, under one lock: only overrides are inherited.       *)
resolve_by_ancestors(r) ==
    /\ reader[r].pc = "inherit"
    /\ LET level == inherited(reader[r].line) IN
       reader' = [reader EXCEPT ![r].pc = "store", ![r].line = <<>>,
                                ![r].level = IF level = Unset THEN "default" ELSE level]
    /\ UNCHANGED <<system, layers, process_names, attached, setter, settled, grounds, events>>

cache_resolved(r) ==
    /\ reader[r].pc = "store"
    /\ pid_entries' = [pid_entries EXCEPT
                          ![reader[r].pid] = [kind |-> "cached", level |-> reader[r].level]]
    /\ reader' = [reader EXCEPT ![r].pc = "idle"]
    /\ UNCHANGED <<system, cgroup_tracker, dynamic_name_rules, sessions, process_names,
                   attached, setter, settled, grounds, events>>

Resolves(r) ==
    \/ \E p \in Pids : process_from(r, p)
    \/ resolve(r) \/ resolve_by_comm(r) \/ resolve_by_cgroup(r)
    \/ collect_ancestors(r) \/ resolve_by_ancestors(r) \/ cache_resolved(r)

MapNext ==
    \/ \E p, q \in Pids : ForkProcess(p, q)
    \/ \E p \in Pids : Exit(p) \/ handle_register(p) \/ handle_unregister(p)
    \/ \E p \in Pids, n \in Names : Exec(p, n)
    \/ \E p \in Pids, level \in Level : handle_set_visibility(p, level)
    \/ \E n \in Names, level \in Level : set_name_rule(n, level)
    \/ handle_list \/ set_pid \/ track \/ insert_session
    \/ \E r \in events.readers : Resolves(r)

MapSpec == MapInit /\ [][MapNext]_mapVars

----------------------------------------------------------------------------

MapTypeOK ==
    /\ proc \in [Pids -> [alive : BOOLEAN, parent : Pids \cup {Unset}, comm : Names,
                          cgroup : Pids \cup {Unset}]]
    /\ cgroup_tracker \in BOOLEAN
    /\ pid_entries \in [Pids -> Entry \cup {Unset}]
    /\ dynamic_name_rules \in [Names -> Level \cup {Unset}]
    /\ sessions \in [Pids -> Level \cup {Unset}]
    /\ process_names \in [Pids -> Names \cup {Unset}]
    /\ attached \subseteq Pids
    /\ reader \in [Readers ->
          [pc : {"idle", "lookup", "rules", "cgroup", "ancestors", "inherit", "store"},
           pid : Pids, level : Level,
           line : Seq(Pids)]]
    /\ setter \in [pc : {"idle", "set", "track", "insert"}, pid : Pids, level : Level]
    /\ settled \in [Pids -> Level \cup {Unset}]
    /\ grounds \in [Pids -> SUBSET Level]
    /\ events \in [readers : SUBSET Readers, cgroups : BOOLEAN,
                   forks : Nat, execs : Nat, sets : Nat]

(* An override set while no resolution of its process was under way is     *)
(* what the process is answered with until another is set, whatever the    *)
(* threads that resolve it and its relatives store meanwhile.              *)
OverridesHold ==
    \A p \in Pids : settled[p] # Unset => explicit(p) /\ pid_entries[p].level = settled[p]

(* What a process is answered is what one of its layers - a rule for its   *)
(* name, its session, its override or an ancestor's - said of its pid at   *)
(* some time: never what another process was merely found to have.         *)
AnswersHaveGrounds ==
    \A r \in Readers : reader[r].pc = "idle" => reader[r].level \in grounds[reader[r].pid]

(* visibility_map/mod.rs:163-165: name rules ensure that passthrough       *)
(* processes are always hidden.  With no override and no rule set at run   *)
(* time a request of a process with a passthrough name is answered by it.  *)
PassthroughAlwaysHidden ==
    [][\A r \in Readers :
          LET p == reader[r].pid IN
          ( /\ reader[r].pc # "idle" /\ reader'[r].pc = "idle" /\ proc[p].alive
            /\ proc[p].comm \in DOMAIN name_rules
            /\ \A n \in Names : dynamic_name_rules[n] = Unset
            /\ \A q \in Pids : ~explicit(q) ) => reader'[r].level = name_rules[proc[p].comm]]_mapVars
=============================================================================
