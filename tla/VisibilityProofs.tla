-------------------------- MODULE VisibilityProofs --------------------------
(* Proofs about VisibilityMap, for any processes, names, layers and        *)
(* readers: an override that was set holds, and what a process is told     *)
(* stands on something one of the layers said of it.  A resolution reads   *)
(* the layers in steps, so the inductive invariant says of one under way   *)
(* what it has taken from them so far.                                     *)
EXTENDS VisibilityMap, WellFoundedInduction, TLAPS

(* What holds an override: its entry, and that no resolution of its        *)
(* process is past the look at it and has yet to store what it found.      *)
SettledHolds ==
    \A p \in Pids : settled[p] # Unset =>
        explicit(p) /\ pid_entries[p].level = settled[p] /\ ~InFlight(p)

(* The grounds cover all the layers say, and what the entries and the      *)
(* resolutions under way took from them.                                   *)
LayersCovered == \A p \in Pids : Given(p) \ {Unset} \subseteq grounds[p]
EntriesCovered == \A p \in Pids : pid_entries[p] # Unset => pid_entries[p].level \in grounds[p]
ReadersCovered == \A r \in Readers : reader[r].level \in grounds[reader[r].pid]
DefaultCovered == \A p \in Pids : "default" \in grounds[p]

(* Who resolves a process has kept its name.                               *)
NamesKept == \A r \in Readers : reader[r].pc # "idle" => process_names[reader[r].pid] # Unset

Grounded == LayersCovered /\ EntriesCovered /\ ReadersCovered /\ DefaultCovered /\ NamesKept

MapInv == MapTypeOK /\ SettledHolds /\ Grounded

-----------------------------------------------------------------------------
(* A set of naturals has a smallest member.                                *)
LEMMA Smallest ==
    ASSUME NEW T, T \subseteq Nat, T # {}
    PROVE  \E n \in T : \A m \in T : n <= m
<1> DEFINE R == {p \in Nat \X Nat : p[1] < p[2]}
<1>1. IsWellFoundedOn(R, Nat)
  BY NatLessThanWellFounded DEF OpToRel
<1> HIDE DEF R
<1>2. PICK n \in T : \A m \in T : ~(<<m, n>> \in R)
  BY <1>1, WFMin
<1>3. \A m \in T : ~(m < n)
  BY <1>2 DEF R
<1> QED
  BY <1>3

(* The types of what the layers say of a process is read from.             *)
Procs == [Pids -> [alive : BOOLEAN, parent : Pids \cup {Unset}, comm : Names,
                   cgroup : Pids \cup {Unset}]]
Resolutions == [pc : {"idle", "lookup", "rules", "cgroup", "ancestors", "inherit", "store"},
                pid : Pids, level : Level, line : Seq(Pids)]
LayersOK ==
    /\ proc \in Procs
    /\ cgroup_tracker \in BOOLEAN
    /\ pid_entries \in [Pids -> Entry \cup {Unset}]
    /\ dynamic_name_rules \in [Names -> Level \cup {Unset}]
    /\ sessions \in [Pids -> Level \cup {Unset}]
    /\ process_names \in [Pids -> Names \cup {Unset}]
    /\ reader \in [Readers -> Resolutions]

RestOK ==
    /\ attached \subseteq Pids
    /\ setter \in [pc : {"idle", "set", "track", "insert"}, pid : Pids, level : Level]
    /\ settled \in [Pids -> Level \cup {Unset}]
    /\ events \in [readers : SUBSET Readers, cgroups : BOOLEAN,
                   forks : Nat, execs : Nat, sets : Nat]

GroundsOK == grounds \in [Pids -> SUBSET Level]

LEMMA MapTypes == MapTypeOK <=> LayersOK /\ RestOK /\ GroundsOK
BY DEF MapTypeOK, LayersOK, RestOK, GroundsOK, Procs, Resolutions

-----------------------------------------------------------------------------
(* What the layers say of a process.                                       *)

Says(p, x) ==
    \/ x = rule_of(proc[p].comm)
    \/ x = session_level(p)
    \/ process_names[p] # Unset /\ x = rule_of(process_names[p])
    \/ \E r \in Readers : reader[r].pid = p /\ x \in overrides_above(reader[r].line)
    \/ explicit(p) /\ x = pid_entries[p].level

GivenIsSaid == \A p, x : x \in Given(p) <=> Says(p, x)

LEMMA GivenSays == GivenIsSaid
BY DEF Given, Says, GivenIsSaid

GivenTyped == \A p \in Pids : Given(p) \subseteq Level \cup {Unset}

LEMMA RuleTypes ==
    ASSUME LayersOK, NEW n \in Names
    PROVE  rule_of(n) \in Level \cup {Unset}
BY VisibilityConstants DEF LayersOK, rule_of

LEMMA SessionTypes ==
    ASSUME LayersOK, NEW p \in Pids
    PROVE  session_level(p) \in Level \cup {Unset}
BY DEF LayersOK, Procs, session_level

LEMMA AboveTypes ==
    ASSUME LayersOK, NEW line \in Seq(Pids)
    PROVE  overrides_above(line) \subseteq Level
<1> SUFFICES ASSUME NEW k \in DOMAIN line, explicit(line[k])
             PROVE  pid_entries[line[k]].level \in Level
  BY DEF overrides_above
<1>1. line[k] \in Pids
  OBVIOUS
<1>2. pid_entries[line[k]] \in Entry
  BY <1>1 DEF explicit, LayersOK
<1> QED
  BY <1>2 DEF Entry

LEMMA GivenTypes == LayersOK => GivenTyped
<1> SUFFICES ASSUME LayersOK, NEW p \in Pids
             PROVE  Given(p) \subseteq Level \cup {Unset}
  BY DEF GivenTyped
<1>1. proc[p].comm \in Names /\ (process_names[p] = Unset \/ process_names[p] \in Names)
  BY DEF LayersOK, Procs
<1>2. rule_of(proc[p].comm) \in Level \cup {Unset}
  BY <1>1, RuleTypes
<1>3. process_names[p] = Unset \/ rule_of(process_names[p]) \in Level \cup {Unset}
  BY <1>1, RuleTypes
<1>4. session_level(p) \in Level \cup {Unset}
  BY SessionTypes
<1>6. ASSUME NEW r \in Readers PROVE overrides_above(reader[r].line) \subseteq Level
  <2>1. reader[r].line \in Seq(Pids)
    BY DEF LayersOK, Resolutions
  <2> QED
    BY <2>1, AboveTypes
<1>7. explicit(p) => pid_entries[p].level \in Level
  BY DEF explicit, LayersOK, Entry
<1> QED
  <2> SUFFICES ASSUME NEW x \in Given(p) PROVE x \in Level \cup {Unset}
    OBVIOUS
  <2>1. Says(p, x)
    BY GivenSays DEF GivenIsSaid
  <2> QED
    BY <1>2, <1>3, <1>4, <1>6, <1>7, <2>1 DEF Says

-----------------------------------------------------------------------------
(* Types.                                                                  *)

LEMMA RecordedTypes ==
    ASSUME GroundsOK, LayersOK', Recorded
    PROVE  GroundsOK'
<1>1. (LayersOK => GivenTyped)'
  BY GivenTypes, PTL
<1>2. \A p \in Pids : Given(p)' \subseteq Level \cup {Unset}
  BY <1>1 DEF GivenTyped
<1>3. ASSUME NEW p \in Pids PROVE grounds[p] \cup (Given(p)' \ {Unset}) \subseteq Level
  BY <1>2 DEF GroundsOK
<1> QED
  BY <1>3 DEF Recorded, GroundsOK

LEMMA ReaderTypes == ASSUME LayersOK, NEW r \in Readers PROVE reader[r] \in Resolutions
BY DEF LayersOK

(* A step of a resolution that stores nothing.                             *)
LEMMA GoesTypes ==
    ASSUME LayersOK, NEW r \in Readers, NEW level \in Level,
           NEW pc \in {"idle", "lookup", "rules", "cgroup", "ancestors", "inherit", "store"},
           Goes(r, pc, level)
    PROVE  reader' \in [Readers -> Resolutions]
BY ReaderTypes DEF LayersOK, Goes, Resolutions

LEMMA FindsTypes ==
    ASSUME LayersOK, NEW r \in Readers, NEW level \in Level \cup {Unset},
           NEW pc \in {"idle", "lookup", "rules", "cgroup", "ancestors", "inherit", "store"},
           Finds(r, level, pc)
    PROVE  reader' \in [Readers -> Resolutions]
<1>1. "default" \in Level /\ "store" \in {"idle", "lookup", "rules", "cgroup", "ancestors", "inherit", "store"}
  BY DEF Level
<1>2. CASE level = Unset
  BY <1>1, <1>2, GoesTypes DEF Finds
<1>3. CASE level # Unset
  BY <1>1, <1>3, GoesTypes DEF Finds
<1> QED
  BY <1>2, <1>3

LEMMA EmptyLine == <<>> \in Seq(Pids)
OBVIOUS

(* A hop of the walk leads to a resolution with one more ancestor, with    *)
(* all of them, or with none.                                              *)
LEMMA NextHop ==
    ASSUME LayersOK, NEW r \in Readers, collect_ancestors(r)
    PROVE  \E next \in Resolutions :
              /\ reader' = [reader EXCEPT ![r] = next]
              /\ next.pid = reader[r].pid /\ next.level = reader[r].level
<1> DEFINE line == reader[r].line
           current == IF line = <<>> THEN reader[r].pid ELSE line[Len(line)]
           parent == proc[current].parent
<1>1. reader[r] \in Resolutions /\ line \in Seq(Pids)
  BY ReaderTypes DEF Resolutions
<1>2. current \in Pids
  <2>1. line # <<>> => line[Len(line)] \in Pids
    BY <1>1
  <2> QED
    BY <1>1, <2>1 DEF Resolutions
<1>3. parent \in Pids \cup {Unset}
  BY <1>2 DEF LayersOK, Procs
<1> HIDE DEF current, parent
<1>4. \/ parent # Unset /\ reader' = [reader EXCEPT ![r].line = Append(line, parent)]
      \/ reader' = [reader EXCEPT ![r].pc = "inherit"]
      \/ reader' = [reader EXCEPT ![r].pc = "store", ![r].line = <<>>]
  BY DEF collect_ancestors, parent, current
<1>5. CASE parent # Unset /\ reader' = [reader EXCEPT ![r].line = Append(line, parent)]
  <2>1. Append(line, parent) \in Seq(Pids)
    BY <1>1, <1>3, <1>5
  <2> DEFINE next == [reader[r] EXCEPT !.line = Append(line, parent)]
  <2>2. next \in Resolutions /\ next.pid = reader[r].pid /\ next.level = reader[r].level
    BY <1>1, <2>1 DEF Resolutions
  <2>3. reader' = [reader EXCEPT ![r] = next]
    BY <1>5
  <2> QED
    BY <2>2, <2>3
<1>6. CASE reader' = [reader EXCEPT ![r].pc = "inherit"]
  <2> DEFINE next == [reader[r] EXCEPT !.pc = "inherit"]
  <2>1. next \in Resolutions /\ next.pid = reader[r].pid /\ next.level = reader[r].level
    BY <1>1 DEF Resolutions
  <2>2. reader' = [reader EXCEPT ![r] = next]
    BY <1>6
  <2> QED
    BY <2>1, <2>2
<1>7. CASE reader' = [reader EXCEPT ![r].pc = "store", ![r].line = <<>>]
  <2> DEFINE next == [reader[r] EXCEPT !.pc = "store", !.line = <<>>]
  <2>1. next \in Resolutions /\ next.pid = reader[r].pid /\ next.level = reader[r].level
    BY <1>1, EmptyLine DEF Resolutions
  <2>2. reader' = [reader EXCEPT ![r] = next]
    BY <1>7 DEF LayersOK
  <2> QED
    BY <2>1, <2>2
<1> QED
  BY <1>4, <1>5, <1>6, <1>7

LEMMA InheritedTypes ==
    ASSUME LayersOK, NEW line \in Seq(Pids)
    PROVE  inherited(line) = Unset \/ inherited(line) \in overrides_above(line)
<1> DEFINE heirs == {k \in DOMAIN line : explicit(line[k])}
           n == CHOOSE k \in heirs : \A j \in heirs : k <= j
<1>1. CASE heirs = {}
  BY <1>1 DEF inherited
<1>2. CASE heirs # {}
  <2>1. heirs \subseteq Nat
    OBVIOUS
  <2>2. \E k \in heirs : \A j \in heirs : k <= j
    BY <1>2, <2>1, Smallest
  <2>3. n \in heirs
    BY <2>2
  <2>4. inherited(line) = pid_entries[line[n]].level
    BY <1>2 DEF inherited
  <2> HIDE DEF n
  <2> QED
    BY <2>3, <2>4 DEF overrides_above
<1> QED
  BY <1>1, <1>2

LEMMA ProcessTypes ==
    ASSUME LayersOK, RestOK, GroundsOK,
           \/ \E p, q \in Pids : ForkProcess(p, q)
           \/ \E p \in Pids : Exit(p)
           \/ \E p \in Pids, n \in Names : Exec(p, n)
           \/ track
    PROVE  LayersOK' /\ RestOK' /\ GroundsOK'
<1>1. proc' \in Procs
  <2>1. ASSUME NEW p \in Pids, NEW q \in Pids, ForkProcess(p, q) PROVE proc' \in Procs
    <3>1. proc[p] \in [alive : BOOLEAN, parent : Pids \cup {Unset}, comm : Names,
                       cgroup : Pids \cup {Unset}]
      BY DEF LayersOK, Procs
    <3> QED
      BY <2>1, <3>1 DEF ForkProcess, LayersOK, Procs
  <2>2. ASSUME NEW p \in Pids, Exit(p) PROVE proc' \in Procs
    <3>1. \A q \in Pids : proc[q] \in [alive : BOOLEAN, parent : Pids \cup {Unset}, comm : Names,
                                    cgroup : Pids \cup {Unset}]
      BY DEF LayersOK, Procs
    <3>2. \A q \in Pids : proc'[q] \in [alive : BOOLEAN, parent : Pids \cup {Unset}, comm : Names,
                                     cgroup : Pids \cup {Unset}]
      BY <2>2, <3>1 DEF Exit
    <3>3. proc' = [q \in Pids |-> proc'[q]]
      BY <2>2 DEF Exit
    <3> QED
      BY <3>2, <3>3 DEF Procs
  <2>3. ASSUME NEW p \in Pids, NEW n \in Names, Exec(p, n) PROVE proc' \in Procs
    BY <2>3 DEF Exec, LayersOK, Procs
  <2>4. CASE track
    BY <2>4 DEF track, LayersOK, Procs, RestOK, system
  <2> QED
    BY <2>1, <2>2, <2>3, <2>4
<1>2. UNCHANGED <<layers, process_names, attached, reader, settled>> /\ Recorded
  BY DEF ForkProcess, Exit, Exec, track
<1>3. LayersOK'
  BY <1>1, <1>2 DEF LayersOK, layers
<1>4. RestOK'
  <2>1. ASSUME NEW p \in Pids, NEW q \in Pids, ForkProcess(p, q) PROVE RestOK'
    BY <2>1, <1>2 DEF ForkProcess, RestOK
  <2>2. ASSUME NEW p \in Pids, Exit(p) PROVE RestOK'
    BY <2>2, <1>2 DEF Exit, RestOK
  <2>3. ASSUME NEW p \in Pids, NEW n \in Names, Exec(p, n) PROVE RestOK'
    BY <2>3, <1>2 DEF Exec, RestOK
  <2>4. CASE track
    BY <2>4, <1>2 DEF track, RestOK
  <2> QED
    BY <2>1, <2>2, <2>3, <2>4
<1> QED
  BY <1>2, <1>3, <1>4, RecordedTypes

LEMMA ControlTypes ==
    ASSUME LayersOK, RestOK, GroundsOK,
           \/ \E p \in Pids : handle_register(p) \/ handle_unregister(p)
           \/ \E p \in Pids, level \in Level : handle_set_visibility(p, level)
           \/ handle_list
    PROVE  LayersOK' /\ RestOK' /\ GroundsOK'
<1>1. UNCHANGED <<system, layers, process_names, reader, settled, grounds>>
  BY DEF handle_register, handle_unregister, handle_set_visibility, handle_list
<1>2. LayersOK' /\ GroundsOK'
  BY <1>1 DEF LayersOK, GroundsOK, layers, system
<1>3. attached' \subseteq Pids
  BY DEF handle_register, handle_unregister, handle_set_visibility, handle_list, RestOK
<1>4. setter' \in [pc : {"idle", "set", "track", "insert"}, pid : Pids, level : Level]
  BY DEF handle_register, handle_unregister, handle_set_visibility, handle_list, RestOK
<1>5. events' \in [readers : SUBSET Readers, cgroups : BOOLEAN,
                   forks : Nat, execs : Nat, sets : Nat]
  BY DEF handle_register, handle_unregister, handle_set_visibility, handle_list, RestOK
<1> QED
  BY <1>1, <1>2, <1>3, <1>4, <1>5 DEF RestOK

LEMMA SetTypes ==
    ASSUME LayersOK, RestOK, GroundsOK,
           \/ \E n \in Names, level \in Level : set_name_rule(n, level)
           \/ set_pid
           \/ insert_session
    PROVE  LayersOK' /\ RestOK' /\ GroundsOK'
<1>1. UNCHANGED <<system, cgroup_tracker, process_names, attached, reader>> /\ Recorded
  BY DEF set_name_rule, set_pid, insert_session
<1>2. setter.pid \in Pids /\ setter.level \in Level
  BY DEF RestOK
<1>3. pid_entries' \in [Pids -> Entry \cup {Unset}]
  BY <1>2 DEF set_name_rule, set_pid, insert_session, LayersOK, Entry
<1>4. dynamic_name_rules' \in [Names -> Level \cup {Unset}]
  BY DEF set_name_rule, set_pid, insert_session, LayersOK
<1>5. sessions' \in [Pids -> Level \cup {Unset}]
  BY <1>2 DEF set_name_rule, set_pid, insert_session, LayersOK
<1>6. LayersOK'
  BY <1>1, <1>3, <1>4, <1>5 DEF LayersOK, system
<1>7. setter' \in [pc : {"idle", "set", "track", "insert"}, pid : Pids, level : Level]
  BY DEF set_name_rule, set_pid, insert_session, RestOK
<1>8. settled' \in [Pids -> Level \cup {Unset}]
  BY <1>2 DEF set_name_rule, set_pid, insert_session, RestOK
<1>9. events' \in [readers : SUBSET Readers, cgroups : BOOLEAN,
                   forks : Nat, execs : Nat, sets : Nat]
  BY DEF set_name_rule, set_pid, insert_session, RestOK
<1>10. RestOK'
  BY <1>1, <1>7, <1>8, <1>9 DEF RestOK
<1> QED
  BY <1>1, <1>6, <1>10, RecordedTypes

LEMMA ResolveTypes ==
    ASSUME LayersOK, RestOK, GroundsOK, NamesKept, NEW r \in events.readers, Resolves(r)
    PROVE  LayersOK' /\ RestOK' /\ GroundsOK'
<1>0. r \in Readers
  BY DEF RestOK
<1>1. reader[r] \in Resolutions
  BY <1>0, ReaderTypes
<1>2. UNCHANGED <<system, cgroup_tracker, dynamic_name_rules, sessions, attached, setter,
                  settled, events>>
  BY DEF Resolves, process_from, resolve, resolve_by_comm, resolve_by_cgroup,
         collect_ancestors, resolve_by_ancestors, cache_resolved, layers
<1>3. RestOK'
  BY <1>2 DEF RestOK
<1>4. ASSUME reader' \in [Readers -> Resolutions],
             process_names' \in [Pids -> Names \cup {Unset}],
             pid_entries' \in [Pids -> Entry \cup {Unset}]
      PROVE  LayersOK'
  BY <1>2, <1>4 DEF LayersOK, system
<1>20. ASSUME reader' \in [Readers -> Resolutions],
             UNCHANGED <<process_names, pid_entries, grounds>>
      PROVE  LayersOK' /\ GroundsOK'
  BY <1>4, <1>20 DEF LayersOK, GroundsOK
<1>5. ASSUME NEW p \in Pids, process_from(r, p) PROVE LayersOK' /\ GroundsOK'
  <2>1. [pc |-> "lookup", pid |-> p, line |-> <<>>, level |-> "default"] \in Resolutions
    BY EmptyLine DEF Resolutions, Level
  <2>2. reader' \in [Readers -> Resolutions]
    BY <1>5, <2>1 DEF process_from, LayersOK
  <2>3. process_names' \in [Pids -> Names \cup {Unset}]
    BY <1>5 DEF process_from, LayersOK, Procs
  <2>4. pid_entries' \in [Pids -> Entry \cup {Unset}] /\ Recorded
    BY <1>5 DEF process_from, LayersOK, layers
  <2> QED
    BY <1>4, <2>2, <2>3, <2>4, RecordedTypes
<1>6. CASE resolve(r)
  <2>1. pid_entries[reader[r].pid] = Unset \/ pid_entries[reader[r].pid].level \in Level
    BY <1>1 DEF LayersOK, Resolutions, Entry
  <2>2. reader' \in [Readers -> Resolutions]
    BY <1>0, <1>6, <2>1, GoesTypes DEF resolve, Level
  <2> QED
    BY <1>3, <1>20, <1>6, <2>2 DEF resolve, layers
<1>7. CASE resolve_by_comm(r)
  <2>1. process_names[reader[r].pid] \in Names
    BY <1>0, <1>1, <1>7 DEF resolve_by_comm, NamesKept, LayersOK, Resolutions
  <2>3. rule_of(process_names[reader[r].pid]) \in Level \cup {Unset}
    BY <2>1, RuleTypes
  <2>2. reader' \in [Readers -> Resolutions]
    BY <1>0, <1>7, <2>3, FindsTypes DEF resolve_by_comm
  <2> QED
    BY <1>3, <1>20, <1>7, <2>2 DEF resolve_by_comm, layers
<1>8. CASE resolve_by_cgroup(r)
  <2>1. session_level(reader[r].pid) \in Level \cup {Unset}
    BY <1>1, SessionTypes DEF Resolutions
  <2>2. reader' \in [Readers -> Resolutions]
    BY <1>0, <1>8, <2>1, FindsTypes DEF resolve_by_cgroup
  <2> QED
    BY <1>3, <1>20, <1>8, <2>2 DEF resolve_by_cgroup, layers
<1>9. CASE collect_ancestors(r)
  <2>1. PICK next \in Resolutions : reader' = [reader EXCEPT ![r] = next]
    BY <1>0, <1>9, NextHop
  <2>2. reader' \in [Readers -> Resolutions]
    BY <2>1 DEF LayersOK
  <2>3. process_names' \in [Pids -> Names \cup {Unset}] /\ pid_entries' \in [Pids -> Entry \cup {Unset}]
    BY <1>9 DEF collect_ancestors, LayersOK, layers
  <2>4. LayersOK'
    BY <1>4, <2>2, <2>3
  <2>5. Recorded
    BY <1>9 DEF collect_ancestors
  <2> QED
    BY <1>3, <2>4, <2>5, RecordedTypes
<1>10. CASE resolve_by_ancestors(r)
  <2>1. inherited(reader[r].line) = Unset \/ inherited(reader[r].line) \in Level
    BY <1>1, InheritedTypes, AboveTypes DEF Resolutions
  <2>2. reader' \in [Readers -> Resolutions]
    BY <1>0, <1>1, <1>10, <2>1, EmptyLine DEF resolve_by_ancestors, LayersOK, Resolutions, Level
  <2> QED
    BY <1>3, <1>20, <1>10, <2>2 DEF resolve_by_ancestors, layers
<1>11. CASE cache_resolved(r)
  <2>1. reader' \in [Readers -> Resolutions]
    BY <1>0, <1>1, <1>11 DEF cache_resolved, LayersOK, Resolutions
  <2>2. pid_entries' \in [Pids -> Entry \cup {Unset}]
    BY <1>1, <1>11 DEF cache_resolved, LayersOK, Resolutions, Entry
  <2> QED
    <3>1. UNCHANGED <<process_names, grounds>>
      BY <1>11 DEF cache_resolved
    <3>2. process_names' \in [Pids -> Names \cup {Unset}] /\ GroundsOK'
      BY <3>1 DEF LayersOK, GroundsOK
    <3> QED
      BY <1>3, <1>4, <2>1, <2>2, <3>2
<1> QED
  BY <1>3, <1>5, <1>6, <1>7, <1>8, <1>9, <1>10, <1>11 DEF Resolves

LEMMA MapStepTypes ==
    ASSUME MapTypeOK, NamesKept, [MapNext]_mapVars
    PROVE  MapTypeOK'
<1>1. LayersOK /\ RestOK /\ GroundsOK
  BY MapTypes
<1>2. CASE UNCHANGED mapVars
  BY <1>1, <1>2 DEF mapVars, MapTypeOK
<1>3. CASE MapNext
  <2>1. (MapTypeOK <=> LayersOK /\ RestOK /\ GroundsOK)'
    BY MapTypes, PTL
  <2>2. LayersOK' /\ RestOK' /\ GroundsOK'
    <3>1. ASSUME NEW r \in events.readers, Resolves(r) PROVE LayersOK' /\ RestOK' /\ GroundsOK'
      BY <1>1, <3>1, ResolveTypes
    <3>2. ASSUME \/ \E p, q \in Pids : ForkProcess(p, q)
                 \/ \E p \in Pids : Exit(p)
                 \/ \E p \in Pids, n \in Names : Exec(p, n)
                 \/ track
          PROVE LayersOK' /\ RestOK' /\ GroundsOK'
      BY <1>1, <3>2, ProcessTypes
    <3>3. ASSUME \/ \E p \in Pids : handle_register(p) \/ handle_unregister(p)
                 \/ \E p \in Pids, level \in Level : handle_set_visibility(p, level)
                 \/ handle_list
          PROVE LayersOK' /\ RestOK' /\ GroundsOK'
      BY <1>1, <3>3, ControlTypes
    <3>4. ASSUME \/ \E n \in Names, level \in Level : set_name_rule(n, level)
                 \/ set_pid
                 \/ insert_session
          PROVE LayersOK' /\ RestOK' /\ GroundsOK'
      BY <1>1, <3>4, SetTypes
    <3> QED
      BY <1>3, <3>1, <3>2, <3>3, <3>4 DEF MapNext
  <2> QED
    BY <2>1, <2>2
<1> QED
  BY <1>2, <1>3

-----------------------------------------------------------------------------
(* What a step of a resolution does, and what the other steps do not do.   *)

(* Nothing but the control thread's set_pid makes an override; what the    *)
(* resolutions take on is a process of their own or has been there.        *)
LEMMA ReaderSteps ==
    ASSUME LayersOK, RestOK, NEW r \in events.readers, Resolves(r)
    PROVE  /\ r \in Readers
           /\ UNCHANGED <<system, cgroup_tracker, dynamic_name_rules, sessions, attached,
                           setter, settled, events>>
           /\ \A x \in Readers \ {r} : reader'[x] = reader[x]
           /\ \/ \E p \in Pids : process_from(r, p)
              \/ /\ UNCHANGED process_names /\ reader'[r].pid = reader[r].pid
                 /\ collect_ancestors(r) \/ UNCHANGED grounds
<1>0. r \in Readers
  BY DEF RestOK
<1>1. UNCHANGED <<system, cgroup_tracker, dynamic_name_rules, sessions, attached, setter,
                  settled, events>>
  BY DEF Resolves, process_from, resolve, resolve_by_comm, resolve_by_cgroup,
         collect_ancestors, resolve_by_ancestors, cache_resolved, layers
<1>2. \A x \in Readers \ {r} : reader'[x] = reader[x]
  BY <1>0 DEF Resolves, process_from, resolve, resolve_by_comm, resolve_by_cgroup, Goes, Finds,
         collect_ancestors, resolve_by_ancestors, cache_resolved, LayersOK, Resolutions
<1>3. \/ \E p \in Pids : process_from(r, p)
      \/ UNCHANGED process_names /\ (collect_ancestors(r) \/ UNCHANGED grounds)
  BY DEF Resolves, resolve, resolve_by_comm, resolve_by_cgroup,
         collect_ancestors, resolve_by_ancestors, cache_resolved
<1>4. (\E p \in Pids : process_from(r, p)) \/ reader'[r].pid = reader[r].pid
  <2>1. CASE collect_ancestors(r)
    BY <1>0, <2>1, NextHop DEF LayersOK
  <2>2. CASE ~collect_ancestors(r)
    BY <1>0, <2>2, ReaderTypes DEF Resolves, resolve, resolve_by_comm, resolve_by_cgroup, Goes,
       Finds, resolve_by_ancestors, cache_resolved, LayersOK, Resolutions
  <2> QED
    BY <2>1, <2>2
<1> QED
  BY <1>0, <1>1, <1>2, <1>3, <1>4

LEMMA OtherSteps ==
    ASSUME MapNext, \A r \in events.readers : ~Resolves(r)
    PROVE  UNCHANGED <<reader, process_names>>
BY DEF MapNext, ForkProcess, Exit, Exec, handle_register, handle_unregister, handle_list,
       handle_set_visibility, set_name_rule, set_pid, track, insert_session

LEMMA NamesStay ==
    ASSUME LayersOK, RestOK, NamesKept, [MapNext]_mapVars
    PROVE  NamesKept'
<1>1. CASE UNCHANGED <<reader, process_names>>
  BY <1>1 DEF NamesKept
<1>2. ASSUME NEW r \in events.readers, Resolves(r) PROVE NamesKept'
  <2>0. r \in Readers
    BY DEF RestOK
  <2>1. ASSUME NEW p \in Pids, process_from(r, p) PROVE NamesKept'
    <3>1. \A q \in Pids : process_names[q] # Unset => process_names'[q] # Unset
      BY <2>1 DEF process_from, LayersOK
    <3>2. proc[p].comm # Unset
      BY VisibilityConstants DEF LayersOK, Procs
    <3>3. process_names'[p] # Unset /\ reader'[r].pid = p
      BY <2>0, <2>1, <3>2 DEF process_from, LayersOK
    <3>4. \A x \in Readers \ {r} : reader'[x] = reader[x] /\ reader[x].pid \in Pids
      BY <1>2, ReaderSteps, ReaderTypes DEF Resolutions
    <3> QED
      BY <3>1, <3>3, <3>4 DEF NamesKept
  <2>2. CASE ~\E p \in Pids : process_from(r, p)
    <3>1. UNCHANGED process_names /\ reader'[r].pid = reader[r].pid
      BY <1>2, <2>2, ReaderSteps
    <3>2. \A x \in Readers \ {r} : reader'[x] = reader[x]
      BY <1>2, ReaderSteps
    <3>3. reader[r].pc # "idle"
      BY <1>2, <2>2 DEF Resolves, resolve, resolve_by_comm, resolve_by_cgroup,
             collect_ancestors, resolve_by_ancestors, cache_resolved
    <3> QED
      BY <2>0, <3>1, <3>2, <3>3 DEF NamesKept
  <2> QED
    BY <2>1, <2>2
<1> QED
  BY <1>1, <1>2, OtherSteps DEF mapVars

-----------------------------------------------------------------------------
(* The overrides that hold.                                                *)

LEMMA SettledBySet ==
    ASSUME LayersOK, RestOK, SettledHolds, set_pid
    PROVE  SettledHolds'
<1>1. setter.pid \in Pids /\ setter.level \in Level /\ UNCHANGED reader
  BY DEF RestOK, set_pid
<1>2. ASSUME NEW p \in Pids PROVE InFlight(p)' <=> InFlight(p)
  BY <1>1 DEF InFlight
<1>3. ASSUME NEW p \in Pids, p # setter.pid, settled'[p] # Unset
      PROVE  explicit(p)' /\ pid_entries'[p].level = settled'[p] /\ ~InFlight(p)'
  <2>1. settled'[p] = settled[p] /\ pid_entries'[p] = pid_entries[p]
    BY <1>3 DEF set_pid, LayersOK, RestOK
  <2> QED
    BY <1>2, <1>3, <2>1 DEF SettledHolds, explicit
<1>4. \A p \in Pids : settled'[p] # Unset =>
          pid_entries'[p] # Unset /\ pid_entries'[p].kind = "explicit"
              /\ pid_entries'[p].level = settled'[p] /\ ~InFlight(p)'
  <2>1. ASSUME NEW p \in Pids, p = setter.pid, settled'[p] # Unset
        PROVE  /\ pid_entries'[p] # Unset /\ pid_entries'[p].kind = "explicit"
               /\ pid_entries'[p].level = settled'[p] /\ ~InFlight(p)'
    <3>1. settled'[setter.pid] # Unset
      BY <2>1
    <3>2. /\ pid_entries'[setter.pid] # Unset /\ pid_entries'[setter.pid].kind = "explicit"
          /\ pid_entries'[setter.pid].level = settled'[setter.pid] /\ ~InFlight(setter.pid)
      <4>1. settled'[setter.pid] = setter.level /\ ~InFlight(setter.pid)
        BY <1>1, <3>1 DEF set_pid, RestOK
      <4>2. pid_entries'[setter.pid] = [kind |-> "explicit", level |-> setter.level]
        BY <1>1 DEF set_pid, LayersOK
      <4>3. pid_entries'[setter.pid] # Unset
        BY <1>1, <4>2, VisibilityConstants DEF Entry
      <4> QED
        BY <4>1, <4>2, <4>3
    <3> QED
      BY <1>2, <2>1, <3>2
  <2> QED
    BY <1>3, <2>1 DEF explicit
<1> QED
  BY <1>4 DEF SettledHolds, explicit

LEMMA SettledByReader ==
    ASSUME LayersOK, RestOK, SettledHolds, NEW r \in events.readers, Resolves(r)
    PROVE  SettledHolds'
<1>1. /\ r \in Readers /\ UNCHANGED settled
      /\ \A x \in Readers \ {r} : reader'[x] = reader[x]
      /\ (\E q \in Pids : process_from(r, q)) \/ reader'[r].pid = reader[r].pid
  BY ReaderSteps
<1> SUFFICES ASSUME NEW p \in Pids, settled[p] # Unset
             PROVE  /\ explicit(p)' /\ pid_entries'[p].level = settled[p]
                    /\ ~InFlight(p)'
  BY <1>1 DEF SettledHolds
<1>2. explicit(p) /\ pid_entries[p].level = settled[p] /\ ~InFlight(p)
  BY DEF SettledHolds
<1>3. pid_entries'[p] = pid_entries[p]
  <2>1. CASE cache_resolved(r)
    <3>1. reader[r].pid # p
      BY <1>1, <1>2, <2>1 DEF InFlight, cache_resolved
    <3> QED
      BY <2>1, <3>1 DEF cache_resolved, LayersOK
  <2>2. CASE ~cache_resolved(r)
    BY <2>2 DEF Resolves, process_from, resolve, resolve_by_comm, resolve_by_cgroup,
         collect_ancestors, resolve_by_ancestors, layers
  <2> QED
    BY <2>1, <2>2
<1>4. explicit(p)' /\ pid_entries'[p].level = settled[p]
  BY <1>2, <1>3 DEF explicit
<1>5. reader'[r].pid # p \/ reader'[r].pc \in {"idle", "lookup"}
  <2>1. ASSUME NEW q \in Pids, process_from(r, q) PROVE reader'[r].pc = "lookup"
    BY <1>1, <2>1 DEF process_from, LayersOK
  <2>2. CASE ~\E q \in Pids : process_from(r, q)
    <3> SUFFICES ASSUME reader[r].pid = p PROVE reader'[r].pc = "idle"
      BY <1>1, <2>2
    <3>1. reader[r].pc \in {"idle", "lookup"}
      BY <1>1, <1>2 DEF InFlight
    <3>2. resolve(r)
      BY <2>2, <3>1 DEF Resolves, resolve_by_comm, resolve_by_cgroup,
         collect_ancestors, resolve_by_ancestors, cache_resolved
    <3> QED
      BY <1>1, <1>2, <3>2, ReaderTypes DEF resolve, Goes, explicit, LayersOK, Resolutions
  <2> QED
    BY <2>1, <2>2
<1>6. ~InFlight(p)'
  BY <1>1, <1>2, <1>5 DEF InFlight
<1> QED
  BY <1>4, <1>6

LEMMA SettledStay ==
    ASSUME LayersOK, RestOK, SettledHolds, [MapNext]_mapVars
    PROVE  SettledHolds'
<1>1. CASE UNCHANGED <<settled, pid_entries, reader>>
  BY <1>1 DEF SettledHolds, explicit, InFlight
<1>2. ASSUME MapNext, ~set_pid, \A r \in events.readers : ~Resolves(r)
      PROVE  UNCHANGED <<settled, pid_entries, reader>>
  BY <1>2 DEF MapNext, ForkProcess, Exit, Exec, handle_register, handle_unregister, handle_list,
       handle_set_visibility, set_name_rule, track, insert_session, layers
<1> QED
  BY <1>1, <1>2, SettledBySet, SettledByReader DEF mapVars

-----------------------------------------------------------------------------
(* The grounds.                                                            *)

Above(entries, line) ==
    {entries[line[k]].level : k \in {j \in DOMAIN line : /\ entries[line[j]] # Unset
                                                       /\ entries[line[j]].kind = "explicit"}}

LEMMA OverridesAbove == \A line : overrides_above(line) = Above(pid_entries, line)
BY DEF overrides_above, Above, explicit

LEMMA AboveShrinks ==
    ASSUME NEW new, NEW old, NEW line \in Seq(Pids),
           \A q \in Pids : new[q] # Unset /\ new[q].kind = "explicit" => new[q] = old[q]
    PROVE  Above(new, line) \subseteq Above(old, line)
<1>1. \A k \in DOMAIN line : line[k] \in Pids
  OBVIOUS
<1> QED
  BY <1>1 DEF Above

LEMMA GivenShrinks ==
    ASSUME LayersOK, LayersOK',
           UNCHANGED <<proc, cgroup_tracker, dynamic_name_rules, sessions, process_names>>,
           \A q \in Pids : explicit(q)' => pid_entries'[q] = pid_entries[q],
           \A x \in Readers :
               /\ reader'[x].pid = reader[x].pid
               /\ reader'[x].line = reader[x].line \/ reader'[x].line = <<>>
    PROVE  \A p \in Pids : Given(p)' \subseteq Given(p)
<1> SUFFICES ASSUME NEW p \in Pids, NEW w, w \in Given(p)' PROVE w \in Given(p)
  OBVIOUS
<1>1. GivenIsSaid'
  BY GivenSays, PTL
<1>2. Says(p, w)'
  BY <1>1 DEF GivenIsSaid
<1>3. (\A line : overrides_above(line) = Above(pid_entries, line))'
  BY OverridesAbove, PTL
<1>4. ASSUME NEW line \in Seq(Pids)
      PROVE  Above(pid_entries', line) \subseteq overrides_above(line)
  <2>1. \A q \in Pids : pid_entries'[q] # Unset /\ pid_entries'[q].kind = "explicit" =>
                           pid_entries'[q] = pid_entries[q]
    BY DEF explicit
  <2> QED
    BY <2>1, AboveShrinks, OverridesAbove
<1>7. ASSUME NEW r \in Readers, reader'[r].pid = p, w \in overrides_above(reader[r].line)'
      PROVE  reader[r].pid = p /\ w \in overrides_above(reader[r].line)
  <2>1. overrides_above(reader[r].line)' = Above(pid_entries', reader'[r].line)
    BY DEF overrides_above, Above, explicit
  <2>2. reader'[r].line \in Seq(Pids)
    BY DEF LayersOK, Resolutions
  <2>3. w \in overrides_above(reader'[r].line)
    BY <1>4, <1>7, <2>1, <2>2
  <2>4. overrides_above(<<>>) = {}
    BY DEF overrides_above
  <2> QED
    BY <1>7, <2>3, <2>4
<1>8. session_level(p)' = session_level(p)
  BY DEF session_level
<1>9. \A n : rule_of(n)' = rule_of(n)
  BY DEF rule_of
<1>10. rule_of(proc[p].comm)' = rule_of(proc[p].comm)
       /\ rule_of(process_names[p])' = rule_of(process_names[p])
  BY DEF rule_of
<1>11. explicit(p)' => explicit(p) /\ pid_entries'[p].level = pid_entries[p].level
  BY DEF explicit
<1>12. Says(p, w)
  <2>1. CASE w = rule_of(proc[p].comm)' \/ w = session_level(p)'
    BY <1>8, <1>10, <2>1 DEF Says
  <2>3. CASE process_names'[p] # Unset /\ w = rule_of(process_names[p])'
    BY <1>10, <2>3 DEF Says
  <2>4. CASE \E r \in Readers : reader'[r].pid = p /\ w \in overrides_above(reader[r].line)'
    BY <1>7, <2>4 DEF Says
  <2>5. CASE explicit(p)' /\ w = pid_entries'[p].level
    BY <1>11, <2>5 DEF Says
  <2> QED
    BY <1>2, <2>1, <2>3, <2>4, <2>5 DEF Says
<1> QED
  BY <1>12, GivenSays DEF GivenIsSaid

Covered == LayersCovered /\ EntriesCovered /\ ReadersCovered /\ DefaultCovered

LEMMA GroundsGrow ==
    ASSUME GroundsOK, Recorded
    PROVE  LayersCovered' /\ \A p \in Pids : grounds[p] \subseteq grounds'[p]
<1>1. \A p \in Pids : grounds'[p] = grounds[p] \cup (Given(p)' \ {Unset})
  BY DEF Recorded
<1> QED
  BY <1>1 DEF LayersCovered

(* A process that forks, execs, exits or moves, and a rule or a session    *)
(* that is set.                                                            *)
LEMMA CoveredByRecorded ==
    ASSUME LayersOK, GroundsOK, Covered, Recorded, UNCHANGED <<pid_entries, reader>>
    PROVE  Covered'
<1>1. LayersCovered' /\ \A p \in Pids : grounds[p] \subseteq grounds'[p]
  BY GroundsGrow
<1>2. EntriesCovered'
  BY <1>1 DEF Covered, EntriesCovered
<1>3. ReadersCovered'
  BY <1>1, ReaderTypes DEF Covered, ReadersCovered, Resolutions
<1>4. DefaultCovered'
  BY <1>1 DEF Covered, DefaultCovered
<1> QED
  BY <1>1, <1>2, <1>3, <1>4 DEF Covered

LEMMA CoveredBySet ==
    ASSUME LayersOK, LayersOK', RestOK, GroundsOK, Covered, set_pid
    PROVE  Covered'
<1>0. setter.pid \in Pids /\ setter.level \in Level /\ Recorded /\ UNCHANGED reader
  BY DEF set_pid, RestOK
<1>1. LayersCovered' /\ \A p \in Pids : grounds[p] \subseteq grounds'[p]
  BY <1>0, GroundsGrow
<1>2. pid_entries'[setter.pid] = [kind |-> "explicit", level |-> setter.level]
  BY <1>0 DEF set_pid, LayersOK
<1>3. ASSUME NEW q \in Pids, NEW w \in Level, q = setter.pid, w = setter.level
      PROVE  w \in grounds'[q]
  <2>1. pid_entries'[q] # Unset /\ pid_entries'[q].kind = "explicit"
            /\ pid_entries'[q].level = w /\ w # Unset
    BY <1>2, <1>3, VisibilityConstants DEF Entry
  <2>2. explicit(q)' /\ w = pid_entries'[q].level
    BY <2>1 DEF explicit
  <2>3. GivenIsSaid'
    BY GivenSays, PTL
  <2>4. w \in Given(q)'
    BY <2>2, <2>3 DEF GivenIsSaid, Says
  <2> QED
    BY <1>1, <2>1, <2>4 DEF LayersCovered
<1>4. \A p \in Pids : p # setter.pid => pid_entries'[p] = pid_entries[p]
  BY <1>0 DEF set_pid, LayersOK
<1>5. EntriesCovered'
  BY <1>0, <1>1, <1>2, <1>3, <1>4 DEF Covered, EntriesCovered
<1>6. ReadersCovered'
  BY <1>0, <1>1, ReaderTypes DEF Covered, ReadersCovered, Resolutions
<1>7. DefaultCovered'
  BY <1>1 DEF Covered, DefaultCovered
<1> QED
  BY <1>1, <1>5, <1>6, <1>7 DEF Covered

LEMMA CoveredByControl ==
    ASSUME LayersOK, LayersOK', Covered,
           UNCHANGED <<system, layers, process_names, reader, grounds>>
    PROVE  Covered'
<1>1. \A p \in Pids : Given(p)' \subseteq Given(p)
  <2>1. UNCHANGED <<proc, cgroup_tracker, pid_entries, dynamic_name_rules, sessions,
                    process_names, reader>>
    BY DEF system, layers
  <2> QED
    BY <2>1, GivenShrinks
<1>2. UNCHANGED <<pid_entries, reader, grounds>>
  BY DEF layers
<1> QED
  BY <1>1, <1>2 DEF Covered, LayersCovered, EntriesCovered, ReadersCovered, DefaultCovered

LEMMA CoveredByRequest ==
    ASSUME LayersOK, GroundsOK, Covered,
           NEW r \in Readers, NEW p \in Pids, process_from(r, p)
    PROVE  Covered'
<1>1. LayersCovered' /\ \A q \in Pids : grounds[q] \subseteq grounds'[q]
  BY GroundsGrow DEF process_from
<1>2. UNCHANGED pid_entries
  BY DEF process_from, layers
<1>3. /\ reader'[r].pid = p /\ reader'[r].level = "default"
      /\ \A x \in Readers \ {r} : reader'[x] = reader[x]
  BY DEF process_from, LayersOK
<1>4. DefaultCovered'
  BY <1>1 DEF Covered, DefaultCovered
<1>5. ReadersCovered'
  BY <1>1, <1>3, <1>4, ReaderTypes DEF Covered, ReadersCovered, DefaultCovered, Resolutions
<1>6. EntriesCovered'
  BY <1>1, <1>2 DEF Covered, EntriesCovered
<1> QED
  BY <1>1, <1>4, <1>5, <1>6 DEF Covered

(* What a resolution finds is one of the things the layers say.            *)
LEMMA FindsGrounds ==
    ASSUME LayersOK, Covered, NamesKept, NEW r \in Readers,
           reader'[r].pid = reader[r].pid,
           \/ resolve(r) \/ resolve_by_comm(r) \/ resolve_by_cgroup(r)
           \/ collect_ancestors(r) \/ resolve_by_ancestors(r) \/ cache_resolved(r)
    PROVE  reader'[r].level \in grounds[reader[r].pid]
<1> DEFINE p == reader[r].pid
<1>1. p \in Pids /\ reader[r] \in Resolutions
  BY ReaderTypes DEF Resolutions
<1>2. "default" \in grounds[p] /\ reader[r].level \in grounds[p]
  BY <1>1 DEF Covered, DefaultCovered, ReadersCovered
<1>3. ASSUME NEW w, Says(p, w), w # Unset PROVE w \in grounds[p]
  BY <1>1, <1>3, GivenSays DEF GivenIsSaid, Covered, LayersCovered
<1>4. ASSUME NEW w, NEW pc, Finds(r, w, pc), w = Unset \/ w \in grounds[p]
      PROVE  reader'[r].level \in grounds[p]
  <2>1. reader'[r].level = "default" \/ (w # Unset /\ reader'[r].level = w)
    BY <1>1, <1>4 DEF Finds, Goes, LayersOK, Resolutions
  <2> QED
    BY <1>2, <1>4, <2>1
<1>5. CASE resolve(r)
  <2>1. reader'[r].level = "default" \/
        (pid_entries[p] # Unset /\ reader'[r].level = pid_entries[p].level)
    BY <1>1, <1>5 DEF resolve, Goes, LayersOK, Resolutions
  <2> QED
    BY <1>1, <1>2, <2>1 DEF Covered, EntriesCovered
<1>6. CASE resolve_by_comm(r)
  <2>1. process_names[p] # Unset /\ Finds(r, rule_of(process_names[p]), "cgroup")
    BY <1>6 DEF resolve_by_comm, NamesKept
  <2>2. Says(p, rule_of(process_names[p]))
    BY <2>1 DEF Says
  <2> QED
    BY <1>3, <1>4, <2>1, <2>2
<1>7. CASE resolve_by_cgroup(r)
  <2>1. Finds(r, session_level(p), "ancestors") /\ Says(p, session_level(p))
    BY <1>7 DEF resolve_by_cgroup, Says
  <2> QED
    BY <1>3, <1>4, <2>1
<1>8. CASE collect_ancestors(r)
  BY <1>2, <1>8, NextHop DEF LayersOK
<1>9. CASE resolve_by_ancestors(r)
  <2> DEFINE w == inherited(reader[r].line)
  <2>1. w = Unset \/ w \in overrides_above(reader[r].line)
    BY <1>1, InheritedTypes DEF Resolutions
  <2>2. w \in overrides_above(reader[r].line) => Says(p, w)
    BY DEF Says
  <2>3. reader'[r].level = IF w = Unset THEN "default" ELSE w
    BY <1>1, <1>9 DEF resolve_by_ancestors, LayersOK, Resolutions
  <2> HIDE DEF w
  <2> QED
    BY <1>2, <1>3, <2>1, <2>2, <2>3
<1>10. CASE cache_resolved(r)
  BY <1>1, <1>2, <1>10 DEF cache_resolved, LayersOK, Resolutions
<1> QED
  BY <1>5, <1>6, <1>7, <1>8, <1>9, <1>10

(* A hop of a walk adds an ancestor whose override, if it has one, is on   *)
(* record from then on.                                                    *)
LEMMA CoveredByHop ==
    ASSUME LayersOK, GroundsOK, Covered, NamesKept, NEW r \in Readers, collect_ancestors(r)
    PROVE  Covered'
<1>1. LayersCovered' /\ \A p \in Pids : grounds[p] \subseteq grounds'[p]
  BY GroundsGrow DEF collect_ancestors
<1>2. UNCHANGED pid_entries
  BY DEF collect_ancestors, layers
<1>3. \A x \in Readers : reader'[x].pid = reader[x].pid /\ reader'[x].level = reader[x].level
  BY NextHop DEF LayersOK
<1>4. ReadersCovered'
  BY <1>1, <1>3, ReaderTypes DEF Covered, ReadersCovered, Resolutions
<1>5. EntriesCovered' /\ DefaultCovered'
  BY <1>1, <1>2 DEF Covered, EntriesCovered, DefaultCovered
<1> QED
  BY <1>1, <1>4, <1>5 DEF Covered

LEMMA CoveredByReader ==
    ASSUME LayersOK, LayersOK', RestOK, GroundsOK, Covered, NamesKept,
           NEW r \in events.readers, Resolves(r)
    PROVE  Covered'
<1>1. /\ r \in Readers
      /\ UNCHANGED <<system, cgroup_tracker, dynamic_name_rules, sessions>>
      /\ \A x \in Readers \ {r} : reader'[x] = reader[x]
      /\ \/ \E p \in Pids : process_from(r, p)
         \/ collect_ancestors(r)
         \/ UNCHANGED process_names /\ UNCHANGED grounds /\ reader'[r].pid = reader[r].pid
  BY ReaderSteps
<1>2. CASE (\E p \in Pids : process_from(r, p)) \/ collect_ancestors(r)
  BY <1>1, <1>2, CoveredByRequest, CoveredByHop
<1>3. CASE ~((\E p \in Pids : process_from(r, p)) \/ collect_ancestors(r))
  <2>0. reader[r] \in Resolutions /\ reader[r].pid \in Pids
    BY <1>1, ReaderTypes DEF Resolutions
  <2>1. UNCHANGED process_names /\ UNCHANGED grounds /\ reader'[r].pid = reader[r].pid
    BY <1>1, <1>3
  <2>2. \/ resolve(r) \/ resolve_by_comm(r) \/ resolve_by_cgroup(r)
        \/ resolve_by_ancestors(r) \/ cache_resolved(r)
    BY <1>3 DEF Resolves
  <2>3. reader'[r].level \in grounds[reader[r].pid]
    BY <1>1, <2>1, <2>2, FindsGrounds
  <2>4. \/ UNCHANGED pid_entries
        \/ /\ \A q \in Pids \ {reader[r].pid} : pid_entries'[q] = pid_entries[q]
           /\ pid_entries'[reader[r].pid].kind = "cached"
           /\ pid_entries'[reader[r].pid].level = reader[r].level
    <3>1. CASE cache_resolved(r)
      BY <2>0, <3>1 DEF cache_resolved, LayersOK
    <3>2. CASE ~cache_resolved(r)
      BY <2>2, <3>2 DEF resolve, resolve_by_comm, resolve_by_cgroup,
         resolve_by_ancestors, layers
    <3> QED
      BY <3>1, <3>2
  <2>5. reader'[r].line = reader[r].line \/ reader'[r].line = <<>>
    BY <1>1, <2>0, <2>2 DEF resolve, resolve_by_comm, resolve_by_cgroup, Goes, Finds,
         resolve_by_ancestors, cache_resolved, LayersOK, Resolutions
  <2>6. \A q \in Pids : explicit(q)' => pid_entries'[q] = pid_entries[q]
    BY <2>4 DEF explicit
  <2>7. \A p \in Pids : Given(p)' \subseteq Given(p)
    <3>1. UNCHANGED <<proc, cgroup_tracker, dynamic_name_rules, sessions, process_names>>
      BY <1>1, <2>1 DEF system
    <3>2. \A x \in Readers :
             /\ reader'[x].pid = reader[x].pid
             /\ reader'[x].line = reader[x].line \/ reader'[x].line = <<>>
      BY <1>1, <2>1, <2>5
    <3> QED
      BY <2>6, <3>1, <3>2, GivenShrinks
  <2>8. LayersCovered' /\ DefaultCovered'
    BY <2>1, <2>7 DEF Covered, LayersCovered, DefaultCovered
  <2>9. EntriesCovered'
    BY <2>0, <2>1, <2>4, <1>1 DEF Covered, EntriesCovered, ReadersCovered
  <2>10. ReadersCovered'
    BY <1>1, <2>1, <2>3 DEF Covered, ReadersCovered
  <2> QED
    BY <2>8, <2>9, <2>10 DEF Covered
<1> QED
  BY <1>2, <1>3

LEMMA CoveredStay ==
    ASSUME LayersOK, LayersOK', RestOK, GroundsOK, Covered, NamesKept, [MapNext]_mapVars
    PROVE  Covered'
<1>1. ASSUME NEW r \in events.readers, Resolves(r) PROVE Covered'
  BY <1>1, CoveredByReader
<1>2. CASE set_pid
  BY <1>2, CoveredBySet
<1>3. ASSUME \/ \E p, q \in Pids : ForkProcess(p, q)
             \/ \E p \in Pids : Exit(p)
             \/ \E p \in Pids, n \in Names : Exec(p, n)
             \/ \E n \in Names, level \in Level : set_name_rule(n, level)
             \/ track \/ insert_session
      PROVE  Covered'
  <2>1. Recorded /\ UNCHANGED <<pid_entries, reader>>
    BY <1>3 DEF ForkProcess, Exit, Exec, set_name_rule, track, insert_session, layers
  <2> QED
    BY <2>1, CoveredByRecorded
<1>4. ASSUME \/ \E p \in Pids : handle_register(p) \/ handle_unregister(p)
             \/ \E p \in Pids, level \in Level : handle_set_visibility(p, level)
             \/ handle_list
             \/ UNCHANGED mapVars
      PROVE  Covered'
  <2>1. UNCHANGED <<system, layers, process_names, reader, grounds>>
    BY <1>4 DEF handle_register, handle_unregister, handle_set_visibility, handle_list, mapVars,
                system, layers
  <2> QED
    BY <2>1, CoveredByControl
<1> QED
  BY <1>1, <1>2, <1>3, <1>4 DEF MapNext

-----------------------------------------------------------------------------
(* The inductive invariant of the map.                                     *)

LEMMA MapStarts == ASSUME MapInit PROVE MapInv
<1>1. LayersOK
  <2>1. events.readers \subseteq Readers /\ events.cgroups \in BOOLEAN
    BY VisibilityConstants DEF MapInit
  <2>2. proc \in Procs
    BY VisibilityConstants DEF MapInit, Procs
  <2>3. reader \in [Readers -> Resolutions]
    BY VisibilityConstants, EmptyLine DEF MapInit, Resolutions, Level
  <2> QED
    BY <2>1, <2>2, <2>3 DEF MapInit, LayersOK
<1>2. GroundsOK
  <2>1. \A p \in Pids : Given(p) \subseteq Level \cup {Unset}
    BY <1>1, GivenTypes DEF GivenTyped
  <2> QED
    BY <2>1 DEF MapInit, GroundsOK, Level
<1>3. RestOK
  BY VisibilityConstants DEF MapInit, RestOK, Level
<1>4. SettledHolds /\ NamesKept
  BY DEF MapInit, SettledHolds, NamesKept
<1>5. LayersCovered /\ EntriesCovered /\ DefaultCovered
  BY DEF MapInit, LayersCovered, EntriesCovered, DefaultCovered
<1>6. ReadersCovered
  BY VisibilityConstants DEF MapInit, ReadersCovered
<1> QED
  BY <1>1, <1>2, <1>3, <1>4, <1>5, <1>6, MapTypes DEF MapInv, Grounded

LEMMA MapStays == ASSUME MapInv, [MapNext]_mapVars PROVE MapInv'
<1>1. MapTypeOK /\ NamesKept /\ SettledHolds /\ Covered
  BY DEF MapInv, Grounded, Covered
<1>2. LayersOK /\ RestOK /\ GroundsOK
  BY <1>1, MapTypes
<1>3. MapTypeOK'
  BY <1>1, MapStepTypes
<1>4. LayersOK'
  <2>1. (MapTypeOK <=> LayersOK /\ RestOK /\ GroundsOK)'
    BY MapTypes, PTL
  <2> QED
    BY <1>3, <2>1
<1>5. NamesKept' /\ SettledHolds'
  BY <1>1, <1>2, NamesStay, SettledStay
<1>6. Covered'
  BY <1>1, <1>2, <1>4, CoveredStay
<1> QED
  BY <1>3, <1>5, <1>6 DEF MapInv, Grounded, Covered

(* The inductive invariant of the visibility map: the types, the overrides *)
(* that were set, and the grounds of every level stored or on its way.     *)
THEOREM MapInvariant == MapSpec => []MapInv
<1>1. MapInit => MapInv
  BY MapStarts
<1>2. MapInv /\ [MapNext]_mapVars => MapInv'
  BY MapStays
<1> QED
  BY <1>1, <1>2, PTL DEF MapSpec

(* An override set while no resolution of its process was past its look at *)
(* the map (set_pid) stays in the map until another is set: a resolution   *)
(* that looks later finds it and stores nothing (resolve, cache_resolved). *)
THEOREM SetOverridesHold == MapSpec => []OverridesHold
<1>1. MapInv => OverridesHold
  BY DEF MapInv, SettledHolds, OverridesHold
<1> QED
  BY <1>1, MapInvariant, PTL

(* What resolve answers a request is a level that a rule, a session or an  *)
(* override, the process's own or an ancestor's, gave its pid at some      *)
(* time, or the default: never what another process was found to have.     *)
THEOREM AnswersStandOnLayers == MapSpec => []AnswersHaveGrounds
<1>1. MapInv => AnswersHaveGrounds
  BY DEF MapInv, Grounded, ReadersCovered, AnswersHaveGrounds
<1> QED
  BY <1>1, MapInvariant, PTL
=============================================================================
