--------------------------- MODULE SessionProofs ---------------------------
(* Proofs about Sessions, for any mounts, clients and session ids.  Two    *)
(* inductive invariants: SessionInv (the types, the order in which daemons *)
(* come, and that who came late sees the sessions there are) and Teardown  *)
(* (what a supervisor that takes its sessions down has left behind).       *)
EXTENDS Sessions, SequenceTheorems, FiniteSetTheorems, WellFoundedInduction, TLAPS

(* A set of naturals has a smallest member.                                *)
LEMMA LeastNumber ==
    ASSUME NEW T, T \subseteq Nat, T # {}
    PROVE  \E n \in T : \A m \in T : n <= m
<1> DEFINE R == {p \in Nat \X Nat : p[1] < p[2]}
<1>1. IsWellFoundedOn(R, Nat)
  BY NatLessThanWellFounded DEF OpToRel
<1> HIDE DEF R
<1>2. PICK n \in T : \A m \in T : ~(<<m, n>> \in R)
  BY <1>1, WFMin
<1>3. \A m \in T : ~(m < n)
  BY <1>2 DEF R
<1> QED
  BY <1>3

-----------------------------------------------------------------------------
(* Sessions: the types.                                                    *)

Everyone == Supervisors \cup Clients

DaemonStates == [pc : {"none", "starting", "prepared", "unlinked", "bound", "ready", "serving",
                       "stopping", "joined", "dead"},
                 ready : BOOLEAN, killed : BOOLEAN]
SupStates == [pc : {"start", "launch", "awaiting", "waiting", "aborting", "teardown",
                    "terminating", "reaping", "done", "dead"},
              at : Nat, ids : Seq(Ids)]
ClientStates == [pc : {"start", "connect", "connected", "sent", "answered", "failed", "running",
                       "orphan", "done", "dead"},
                 request : {"none", "list", "register", "fds", "unregister"},
                 id : Ids \cup {Nobody}, to : Daemons \cup {Nobody}, guard : BOOLEAN]
ScanStates == [pc : {"idle", "read", "check", "sweep"}, left : SUBSET Ids,
               at : Ids \cup {Nobody}, found : SUBSET Ids]
ServerStates == [queue : Seq(Clients), with : Clients \cup {Nobody}]
Paths == [Ids -> Daemons \cup {Nobody}]

PathsOK == file \in Paths /\ socket \in Paths
DaemonOK == daemon \in [Daemons -> DaemonStates]
SupOK == sup \in [Supervisors -> SupStates]
ClientOK == client \in [Clients -> ClientStates]
ScanOK == scan \in [Everyone -> ScanStates]
ServerOK == server \in [Daemons -> ServerStates]
RestOfOK == trees \subseteq Daemons \cup Clients /\ begun \in [Daemons -> SUBSET Everyone]
            /\ kills \in Nat

SessionsOK == PathsOK /\ DaemonOK /\ SupOK /\ ClientOK /\ ScanOK /\ ServerOK /\ RestOfOK

LEMMA SessionTypesSplit == SessionTypeOK <=> SessionsOK
BY DEF SessionTypeOK, SessionsOK, PathsOK, DaemonOK, SupOK, ClientOK, ScanOK, ServerOK, RestOfOK,
       Paths, DaemonStates, SupStates, ClientStates, ScanStates, ServerStates, Everyone

(* The ids a supervisor has planned: one for each of its directories or    *)
(* for the first of them, no two alike, and it reads no more files.        *)
PlannedOnce ==
    \A s \in Supervisors :
        /\ sup[s].pc = "start" => sup[s].ids = <<>> /\ sup[s].at = 1
        /\ sup[s].ids # <<>> => scan[s].pc = "idle"
        /\ DOMAIN sup[s].ids \subseteq DOMAIN Specs[s]
        /\ \A j, k \in DOMAIN sup[s].ids : sup[s].ids[j] = sup[s].ids[k] => j = k
        /\ sup[s].pc \in {"launch", "awaiting", "aborting", "waiting", "teardown",
                          "terminating", "reaping"} => sup[s].at \in DOMAIN sup[s].ids

(* The daemons come one by one; a file or a socket is there of those only  *)
(* that came that far.                                                     *)
Launched ==
    \A d \in Daemons :
        /\ daemon[d].pc # "none" =>
              /\ sup[d[1]].pc # "start"
              /\ sup[d[1]].pc = "launch" => d[2] < sup[d[1]].at
              /\ sup[d[1]].pc \in {"awaiting", "aborting"} => d[2] <= sup[d[1]].at
        /\ Alive(d) => Mounted(d)
        /\ daemon[d].ready => daemon[d].pc \in {"ready", "serving", "stopping", "joined", "dead"}
        /\ \A i \in Ids :
              /\ file[i] = d => daemon[d].ready
              /\ socket[i] = d => daemon[d].pc \notin {"none", "starting", "prepared", "unlinked"}

(* A scan that looks at a file has one; a client that is past its scan     *)
(* has a session in mind.                                                  *)
Aimed ==
    /\ \A p \in Everyone : scan[p].pc \in {"check", "sweep"} => scan[p].at \in Ids
    /\ \A c \in Clients : client[c].pc \notin {"start", "done", "dead"} => client[c].id \in Ids

Ordered == PlannedOnce /\ Launched /\ Aimed

LEMMA DaemonParts ==
    /\ \A d \in Daemons : /\ d = <<d[1], d[2]>> /\ d[1] \in Supervisors
                          /\ d[2] \in DOMAIN Specs[d[1]]
    /\ \A s \in Supervisors : \A k \in DOMAIN Specs[s] :
          <<s, k>> \in Daemons /\ <<s, k>>[1] = s /\ <<s, k>>[2] = k
BY DEF Daemons

LEMMA SpecParts ==
    ASSUME NEW s \in Supervisors, NEW k \in DOMAIN Specs[s]
    PROVE  Specs[s][k].base \in Bases /\ Specs[s][k].explicit \in BOOLEAN
<1>1. Specs[s] \in Seq([base : Bases, explicit : BOOLEAN])
  BY SessionConstants
<1>2. k \in 1..Len(Specs[s])
  BY <1>1, LenProperties
<1>3. Specs[s][k] \in [base : Bases, explicit : BOOLEAN]
  BY <1>1, <1>2, ElementOfSeq
<1> QED
  BY <1>3

(* The daemon a supervisor is about.                                       *)
LEMMA AboutIds ==
    ASSUME SupOK, PlannedOnce, NEW s \in Supervisors,
           sup[s].pc \in {"launch", "awaiting", "aborting", "waiting", "teardown",
                          "terminating", "reaping"}
    PROVE  /\ Current(s) \in Daemons /\ Current(s)[1] = s /\ Current(s)[2] = sup[s].at
           /\ Mounted(Current(s)) /\ IdOf(Current(s)) = sup[s].ids[sup[s].at]
           /\ IdOf(Current(s)) \in Ids
<1>1. sup[s].at \in DOMAIN sup[s].ids /\ sup[s].at \in DOMAIN Specs[s]
  BY DEF PlannedOnce
<1>2. Current(s) \in Daemons /\ Current(s)[1] = s /\ Current(s)[2] = sup[s].at
  BY <1>1, DaemonParts DEF Current
<1>3. sup[s].ids \in Seq(Ids)
  BY DEF SupOK, SupStates
<1>4. sup[s].ids[sup[s].at] \in Ids
  BY <1>1, <1>3
<1> QED
  BY <1>1, <1>2, <1>4 DEF Mounted, IdOf

LEMMA MountedIds ==
    ASSUME SupOK, NEW d \in Daemons, Mounted(d)
    PROVE  IdOf(d) \in Ids /\ IdOf(d) = sup[d[1]].ids[d[2]]
<1>1. sup[d[1]].ids \in Seq(Ids)
  BY DaemonParts DEF SupOK, SupStates
<1> QED
  BY <1>1 DEF Mounted, IdOf

-----------------------------------------------------------------------------
(* The plan.                                                               *)

LEMMA PathPlans ==
    ASSUME ScanOK, NEW s \in Supervisors, NEW k \in DOMAIN Specs[s],
           \E n \in 1..MaxSuffix : ~is_active(s, <<Specs[s][k].base, n>>)
    PROVE  from_path(s, Specs[s][k]) \in Ids \ scan[s].found
<1> DEFINE base == Specs[s][k].base
           Free == {n \in 1..MaxSuffix : ~is_active(s, <<base, n>>)}
<1>1. base \in Bases /\ MaxSuffix \in Nat
  BY SpecParts, SessionConstants
<1>2. PICK n \in Free : \A m \in Free : n <= m
  <2>1. Free \subseteq Nat /\ Free # {}
    BY <1>1
  <2> QED
    BY <2>1, LeastNumber
<1>3. ASSUME NEW m \in 1..(n - 1) PROVE is_active(s, <<base, m>>)
  <2>1. m \in 1..MaxSuffix /\ ~(n <= m)
    BY <1>1, <1>2
  <2> QED
    BY <1>2, <2>1
<1> DEFINE Fits(n_1) == ~is_active(s, <<base, n_1>>) /\ \A m \in 1..(n_1 - 1) : is_active(s, <<base, m>>)
           c == CHOOSE n_1 \in 1..MaxSuffix : Fits(n_1)
<1>4. Fits(n) /\ n \in 1..MaxSuffix
  BY <1>2, <1>3
<1>5. c \in 1..MaxSuffix /\ Fits(c)
  <2> HIDE DEF Fits
  <2> QED
    BY <1>4
<1>6. from_path(s, Specs[s][k]) = <<base, c>>
  BY DEF from_path
<1> QED
  BY <1>1, <1>5, <1>6 DEF is_active, Ids

(* A valid plan: an id for each directory, none twice, none in use.        *)
LEMMA PlanFits ==
    ASSUME ScanOK, SupOK, NEW s \in Supervisors, Plan(s), Valid(PlannedIds(s))
    PROVE  /\ PlannedIds(s) \in Seq(Ids \ scan[s].found)
           /\ DOMAIN PlannedIds(s) = DOMAIN Specs[s] /\ 1 \in DOMAIN Specs[s]
           /\ \A j, k \in DOMAIN Specs[s] : PlannedIds(s)[j] = PlannedIds(s)[k] => j = k
<1>0. Specs[s] \in Seq([base : Bases, explicit : BOOLEAN]) /\ Specs[s] # <<>>
  BY SessionConstants
<1>1. DOMAIN Specs[s] = 1..Len(Specs[s]) /\ Len(Specs[s]) \in Nat /\ 1 \in DOMAIN Specs[s]
  BY <1>0
<1>2. DOMAIN PlannedIds(s) = DOMAIN Specs[s]
  BY DEF PlannedIds
<1>3. ASSUME NEW k \in DOMAIN Specs[s] PROVE PlannedIds(s)[k] \in Ids \ scan[s].found
  <2>1. PlannedIds(s)[k] = PlannedId(s, Specs[s][k]) /\ PlannedIds(s)[k] # Nobody
    BY <1>2, <1>3 DEF PlannedIds, Valid
  <2>2. CASE Specs[s][k].explicit
    <3>1. PlannedId(s, Specs[s][k]) = <<Specs[s][k].base, 1>>
          /\ ~is_active(s, <<Specs[s][k].base, 1>>)
      BY <2>1, <2>2 DEF PlannedId, from_explicit
    <3>2. <<Specs[s][k].base, 1>> \in Ids
      BY SpecParts, SessionConstants DEF Ids
    <3> QED
      BY <2>1, <3>1, <3>2 DEF is_active
  <2>3. CASE ~Specs[s][k].explicit
    <3>1. PlannedId(s, Specs[s][k]) = from_path(s, Specs[s][k])
      BY <2>3 DEF PlannedId
    <3>2. \E n \in 1..MaxSuffix : ~is_active(s, <<Specs[s][k].base, n>>)
      BY DEF Plan
    <3> QED
      BY <2>1, <3>1, <3>2, PathPlans
  <2> QED
    BY <2>2, <2>3
<1>4. PlannedIds(s) \in Seq(Ids \ scan[s].found)
  <2>1. PlannedIds(s) = [k \in 1..Len(Specs[s]) |-> PlannedIds(s)[k]]
    BY <1>1 DEF PlannedIds
  <2>2. \A k \in 1..Len(Specs[s]) : PlannedIds(s)[k] \in Ids \ scan[s].found
    BY <1>1, <1>3
  <2>3. PlannedIds(s) \in [1..Len(Specs[s]) -> Ids \ scan[s].found]
    BY <2>1, <2>2
  <2> QED
    BY <1>1, <2>3, SeqDef
<1>5. ASSUME NEW j \in DOMAIN Specs[s], NEW k \in DOMAIN Specs[s],
             PlannedIds(s)[j] = PlannedIds(s)[k]
      PROVE  j = k
  <2>1. j \in Nat /\ k \in Nat /\ 1 <= j /\ 1 <= k
    BY <1>1
  <2>2. ~(j < k) /\ ~(k < j)
    BY <1>2, <1>5, <2>1 DEF Valid
  <2> QED
    BY <2>1, <2>2
<1> QED
  BY <1>1, <1>2, <1>4, <1>5

-----------------------------------------------------------------------------
(* The types kept.                                                         *)

LEMMA FallenTypes ==
    ASSUME ClientOK, NEW D,
           client' = [c \in Clients |->
                        IF client[c].to \in D /\ client[c].pc \in {"connected", "sent"}
                        THEN [client[c] EXCEPT !.pc = "failed"] ELSE client[c]]
    PROVE  ClientOK'
<1>1. ASSUME NEW c \in Clients PROVE [client[c] EXCEPT !.pc = "failed"] \in ClientStates
  BY DEF ClientOK, ClientStates
<1> QED
  BY <1>1 DEF ClientOK

LEMMA SignalledTypes ==
    ASSUME DaemonOK, NEW d \in Daemons
    PROVE  Signalled(d) \in DaemonStates
<1>1. daemon[d] \in DaemonStates
  BY DEF DaemonOK
<1>2. CASE daemon[d].pc = "serving"
  BY <1>1, <1>2 DEF Signalled, DaemonStates
<1>3. CASE daemon[d].pc \in {"starting", "prepared", "unlinked", "bound", "ready"}
  BY <1>1, <1>3 DEF Signalled, DaemonStates
<1>4. CASE daemon[d].pc \in {"none", "stopping", "joined", "dead"}
  BY <1>1, <1>4 DEF Signalled, DaemonStates
<1> QED
  BY <1>1, <1>2, <1>3, <1>4 DEF DaemonStates

EmptyServer == [queue |-> <<>>, with |-> Nobody]

LEMMA EmptyServerTypes == EmptyServer \in ServerStates
BY EmptySeq DEF EmptyServer, ServerStates

LEMMA SignalTypes ==
    ASSUME DaemonOK, ClientOK, ServerOK, NEW D, Signal(D)
    PROVE  DaemonOK' /\ ClientOK' /\ ServerOK'
<1>1. DaemonOK'
  <2>1. \A d \in Daemons : (IF d \in D THEN Signalled(d) ELSE daemon[d]) \in DaemonStates
    BY SignalledTypes DEF DaemonOK
  <2>2. daemon' = [d \in Daemons |-> IF d \in D THEN Signalled(d) ELSE daemon[d]]
    BY DEF Signal
  <2> QED
    BY <2>1, <2>2 DEF DaemonOK
<1> DEFINE fallen == {d \in D : Alive(d) /\ Signalled(d).pc = "dead"}
<1>2. ServerOK'
  <2>1. server' = [d \in Daemons |-> IF d \in fallen THEN EmptyServer ELSE server[d]]
    BY DEF Signal, EmptyServer
  <2> HIDE DEF fallen
  <2> QED
    BY <2>1, EmptyServerTypes DEF ServerOK
<1>3. ClientOK'
  <2>1. client' = [c \in Clients |->
                     IF client[c].to \in fallen /\ client[c].pc \in {"connected", "sent"}
                     THEN [client[c] EXCEPT !.pc = "failed"] ELSE client[c]]
    BY DEF Signal
  <2> HIDE DEF fallen
  <2> QED
    BY <2>1, FallenTypes
<1> QED
  BY <1>1, <1>2, <1>3

LEMMA ScansTypes ==
    ASSUME SessionsOK, Ordered, NEW p \in Everyone, Scans(p)
    PROVE  SessionsOK'
<1>1. UNCHANGED <<socket, daemon, sup, client, server, trees, begun, kills>>
  BY DEF Scans, StartScan, ReadFile, CheckSocket, Sweep
<1>2. scan[p] \in ScanStates /\ (scan[p].pc \in {"check", "sweep"} => scan[p].at \in Ids)
  BY DEF SessionsOK, ScanOK, Ordered, Aimed
<1>3. file' \in Paths
  <2>1. CASE Sweep(p)
    BY <2>1 DEF Sweep, SessionsOK, PathsOK, Paths
  <2>2. CASE ~Sweep(p)
    BY <2>2 DEF Scans, StartScan, ReadFile, CheckSocket, SessionsOK, PathsOK
  <2> QED
    BY <2>1, <2>2
<1>4. ScanOK'
  <2>1. CASE StartScan(p)
    BY <1>2, <2>1 DEF StartScan, SessionsOK, ScanOK, ScanStates
  <2>2. CASE ReadFile(p)
    <3>1. PICK i \in scan[p].left :
              scan' = [scan EXCEPT ![p].left = @ \ {i}, ![p].at = i,
                               ![p].pc = IF file[i] = Nobody THEN "read" ELSE "check"]
      BY <2>2 DEF ReadFile
    <3>2. i \in Ids /\ scan \in [Everyone -> ScanStates]
      BY <1>2 DEF ScanStates, SessionsOK, ScanOK
    <3>3. CASE file[i] = Nobody
      BY <1>2, <3>1, <3>2, <3>3 DEF ScanOK, ScanStates
    <3>4. CASE file[i] # Nobody
      BY <1>2, <3>1, <3>2, <3>4 DEF ScanOK, ScanStates
    <3> QED
      BY <3>3, <3>4
  <2>3. CASE CheckSocket(p)
    <3>1. scan[p].at \in Ids
      BY <1>2, <2>3 DEF CheckSocket
    <3>2. CASE socket[scan[p].at] = Nobody
      BY <1>2, <2>3, <3>2 DEF CheckSocket, SessionsOK, ScanOK, ScanStates
    <3>3. CASE socket[scan[p].at] # Nobody
      BY <1>2, <2>3, <3>1, <3>3 DEF CheckSocket, SessionsOK, ScanOK, ScanStates
    <3> QED
      BY <3>2, <3>3
  <2>4. CASE Sweep(p)
    BY <1>2, <2>4 DEF Sweep, SessionsOK, ScanOK, ScanStates
  <2> QED
    BY <2>1, <2>2, <2>3, <2>4 DEF Scans
<1> QED
  BY <1>1, <1>3, <1>4
     DEF SessionsOK, PathsOK, DaemonOK, SupOK, ClientOK, ServerOK, RestOfOK

IdleScan == [pc |-> "idle", left |-> {}, at |-> Nobody, found |-> {}]

LEMMA IdleScanTypes == IdleScan \in ScanStates
BY DEF IdleScan, ScanStates

SupPlaces == {"start", "launch", "awaiting", "waiting", "aborting", "teardown",
              "terminating", "reaping", "done", "dead"}

LEMMA SupGoes ==
    ASSUME SupOK, NEW s \in Supervisors, NEW pc \in SupPlaces,
           sup' = [sup EXCEPT ![s].pc = pc]
    PROVE  SupOK'
BY DEF SupOK, SupStates, SupPlaces

LEMMA SupGoesTo ==
    ASSUME SupOK, NEW s \in Supervisors, NEW pc \in SupPlaces, NEW at \in Nat,
           sup' = [sup EXCEPT ![s].pc = pc, ![s].at = at]
    PROVE  SupOK'
BY DEF SupOK, SupStates, SupPlaces

LEMMA PlanTypes ==
    ASSUME SessionsOK, NEW s \in Supervisors, Plan(s)
    PROVE  SessionsOK'
<1>1. UNCHANGED <<file, socket, daemon, client, server, begun, kills>>
  BY DEF Plan
<1>2. sup[s] \in SupStates
  BY DEF SessionsOK, SupOK
<1>3. SupOK'
  <2>1. CASE Valid(PlannedIds(s))
    <3>1. PlannedIds(s) \in Seq(Ids)
      <4>1. PlannedIds(s) \in Seq(Ids \ scan[s].found)
        BY <2>1, PlanFits DEF SessionsOK
      <4>2. Ids \ scan[s].found \subseteq Ids
        OBVIOUS
      <4> QED
        BY <4>1, <4>2, SeqDef
    <3>2. sup' = [sup EXCEPT ![s].pc = "launch", ![s].ids = PlannedIds(s)]
      BY <2>1 DEF Plan
    <3> QED
      BY <1>2, <3>1, <3>2 DEF SessionsOK, SupOK, SupStates
  <2>2. CASE ~Valid(PlannedIds(s))
    <3>1. sup' = [sup EXCEPT ![s].pc = "done"]
      BY <2>2 DEF Plan
    <3> QED
      BY <3>1, SupGoes DEF SessionsOK, SupPlaces
  <2> QED
    BY <2>1, <2>2
<1>4. ScanOK'
  <2>1. scan' = [scan EXCEPT ![s] = IdleScan]
    BY DEF Plan, IdleScan
  <2> QED
    BY <2>1, IdleScanTypes DEF SessionsOK, ScanOK
<1>5. trees' \subseteq trees
  BY DEF Plan, reap_stale
<1> QED
  BY <1>1, <1>3, <1>4, <1>5
     DEF SessionsOK, PathsOK, DaemonOK, ClientOK, ServerOK, RestOfOK

LEMMA SupStepTypes ==
    ASSUME SessionsOK, Ordered, NEW s \in Supervisors,
           \/ Fork(s) \/ Announce(s) \/ StartFails(s) \/ RemoveFile(s) \/ Reap(s)
           \/ KillSupervisor(s)
    PROVE  SessionsOK'
<1>1. UNCHANGED <<socket, client, scan, server>>
  BY DEF Fork, Announce, StartFails, RemoveFile, Reap, KillSupervisor
<1>2. sup[s] \in SupStates
  BY DEF SessionsOK, SupOK
<1>3. SupOK'
  <2>1. sup[s].at + 1 \in Nat /\ SupOK
    BY <1>2 DEF SupStates, SessionsOK
  <2>2. CASE Fork(s) \/ StartFails(s) \/ RemoveFile(s) \/ KillSupervisor(s)
    <3>1. \E pc \in SupPlaces : sup' = [sup EXCEPT ![s].pc = pc]
      BY <2>2 DEF Fork, StartFails, RemoveFile, KillSupervisor, SupPlaces
    <3> QED
      BY <2>1, <3>1, SupGoes
  <2>3. CASE Announce(s) \/ Reap(s)
    <3>1. \/ \E pc \in SupPlaces : sup' = [sup EXCEPT ![s].pc = pc]
          \/ \E pc \in SupPlaces : sup' = [sup EXCEPT ![s].pc = pc, ![s].at = sup[s].at + 1]
      BY <2>3 DEF Announce, Reap, SupPlaces
    <3> QED
      BY <2>1, <3>1, SupGoes, SupGoesTo
  <2> QED
    BY <2>2, <2>3
<1>4. ASSUME Fork(s) \/ Announce(s) \/ RemoveFile(s) \/ Reap(s)
      PROVE  Current(s) \in Daemons /\ IdOf(Current(s)) \in Ids
  BY <1>4, AboutIds DEF Fork, Announce, RemoveFile, Reap, SessionsOK, Ordered
<1>5. DaemonOK'
  <2>1. CASE Fork(s)
    BY <1>4, <2>1 DEF Fork, SessionsOK, DaemonOK, DaemonStates
  <2>2. CASE ~Fork(s)
    BY <2>2 DEF Announce, StartFails, RemoveFile, Reap, KillSupervisor, SessionsOK, DaemonOK
  <2> QED
    BY <2>1, <2>2
<1>6. file' \in Paths
  <2>1. CASE Announce(s)
    <3>1. file' = [file EXCEPT ![IdOf(Current(s))] = Current(s)] /\ file \in Paths
          /\ Current(s) \in Daemons
      BY <1>4, <2>1 DEF Announce, SessionsOK, PathsOK
    <3> QED
      BY <3>1 DEF Paths
  <2>2. CASE RemoveFile(s)
    <3>1. file' = [file EXCEPT ![IdOf(Current(s))] = Nobody] /\ file \in Paths
      BY <2>2 DEF RemoveFile, SessionsOK, PathsOK
    <3> QED
      BY <3>1 DEF Paths
  <2>3. CASE UNCHANGED file
    BY <2>3 DEF SessionsOK, PathsOK
  <2> QED
    BY <2>1, <2>2, <2>3 DEF Fork, StartFails, Reap, KillSupervisor
<1>7. trees' \subseteq trees
  BY DEF Fork, Announce, StartFails, RemoveFile, Reap, KillSupervisor
<1>8. begun' \in [Daemons -> SUBSET Everyone]
  <2>1. CASE Announce(s)
    <3>1. {p \in (Supervisors \cup Clients) \ {s} : AtWork(p)} \subseteq Everyone
      BY DEF Everyone
    <3> QED
      BY <2>1, <3>1 DEF Announce, SessionsOK, RestOfOK
  <2>2. CASE ~Announce(s)
    BY <2>2 DEF Fork, StartFails, RemoveFile, Reap, KillSupervisor, SessionsOK, RestOfOK
  <2> QED
    BY <2>1, <2>2
<1>9. kills' \in Nat
  BY DEF Fork, Announce, StartFails, RemoveFile, Reap, KillSupervisor, SessionsOK, RestOfOK
<1>10. PathsOK' /\ RestOfOK'
  BY <1>1, <1>6, <1>7, <1>8, <1>9 DEF SessionsOK, PathsOK, RestOfOK
<1> QED
  BY <1>1, <1>3, <1>5, <1>10 DEF SessionsOK, ClientOK, ScanOK, ServerOK

LEMMA SupSignalTypes ==
    ASSUME SessionsOK, Ordered, NEW s \in Supervisors,
           Abort(s) \/ Stop(s) \/ Terminate(s)
    PROVE  SessionsOK'
<1>1. UNCHANGED <<file, socket, scan, trees, begun, kills>>
  BY DEF Abort, Stop, Terminate
<1>2. (\E D : Signal(D)) \/ UNCHANGED <<daemon, server, client>>
  BY DEF Abort, Stop, Terminate
<1>3. DaemonOK' /\ ClientOK' /\ ServerOK'
  BY <1>2, SignalTypes DEF SessionsOK, DaemonOK, ClientOK, ServerOK
<1>4. sup[s] \in SupStates
  BY DEF SessionsOK, SupOK
<1>5. SupOK'
  <2>1. CASE Abort(s)
    <3>1. sup[s].at \in 1..Len(sup[s].ids) /\ sup[s].ids \in Seq(Ids)
      <4>1. sup[s].at \in DOMAIN sup[s].ids /\ sup[s].ids \in Seq(Ids)
        BY <1>4, <2>1 DEF Abort, Ordered, PlannedOnce, SupStates
      <4> QED
        BY <4>1, LenProperties
    <3>2. SubSeq(sup[s].ids, 1, sup[s].at - 1) \in Seq(Ids)
      <4>1. sup[s].at - 1 \in 0..Len(sup[s].ids)
        BY <3>1, LenProperties
      <4>2. \A k \in 1..(sup[s].at - 1) : sup[s].ids[k] \in Ids
        BY <3>1, LenProperties, ElementOfSeq
      <4> QED
        BY <3>1, <4>1, <4>2, SubSeqProperties
    <3> QED
      BY <1>4, <2>1, <3>2 DEF Abort, SessionsOK, SupOK, SupStates
  <2>2. CASE Stop(s) \/ Terminate(s)
    <3>1. \/ sup' = [sup EXCEPT ![s].pc = "teardown", ![s].at = 1]
          \/ sup' = [sup EXCEPT ![s].pc = "reaping"]
      BY <2>2 DEF Stop, Terminate
    <3> QED
      BY <3>1, SupGoes, SupGoesTo DEF SessionsOK, SupPlaces
  <2> QED
    BY <2>1, <2>2
<1> QED
  BY <1>1, <1>3, <1>5 DEF SessionsOK, PathsOK, ScanOK, RestOfOK

DaemonPlaces == {"none", "starting", "prepared", "unlinked", "bound", "ready", "serving",
                 "stopping", "joined", "dead"}

LEMMA BecomesTypes ==
    ASSUME DaemonOK, NEW d \in Daemons, NEW pc \in DaemonPlaces, Becomes(d, pc)
    PROVE  DaemonOK'
BY DEF DaemonOK, DaemonStates, DaemonPlaces, Becomes

LEMMA BuildsTypes ==
    ASSUME SessionsOK, Ordered, NEW d \in Daemons, Builds(d)
    PROVE  SessionsOK'
<1>1. UNCHANGED <<file, sup, client, scan, server, begun, kills>>
  BY DEF Builds, PrepareStorage, RemoveStale, Bind, SignalReady, BuildFails, SetHandlers
<1>2. DaemonOK'
  <2>1. CASE SignalReady(d)
    BY <2>1 DEF SignalReady, SessionsOK, DaemonOK, DaemonStates
  <2>2. CASE ~SignalReady(d)
    <3>1. \E pc \in DaemonPlaces : Becomes(d, pc)
      BY <2>2 DEF Builds, PrepareStorage, RemoveStale, Bind, BuildFails, SetHandlers, DaemonPlaces
    <3> QED
      BY <3>1, BecomesTypes DEF SessionsOK
  <2> QED
    BY <2>1, <2>2
<1>3. socket' \in Paths
  <2>1. CASE RemoveStale(d) \/ Bind(d)
    <3>1. Mounted(d)
      BY <2>1 DEF RemoveStale, Bind, Ordered, Launched, Alive
    <3>2. IdOf(d) \in Ids
      BY <3>1, MountedIds DEF SessionsOK
    <3>3. \/ socket' = [socket EXCEPT ![IdOf(d)] = Nobody]
          \/ socket' = [socket EXCEPT ![IdOf(d)] = d]
          \/ socket' = socket
      BY <2>1 DEF RemoveStale, Bind
    <3> QED
      BY <3>2, <3>3 DEF SessionsOK, PathsOK, Paths
  <2>2. CASE UNCHANGED socket
    BY <2>2 DEF SessionsOK, PathsOK
  <2> QED
    BY <2>1, <2>2 DEF Builds, PrepareStorage, SignalReady, BuildFails, SetHandlers
<1>4. trees' \subseteq Daemons \cup Clients
  BY DEF Builds, PrepareStorage, RemoveStale, Bind, SignalReady, BuildFails, SetHandlers,
         SessionsOK, RestOfOK
<1> QED
  BY <1>1, <1>2, <1>3, <1>4
     DEF SessionsOK, PathsOK, SupOK, ClientOK, ScanOK, ServerOK, RestOfOK

LEMMA ServesTypes ==
    ASSUME SessionsOK, NEW d \in Daemons, Serves(d)
    PROVE  SessionsOK'
<1>1. UNCHANGED <<file, socket, daemon, sup, scan, trees, begun, kills>>
  BY DEF Serves, Accept, handle_connection
<1>2. server[d] \in ServerStates /\ server \in [Daemons -> ServerStates]
  BY DEF SessionsOK, ServerOK
<1>3. ServerOK'
  <2>1. CASE Accept(d)
    <3>1. Tail(server[d].queue) \in Seq(Clients) /\ Head(server[d].queue) \in Clients
      BY <1>2, <2>1, HeadTailProperties DEF Accept, ServerStates
    <3> QED
      BY <1>2, <2>1, <3>1 DEF Accept, ServerOK, ServerStates
  <2>2. CASE handle_connection(d)
    <3>1. server' = [server EXCEPT ![d].with = Nobody]
      BY <2>2 DEF handle_connection
    <3> QED
      BY <1>2, <3>1 DEF ServerOK, ServerStates
  <2> QED
    BY <2>1, <2>2 DEF Serves
<1>4. ClientOK'
  BY DEF Serves, Accept, handle_connection, SessionsOK, ClientOK, ClientStates
<1> QED
  BY <1>1, <1>3, <1>4 DEF SessionsOK, PathsOK, DaemonOK, SupOK, ScanOK, RestOfOK

LEMMA EndingTypes ==
    ASSUME SessionsOK, Ordered, NEW d \in Daemons, Ending(d) \/ KillDaemon(d)
    PROVE  SessionsOK'
<1>1. UNCHANGED <<file, sup, scan, trees, begun>>
  BY DEF Ending, EndServer, RemoveSocket, KillDaemon
<1>2. CASE EndServer(d)
  <2>1. DaemonOK'
    BY <1>2, BecomesTypes DEF EndServer, SessionsOK, DaemonPlaces
  <2>2. ServerOK'
    BY <1>2, EmptySeq DEF EndServer, SessionsOK, ServerOK, ServerStates
  <2>3. ClientOK'
    <3>1. client' = [c \in Clients |->
                     IF client[c].to \in {d} /\ client[c].pc \in {"connected", "sent"}
                     THEN [client[c] EXCEPT !.pc = "failed"] ELSE client[c]]
      BY <1>2 DEF EndServer
    <3> QED
      BY <3>1, FallenTypes DEF SessionsOK
  <2> QED
    BY <1>1, <1>2, <2>1, <2>2, <2>3
       DEF EndServer, SessionsOK, PathsOK, SupOK, ScanOK, RestOfOK
<1>3. CASE RemoveSocket(d)
  <2>1. DaemonOK'
    BY <1>3, BecomesTypes DEF RemoveSocket, SessionsOK, DaemonPlaces
  <2>2. IdOf(d) \in Ids
    BY <1>3, MountedIds DEF RemoveSocket, Ordered, Launched, Alive, SessionsOK
  <2>3. socket' \in Paths
    BY <1>3, <2>2 DEF RemoveSocket, SessionsOK, PathsOK, Paths
  <2> QED
    BY <1>1, <1>3, <2>1, <2>3
       DEF RemoveSocket, SessionsOK, PathsOK, SupOK, ScanOK, ClientOK, ServerOK, RestOfOK
<1>4. CASE KillDaemon(d)
  <2>1. DaemonOK'
    BY <1>4 DEF KillDaemon, SessionsOK, DaemonOK, DaemonStates
  <2>2. ServerOK'
    <3>1. server' = [server EXCEPT ![d] = EmptyServer]
      BY <1>4 DEF KillDaemon, EmptyServer
    <3> QED
      BY <3>1, EmptyServerTypes DEF SessionsOK, ServerOK
  <2>3. ClientOK'
    <3>1. client' = [c \in Clients |->
                     IF client[c].to \in {d} /\ client[c].pc \in {"connected", "sent"}
                     THEN [client[c] EXCEPT !.pc = "failed"] ELSE client[c]]
      BY <1>4 DEF KillDaemon
    <3> QED
      BY <3>1, FallenTypes DEF SessionsOK
  <2>4. kills' \in Nat
    BY <1>4 DEF KillDaemon, SessionsOK, RestOfOK
  <2> QED
    BY <1>1, <1>4, <2>1, <2>2, <2>3, <2>4
       DEF KillDaemon, SessionsOK, PathsOK, SupOK, ScanOK, RestOfOK
<1> QED
  BY <1>2, <1>3, <1>4 DEF Ending

(* A client step that leaves the daemons and the supervisors alone.        *)
LEMMA ClientGoes ==
    ASSUME ClientOK, NEW c \in Clients, NEW e \in ClientStates,
           client' = [client EXCEPT ![c] = e]
    PROVE  ClientOK'
BY DEF ClientOK

LEMMA AsksTypes ==
    ASSUME ClientOK, NEW c \in Clients,
           NEW request \in {"none", "list", "register", "fds", "unregister"}
    PROVE  Asks(c, request) \in ClientStates
BY DEF ClientOK, ClientStates, Asks

LEMMA EndsTypes ==
    ASSUME ClientOK, NEW c \in Clients
    PROVE  Ends(c) \in ClientStates /\ Leaves(c) \in ClientStates
<1>1. Ends(c) \in ClientStates
  BY DEF ClientOK, ClientStates, Ends
<1>2. [Asks(c, "unregister") EXCEPT !.guard = FALSE] \in ClientStates
  BY AsksTypes DEF ClientStates
<1> QED
  BY <1>1, <1>2 DEF Leaves

LEMMA ResolvedTypes ==
    ASSUME ScanOK, NEW c \in Clients
    PROVE  Resolved(c) \in Ids \cup {Nobody}
<1>1. Wants[c] \in Ids \cup {Nobody} /\ scan[c].found \subseteq Ids
  BY SessionConstants DEF ScanOK, ScanStates, Everyone
<1>2. CASE c \in Listers
  BY <1>1, <1>2 DEF Resolved
<1>3. CASE c \notin Listers /\ Wants[c] # Nobody
  BY <1>1, <1>3 DEF Resolved
<1>4. CASE c \notin Listers /\ Wants[c] = Nobody
  <2>1. Resolved(c) = IF Cardinality(scan[c].found) = 1
                      THEN CHOOSE i \in scan[c].found : TRUE ELSE Nobody
    BY <1>4 DEF Resolved
  <2>2. CASE scan[c].found # {}
    BY <1>1, <2>1, <2>2
  <2>3. CASE scan[c].found = {}
    <3>1. Cardinality(scan[c].found) # 1
      BY <2>3, FS_EmptySet
    <3> QED
      BY <2>1, <3>1
  <2> QED
    BY <2>2, <2>3
<1> QED
  BY <1>2, <1>3, <1>4

LEMMA ProceedTypes ==
    ASSUME ClientOK, NEW c \in Clients, Proceed(c)
    PROVE  ClientOK'
<1>1. client[c] \in ClientStates /\ Ends(c) \in ClientStates /\ Leaves(c) \in ClientStates
  BY EndsTypes DEF ClientOK
<1>2. CASE client[c].request = "register"
  <2>1. client' = [client EXCEPT ![c] = [Asks(c, "fds") EXCEPT !.guard = client[c].pc = "answered"]]
    BY <1>2 DEF Proceed
  <2>2. [Asks(c, "fds") EXCEPT !.guard = client[c].pc = "answered"] \in ClientStates
    <3>1. Asks(c, "fds") \in ClientStates
      BY AsksTypes
    <3> QED
      BY <3>1 DEF ClientStates
  <2> QED
    BY <2>1, <2>2, ClientGoes
<1>3. CASE client[c].request = "fds" /\ client[c].pc = "answered"
  <2>1. client' = [client EXCEPT ![c] = [client[c] EXCEPT !.pc = "running"]]
    BY <1>3 DEF Proceed
  <2>2. [client[c] EXCEPT !.pc = "running"] \in ClientStates
    BY <1>1 DEF ClientStates
  <2> QED
    BY <2>1, <2>2, ClientGoes
<1>4. CASE client[c].request = "fds" /\ client[c].pc = "failed"
  <2>1. client' = [client EXCEPT ![c] = Leaves(c)]
    BY <1>4 DEF Proceed
  <2> QED
    BY <1>1, <2>1, ClientGoes
<1>5. CASE client[c].request \notin {"register", "fds"}
  <2>1. client' = [client EXCEPT ![c] = Ends(c)]
    BY <1>5 DEF Proceed
  <2> QED
    BY <1>1, <2>1, ClientGoes
<1> QED
  BY <1>2, <1>3, <1>4, <1>5 DEF Proceed

LEMMA CallsTypes ==
    ASSUME SessionsOK, Ordered, NEW c \in Clients, Calls(c) \/ KillClient(c)
    PROVE  SessionsOK'
<1>1. UNCHANGED <<file, socket, daemon, sup, begun>>
  BY DEF Calls, Resolve, Connect, Send, Proceed, CommandEnds, KillClient
<1>2. client[c] \in ClientStates /\ ClientOK
  BY DEF SessionsOK, ClientOK
<1>3. ClientOK'
  <2>1. CASE Resolve(c)
    <3>1. Resolved(c) \in Ids \cup {Nobody}
      BY ResolvedTypes DEF SessionsOK
    <3>2. \A w \in {"list", "register"} :
             [Asks(c, w) EXCEPT !.id = Resolved(c)] \in ClientStates
      <4>1. \A w \in {"list", "register"} : Asks(c, w) \in ClientStates
        BY <1>2, AsksTypes
      <4> QED
        BY <3>1, <4>1 DEF ClientStates
    <3>3. \/ client' = [client EXCEPT ![c] = Ends(c)]
          \/ \E w \in {"list", "register"} :
                client' = [client EXCEPT ![c] = [Asks(c, w) EXCEPT !.id = Resolved(c)]]
      BY <2>1 DEF Resolve
    <3> QED
      BY <1>2, <3>2, <3>3, EndsTypes, ClientGoes
  <2>2. CASE Connect(c)
    <3>1. socket[client[c].id] \in Daemons \cup {Nobody}
      BY <2>2 DEF Connect, Ordered, Aimed, SessionsOK, PathsOK, Paths
    <3>2. \/ client' = [client EXCEPT ![c].pc = "failed"]
          \/ client' = [client EXCEPT ![c].pc = "connected", ![c].to = socket[client[c].id]]
      BY <2>2 DEF Connect
    <3> QED
      BY <1>2, <3>1, <3>2 DEF ClientOK, ClientStates
  <2>3. CASE Send(c) \/ KillClient(c)
    <3>1. \E pc \in {"sent", "orphan", "dead"} : client' = [client EXCEPT ![c].pc = pc]
      BY <1>2, <2>3 DEF Send, KillClient, ClientOK
    <3> QED
      BY <1>2, <3>1 DEF ClientOK, ClientStates
  <2>4. CASE Proceed(c)
    BY <1>2, <2>4, ProceedTypes
  <2>5. CASE CommandEnds(c)
    <3>1. \/ client' = [client EXCEPT ![c] = Leaves(c)]
          \/ client' = [client EXCEPT ![c].pc = "dead"]
      BY <2>5 DEF CommandEnds
    <3>2. [client[c] EXCEPT !.pc = "dead"] \in ClientStates
      BY <1>2 DEF ClientStates
    <3>3. CASE client' = [client EXCEPT ![c] = Leaves(c)]
      BY <1>2, <3>3, EndsTypes, ClientGoes
    <3>4. CASE client' = [client EXCEPT ![c].pc = "dead"]
      BY <1>2, <3>4 DEF ClientOK, ClientStates
    <3> QED
      BY <3>1, <3>3, <3>4
  <2> QED
    BY <2>1, <2>2, <2>3, <2>4, <2>5 DEF Calls
<1>4. ScanOK'
  <2>1. CASE Resolve(c)
    <3>1. scan' = [scan EXCEPT ![c] = IdleScan]
      BY <2>1 DEF Resolve, IdleScan
    <3> QED
      BY <3>1, IdleScanTypes DEF SessionsOK, ScanOK
  <2>2. CASE ~Resolve(c)
    BY <2>2 DEF Calls, Connect, Send, Proceed, CommandEnds, KillClient, SessionsOK, ScanOK
  <2> QED
    BY <2>1, <2>2
<1>5. ServerOK'
  <2>1. CASE Connect(c)
    <3> DEFINE d == socket[client[c].id]
    <3>1. d \in Daemons \cup {Nobody}
      BY <2>1 DEF Connect, Ordered, Aimed, SessionsOK, PathsOK, Paths
    <3>2. CASE d # Nobody /\ Listening(d)
      <4>1. server' = [server EXCEPT ![d].queue = Append(server[d].queue, c)]
        BY <2>1, <3>2 DEF Connect
      <4>2. d \in Daemons /\ server[d] \in ServerStates
        BY <3>1, <3>2 DEF SessionsOK, ServerOK
      <4>3. Append(server[d].queue, c) \in Seq(Clients)
        BY <4>2, AppendProperties DEF ServerStates
      <4> HIDE DEF d
      <4> QED
        BY <4>1, <4>2, <4>3 DEF SessionsOK, ServerOK, ServerStates
    <3>3. CASE ~(d # Nobody /\ Listening(d))
      BY <2>1, <3>3 DEF Connect, SessionsOK, ServerOK
    <3> QED
      BY <3>2, <3>3
  <2>2. CASE ~Connect(c)
    BY <2>2 DEF Calls, Resolve, Send, Proceed, CommandEnds, KillClient, SessionsOK, ServerOK
  <2> QED
    BY <2>1, <2>2
<1>6. trees' \subseteq Daemons \cup Clients
  BY DEF Calls, Resolve, Connect, Send, Proceed, CommandEnds, KillClient, SessionsOK, RestOfOK
<1>7. kills' \in Nat
  BY DEF Calls, Resolve, Connect, Send, Proceed, CommandEnds, KillClient, SessionsOK, RestOfOK
<1> QED
  BY <1>1, <1>3, <1>4, <1>5, <1>6, <1>7
     DEF SessionsOK, PathsOK, DaemonOK, SupOK, RestOfOK

LEMMA SessionStepTypes ==
    ASSUME SessionsOK, Ordered, [Next]_vars
    PROVE  SessionsOK'
<1>1. CASE UNCHANGED vars
  BY <1>1 DEF vars, SessionsOK, PathsOK, DaemonOK, SupOK, ClientOK, ScanOK, ServerOK, RestOfOK
<1>2. ASSUME NEW p \in Supervisors \cup Clients, Scans(p) PROVE SessionsOK'
  BY <1>2, ScansTypes DEF Everyone
<1>3. ASSUME NEW s \in Supervisors, Supervises(s) \/ KillSupervisor(s) PROVE SessionsOK'
  BY <1>3, PlanTypes, SupStepTypes, SupSignalTypes DEF Supervises, Tears
<1>4. ASSUME NEW d \in Daemons, Builds(d) \/ Serves(d) \/ Ending(d) \/ KillDaemon(d)
      PROVE  SessionsOK'
  BY <1>4, BuildsTypes, ServesTypes, EndingTypes
<1>5. ASSUME NEW c \in Clients, Calls(c) \/ KillClient(c) PROVE SessionsOK'
  BY <1>5, CallsTypes
<1> QED
  BY <1>1, <1>2, <1>3, <1>4, <1>5 DEF Next

-----------------------------------------------------------------------------
(* Who does what: the steps of the others leave a supervisor, a daemon and *)
(* the reading of a process alone.                                         *)

SupStep(s) == Supervises(s) \/ KillSupervisor(s)

LEMMA OthersLeaveSup ==
    ASSUME Next, \A s \in Supervisors : ~SupStep(s)
    PROVE  UNCHANGED <<sup, begun>>
BY DEF Next, SupStep, Scans, StartScan, ReadFile, CheckSocket, Sweep,
       Builds, PrepareStorage, RemoveStale, Bind, SignalReady, BuildFails, SetHandlers,
       Serves, Accept, handle_connection, Ending, EndServer, RemoveSocket, KillDaemon,
       Calls, Resolve, Connect, Send, Proceed, CommandEnds, KillClient

LEMMA SupStepLeaves ==
    ASSUME SessionsOK, NEW s \in Supervisors, SupStep(s)
    PROVE  \A q \in Supervisors \ {s} : sup'[q] = sup[q]
BY DEF SupStep, Supervises, Plan, Fork, Announce, StartFails, Stop, Tears, Abort, RemoveFile,
       Terminate, Reap, KillSupervisor, SessionsOK, SupOK

LEMMA SupStepScans ==
    ASSUME SessionsOK, NEW s \in Supervisors, SupStep(s)
    PROVE  \/ UNCHANGED scan
           \/ scan' = [scan EXCEPT ![s] = IdleScan]
BY DEF SupStep, Supervises, Plan, Fork, Announce, StartFails, Stop, Tears, Abort, RemoveFile,
       Terminate, Reap, KillSupervisor, IdleScan

(* A process that reads session files has not planned yet.                 *)
LEMMA ScansStart ==
    ASSUME SessionsOK, [Next]_vars, NEW s \in Supervisors, sup[s].pc # "start",
           scan[s].pc = "idle"
    PROVE  scan'[s].pc = "idle"
<1>0. s \in Everyone /\ scan \in [Everyone -> ScanStates]
  BY DEF Everyone, SessionsOK, ScanOK
<1>1. ASSUME NEW p \in Supervisors \cup Clients, Scans(p) PROVE scan'[s].pc = "idle"
  <2>1. p # s
    BY <1>1 DEF Scans, StartScan, ReadFile, CheckSocket, Sweep, CanScan
  <2>2. scan'[s] = scan[s]
    BY <1>0, <1>1, <2>1 DEF Scans, StartScan, ReadFile, CheckSocket, Sweep
  <2> QED
    BY <2>2
<1>2. ASSUME NEW q \in Supervisors, SupStep(q) PROVE scan'[s].pc = "idle"
  BY <1>0, <1>2, SupStepScans DEF IdleScan
<1>3. ASSUME NEW d \in Daemons, Builds(d) \/ Serves(d) \/ Ending(d) \/ KillDaemon(d)
      PROVE  scan'[s].pc = "idle"
  <2>1. UNCHANGED scan
    BY <1>3 DEF Builds, PrepareStorage, RemoveStale, Bind, SignalReady, BuildFails, SetHandlers,
       Serves, Accept, handle_connection, Ending, EndServer, RemoveSocket, KillDaemon
  <2> QED
    BY <2>1
<1>4. ASSUME NEW c \in Clients, Calls(c) \/ KillClient(c) PROVE scan'[s].pc = "idle"
  <2>1. UNCHANGED scan \/ scan' = [scan EXCEPT ![c] = IdleScan]
    BY <1>4 DEF Calls, Resolve, Connect, Send, Proceed, CommandEnds, KillClient, IdleScan
  <2> QED
    BY <1>0, <2>1 DEF IdleScan
<1>5. CASE UNCHANGED vars
  BY <1>5 DEF vars
<1> QED
  BY <1>1, <1>2, <1>3, <1>4, <1>5 DEF Next, SupStep

PlanOK(s) ==
    /\ sup[s].pc = "start" => sup[s].ids = <<>> /\ sup[s].at = 1
    /\ DOMAIN sup[s].ids \subseteq DOMAIN Specs[s]
    /\ \A j, k \in DOMAIN sup[s].ids : sup[s].ids[j] = sup[s].ids[k] => j = k
    /\ sup[s].pc \in {"launch", "awaiting", "aborting", "waiting", "teardown",
                      "terminating", "reaping"} => sup[s].at \in DOMAIN sup[s].ids

LEMMA PlannedStay ==
    ASSUME SessionsOK, Ordered, [Next]_vars
    PROVE  PlannedOnce'
<1>1. ASSUME NEW s \in Supervisors, sup[s].ids # <<>> PROVE scan'[s].pc = "idle"
  <2>1. sup[s].pc # "start" /\ scan[s].pc = "idle"
    BY <1>1 DEF Ordered, PlannedOnce
  <2> QED
    BY <2>1, ScansStart
<1>2. ASSUME NEW s \in Supervisors, sup'[s] = sup[s]
      PROVE  PlanOK(s)' /\ (sup'[s].ids # <<>> => scan'[s].pc = "idle")
  BY <1>1, <1>2 DEF Ordered, PlannedOnce, PlanOK
<1>3. ASSUME NEW s \in Supervisors, Plan(s)
      PROVE  PlanOK(s)' /\ (sup'[s].ids # <<>> => scan'[s].pc = "idle")
  <2>1. sup \in [Supervisors -> SupStates] /\ s \in Everyone /\ scan \in [Everyone -> ScanStates]
    BY DEF SessionsOK, SupOK, Everyone, ScanOK
  <2>2. sup[s].pc = "start" /\ sup[s].ids = <<>> /\ sup[s].at = 1
    BY <1>3 DEF Plan, Scanned, CanScan, Ordered, PlannedOnce
  <2>3. scan'[s].pc = "idle"
    BY <1>3, <2>1 DEF Plan
  <2>4. CASE Valid(PlannedIds(s))
    <3>1. /\ DOMAIN PlannedIds(s) = DOMAIN Specs[s] /\ 1 \in DOMAIN Specs[s]
          /\ \A j, k \in DOMAIN Specs[s] : PlannedIds(s)[j] = PlannedIds(s)[k] => j = k
      BY <1>3, <2>4, PlanFits DEF SessionsOK
    <3>2. sup'[s].pc = "launch" /\ sup'[s].ids = PlannedIds(s) /\ sup'[s].at = 1
      BY <1>3, <2>1, <2>2, <2>4 DEF Plan, SupStates
    <3> QED
      BY <2>3, <3>1, <3>2 DEF PlanOK
  <2>5. CASE ~Valid(PlannedIds(s))
    <3>1. sup'[s].pc = "done" /\ sup'[s].ids = <<>>
      BY <1>3, <2>1, <2>2, <2>5 DEF Plan, SupStates
    <3> QED
      BY <2>3, <3>1 DEF PlanOK
  <2> QED
    BY <2>4, <2>5
<1>4. ASSUME NEW s \in Supervisors, SupStep(s), ~Plan(s)
      PROVE  PlanOK(s)' /\ (sup'[s].ids # <<>> => scan'[s].pc = "idle")
  <2>1. sup \in [Supervisors -> SupStates] /\ sup[s] \in SupStates
    BY DEF SessionsOK, SupOK
  <2>2. sup[s].ids \in Seq(Ids)
    BY <2>1 DEF SupStates
  <2>3. DOMAIN sup[s].ids = 1..Len(sup[s].ids) /\ Len(sup[s].ids) \in Nat
    BY <2>2, LenProperties
  <2>4. PlanOK(s)
    BY DEF Ordered, PlannedOnce, PlanOK
  <2>5. CASE Abort(s) /\ ~Alive(Current(s))
    <3> DEFINE n == sup[s].at - 1
               short == SubSeq(sup[s].ids, 1, n)
    <3>1. n \in 0..Len(sup[s].ids) /\ sup[s].at \in Nat /\ n = sup[s].at - 1
      BY <2>1, <2>3, <2>4, <2>5 DEF Abort, PlanOK, SupStates
    <3>2. /\ DOMAIN short = 1..n /\ \A k \in 1..n : short[k] = sup[s].ids[k]
      BY <2>2, <2>3, <3>1
    <3>3. /\ sup'[s].ids = short /\ sup'[s].at = 1
          /\ sup'[s].pc = IF sup[s].at = 1 THEN "done" ELSE "teardown"
      BY <2>1, <2>5 DEF Abort, SupStates
    <3>4. 1..n \subseteq DOMAIN sup[s].ids
      BY <2>3, <3>1
    <3>5. sup[s].at # 1 => 1 \in 1..n
      BY <2>3, <2>4, <2>5, <3>1 DEF Abort, PlanOK
    <3> HIDE DEF short, n
    <3>6. PlanOK(s)'
      BY <2>4, <3>2, <3>3, <3>4, <3>5 DEF PlanOK
    <3>7. sup[s].ids # <<>>
      <4>1. sup[s].at \in DOMAIN sup[s].ids
        BY <2>4, <2>5 DEF Abort, PlanOK
      <4> QED
        BY <4>1
    <3> QED
      BY <1>1, <3>6, <3>7
  <2>6. CASE ~(Abort(s) /\ ~Alive(Current(s)))
    <3>1. sup'[s].ids = sup[s].ids
      BY <1>4, <2>1, <2>6 DEF SupStep, Supervises, Fork, Announce, StartFails, Stop, Tears, Abort,
         RemoveFile, Terminate, Reap, KillSupervisor, SupStates
    <3>2. sup'[s].pc # "start"
      BY <1>4, <2>1, <2>6 DEF SupStep, Supervises, Fork, Announce, StartFails, Stop, Tears, Abort,
         RemoveFile, Terminate, Reap, KillSupervisor, SupStates
    <3>3. sup'[s].pc \in {"launch", "awaiting", "aborting", "waiting", "teardown",
                      "terminating", "reaping"} => sup'[s].at \in DOMAIN sup[s].ids
      BY <1>4, <2>1, <2>3, <2>4, <2>6 DEF SupStep, Supervises, Fork, Announce, StartFails, Stop, Tears, Abort,
         RemoveFile, Terminate, Reap, KillSupervisor, SupStates, PlanOK
    <3> QED
      BY <1>1, <2>4, <3>1, <3>2, <3>3 DEF PlanOK
  <2> QED
    BY <2>5, <2>6
<1>5. ASSUME NEW s \in Supervisors
      PROVE  PlanOK(s)' /\ (sup'[s].ids # <<>> => scan'[s].pc = "idle")
  <2>1. CASE SupStep(s)
    BY <1>3, <1>4, <2>1
  <2>2. CASE ~SupStep(s)
    <3>1. sup'[s] = sup[s]
      BY <2>2, OthersLeaveSup, SupStepLeaves DEF vars
    <3> QED
      BY <1>2, <3>1
  <2> QED
    BY <2>1, <2>2
<1> QED
  BY <1>5 DEF PlannedOnce, PlanOK

-----------------------------------------------------------------------------
(* What the scans and the clients are at.                                  *)

ScanAimed == \A p \in Everyone : scan[p].pc \in {"check", "sweep"} => scan[p].at \in Ids
ClientAimed == \A c \in Clients : client[c].pc \notin {"start", "done", "dead"} => client[c].id \in Ids

LEMMA ScanAimedStays ==
    ASSUME SessionsOK, ScanAimed, [Next]_vars
    PROVE  ScanAimed'
<1>0. scan \in [Everyone -> ScanStates] /\ \A p \in Everyone : scan[p] \in ScanStates
  BY DEF SessionsOK, ScanOK
<1>1. CASE UNCHANGED scan
  BY <1>1 DEF ScanAimed
<1>2. ASSUME NEW p \in Everyone, scan' = [scan EXCEPT ![p] = IdleScan] PROVE ScanAimed'
  BY <1>0, <1>2 DEF ScanAimed, IdleScan
<1>3. ASSUME NEW p \in Everyone, Scans(p) PROVE ScanAimed'
  <2>1. \A q \in Everyone \ {p} : scan'[q] = scan[q]
    BY <1>0, <1>3 DEF Scans, StartScan, ReadFile, CheckSocket, Sweep
  <2>2. scan'[p].pc \in {"check", "sweep"} => scan'[p].at \in Ids
    <3>1. CASE StartScan(p) \/ Sweep(p)
      BY <1>0, <3>1 DEF StartScan, Sweep, ScanStates
    <3>2. CASE ReadFile(p)
      <4>1. PICK i \in scan[p].left :
              scan' = [scan EXCEPT ![p].left = @ \ {i}, ![p].at = i,
                               ![p].pc = IF file[i] = Nobody THEN "read" ELSE "check"]
        BY <3>2 DEF ReadFile
      <4>2. scan'[p].at = i /\ i \in Ids
        BY <1>0, <4>1 DEF ScanStates
      <4> QED
        BY <4>2
    <3>3. CASE CheckSocket(p)
      <4>1. scan[p].at \in Ids /\ scan'[p].at = scan[p].at
        BY <1>0, <3>3 DEF CheckSocket, ScanAimed, ScanStates
      <4> QED
        BY <4>1
    <3> QED
      BY <1>3, <3>1, <3>2, <3>3 DEF Scans
  <2> QED
    BY <2>1, <2>2 DEF ScanAimed
<1>4. ASSUME NEW c \in Clients, Calls(c) \/ KillClient(c)
      PROVE  UNCHANGED scan \/ scan' = [scan EXCEPT ![c] = IdleScan]
  BY <1>4 DEF Calls, Resolve, Connect, Send, Proceed, CommandEnds, KillClient, IdleScan
<1>5. ASSUME NEW d \in Daemons, Builds(d) \/ Serves(d) \/ Ending(d) \/ KillDaemon(d)
      PROVE  UNCHANGED scan
  BY <1>5 DEF Builds, PrepareStorage, RemoveStale, Bind, SignalReady, BuildFails, SetHandlers,
       Serves, Accept, handle_connection, Ending, EndServer, RemoveSocket, KillDaemon
<1>6. ASSUME NEW s \in Supervisors, SupStep(s)
      PROVE  UNCHANGED scan \/ scan' = [scan EXCEPT ![s] = IdleScan]
  BY <1>6, SupStepScans
<1>7. \/ UNCHANGED scan
      \/ \E p \in Everyone : scan' = [scan EXCEPT ![p] = IdleScan]
      \/ \E p \in Everyone : Scans(p)
  BY <1>4, <1>5, <1>6 DEF Next, SupStep, vars, Everyone
<1> QED
  BY <1>1, <1>2, <1>3, <1>7

(* A daemon's end turns clients that speak to it away.                     *)
LEMMA FallenAimed ==
    ASSUME ClientOK, ClientAimed, NEW D,
           client' = [c \in Clients |->
                        IF client[c].to \in D /\ client[c].pc \in {"connected", "sent"}
                        THEN [client[c] EXCEPT !.pc = "failed"] ELSE client[c]]
    PROVE  ClientAimed'
<1>1. ASSUME NEW c \in Clients
      PROVE  client'[c].id = client[c].id /\ (client'[c].pc = client[c].pc \/ client[c].pc \in {"connected", "sent"})
  BY DEF ClientOK, ClientStates
<1> QED
  BY <1>1 DEF ClientAimed

LEMMA ClientAimedStays ==
    ASSUME SessionsOK, ClientAimed, [Next]_vars
    PROVE  ClientAimed'
<1>0. ClientOK /\ \A c \in Clients : client[c] \in ClientStates
  BY DEF SessionsOK, ClientOK
<1>1. CASE UNCHANGED client
  BY <1>1 DEF ClientAimed
<1>2. ASSUME NEW D, Signal(D) PROVE ClientAimed'
  <2> DEFINE fallen == {d \in D : Alive(d) /\ Signalled(d).pc = "dead"}
  <2>1. client' = [c \in Clients |->
                     IF client[c].to \in fallen /\ client[c].pc \in {"connected", "sent"}
                     THEN [client[c] EXCEPT !.pc = "failed"] ELSE client[c]]
    BY <1>2 DEF Signal
  <2> HIDE DEF fallen
  <2> QED
    BY <1>0, <2>1, FallenAimed
<1>3. ASSUME NEW d \in Daemons, EndServer(d) \/ KillDaemon(d) PROVE ClientAimed'
  <2>1. client' = [c \in Clients |->
                     IF client[c].to \in {d} /\ client[c].pc \in {"connected", "sent"}
                     THEN [client[c] EXCEPT !.pc = "failed"] ELSE client[c]]
    BY <1>3 DEF EndServer, KillDaemon
  <2> QED
    BY <1>0, <2>1, FallenAimed
<1>4. ASSUME NEW d \in Daemons, handle_connection(d), ~UNCHANGED client PROVE ClientAimed'
  <2>1. PICK c \in Clients : client[c].pc = "sent" /\ client' = [client EXCEPT ![c].pc = "answered"]
    <3>1. server[d].with \in Clients \cup {Nobody}
      BY DEF SessionsOK, ServerOK, ServerStates
    <3> QED
      BY <1>4, <3>1 DEF handle_connection
  <2> QED
    BY <1>0, <2>1 DEF ClientAimed, ClientOK, ClientStates
<1>5. ASSUME NEW c \in Clients, NEW e \in ClientStates, client' = [client EXCEPT ![c] = e],
             e.pc \in {"start", "done", "dead"} \/ e.id \in Ids
      PROVE  ClientAimed'
  BY <1>0, <1>5 DEF ClientAimed, ClientOK
<1>6. ASSUME NEW c \in Clients, Calls(c) \/ KillClient(c) PROVE ClientAimed'
  <2>1. ASSUME NEW pc, client' = [client EXCEPT ![c].pc = pc],
               pc = "dead" \/ client[c].pc \notin {"start", "done", "dead"}
        PROVE  ClientAimed'
    BY <1>0, <2>1 DEF ClientAimed, ClientOK, ClientStates
  <2>2. ASSUME client[c].pc \notin {"start", "done", "dead"}
        PROVE  /\ \A w : Asks(c, w).id \in Ids
               /\ Leaves(c).pc = "done" \/ Leaves(c).id \in Ids
    BY <1>0, <2>2 DEF ClientAimed, Asks, Leaves, Ends, ClientStates
  <2>3. Ends(c) \in ClientStates /\ Leaves(c) \in ClientStates /\ Ends(c).pc = "done"
    <3>1. Ends(c).pc = "done"
      BY <1>0 DEF Ends, ClientStates
    <3> QED
      BY <1>0, <3>1, EndsTypes
  <2>4. CASE Resolve(c)
    <3>1. CASE Resolved(c) = Nobody
      <4>1. client' = [client EXCEPT ![c] = Ends(c)]
        BY <2>4, <3>1 DEF Resolve
      <4> QED
        BY <1>5, <2>3, <4>1
    <3>2. CASE Resolved(c) # Nobody
      <4>1. PICK w \in {"list", "register"} :
               client' = [client EXCEPT ![c] = [Asks(c, w) EXCEPT !.id = Resolved(c)]]
        BY <2>4, <3>2 DEF Resolve
      <4>2. Asks(c, w) \in ClientStates /\ Resolved(c) \in Ids
        BY <1>0, <3>2, AsksTypes, ResolvedTypes DEF SessionsOK
      <4>3. [Asks(c, w) EXCEPT !.id = Resolved(c)] \in ClientStates
            /\ [Asks(c, w) EXCEPT !.id = Resolved(c)].id \in Ids
        BY <4>2 DEF ClientStates
      <4> QED
        BY <1>5, <4>1, <4>3
    <3> QED
      BY <3>1, <3>2
  <2>5. CASE Connect(c)
    <3>1. \/ client' = [client EXCEPT ![c].pc = "failed"]
          \/ client' = [client EXCEPT ![c].pc = "connected", ![c].to = socket[client[c].id]]
      BY <2>5 DEF Connect
    <3>2. client[c].id \in Ids
      BY <2>5 DEF Connect, ClientAimed
    <3> QED
      BY <1>0, <3>1, <3>2 DEF ClientAimed, ClientOK, ClientStates
  <2>6. CASE Send(c)
    BY <2>1, <2>6 DEF Send
  <2>7. CASE KillClient(c)
    <3>1. client' = [client EXCEPT ![c].pc = IF client[c].pc = "running" THEN "orphan" ELSE "dead"]
      BY <1>0, <2>7 DEF KillClient, ClientOK
    <3> QED
      BY <2>1, <2>7, <3>1 DEF KillClient
  <2>8. CASE Proceed(c)
    <3>1. client[c].pc \in {"answered", "failed"}
      BY <2>8 DEF Proceed
    <3>2. CASE client[c].request = "register"
      <4>1. client' = [client EXCEPT ![c] = [Asks(c, "fds") EXCEPT !.guard = client[c].pc = "answered"]]
        BY <2>8, <3>2 DEF Proceed
      <4>2. [Asks(c, "fds") EXCEPT !.guard = client[c].pc = "answered"] \in ClientStates
            /\ [Asks(c, "fds") EXCEPT !.guard = client[c].pc = "answered"].id \in Ids
        <5>1. Asks(c, "fds") \in ClientStates /\ Asks(c, "fds").id \in Ids
          BY <1>0, <2>2, <3>1, AsksTypes
        <5> QED
          BY <5>1 DEF ClientStates
      <4> QED
        BY <1>5, <4>1, <4>2
    <3>3. CASE client[c].request = "fds" /\ client[c].pc = "answered"
      <4>1. client' = [client EXCEPT ![c] = [client[c] EXCEPT !.pc = "running"]]
        BY <2>8, <3>3 DEF Proceed
      <4>2. [client[c] EXCEPT !.pc = "running"] \in ClientStates
            /\ [client[c] EXCEPT !.pc = "running"].id \in Ids
        BY <1>0, <3>1 DEF ClientAimed, ClientStates
      <4> QED
        BY <1>5, <4>1, <4>2
    <3>4. CASE client[c].request = "fds" /\ client[c].pc = "failed"
      <4>1. client' = [client EXCEPT ![c] = Leaves(c)]
        BY <2>8, <3>4 DEF Proceed
      <4> QED
        BY <1>5, <2>2, <2>3, <3>1, <4>1
    <3>5. CASE client[c].request \notin {"register", "fds"}
      <4>1. client' = [client EXCEPT ![c] = Ends(c)]
        BY <2>8, <3>5 DEF Proceed
      <4> QED
        BY <1>5, <2>3, <4>1
    <3> QED
      BY <3>1, <3>2, <3>3, <3>4, <3>5
  <2>9. CASE CommandEnds(c)
    <3>1. CASE client[c].pc = "running"
      <4>1. client' = [client EXCEPT ![c] = Leaves(c)]
        BY <2>9, <3>1 DEF CommandEnds
      <4> QED
        BY <1>5, <2>2, <2>3, <3>1, <4>1
    <3>2. CASE client[c].pc # "running"
      BY <2>1, <2>9, <3>2 DEF CommandEnds
    <3> QED
      BY <3>1, <3>2
  <2> QED
    BY <1>6, <2>4, <2>5, <2>6, <2>7, <2>8, <2>9 DEF Calls
<1>7. ASSUME NEW p \in Supervisors \cup Clients, Scans(p) PROVE UNCHANGED client
  BY <1>7 DEF Scans, StartScan, ReadFile, CheckSocket, Sweep
<1>8. ASSUME NEW s \in Supervisors, SupStep(s) PROVE UNCHANGED client \/ \E D : Signal(D)
  BY <1>8 DEF SupStep, Supervises, Plan, Fork, Announce, StartFails, Stop, Tears, Abort, RemoveFile,
       Terminate, Reap, KillSupervisor
<1>9. ASSUME NEW d \in Daemons, Builds(d) \/ Serves(d) \/ Ending(d) \/ KillDaemon(d)
      PROVE  UNCHANGED client \/ EndServer(d) \/ KillDaemon(d) \/ handle_connection(d)
  BY <1>9 DEF Builds, PrepareStorage, RemoveStale, Bind, SignalReady, BuildFails, SetHandlers,
       Serves, Accept, Ending, RemoveSocket
<1> QED
  BY <1>1, <1>2, <1>3, <1>4, <1>6, <1>7, <1>8, <1>9 DEF Next, SupStep, vars

LEMMA AimedStays ==
    ASSUME SessionsOK, Ordered, [Next]_vars
    PROVE  Aimed'
<1>1. ScanAimed /\ ClientAimed
  BY DEF Ordered, Aimed, ScanAimed, ClientAimed
<1>2. ScanAimed' /\ ClientAimed'
  BY <1>1, ScanAimedStays, ClientAimedStays
<1> QED
  BY <1>2 DEF Aimed, ScanAimed, ClientAimed

-----------------------------------------------------------------------------
(* The daemons go their way.                                               *)

Late == {"ready", "serving", "stopping", "joined", "dead"}
Early == {"none", "starting", "prepared", "unlinked"}

(* One way from the fork to the end; what is not removed is left by a kill *)
(* alone.                                                                  *)
Forward(old, new, removed) ==
    /\ old.pc \notin {"none", "dead"} /\ new.pc # "none"
    /\ old.pc \in Late => new.pc \in Late
    /\ old.pc \notin Early => new.pc \notin Early
    /\ old.ready => new.ready
    /\ new.ready => old.ready \/ new.pc = "ready"
    /\ new.pc = "ready" => old.pc = "bound"
    /\ new.pc = "serving" => old.pc = "ready"
    /\ new.pc = "dead" => new.killed \/ removed \/ old.pc \in Early

LEMMA SignalledForward ==
    ASSUME DaemonOK, NEW d \in Daemons, NEW b \in BOOLEAN
    PROVE  Signalled(d) = daemon[d] \/ Forward(daemon[d], Signalled(d), b)
<1>1. daemon[d] \in DaemonStates
  BY DEF DaemonOK
<1>2. CASE daemon[d].pc = "serving"
  <2>1. Signalled(d) = [daemon[d] EXCEPT !.pc = "stopping"]
    BY <1>2 DEF Signalled
  <2> QED
    BY <1>1, <1>2, <2>1 DEF Forward, DaemonStates, Late, Early
<1>3. CASE daemon[d].pc \in {"starting", "prepared", "unlinked", "bound", "ready"}
  <2>1. Signalled(d) = [daemon[d] EXCEPT !.pc = "dead", !.killed = TRUE]
    BY <1>3 DEF Signalled
  <2> QED
    BY <1>1, <1>3, <2>1 DEF Forward, DaemonStates, Late, Early
<1>4. CASE daemon[d].pc \in {"none", "stopping", "joined", "dead"}
  BY <1>1, <1>4 DEF Signalled, DaemonStates
<1> QED
  BY <1>1, <1>2, <1>3, <1>4 DEF DaemonStates

LEMMA DaemonSteps ==
    ASSUME SessionsOK, Ordered, [Next]_vars, NEW d \in Daemons
    PROVE  \/ daemon'[d] = daemon[d]
           \/ /\ Fork(d[1]) /\ d = Current(d[1])
              /\ daemon'[d] = [daemon[d] EXCEPT !.pc = "starting"]
           \/ Forward(daemon[d], daemon'[d], RemoveSocket(d))
<1>0. daemon \in [Daemons -> DaemonStates] /\ daemon[d] \in DaemonStates
  BY DEF SessionsOK, DaemonOK
<1>1. CASE UNCHANGED daemon
  BY <1>1
<1>2. ASSUME NEW D, Signal(D)
      PROVE  daemon'[d] = daemon[d] \/ Forward(daemon[d], daemon'[d], RemoveSocket(d))
  <2>1. daemon'[d] = IF d \in D THEN Signalled(d) ELSE daemon[d]
    BY <1>2 DEF Signal
  <2>2. ASSUME NEW b \in BOOLEAN
        PROVE  Signalled(d) = daemon[d] \/ Forward(daemon[d], Signalled(d), b)
    BY SignalledForward DEF SessionsOK
  <2>3. RemoveSocket(d) => Signalled(d) = daemon[d]
    BY <1>0 DEF RemoveSocket, Signalled
  <2>4. CASE RemoveSocket(d)
    BY <2>1, <2>3, <2>4
  <2>5. CASE ~RemoveSocket(d)
    <3>1. RemoveSocket(d) <=> FALSE
      BY <2>5
    <3>2. Signalled(d) = daemon[d] \/ Forward(daemon[d], Signalled(d), FALSE)
      BY <2>2
    <3> QED
      BY <2>1, <3>1, <3>2 DEF Forward
  <2> QED
    BY <2>4, <2>5
<1>3. ASSUME NEW s \in Supervisors, Fork(s)
      PROVE  \/ daemon'[d] = daemon[d]
             \/ /\ Fork(d[1]) /\ d = Current(d[1])
                /\ daemon'[d] = [daemon[d] EXCEPT !.pc = "starting"]
  <2>1. Current(s) \in Daemons /\ Current(s)[1] = s
    BY <1>3, AboutIds DEF Fork, SessionsOK, Ordered
  <2> QED
    BY <1>0, <1>3, <2>1 DEF Fork
<1>4. ASSUME NEW e \in Daemons, Builds(e) \/ Ending(e) \/ KillDaemon(e)
      PROVE  daemon'[d] = daemon[d] \/ Forward(daemon[d], daemon'[d], RemoveSocket(d))
  <2>1. CASE e # d
    BY <1>0, <1>4, <2>1 DEF Builds, PrepareStorage, RemoveStale, Bind, SignalReady, BuildFails,
       SetHandlers, Ending, EndServer, RemoveSocket, KillDaemon, Becomes
  <2>2. CASE e = d
    <3>1. CASE Builds(d)
      BY <1>0, <3>1 DEF Builds, PrepareStorage, RemoveStale, Bind, SignalReady, BuildFails,
         SetHandlers, Becomes, Forward, DaemonStates, Late, Early
    <3>2. CASE EndServer(d) \/ KillDaemon(d)
      BY <1>0, <3>2 DEF EndServer, KillDaemon, Becomes, Forward, DaemonStates, Late, Early, Alive
    <3>3. CASE RemoveSocket(d)
      <4>1. daemon'[d] = [daemon[d] EXCEPT !.pc = "dead"] /\ daemon[d].pc = "joined"
        BY <1>0, <3>3 DEF RemoveSocket, Becomes
      <4>2. Forward(daemon[d], daemon'[d], TRUE)
        BY <1>0, <4>1 DEF Forward, DaemonStates, Late, Early
      <4> QED
        BY <3>3, <4>2 DEF Forward
    <3> QED
      BY <1>4, <2>2, <3>1, <3>2, <3>3 DEF Ending
  <2> QED
    BY <2>1, <2>2
<1>5. ASSUME NEW p \in Supervisors \cup Clients, Scans(p) PROVE UNCHANGED daemon
  BY <1>5 DEF Scans, StartScan, ReadFile, CheckSocket, Sweep
<1>6. ASSUME NEW s \in Supervisors, SupStep(s)
      PROVE  UNCHANGED daemon \/ Fork(s) \/ \E D : Signal(D)
  BY <1>6 DEF SupStep, Supervises, Plan, Announce, StartFails, Stop, Tears, Abort, RemoveFile,
       Terminate, Reap, KillSupervisor
<1>7. ASSUME NEW e \in Daemons, Serves(e) PROVE UNCHANGED daemon
  BY <1>7 DEF Serves, Accept, handle_connection
<1>8. ASSUME NEW c \in Clients, Calls(c) \/ KillClient(c) PROVE UNCHANGED daemon
  BY <1>8 DEF Calls, Resolve, Connect, Send, Proceed, CommandEnds, KillClient
<1> QED
  BY <1>1, <1>2, <1>3, <1>4, <1>5, <1>6, <1>7, <1>8 DEF Next, SupStep, vars

(* Who writes a session file and who a socket.                             *)
LEMMA FileSteps ==
    ASSUME [Next]_vars
    PROVE  \/ UNCHANGED file
           \/ \E p \in Everyone : Sweep(p)
           \/ \E s \in Supervisors : Announce(s) \/ RemoveFile(s)
<1>1. ASSUME NEW p \in Supervisors \cup Clients, Scans(p) PROVE UNCHANGED file \/ Sweep(p)
  BY <1>1 DEF Scans, StartScan, ReadFile, CheckSocket
<1>2. ASSUME NEW s \in Supervisors, SupStep(s)
      PROVE  UNCHANGED file \/ Announce(s) \/ RemoveFile(s)
  BY <1>2 DEF SupStep, Supervises, Plan, Fork, StartFails, Stop, Tears, Abort, Terminate, Reap,
       KillSupervisor
<1>3. ASSUME NEW d \in Daemons, Builds(d) \/ Serves(d) \/ Ending(d) \/ KillDaemon(d)
      PROVE  UNCHANGED file
  BY <1>3 DEF Builds, PrepareStorage, RemoveStale, Bind, SignalReady, BuildFails, SetHandlers,
       Serves, Accept, handle_connection, Ending, EndServer, RemoveSocket, KillDaemon
<1>4. ASSUME NEW c \in Clients, Calls(c) \/ KillClient(c) PROVE UNCHANGED file
  BY <1>4 DEF Calls, Resolve, Connect, Send, Proceed, CommandEnds, KillClient
<1> QED
  BY <1>1, <1>2, <1>3, <1>4 DEF Next, SupStep, vars, Everyone

LEMMA SocketSteps ==
    ASSUME [Next]_vars
    PROVE  \/ UNCHANGED socket
           \/ \E d \in Daemons : RemoveStale(d) \/ Bind(d) \/ RemoveSocket(d)
<1>1. ASSUME NEW p \in Supervisors \cup Clients, Scans(p) PROVE UNCHANGED socket
  BY <1>1 DEF Scans, StartScan, ReadFile, CheckSocket, Sweep
<1>2. ASSUME NEW s \in Supervisors, SupStep(s) PROVE UNCHANGED socket
  BY <1>2 DEF SupStep, Supervises, Plan, Fork, Announce, StartFails, Stop, Tears, Abort,
       RemoveFile, Terminate, Reap, KillSupervisor
<1>3. ASSUME NEW d \in Daemons, Builds(d) \/ Serves(d) \/ Ending(d) \/ KillDaemon(d)
      PROVE  UNCHANGED socket \/ RemoveStale(d) \/ Bind(d) \/ RemoveSocket(d)
  BY <1>3 DEF Builds, PrepareStorage, SignalReady, BuildFails, SetHandlers,
       Serves, Accept, handle_connection, Ending, EndServer, KillDaemon
<1>4. ASSUME NEW c \in Clients, Calls(c) \/ KillClient(c) PROVE UNCHANGED socket
  BY <1>4 DEF Calls, Resolve, Connect, Send, Proceed, CommandEnds, KillClient
<1> QED
  BY <1>1, <1>2, <1>3, <1>4 DEF Next, SupStep, vars

(* The ids of a supervisor stay what they are, but for those of mounts     *)
(* that never came up.                                                     *)
LEMMA IdSteps ==
    ASSUME SessionsOK, Ordered, [Next]_vars, NEW s \in Supervisors
    PROVE  \/ sup'[s].ids = sup[s].ids
           \/ Plan(s) /\ sup[s].pc = "start" /\ sup[s].ids = <<>>
           \/ /\ Abort(s) /\ ~Alive(Current(s)) /\ UNCHANGED <<daemon, file, socket>>
              /\ DOMAIN sup'[s].ids = 1..(sup[s].at - 1)
              /\ DOMAIN sup'[s].ids \subseteq DOMAIN sup[s].ids
              /\ \A k \in DOMAIN sup'[s].ids : sup'[s].ids[k] = sup[s].ids[k]
<1>1. sup \in [Supervisors -> SupStates] /\ sup[s] \in SupStates /\ sup[s].ids \in Seq(Ids)
  BY DEF SessionsOK, SupOK, SupStates
<1>2. CASE Plan(s)
  BY <1>2 DEF Plan, Scanned, CanScan, Ordered, PlannedOnce
<1>3. CASE Abort(s) /\ ~Alive(Current(s))
  <2>1. sup[s].at \in 1..Len(sup[s].ids) /\ DOMAIN sup[s].ids = 1..Len(sup[s].ids)
        /\ Len(sup[s].ids) \in Nat
    BY <1>1, <1>3, LenProperties DEF Abort, Ordered, PlannedOnce
  <2>2. sup'[s].ids = SubSeq(sup[s].ids, 1, sup[s].at - 1)
    BY <1>1, <1>3 DEF Abort, SupStates
  <2>3. DOMAIN sup'[s].ids = 1..(sup[s].at - 1)
        /\ \A k \in 1..(sup[s].at - 1) : sup'[s].ids[k] = sup[s].ids[k]
    BY <1>1, <2>1, <2>2
  <2>4. 1..(sup[s].at - 1) \subseteq 1..Len(sup[s].ids)
    BY <2>1
  <2>5. UNCHANGED <<daemon, file, socket>>
    BY <1>3 DEF Abort
  <2> QED
    BY <1>3, <2>1, <2>3, <2>4, <2>5
<1>4. CASE SupStep(s) /\ ~Plan(s) /\ ~(Abort(s) /\ ~Alive(Current(s)))
  BY <1>1, <1>4 DEF SupStep, Supervises, Fork, Announce, StartFails, Stop, Tears, Abort,
         RemoveFile, Terminate, Reap, KillSupervisor, SupStates
<1>5. CASE ~SupStep(s)
  <2>1. sup'[s] = sup[s]
    BY <1>5, OthersLeaveSup, SupStepLeaves DEF vars
  <2> QED
    BY <2>1
<1> QED
  BY <1>2, <1>3, <1>4, <1>5

SupOrder(d) ==
    daemon[d].pc # "none" =>
        /\ sup[d[1]].pc # "start"
        /\ sup[d[1]].pc = "launch" => d[2] < sup[d[1]].at
        /\ sup[d[1]].pc \in {"awaiting", "aborting"} => d[2] <= sup[d[1]].at

LEMMA OrderStays ==
    ASSUME SessionsOK, Ordered, [Next]_vars, NEW d \in Daemons
    PROVE  SupOrder(d)'
<1> DEFINE s == d[1]
<1>0. s \in Supervisors /\ d[2] \in Nat /\ d = <<d[1], d[2]>>
  <2>1. s \in Supervisors /\ d[2] \in DOMAIN Specs[s] /\ d = <<d[1], d[2]>>
    BY DaemonParts
  <2>2. Specs[s] \in Seq([base : Bases, explicit : BOOLEAN])
    BY <2>1, SessionConstants
  <2> QED
    BY <2>1, <2>2, LenProperties
<1>1. SupOrder(d)
  BY DEF Ordered, Launched, SupOrder
<1>2. sup \in [Supervisors -> SupStates] /\ sup[s] \in SupStates /\ sup[s].at \in Nat
  BY <1>0 DEF SessionsOK, SupOK, SupStates
<1>3. CASE Fork(s)
  <2>1. sup'[s].pc = "awaiting" /\ sup'[s].at = sup[s].at /\ sup[s].pc = "launch"
    BY <1>0, <1>2, <1>3 DEF Fork, SupStates
  <2>2. daemon[d].pc # "none" \/ daemon'[d].pc = "none" \/ d[2] = sup[s].at
    <3>1. d = Current(s) => d[2] = sup[s].at
      BY DEF Current
    <3>2. \/ daemon'[d] = daemon[d] \/ d = Current(s)
          \/ Forward(daemon[d], daemon'[d], RemoveSocket(d))
      BY DaemonSteps
    <3> QED
      BY <3>1, <3>2 DEF Forward
  <2> QED
    BY <1>0, <1>1, <1>2, <2>1, <2>2 DEF SupOrder
<1>4. CASE ~Fork(s)
  <2>1. daemon[d].pc # "none" \/ daemon'[d].pc = "none"
    BY <1>4, DaemonSteps DEF Forward
  <2>2. CASE ~SupStep(s)
    <3>1. sup'[s] = sup[s]
      BY <1>0, <2>2, OthersLeaveSup, SupStepLeaves DEF vars
    <3> QED
      BY <1>1, <2>1, <3>1 DEF SupOrder
  <2>3. CASE Announce(s)
    <3>1. sup[s].pc = "awaiting" /\ \/ sup'[s].pc = "launch" /\ sup'[s].at = sup[s].at + 1
                                    \/ sup'[s].pc = "waiting"
      BY <1>0, <1>2, <2>3 DEF Announce, SupStates
    <3> QED
      BY <1>0, <1>1, <1>2, <2>1, <3>1 DEF SupOrder
  <2>4. CASE StartFails(s)
    <3>1. sup[s].pc = "awaiting" /\ sup'[s].pc = "aborting" /\ sup'[s].at = sup[s].at
      BY <1>0, <1>2, <2>4 DEF StartFails, SupStates
    <3> QED
      BY <1>1, <2>1, <3>1 DEF SupOrder
  <2>5. CASE Plan(s)
    <3>1. sup[s].pc = "start"
      BY <1>0, <2>5 DEF Plan, Scanned, CanScan
    <3> QED
      BY <1>1, <2>1, <3>1 DEF SupOrder
  <2>6. CASE Abort(s)
    <3>1. sup'[s] = sup[s] \/ sup'[s].pc \in {"done", "teardown"}
      BY <1>0, <1>2, <2>6 DEF Abort, SupStates
    <3> QED
      BY <1>1, <2>1, <3>1 DEF SupOrder
  <2>7. CASE Stop(s) \/ RemoveFile(s) \/ Terminate(s) \/ Reap(s) \/ KillSupervisor(s)
    <3>1. sup'[s].pc \notin {"start", "launch", "awaiting", "aborting"}
      BY <1>0, <1>2, <2>7 DEF Stop, RemoveFile, Terminate, Reap, KillSupervisor, SupStates
    <3> QED
      BY <3>1 DEF SupOrder
  <2> QED
    BY <1>4, <2>2, <2>3, <2>4, <2>5, <2>6, <2>7 DEF SupStep, Supervises, Tears
<1> QED
  BY <1>3, <1>4

LEMMA MountedStays ==
    ASSUME SessionsOK, Ordered, [Next]_vars, NEW d \in Daemons, Alive(d)'
    PROVE  Mounted(d)'
<1>0. d[1] \in Supervisors /\ d[2] \in Nat /\ d = <<d[1], d[2]>>
  <2>1. d[1] \in Supervisors /\ d[2] \in DOMAIN Specs[d[1]] /\ d = <<d[1], d[2]>>
    BY DaemonParts
  <2>2. Specs[d[1]] \in Seq([base : Bases, explicit : BOOLEAN])
    BY <2>1, SessionConstants
  <2> QED
    BY <2>1, <2>2, LenProperties
<1>1. Mounted(d)
  <2>1. CASE Alive(d)
    BY <2>1 DEF Ordered, Launched
  <2>2. CASE ~Alive(d)
    <3>1. Fork(d[1]) /\ d = Current(d[1])
      BY <2>2, DaemonSteps DEF Alive, Forward
    <3> QED
      BY <1>0, <3>1, AboutIds DEF Fork, SessionsOK, Ordered
  <2> QED
    BY <2>1, <2>2
<1>2. CASE sup'[d[1]].ids = sup[d[1]].ids
  BY <1>1, <1>2 DEF Mounted
<1>3. CASE Plan(d[1]) /\ sup[d[1]].ids = <<>>
  BY <1>1, <1>3 DEF Mounted
<1>4. CASE /\ Abort(d[1]) /\ ~Alive(Current(d[1])) /\ UNCHANGED daemon
           /\ DOMAIN sup'[d[1]].ids = 1..(sup[d[1]].at - 1)
  <2>1. Alive(d) /\ sup[d[1]].pc = "aborting"
    BY <1>4 DEF Alive, Abort
  <2>2. d[2] # sup[d[1]].at
    BY <1>0, <1>4, <2>1 DEF Current
  <2>3. d[2] <= sup[d[1]].at
    BY <2>1 DEF Ordered, Launched, Alive
  <2>4. sup[d[1]].at \in Nat /\ sup[d[1]].ids \in Seq(Ids)
    BY <1>0 DEF SessionsOK, SupOK, SupStates
  <2>5. d[2] \in 1..(sup[d[1]].at - 1)
    BY <1>0, <1>1, <2>2, <2>3, <2>4, LenProperties DEF Mounted
  <2> QED
    BY <1>4, <2>5 DEF Mounted
<1> QED
  BY <1>0, <1>2, <1>3, <1>4, IdSteps

LEMMA LaunchedStays ==
    ASSUME SessionsOK, Ordered, [Next]_vars
    PROVE  Launched'
<1>1. ASSUME NEW d \in Daemons
      PROVE  daemon'[d].ready => daemon'[d].pc \in Late
  <2>1. daemon[d].ready => daemon[d].pc \in Late
    BY DEF Ordered, Launched, Late
  <2>2. CASE /\ Fork(d[1]) /\ d = Current(d[1])
             /\ daemon'[d] = [daemon[d] EXCEPT !.pc = "starting"]
    <3>1. daemon[d] \in DaemonStates
      BY DEF SessionsOK, DaemonOK
    <3>2. daemon[d].pc = "none"
      <4>1. sup[d[1]].pc = "launch" /\ d[2] = sup[d[1]].at /\ sup[d[1]].at \in Nat
        BY <2>2, DaemonParts DEF Fork, Current, SessionsOK, SupOK, SupStates
      <4> QED
        BY <4>1 DEF Ordered, Launched
    <3> QED
      BY <2>1, <2>2, <3>1, <3>2 DEF DaemonStates, Late
  <2>3. CASE Forward(daemon[d], daemon'[d], RemoveSocket(d))
    BY <2>1, <2>3 DEF Forward, Late
  <2> QED
    BY <2>1, <2>2, <2>3, DaemonSteps
<1>2. ASSUME NEW d \in Daemons, NEW i \in Ids, file'[i] = d PROVE daemon'[d].ready
  <2>1. daemon[d].ready => daemon'[d].ready
    <3>1. daemon[d] \in DaemonStates
      BY DEF SessionsOK, DaemonOK
    <3> QED
      BY <3>1, DaemonSteps DEF Forward, DaemonStates
  <2>2. CASE file[i] = d
    BY <2>1, <2>2 DEF Ordered, Launched
  <2>3. CASE file[i] # d
    <3>1. PICK s \in Supervisors : Announce(s)
      <4>1. Nobody # d
        BY SessionConstants
      <4> QED
        BY <1>2, <2>3, <4>1, FileSteps DEF Sweep, RemoveFile, SessionsOK, PathsOK, Paths
    <3>2. d = Current(s)
      BY <1>2, <2>3, <3>1 DEF Announce, SessionsOK, PathsOK, Paths
    <3> QED
      BY <2>1, <3>1, <3>2 DEF Announce
  <2> QED
    BY <2>2, <2>3
<1>3. ASSUME NEW d \in Daemons, NEW i \in Ids, socket'[i] = d PROVE daemon'[d].pc \notin Early
  <2>1. CASE socket[i] = d
    <3>1. daemon[d].pc \notin Early
      BY <2>1 DEF Ordered, Launched, Early
    <3>2. CASE Fork(d[1]) /\ d = Current(d[1])
      <4>1. sup[d[1]].pc = "launch" /\ d[2] = sup[d[1]].at /\ sup[d[1]].at \in Nat
        BY <3>2, DaemonParts DEF Fork, Current, SessionsOK, SupOK, SupStates
      <4> QED
        BY <3>1, <4>1 DEF Ordered, Launched, Early
    <3> QED
      BY <3>1, <3>2, DaemonSteps DEF Forward
  <2>2. CASE socket[i] # d
    <3>1. PICK e \in Daemons : Bind(e) /\ socket' = [socket EXCEPT ![IdOf(e)] = e]
      <4>1. Nobody # d
        BY SessionConstants
      <4> QED
        BY <1>3, <2>2, <4>1, SocketSteps DEF RemoveStale, RemoveSocket, Bind, SessionsOK, PathsOK, Paths
    <3>2. d = e
      BY <1>3, <2>2, <3>1 DEF SessionsOK, PathsOK, Paths
    <3>3. Becomes(d, "bound")
      <4>1. socket[IdOf(d)] = Nobody
        <5>1. Mounted(d)
          BY <3>1, <3>2 DEF Bind, Ordered, Launched, Alive
        <5>2. IdOf(d) \in Ids
          BY <5>1, MountedIds DEF SessionsOK
        <5>3. socket # socket'
          BY <1>3, <2>2
        <5> QED
          BY <3>1, <3>2, <5>3 DEF Bind
      <4> QED
        BY <3>1, <3>2, <4>1 DEF Bind
    <3> QED
      BY <3>3 DEF Becomes, SessionsOK, DaemonOK, DaemonStates, Early
  <2> QED
    BY <2>1, <2>2
<1>4. ASSUME NEW d \in Daemons PROVE SupOrder(d)' /\ (Alive(d)' => Mounted(d)')
  BY OrderStays, MountedStays
<1> QED
  BY <1>1, <1>2, <1>3, <1>4 DEF Launched, SupOrder, Late, Early

-----------------------------------------------------------------------------
(* A session that can be found, and the processes that came after it was   *)
(* announced: what they read, they see it in; what they plan is not its id.*)

InSight(e, i) == i \in e.left \cup e.found \/ (e.pc = "check" /\ e.at = i)

Sees(p, i) ==
    /\ scan[p].pc # "idle" => InSight(scan[p], i)
    /\ scan[p].pc = "sweep" => scan[p].at # i
    /\ p \in Supervisors => \A k \in DOMAIN sup[p].ids : sup[p].ids[k] # i

LateOnesSee ==
    \A d \in Daemons : Found(d) =>
        \A p \in Everyone \ (begun[d] \cup {d[1]}) : Sees(p, IdOf(d))

(* Only the reader moves its reading, or the end of it.                    *)
LEMMA ScanSteps ==
    ASSUME SessionsOK, [Next]_vars, NEW p \in Everyone
    PROVE  Scans(p) \/ scan'[p] = scan[p] \/ scan'[p] = IdleScan
<1>0. scan \in [Everyone -> ScanStates]
  BY DEF SessionsOK, ScanOK
<1>1. ASSUME NEW q \in Supervisors \cup Clients, Scans(q), q # p PROVE scan'[p] = scan[p]
  BY <1>0, <1>1 DEF Scans, StartScan, ReadFile, CheckSocket, Sweep
<1>2. ASSUME NEW s \in Supervisors, SupStep(s) PROVE scan'[p] = scan[p] \/ scan'[p] = IdleScan
  BY <1>0, <1>2, SupStepScans
<1>3. ASSUME NEW d \in Daemons, Builds(d) \/ Serves(d) \/ Ending(d) \/ KillDaemon(d)
      PROVE  UNCHANGED scan
  BY <1>3 DEF Builds, PrepareStorage, RemoveStale, Bind, SignalReady, BuildFails, SetHandlers,
       Serves, Accept, handle_connection, Ending, EndServer, RemoveSocket, KillDaemon
<1>4. ASSUME NEW c \in Clients, Calls(c) \/ KillClient(c)
      PROVE scan'[p] = scan[p] \/ scan'[p] = IdleScan
  <2>1. UNCHANGED scan \/ scan' = [scan EXCEPT ![c] = IdleScan]
    BY <1>4 DEF Calls, Resolve, Connect, Send, Proceed, CommandEnds, KillClient, IdleScan
  <2> QED
    BY <1>0, <2>1
<1> QED
  BY <1>1, <1>2, <1>3, <1>4 DEF Next, SupStep, vars

LEMMA ReadsSee ==
    ASSUME SessionsOK, NEW p \in Everyone, NEW i \in Ids, Scans(p),
           file[i] # Nobody, socket[i] # Nobody,
           scan[p].pc # "idle" => InSight(scan[p], i)
    PROVE  /\ InSight(scan'[p], i)
           /\ scan'[p].pc = "sweep" => scan'[p].at # i
<1>0. scan \in [Everyone -> ScanStates] /\ scan[p] \in ScanStates
  BY DEF SessionsOK, ScanOK
<1>1. CASE StartScan(p)
  BY <1>0, <1>1 DEF StartScan, ScanStates, InSight
<1>2. CASE ReadFile(p)
  <2>1. PICK j \in scan[p].left :
              scan' = [scan EXCEPT ![p].left = @ \ {j}, ![p].at = j,
                               ![p].pc = IF file[j] = Nobody THEN "read" ELSE "check"]
    BY <1>2 DEF ReadFile
  <2>2. /\ scan'[p].left = scan[p].left \ {j} /\ scan'[p].at = j
        /\ scan'[p].pc = IF file[j] = Nobody THEN "read" ELSE "check"
        /\ scan'[p].found = scan[p].found
    BY <1>0, <2>1 DEF ScanStates
  <2>3. scan[p].pc = "read"
    BY <1>2 DEF ReadFile
  <2> QED
    BY <2>2, <2>3 DEF InSight
<1>3. CASE CheckSocket(p)
  <2>1. scan[p].pc = "check"
    BY <1>3 DEF CheckSocket
  <2>2. CASE socket[scan[p].at] = Nobody
    <3>1. /\ scan'[p].left = scan[p].left /\ scan'[p].at = scan[p].at
          /\ scan'[p].pc = "sweep" /\ scan'[p].found = scan[p].found
      BY <1>0, <1>3, <2>2 DEF CheckSocket, ScanStates
    <3>2. scan[p].at # i
      BY <2>2
    <3> QED
      BY <2>1, <3>1, <3>2 DEF InSight
  <2>3. CASE socket[scan[p].at] # Nobody
    <3>1. /\ scan'[p].left = scan[p].left
          /\ scan'[p].pc = "read" /\ scan'[p].found = scan[p].found \cup {scan[p].at}
      BY <1>0, <1>3, <2>3 DEF CheckSocket, ScanStates
    <3> QED
      BY <2>1, <3>1 DEF InSight
  <2> QED
    BY <2>2, <2>3
<1>4. CASE Sweep(p)
  BY <1>0, <1>4 DEF Sweep, ScanStates, InSight
<1> QED
  BY <1>1, <1>2, <1>3, <1>4 DEF Scans

LEMMA SeesStay ==
    ASSUME SessionsOK, Ordered, [Next]_vars, NEW p \in Everyone, NEW i \in Ids,
           file[i] # Nobody, socket[i] # Nobody, Sees(p, i)
    PROVE  /\ scan'[p].pc # "idle" => InSight(scan'[p], i)
           /\ scan'[p].pc = "sweep" => scan'[p].at # i
           /\ p \in Supervisors => \A k \in DOMAIN sup'[p].ids : sup'[p].ids[k] # i
<1>1. /\ scan'[p].pc # "idle" => InSight(scan'[p], i)
      /\ scan'[p].pc = "sweep" => scan'[p].at # i
  BY ScanSteps, ReadsSee DEF Sees, IdleScan
<1>2. ASSUME p \in Supervisors, NEW k \in DOMAIN sup'[p].ids PROVE sup'[p].ids[k] # i
  <2>1. CASE Plan(p)
    <3>1. i \in scan[p].found
      BY <2>1 DEF Plan, Scanned, Sees, InSight
    <3>2. CASE Valid(PlannedIds(p))
      <4>1. PlannedIds(p) \in Seq(Ids \ scan[p].found)
        BY <1>2, <2>1, <3>2, PlanFits DEF SessionsOK
      <4>2. sup'[p].ids = PlannedIds(p)
        BY <1>2, <2>1, <3>2 DEF Plan, SessionsOK, SupOK, SupStates
      <4>3. k \in 1..Len(PlannedIds(p))
        BY <1>2, <4>1, <4>2, LenProperties
      <4>4. PlannedIds(p)[k] \in Ids \ scan[p].found
        BY <4>1, <4>3, ElementOfSeq
      <4> QED
        BY <3>1, <4>2, <4>4
    <3>3. CASE ~Valid(PlannedIds(p))
      BY <1>2, <2>1, <3>3 DEF Plan, SessionsOK, SupOK, SupStates, Sees
    <3> QED
      BY <3>2, <3>3
  <2>2. CASE ~Plan(p)
    BY <1>2, <2>2, IdSteps DEF Sees
  <2> QED
    BY <2>1, <2>2
<1> QED
  BY <1>1, <1>2

(* A session becomes one that can be found only when it is announced.      *)
LEMMA FoundBefore ==
    ASSUME SessionsOK, Ordered, [Next]_vars, NEW d \in Daemons, Found(d)',
           ~(Announce(d[1]) /\ d = Current(d[1]))
    PROVE  Found(d) /\ IdOf(d)' = IdOf(d) /\ IdOf(d) \in Ids
<1>0. d[1] \in Supervisors /\ daemon[d] \in DaemonStates
  BY DaemonParts DEF SessionsOK, DaemonOK
<1>1. daemon'[d].pc \in {"ready", "serving"} /\ Mounted(d)'
  BY DEF Found
<1>2. daemon[d].pc \in {"ready", "serving", "bound"}
  BY <1>0, <1>1, DaemonSteps DEF Forward, DaemonStates
<1>3. Mounted(d)
  BY <1>2 DEF Ordered, Launched, Alive
<1>4. sup'[d[1]].ids[d[2]] = sup[d[1]].ids[d[2]]
  <2>1. ~(Plan(d[1]) /\ sup[d[1]].ids = <<>>)
    BY <1>3 DEF Mounted
  <2> QED
    BY <1>0, <1>1, <2>1, IdSteps DEF Mounted
<1>5. IdOf(d)' = IdOf(d) /\ IdOf(d) \in Ids
  BY <1>3, <1>4, MountedIds DEF IdOf, SessionsOK
<1>6. file'[IdOf(d)] = d /\ socket'[IdOf(d)] = d
  BY <1>5 DEF Found
<1>7. d # Nobody
  BY SessionConstants
<1>8. file[IdOf(d)] = d
  <2> SUFFICES ASSUME file[IdOf(d)] # d PROVE FALSE
    OBVIOUS
  <2>1. PICK s \in Supervisors : Announce(s)
    BY <1>5, <1>6, <1>7, FileSteps DEF Sweep, RemoveFile, SessionsOK, PathsOK, Paths
  <2>2. d = Current(s)
    BY <1>5, <1>6, <2>1 DEF Announce, SessionsOK, PathsOK, Paths
  <2>3. s = d[1]
    BY <2>2 DEF Current
  <2> QED
    BY <2>1, <2>2, <2>3
<1>9. daemon[d].pc \in {"ready", "serving"}
  BY <1>2, <1>5, <1>8 DEF Ordered, Launched
<1>10. socket[IdOf(d)] = d
  <2> SUFFICES ASSUME socket[IdOf(d)] # d PROVE FALSE
    OBVIOUS
  <2>1. PICK e \in Daemons : Bind(e) /\ socket' = [socket EXCEPT ![IdOf(e)] = e]
    BY <1>5, <1>6, <1>7, SocketSteps DEF RemoveStale, RemoveSocket, Bind, SessionsOK, PathsOK, Paths
  <2>2. d = e
    BY <1>5, <1>6, <2>1 DEF SessionsOK, PathsOK, Paths
  <2> QED
    BY <1>9, <2>1, <2>2 DEF Bind
<1> QED
  BY <1>3, <1>5, <1>8, <1>9, <1>10 DEF Found

LEMMA LateOnesStay ==
    ASSUME SessionsOK, Ordered, LateOnesSee, [Next]_vars
    PROVE  LateOnesSee'
<1> SUFFICES ASSUME NEW d \in Daemons, Found(d)',
                    NEW p \in Everyone, p \notin begun'[d], p # d[1]
             PROVE  Sees(p, IdOf(d))'
  BY DEF LateOnesSee
<1>0. d[1] \in Supervisors
  BY DaemonParts
<1>1. CASE Announce(d[1]) /\ d = Current(d[1])
  <2>1. begun'[d] = {q \in (Supervisors \cup Clients) \ {d[1]} : AtWork(q)}
    BY <1>1 DEF Announce, SessionsOK, RestOfOK
  <2>2. ~AtWork(p)
    BY <2>1 DEF Everyone
  <2>3. scan'[p].pc = "idle"
    BY <1>1, <2>2 DEF Announce, AtWork
  <2>4. p \in Supervisors => sup'[p].ids = <<>>
    BY <1>0, <1>1, <2>2, SupStepLeaves DEF SupStep, Supervises, AtWork
  <2> QED
    BY <2>3, <2>4 DEF Sees
<1>2. CASE ~(Announce(d[1]) /\ d = Current(d[1]))
  <2>1. Found(d) /\ IdOf(d)' = IdOf(d) /\ IdOf(d) \in Ids
    BY <1>2, FoundBefore
  <2>2. begun'[d] = begun[d]
    <3>1. CASE ~\E s \in Supervisors : Announce(s)
      BY <3>1, OthersLeaveSup DEF vars, SupStep, Supervises, Plan, Fork, StartFails, Stop, Tears,
         Abort, RemoveFile, Terminate, Reap, KillSupervisor
    <3>2. ASSUME NEW s \in Supervisors, Announce(s) PROVE begun'[d] = begun[d]
      <4>1. d # Current(s)
        BY <1>2, <3>2 DEF Current
      <4> QED
        BY <3>2, <4>1 DEF Announce, SessionsOK, RestOfOK
    <3> QED
      BY <3>1, <3>2
  <2>3. Sees(p, IdOf(d))
    BY <2>1, <2>2 DEF LateOnesSee
  <2>4. file[IdOf(d)] # Nobody /\ socket[IdOf(d)] # Nobody
    BY <2>1, SessionConstants DEF Found
  <2> QED
    BY <2>1, <2>3, <2>4, SeesStay DEF Sees
<1> QED
  BY <1>1, <1>2

-----------------------------------------------------------------------------
(* Whom a session is lost to.                                              *)

(* The id of a session that can be found is nobody else's but of those who *)
(* were at work when it was announced.                                     *)
LEMMA SameIdBegun ==
    ASSUME SessionsOK, Ordered, LateOnesSee, NEW d \in Daemons, Found(d),
           NEW e \in Daemons, Mounted(e), IdOf(e) = IdOf(d), e # d
    PROVE  e[1] \in begun[d]
<1>0. /\ d = <<d[1], d[2]>> /\ e = <<e[1], e[2]>>
      /\ d[1] \in Supervisors /\ e[1] \in Supervisors
  BY DaemonParts
<1>1. /\ IdOf(d) = sup[d[1]].ids[d[2]] /\ IdOf(e) = sup[e[1]].ids[e[2]]
      /\ d[2] \in DOMAIN sup[d[1]].ids /\ e[2] \in DOMAIN sup[e[1]].ids
  BY MountedIds DEF Found, Mounted, SessionsOK
<1>2. e[1] # d[1]
  BY <1>0, <1>1 DEF Ordered, PlannedOnce
<1> SUFFICES ASSUME e[1] \notin begun[d] PROVE FALSE
  OBVIOUS
<1>3. Sees(e[1], IdOf(d))
  BY <1>0, <1>2 DEF LateOnesSee, Everyone
<1> QED
  BY <1>0, <1>1, <1>3 DEF Sees

LEMMA FileTaken ==
    ASSUME SessionsOK, Ordered, LateOnesSee, [Next]_vars, NEW d \in Daemons, Found(d),
           file'[IdOf(d)] # d
    PROVE  \/ sup[d[1]].pc = "teardown" /\ Current(d[1]) = d
           \/ \E p \in begun[d] : Moves(p)
<1>0. /\ IdOf(d) \in Ids /\ file[IdOf(d)] = d /\ d[1] \in Supervisors /\ Mounted(d)
      /\ file \in Paths
  BY MountedIds, DaemonParts DEF Found, SessionsOK, PathsOK
<1>1. ASSUME NEW p \in Everyone, Sweep(p) PROVE \E q \in begun[d] : Moves(q)
  <2>1. scan[p].pc = "sweep" /\ scan[p].at = IdOf(d)
    BY <1>0, <1>1 DEF Sweep, Paths
  <2>2. p # d[1]
    <3>1. sup[d[1]].ids # <<>>
      BY <1>0 DEF Mounted
    <3> QED
      BY <1>0, <2>1, <3>1 DEF Ordered, PlannedOnce
  <2>3. p \in begun[d]
    <3> SUFFICES ASSUME p \notin begun[d] PROVE FALSE
      OBVIOUS
    <3>1. Sees(p, IdOf(d))
      BY <2>2 DEF LateOnesSee
    <3> QED
      BY <2>1, <3>1 DEF Sees
  <2>4. scan'[p].pc = "read"
    BY <1>1 DEF Sweep, SessionsOK, ScanOK, ScanStates
  <2>5. Moves(p)
    BY <2>1, <2>4 DEF Moves
  <2> QED
    BY <2>3, <2>5
<1>2. ASSUME NEW s \in Supervisors, Announce(s) PROVE \E q \in begun[d] : Moves(q)
  <2>1. /\ Current(s) \in Daemons /\ Current(s)[1] = s /\ Mounted(Current(s))
    BY <1>2, AboutIds DEF Announce, SessionsOK, Ordered
  <2>2. IdOf(Current(s)) = IdOf(d) /\ Current(s) # d
    BY <1>0, <1>2 DEF Announce, Paths
  <2>3. s \in begun[d]
    BY <2>1, <2>2, SameIdBegun
  <2>4. sup[s].pc = "awaiting" /\ sup'[s].pc # "awaiting"
    BY <1>2 DEF Announce, SessionsOK, SupOK, SupStates
  <2>5. Moves(s)
    BY <2>4 DEF Moves
  <2> QED
    BY <2>3, <2>5
<1>3. ASSUME NEW s \in Supervisors, RemoveFile(s)
      PROVE  \/ sup[d[1]].pc = "teardown" /\ Current(d[1]) = d
             \/ \E q \in begun[d] : Moves(q)
  <2>1. /\ Current(s) \in Daemons /\ Current(s)[1] = s /\ Mounted(Current(s))
    BY <1>3, AboutIds DEF RemoveFile, SessionsOK, Ordered
  <2>2. IdOf(Current(s)) = IdOf(d)
    BY <1>0, <1>3 DEF RemoveFile, Paths
  <2>3. CASE Current(s) = d
    <3>1. s = d[1] /\ sup[s].pc = "teardown"
      BY <1>3, <2>1, <2>3 DEF RemoveFile
    <3> QED
      BY <2>3, <3>1
  <2>4. CASE Current(s) # d
    <3>1. s \in begun[d]
      BY <2>1, <2>2, <2>4, SameIdBegun
    <3>2. sup[s].pc = "teardown" /\ sup'[s].pc = "terminating"
      BY <1>3 DEF RemoveFile, SessionsOK, SupOK, SupStates
    <3>3. Moves(s)
      BY <3>2 DEF Moves
    <3> QED
      BY <3>1, <3>3
  <2> QED
    BY <2>3, <2>4
<1> QED
  BY <1>0, <1>1, <1>2, <1>3, FileSteps

LEMMA SocketTaken ==
    ASSUME SessionsOK, Ordered, LateOnesSee, [Next]_vars, NEW d \in Daemons, Found(d),
           socket'[IdOf(d)] # d
    PROVE  daemon'[d].pc # daemon[d].pc \/ \E p \in begun[d] : Moves(p)
<1>0. /\ IdOf(d) \in Ids /\ socket[IdOf(d)] = d /\ socket \in Paths
      /\ daemon[d].pc \in {"ready", "serving"} /\ d # Nobody
  BY MountedIds, SessionConstants DEF Found, SessionsOK, PathsOK
<1>1. PICK e \in Daemons : RemoveStale(e) \/ Bind(e) \/ RemoveSocket(e)
  BY <1>0, SocketSteps
<1>2. daemon[e].pc \in {"prepared", "unlinked", "joined"}
  BY <1>1 DEF RemoveStale, Bind, RemoveSocket
<1>3. Mounted(e) /\ e # d
  BY <1>0, <1>2 DEF Ordered, Launched, Alive
<1>4. IdOf(e) \in Ids
  BY <1>3, MountedIds DEF SessionsOK
<1>5. IdOf(e) = IdOf(d)
  BY <1>0, <1>1, <1>4 DEF RemoveStale, Bind, RemoveSocket, Paths
<1>6. e[1] \in begun[d]
  BY <1>3, <1>5, SameIdBegun
<1>7. daemon'[e].pc # daemon[e].pc
  BY <1>1, <1>2 DEF RemoveStale, Bind, RemoveSocket, Becomes, SessionsOK, DaemonOK, DaemonStates
<1>8. e = <<e[1], e[2]>> /\ e[1] \in Supervisors /\ e[2] \in DOMAIN Specs[e[1]]
  BY DaemonParts
<1>9. Moves(e[1])
  BY <1>7, <1>8 DEF Moves
<1> QED
  BY <1>6, <1>9

LEMMA Races ==
    ASSUME SessionsOK, Ordered, LateOnesSee, [Next]_vars, NEW d \in Daemons,
           Found(d), ~Found(d)'
    PROVE  \/ daemon'[d].pc # daemon[d].pc
           \/ sup[d[1]].pc = "teardown" /\ Current(d[1]) = d
           \/ \E p \in begun[d] : Moves(p)
<1> SUFFICES ASSUME daemon'[d].pc = daemon[d].pc
             PROVE  \/ sup[d[1]].pc = "teardown" /\ Current(d[1]) = d
                    \/ \E p \in begun[d] : Moves(p)
  OBVIOUS
<1>0. /\ daemon[d].pc \in {"ready", "serving"} /\ Mounted(d) /\ d[1] \in Supervisors
      /\ Alive(d) /\ Alive(d)'
  BY DaemonParts DEF Found, Alive
<1>1. Mounted(d)'
  BY <1>0, MountedStays
<1>2. IdOf(d)' = IdOf(d)
  <2>1. ~(Plan(d[1]) /\ sup[d[1]].ids = <<>>)
    BY <1>0 DEF Mounted
  <2> QED
    BY <1>0, <1>1, <2>1, IdSteps DEF Mounted, IdOf
<1>3. file'[IdOf(d)] # d \/ socket'[IdOf(d)] # d
  BY <1>0, <1>1, <1>2 DEF Found
<1> QED
  BY <1>3, FileTaken, SocketTaken

-----------------------------------------------------------------------------
(* The inductive invariant of the sessions.                                *)

SessionInv == SessionTypeOK /\ Ordered /\ LateOnesSee

LEMMA SessionStarts == ASSUME Init PROVE SessionInv
<1> PICK cast \in Casts :
          /\ sup = [s \in Supervisors |-> [pc |-> IF s \in cast.who THEN "start" ELSE "done",
                                           at |-> 1, ids |-> <<>>]]
          /\ client = [c \in Clients |-> [pc |-> IF c \in cast.who THEN "start" ELSE "done",
                                          request |-> "none", id |-> Nobody,
                                          to |-> Nobody, guard |-> FALSE]]
          /\ kills = cast.kills
  BY DEF Init
<1>1. SupOK
  BY EmptySeq DEF SupOK, SupStates
<1>2. ClientOK
  BY DEF ClientOK, ClientStates
<1>3. PathsOK /\ DaemonOK
  BY DEF Init, PathsOK, DaemonOK, Paths, DaemonStates
<1>4. ScanOK
  <2>1. scan = [p \in Everyone |-> IdleScan]
    BY DEF Init, IdleScan, Everyone
  <2> QED
    BY <2>1, IdleScanTypes DEF ScanOK
<1>5. ServerOK
  <2>1. server = [d \in Daemons |-> EmptyServer]
    BY DEF Init, EmptyServer
  <2> QED
    BY <2>1, EmptyServerTypes DEF ServerOK
<1>6. RestOfOK
  BY SessionConstants DEF Init, RestOfOK
<1>7. SessionTypeOK
  BY <1>1, <1>2, <1>3, <1>4, <1>5, <1>6, SessionTypesSplit DEF SessionsOK
<1>8. PlannedOnce
  BY DEF PlannedOnce
<1>9. Launched
  BY SessionConstants DEF Init, Launched, Alive
<1>10. Aimed
  BY DEF Init, Aimed, Everyone
<1>11. LateOnesSee
  BY DEF Init, LateOnesSee, Found
<1> QED
  BY <1>7, <1>8, <1>9, <1>10, <1>11 DEF SessionInv, Ordered

LEMMA SessionStays == ASSUME SessionInv, [Next]_vars PROVE SessionInv'
<1>1. SessionsOK /\ Ordered /\ LateOnesSee
  BY SessionTypesSplit DEF SessionInv
<1>2. SessionsOK'
  BY <1>1, SessionStepTypes
<1>3. (SessionTypeOK <=> SessionsOK)'
  BY SessionTypesSplit, PTL
<1>4. PlannedOnce' /\ Launched' /\ Aimed' /\ LateOnesSee'
  BY <1>1, PlannedStay, LaunchedStays, AimedStays, LateOnesStay
<1> QED
  BY <1>2, <1>3, <1>4 DEF SessionInv, Ordered

(* The inductive invariant of the sessions: the types, the order in which  *)
(* a supervisor brings its daemons up, and that a process at work since a  *)
(* session was announced sees its file and plans another id.               *)
THEOREM SessionInvariant == Spec => []SessionInv
<1>1. Init => SessionInv
  BY SessionStarts
<1>2. SessionInv /\ [Next]_vars => SessionInv'
  BY SessionStays
<1> QED
  BY <1>1, <1>2, PTL DEF Spec

(* A session that attach can find is lost only by its own end or to a      *)
(* process that was already at work when it was announced (Sweep of a scan *)
(* that read an older file, RemoveSocket of an older daemon of that id).   *)
THEOREM RacesAlone == Spec => OnlyRacesTake
<1> DEFINE Lost == \A d \in Daemons :
          Found(d) /\ ~Found(d)' =>
             \/ daemon'[d].pc # daemon[d].pc
             \/ sup[d[1]].pc = "teardown" /\ Current(d[1]) = d
             \/ \E p \in begun[d] : Moves(p)
<1>1. SessionInv /\ [Next]_vars => [Lost]_vars
  <2> SUFFICES ASSUME SessionInv, [Next]_vars PROVE Lost
    OBVIOUS
  <2>1. SessionsOK /\ Ordered /\ LateOnesSee
    BY SessionTypesSplit DEF SessionInv
  <2> QED
    BY <2>1, Races
<1>2. OnlyRacesTake <=> [][Lost]_vars
  BY DEF OnlyRacesTake
<1> QED
  BY <1>1, <1>2, SessionInvariant, PTL DEF Spec

-----------------------------------------------------------------------------
(* The teardown.  A step of a supervisor, as far as its place and its ids  *)
(* tell.                                                                   *)

SameIds(old, new) == new.ids = old.ids
Turn(s, old, new) ==
    \/ new = old
    \/ /\ old.pc = "start" /\ old.at = 1 /\ new.at = 1
       /\ new.pc = "launch" \/ (new.pc = "done" /\ DOMAIN new.ids = {})
    \/ Fork(s) /\ old.pc = "launch" /\ new.pc = "awaiting" /\ new.at = old.at /\ SameIds(old, new)
    \/ /\ old.pc = "awaiting" /\ SameIds(old, new)
       /\ \/ new.pc = "launch" /\ new.at = old.at + 1
          \/ old.at >= Len(old.ids) /\ new.pc = "waiting"
          \/ new.pc = "aborting" /\ new.at = old.at
    \/ /\ old.pc = "aborting" /\ new.at = 1
       /\ DOMAIN new.ids = 1..(old.at - 1) /\ DOMAIN new.ids \subseteq DOMAIN old.ids
       /\ \A k \in DOMAIN new.ids : new.ids[k] = old.ids[k]
       /\ new.pc = "teardown" \/ (new.pc = "done" /\ old.at = 1)
    \/ old.pc = "waiting" /\ new.pc = "teardown" /\ new.at = 1 /\ SameIds(old, new)
    \/ /\ RemoveFile(s) /\ old.pc = "teardown" /\ new.pc = "terminating"
       /\ new.at = old.at /\ SameIds(old, new)
    \/ old.pc = "terminating" /\ new.pc = "reaping" /\ new.at = old.at /\ SameIds(old, new)
    \/ /\ Reap(s) /\ old.pc = "reaping" /\ SameIds(old, new)
       /\ \/ new.pc = "teardown" /\ new.at = old.at + 1
          \/ new.pc = "done" /\ old.at >= Len(old.ids)
    \/ new.pc = "dead" /\ SameIds(old, new)

LEMMA SupTurns ==
    ASSUME SessionsOK, Ordered, [Next]_vars, NEW s \in Supervisors
    PROVE  Turn(s, sup[s], sup'[s])
<1>1. sup \in [Supervisors -> SupStates] /\ sup[s] \in SupStates /\ sup[s].ids \in Seq(Ids)
      /\ sup[s].at \in Nat
  BY DEF SessionsOK, SupOK, SupStates
<1>2. CASE ~SupStep(s)
  <2>1. sup'[s] = sup[s]
    BY <1>2, OthersLeaveSup, SupStepLeaves DEF vars
  <2> QED
    BY <2>1 DEF Turn
<1>3. CASE Plan(s)
  <2>1. sup[s].pc = "start" /\ sup[s].ids = <<>> /\ sup[s].at = 1
    BY <1>3 DEF Plan, Scanned, CanScan, Ordered, PlannedOnce
  <2>2. CASE Valid(PlannedIds(s))
    <3>1. sup'[s].pc = "launch" /\ sup'[s].at = 1
      BY <1>1, <1>3, <2>1, <2>2 DEF Plan, SupStates
    <3> QED
      BY <2>1, <3>1 DEF Turn
  <2>3. CASE ~Valid(PlannedIds(s))
    <3>1. sup'[s].pc = "done" /\ sup'[s].at = 1 /\ sup'[s].ids = <<>>
      BY <1>1, <1>3, <2>1, <2>3 DEF Plan, SupStates
    <3>2. DOMAIN sup'[s].ids = {}
      BY <3>1
    <3> QED
      BY <2>1, <3>1, <3>2 DEF Turn
  <2> QED
    BY <2>2, <2>3
<1>4. CASE Fork(s)
  BY <1>1, <1>4 DEF Fork, Turn, SameIds, SupStates
<1>5. CASE Announce(s)
  <2>1. Len(sup[s].ids) \in Nat
    BY <1>1, LenProperties
  <2> QED
    BY <1>1, <1>5, <2>1 DEF Announce, Turn, SameIds, SupStates
<1>6. CASE StartFails(s)
  BY <1>1, <1>6 DEF StartFails, Turn, SameIds, SupStates
<1>7. CASE Abort(s)
  <2>1. CASE Alive(Current(s))
    BY <1>7, <2>1 DEF Abort, Turn
  <2>2. CASE ~Alive(Current(s))
    <3>1. sup'[s].at = 1 /\ sup[s].pc = "aborting"
          /\ sup'[s].pc = IF sup[s].at = 1 THEN "done" ELSE "teardown"
      BY <1>1, <1>7, <2>2 DEF Abort, SupStates
    <3>2. /\ DOMAIN sup'[s].ids = 1..(sup[s].at - 1)
          /\ DOMAIN sup'[s].ids \subseteq DOMAIN sup[s].ids
          /\ \A k \in DOMAIN sup'[s].ids : sup'[s].ids[k] = sup[s].ids[k]
      <4>1. sup[s].at \in 1..Len(sup[s].ids) /\ Len(sup[s].ids) \in Nat
            /\ DOMAIN sup[s].ids = 1..Len(sup[s].ids)
        BY <1>1, <3>1, LenProperties DEF Ordered, PlannedOnce
      <4>2. sup'[s].ids = SubSeq(sup[s].ids, 1, sup[s].at - 1)
        BY <1>1, <1>7, <2>2 DEF Abort, SupStates
      <4>3. DOMAIN sup'[s].ids = 1..(sup[s].at - 1)
            /\ \A k \in 1..(sup[s].at - 1) : sup'[s].ids[k] = sup[s].ids[k]
        BY <1>1, <4>1, <4>2
      <4>4. 1..(sup[s].at - 1) \subseteq 1..Len(sup[s].ids)
        BY <4>1
      <4> QED
        BY <4>1, <4>3, <4>4
    <3> QED
      BY <3>1, <3>2 DEF Turn
  <2> QED
    BY <2>1, <2>2
<1>8. CASE Stop(s)
  BY <1>1, <1>8 DEF Stop, Turn, SameIds, SupStates
<1>9. CASE RemoveFile(s)
  BY <1>1, <1>9 DEF RemoveFile, Turn, SameIds, SupStates
<1>10. CASE Terminate(s)
  BY <1>1, <1>10 DEF Terminate, Turn, SameIds, SupStates
<1>11. CASE Reap(s)
  <2>1. Len(sup[s].ids) \in Nat
    BY <1>1, LenProperties
  <2> QED
    BY <1>1, <1>11, <2>1 DEF Reap, Turn, SameIds, SupStates
<1>12. CASE KillSupervisor(s)
  BY <1>1, <1>12 DEF KillSupervisor, Turn, SameIds, SupStates
<1> QED
  BY <1>2, <1>3, <1>4, <1>5, <1>6, <1>7, <1>8, <1>9, <1>10, <1>11, <1>12
     DEF SupStep, Supervises, Tears

(* How far a supervisor is with its mounts: which have been forked, which  *)
(* have lost their session file, which have ended.                         *)
Launches(e, k) ==
    \/ e.pc = "launch" /\ k < e.at
    \/ e.pc \in {"awaiting", "aborting"} /\ k <= e.at
    \/ e.pc \in {"waiting", "teardown", "terminating", "reaping"}
Past(e, k) ==
    e.pc = "done" \/ (e.pc \in {"teardown", "terminating", "reaping"} /\ k < e.at)
Removed(e, k) == Past(e, k) \/ (e.pc \in {"terminating", "reaping"} /\ k = e.at)

Started ==
    \A s \in Supervisors : \A k \in DOMAIN sup[s].ids :
        Launches(sup[s], k) => daemon[<<s, k>>].pc # "none"
Ended ==
    \A s \in Supervisors : \A k \in DOMAIN sup[s].ids :
        Past(sup[s], k) => daemon[<<s, k>>].pc = "dead" /\ <<s, k>> \notin trees
FilesGone ==
    \A s \in Supervisors : \A k \in DOMAIN sup[s].ids :
        Removed(sup[s], k) => file[sup[s].ids[k]] # <<s, k>>
SocketsLeft ==
    \A d \in Daemons :
        Mounted(d) /\ daemon[d].pc = "dead" /\ socket[IdOf(d)] = d => daemon[d].killed

Teardown == Started /\ Ended /\ FilesGone /\ SocketsLeft

LEMMA LaunchesBefore ==
    ASSUME SessionsOK, Ordered, [Next]_vars, NEW s \in Supervisors,
           NEW k \in DOMAIN sup'[s].ids, Launches(sup'[s], k)
    PROVE  /\ k \in DOMAIN sup[s].ids
           /\ Launches(sup[s], k) \/ (Fork(s) /\ k = sup[s].at)
<1>1. Turn(s, sup[s], sup'[s])
  BY SupTurns
<1>2. sup[s].ids \in Seq(Ids) /\ sup'[s].ids \in Seq(Ids) /\ sup[s].at \in Nat /\ sup'[s].at \in Nat
  BY SessionStepTypes DEF SessionsOK, SupOK, SupStates
<1>3. /\ DOMAIN sup[s].ids = 1..Len(sup[s].ids) /\ Len(sup[s].ids) \in Nat
      /\ DOMAIN sup'[s].ids = 1..Len(sup'[s].ids) /\ Len(sup'[s].ids) \in Nat
  BY <1>2, LenProperties
<1>4. sup[s].pc = "awaiting" => sup[s].at \in DOMAIN sup[s].ids
  BY DEF Ordered, PlannedOnce
<1> QED
  BY <1>1, <1>2, <1>3, <1>4 DEF Turn, Launches, SameIds

LEMMA RemovedBefore ==
    ASSUME SessionsOK, Ordered, [Next]_vars, NEW s \in Supervisors,
           NEW k \in DOMAIN sup'[s].ids, Removed(sup'[s], k)
    PROVE  /\ k \in DOMAIN sup[s].ids /\ SameIds(sup[s], sup'[s])
           /\ Removed(sup[s], k) \/ (RemoveFile(s) /\ k = sup[s].at)
           /\ Past(sup'[s], k) => Past(sup[s], k) \/ (Reap(s) /\ k = sup[s].at)
<1>1. Turn(s, sup[s], sup'[s])
  BY SupTurns
<1>2. sup[s].ids \in Seq(Ids) /\ sup'[s].ids \in Seq(Ids) /\ sup[s].at \in Nat /\ sup'[s].at \in Nat
  BY SessionStepTypes DEF SessionsOK, SupOK, SupStates
<1>3. /\ DOMAIN sup[s].ids = 1..Len(sup[s].ids) /\ Len(sup[s].ids) \in Nat
      /\ DOMAIN sup'[s].ids = 1..Len(sup'[s].ids) /\ Len(sup'[s].ids) \in Nat
  BY <1>2, LenProperties
<1> QED
  BY <1>1, <1>2, <1>3 DEF Turn, Removed, Past, SameIds

(* What a daemon's end leaves is not taken up again.                       *)
LEMMA SocketGained ==
    ASSUME SessionsOK, Ordered, [Next]_vars, NEW d \in Daemons, NEW i \in Ids,
           socket'[i] = d, socket[i] # d
    PROVE  daemon[d].pc = "unlinked" /\ daemon'[d].pc = "bound"
<1>1. PICK e \in Daemons : Bind(e) /\ socket' = [socket EXCEPT ![IdOf(e)] = e]
  <2>1. Nobody # d
    BY SessionConstants
  <2> QED
    BY <2>1, SocketSteps DEF RemoveStale, RemoveSocket, Bind, SessionsOK, PathsOK, Paths
<1>2. d = e
  BY <1>1 DEF SessionsOK, PathsOK, Paths
<1>3. Mounted(d)
  BY <1>1, <1>2 DEF Bind, Ordered, Launched, Alive
<1>4. IdOf(d) \in Ids
  BY <1>3, MountedIds DEF SessionsOK
<1>5. socket[IdOf(d)] = Nobody
  BY <1>1, <1>2, <1>4 DEF Bind
<1>6. Becomes(d, "bound") /\ daemon[d].pc = "unlinked"
  BY <1>1, <1>2, <1>5 DEF Bind
<1> QED
  BY <1>6 DEF Becomes, SessionsOK, DaemonOK, DaemonStates

LEMMA FileGained ==
    ASSUME SessionsOK, [Next]_vars, NEW d \in Daemons, NEW i \in Ids,
           file'[i] = d, file[i] # d
    PROVE  sup[d[1]].pc = "awaiting"
<1>1. PICK s \in Supervisors : Announce(s)
  <2>1. Nobody # d
    BY SessionConstants
  <2> QED
    BY <2>1, FileSteps DEF Sweep, RemoveFile, SessionsOK, PathsOK, Paths
<1>2. d = Current(s)
  BY <1>1 DEF Announce, SessionsOK, PathsOK, Paths
<1>3. d[1] = s
  BY <1>2 DEF Current
<1> QED
  BY <1>1, <1>3 DEF Announce

LEMMA TreeGained ==
    ASSUME [Next]_vars, NEW d \in Daemons, d \in trees', d \notin trees
    PROVE  daemon[d].pc = "starting"
<1>1. ASSUME NEW p \in Supervisors \cup Clients, Scans(p) PROVE UNCHANGED trees
  BY <1>1 DEF Scans, StartScan, ReadFile, CheckSocket, Sweep
<1>2. ASSUME NEW s \in Supervisors, SupStep(s) PROVE trees' \subseteq trees
  BY <1>2 DEF SupStep, Supervises, Plan, reap_stale, Fork, Announce, StartFails, Stop, Tears, Abort,
       RemoveFile, Terminate, Reap, KillSupervisor
<1>3. ASSUME NEW e \in Daemons, Builds(e) \/ Serves(e) \/ Ending(e) \/ KillDaemon(e)
      PROVE  \/ UNCHANGED trees
             \/ daemon[e].pc = "starting" /\ trees' = trees \cup {e}
  BY <1>3 DEF Builds, PrepareStorage, RemoveStale, Bind, SignalReady, BuildFails, SetHandlers,
       Serves, Accept, handle_connection, Ending, EndServer, RemoveSocket, KillDaemon
<1>4. ASSUME NEW c \in Clients, Calls(c) \/ KillClient(c)
      PROVE  trees' \subseteq trees \cup {c}
  BY <1>4 DEF Calls, Resolve, Connect, Send, Proceed, CommandEnds, KillClient
<1>5. \A c \in Clients : c # d
  BY SessionConstants
<1> QED
  BY <1>1, <1>2, <1>3, <1>4, <1>5 DEF Next, SupStep, vars

LEMMA DeadStays ==
    ASSUME SessionsOK, Ordered, [Next]_vars, NEW d \in Daemons, daemon[d].pc = "dead"
    PROVE  daemon'[d] = daemon[d]
<1>1. ~(Fork(d[1]) /\ d = Current(d[1]))
  <2> SUFFICES ASSUME Fork(d[1]), d = Current(d[1]) PROVE FALSE
    OBVIOUS
  <2>1. sup[d[1]].pc = "launch" /\ d[2] = sup[d[1]].at /\ sup[d[1]].at \in Nat
    BY DaemonParts DEF Fork, Current, SessionsOK, SupOK, SupStates
  <2> QED
    BY <2>1 DEF Ordered, Launched
<1> QED
  BY <1>1, DaemonSteps DEF Forward

LEMMA StartedStays ==
    ASSUME SessionsOK, Ordered, Started, [Next]_vars
    PROVE  Started'
<1> SUFFICES ASSUME NEW s \in Supervisors, NEW k \in DOMAIN sup'[s].ids, Launches(sup'[s], k)
             PROVE  daemon'[<<s, k>>].pc # "none"
  BY DEF Started
<1>1. k \in DOMAIN sup[s].ids /\ (Launches(sup[s], k) \/ (Fork(s) /\ k = sup[s].at))
  BY LaunchesBefore
<1>2. <<s, k>> \in Daemons /\ <<s, k>>[1] = s
  BY <1>1, DaemonParts DEF Ordered, PlannedOnce
<1>3. daemon \in [Daemons -> DaemonStates]
  BY DEF SessionsOK, DaemonOK
<1>4. CASE Launches(sup[s], k)
  <2>1. daemon[<<s, k>>].pc # "none"
    BY <1>1, <1>4 DEF Started
  <2> QED
    BY <1>2, <1>3, <2>1, DaemonSteps DEF Forward, DaemonStates
<1>5. CASE Fork(s) /\ k = sup[s].at
  BY <1>2, <1>3, <1>5 DEF Fork, Current, DaemonStates
<1> QED
  BY <1>1, <1>4, <1>5

LEMMA EndedStays ==
    ASSUME SessionsOK, Ordered, Started, Ended, [Next]_vars
    PROVE  Ended'
<1> SUFFICES ASSUME NEW s \in Supervisors, NEW k \in DOMAIN sup'[s].ids, Past(sup'[s], k)
             PROVE  daemon'[<<s, k>>].pc = "dead" /\ <<s, k>> \notin trees'
  BY DEF Ended
<1>1. k \in DOMAIN sup[s].ids /\ (Past(sup[s], k) \/ (Reap(s) /\ k = sup[s].at))
  BY RemovedBefore DEF Removed
<1>2. <<s, k>> \in Daemons
  BY <1>1, DaemonParts DEF Ordered, PlannedOnce
<1>3. CASE Past(sup[s], k)
  <2>1. daemon[<<s, k>>].pc = "dead" /\ <<s, k>> \notin trees
    BY <1>1, <1>3 DEF Ended
  <2> QED
    BY <1>2, <2>1, DeadStays, TreeGained
<1>4. CASE Reap(s) /\ k = sup[s].at
  <2>1. Current(s) = <<s, k>> /\ sup[s].pc = "reaping"
    BY <1>4 DEF Current, Reap
  <2>2. daemon[<<s, k>>].pc # "none"
    BY <1>1, <2>1 DEF Started, Launches
  <2>3. daemon[<<s, k>>].pc = "dead" /\ UNCHANGED daemon /\ trees' = trees \ {<<s, k>>}
    BY <1>4, <2>1, <2>2 DEF Reap, Alive
  <2> QED
    BY <2>3
<1> QED
  BY <1>1, <1>3, <1>4

LEMMA FilesGoneStays ==
    ASSUME SessionsOK, Ordered, FilesGone, [Next]_vars
    PROVE  FilesGone'
<1> SUFFICES ASSUME NEW s \in Supervisors, NEW k \in DOMAIN sup'[s].ids, Removed(sup'[s], k)
             PROVE  file'[sup'[s].ids[k]] # <<s, k>>
  BY DEF FilesGone
<1>1. /\ k \in DOMAIN sup[s].ids /\ sup'[s].ids = sup[s].ids
      /\ Removed(sup[s], k) \/ (RemoveFile(s) /\ k = sup[s].at)
  BY RemovedBefore DEF SameIds
<1>2. <<s, k>> \in Daemons /\ <<s, k>>[1] = s /\ <<s, k>>[2] = k
  BY <1>1, DaemonParts DEF Ordered, PlannedOnce
<1>3. Mounted(<<s, k>>) /\ IdOf(<<s, k>>) = sup[s].ids[k]
  BY <1>1, <1>2 DEF Mounted, IdOf
<1>4. sup[s].ids[k] \in Ids
  BY <1>2, <1>3, MountedIds DEF SessionsOK
<1>5. CASE Removed(sup[s], k)
  <2>1. file[sup[s].ids[k]] # <<s, k>> /\ sup[s].pc # "awaiting"
    BY <1>1, <1>5 DEF FilesGone, Removed, Past
  <2> QED
    BY <1>1, <1>2, <1>4, <2>1, FileGained
<1>6. CASE RemoveFile(s) /\ k = sup[s].at
  <2>1. Current(s) = <<s, k>>
    BY <1>6 DEF Current
  <2>2. file' = [file EXCEPT ![sup[s].ids[k]] = Nobody] /\ file \in Paths
    BY <1>3, <1>6, <2>1 DEF RemoveFile, SessionsOK, PathsOK
  <2>3. Nobody # <<s, k>>
    BY <1>2, SessionConstants
  <2> QED
    BY <1>1, <1>4, <2>2, <2>3 DEF Paths
<1> QED
  BY <1>1, <1>5, <1>6

LEMMA SocketsLeftStays ==
    ASSUME SessionsOK, Ordered, SocketsLeft, [Next]_vars
    PROVE  SocketsLeft'
<1> SUFFICES ASSUME NEW d \in Daemons, Mounted(d)', daemon'[d].pc = "dead",
                    socket'[IdOf(d)'] = d
             PROVE  daemon'[d].killed
  BY DEF SocketsLeft
<1>1. d[1] \in Supervisors
  BY DaemonParts
<1>2. Mounted(d) /\ IdOf(d)' = IdOf(d)
  <2>1. CASE Plan(d[1]) /\ sup[d[1]].pc = "start"
    <3>1. daemon[d].pc = "none" /\ UNCHANGED daemon
      BY <2>1 DEF Plan, Ordered, Launched
    <3> QED
      BY <3>1
  <2> QED
    BY <1>1, <2>1, IdSteps DEF Mounted, IdOf
<1>3. IdOf(d) \in Ids
  BY <1>2, MountedIds DEF SessionsOK
<1>4. CASE daemon[d].pc = "dead"
  <2>1. daemon'[d] = daemon[d]
    BY <1>4, DeadStays
  <2>2. socket[IdOf(d)] = d
    BY <1>2, <1>3, <1>4, SocketGained
  <2> QED
    BY <1>2, <1>4, <2>1, <2>2 DEF SocketsLeft
<1>5. CASE daemon[d].pc # "dead"
  <2>1. Forward(daemon[d], daemon'[d], RemoveSocket(d))
    <3>1. daemon[d] \in DaemonStates
      BY DEF SessionsOK, DaemonOK
    <3> QED
      BY <1>5, <3>1, DaemonSteps DEF DaemonStates
  <2>2. CASE RemoveSocket(d)
    <3>1. socket' = [socket EXCEPT ![IdOf(d)] = Nobody] /\ socket \in Paths
      BY <2>2 DEF RemoveSocket, SessionsOK, PathsOK
    <3>2. Nobody # d
      BY SessionConstants
    <3> QED
      BY <1>2, <1>3, <3>1, <3>2 DEF Paths
  <2>3. CASE daemon[d].pc \in Early
    <3>1. socket[IdOf(d)] # d
      BY <1>3, <2>3 DEF Early, Ordered, Launched
    <3> QED
      BY <1>2, <1>3, <3>1, SocketGained
  <2> QED
    BY <2>1, <2>2, <2>3 DEF Forward
<1> QED
  BY <1>4, <1>5

LEMMA TeardownStays ==
    ASSUME SessionInv, Teardown, [Next]_vars
    PROVE  Teardown'
<1>1. SessionsOK /\ Ordered
  BY SessionTypesSplit DEF SessionInv
<1>2. Started' /\ Ended' /\ FilesGone' /\ SocketsLeft'
  BY <1>1, StartedStays, EndedStays, FilesGoneStays, SocketsLeftStays DEF Teardown
<1> QED
  BY <1>2 DEF Teardown

LEMMA TeardownStarts == ASSUME Init PROVE Teardown
<1>1. \A s \in Supervisors : sup[s].ids = <<>>
  BY DEF Init
<1>2. \A s \in Supervisors : DOMAIN sup[s].ids = {}
  BY <1>1
<1>3. SocketsLeft
  BY DEF Init, SocketsLeft
<1> QED
  BY <1>2, <1>3 DEF Teardown, Started, Ended, FilesGone

AllTakenDown == \A s \in Supervisors : sup[s].pc = "done" => TakenDown(s)

LEMMA TeardownSuffices == ASSUME SessionInv, Teardown PROVE AllTakenDown
<1> SUFFICES ASSUME NEW s \in Supervisors, sup[s].pc = "done",
                    NEW k \in DOMAIN sup[s].ids
             PROVE  /\ daemon[<<s, k>>].pc = "dead" /\ file[IdOf(<<s, k>>)] # <<s, k>>
                    /\ <<s, k>> \notin trees
                    /\ socket[IdOf(<<s, k>>)] = <<s, k>> => daemon[<<s, k>>].killed
  BY DEF AllTakenDown, TakenDown
<1>1. Removed(sup[s], k) /\ Past(sup[s], k)
  BY DEF Removed, Past
<1>2. <<s, k>> \in Daemons /\ Mounted(<<s, k>>) /\ IdOf(<<s, k>>) = sup[s].ids[k]
  BY DaemonParts DEF SessionInv, Ordered, PlannedOnce, Mounted, IdOf
<1> QED
  BY <1>1, <1>2 DEF Teardown, Ended, FilesGone, SocketsLeft

(* A supervisor that is done has taken every session it announced down:    *)
(* its daemon has ended, no session file names it, its state tree is gone, *)
(* and its socket is left only if it was killed (cli/mount.rs teardown and *)
(* the guards' drops): the safety half of StoppedSessionsEnd.              *)
THEOREM DoneMeansTakenDown ==
    Spec => [](\A s \in Supervisors : sup[s].pc = "done" => TakenDown(s))
<1>1. Init => Teardown
  BY TeardownStarts
<1>2. SessionInv /\ Teardown /\ [Next]_vars => Teardown'
  BY TeardownStays
<1>3. Spec => []Teardown
  BY <1>1, <1>2, SessionInvariant, PTL DEF Spec
<1>4. SessionInv /\ Teardown => AllTakenDown
  BY TeardownSuffices
<1>5. Spec => []AllTakenDown
  BY <1>3, <1>4, SessionInvariant, PTL
<1> QED
  BY <1>5 DEF AllTakenDown
=============================================================================
