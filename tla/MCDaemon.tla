------------------------------ MODULE MCDaemon ------------------------------
(***************************************************************************)
(* The instance of Sessions and VisibilityMap that TLC checks.  A cast is  *)
(* who takes part in a behaviour; a behaviour has a cast of mounts and     *)
(* clients, or one of processes that use a mount: the two share nothing.   *)
(***************************************************************************)
EXTENDS Sessions, VisibilityMap, TLC

CONSTANTS s1, s2, s3, c1, l1, a, b, sh, git, r1, r2

(* Two directories of one name, one of them twice with a second directory  *)
(* and once under an explicit id.                                          *)
MCSpecs ==
    s1 :> <<[base |-> a, explicit |-> FALSE], [base |-> b, explicit |-> FALSE]>>
    @@ s2 :> <<[base |-> a, explicit |-> FALSE]>>
    @@ s3 :> <<[base |-> a, explicit |-> TRUE]>>

MCWants == c1 :> <<a, 1>> @@ l1 :> Nobody

NoMount == [who |-> {}, kills |-> 0]

MCCasts ==
    {NoMount,
     [who |-> {s1, s2}, kills |-> 0], [who |-> {s2, s3}, kills |-> 1],
     [who |-> {s1, c1}, kills |-> 1], [who |-> {s2, c1}, kills |-> 2],
     [who |-> {s2, c1, l1}, kills |-> 0]}

MCNobody == {NoMount}

MCRules == git :> "none"

NoProcess == [readers |-> {}, cgroups |-> FALSE, forks |-> 0, execs |-> 0, sets |-> 0]

MCProcesses ==
    {NoProcess,
     [readers |-> {r1}, cgroups |-> FALSE, forks |-> 1, execs |-> 1, sets |-> 1],
     [readers |-> {r1}, cgroups |-> TRUE, forks |-> 1, execs |-> 0, sets |-> 1],
     [readers |-> {r1, r2}, cgroups |-> FALSE, forks |-> 0, execs |-> 0, sets |-> 2]}

DaemonInit ==
    /\ Init /\ MapInit
    /\ events = NoProcess \/ \A p \in Supervisors \cup Clients : ~CanScan(p)

DaemonNext ==
    \/ Next /\ UNCHANGED mapVars
    \/ MapNext /\ UNCHANGED vars

DaemonSpec == DaemonInit /\ [][DaemonNext]_<<vars, mapVars>> /\ Fairness
=============================================================================
