--------------------------- MODULE MCLspDocuments ---------------------------
(***************************************************************************)
(* The LSP session manager on small instances: the messages about one      *)
(* document, or the choice of servers for several; a behaviour has one of  *)
(* the two, which share nothing.                                           *)
(***************************************************************************)
EXTENDS LspDocuments, LspServers, TLC

CONSTANTS t1, t2, ts, tsx, py

MCSources == {1, 2}
MCExtOf == <<ts, tsx>>
MCGrammars == {ts, tsx, py}

(* A server for one extension and one for two, of which the second answers *)
(* when the first cannot start; a server of another project, one that is   *)
(* switched off and one for files there are none of.                       *)
Entry(enabled, exts, ids, markers, command) ==
    [enabled |-> enabled, extensions |-> exts, language_ids |-> ids, root_markers |-> markers, command |-> command]
MCConfig ==
    <<Entry(TRUE, {py}, py :> "python", {"pyproject"}, "pyright"),
      Entry(FALSE, {ts}, ts :> "javascript", {}, "eslint"),
      Entry(TRUE, {ts}, tsx :> "typescriptreact", {"package"}, "tsgo"),
      Entry(TRUE, {ts, tsx}, ts :> "typescript" @@ tsx :> "typescriptreact", {"package"}, "tsserver"),
      Entry(TRUE, {py}, py :> "python", {}, "pylsp")>>
MCRootNames == {"package"}

Untouched ==
    /\ disk = [text |-> 1, last |-> 1] /\ doc = Untracked /\ \A t \in Threads : job[t] = Idle
    /\ wire = <<>> /\ cache = NoResult /\ left = [failures |-> MaxFailures, queries |-> MaxQueries]

ManagerInit == Init /\ ServersInit
ManagerNext ==
    \/ Next /\ ServersInit /\ UNCHANGED serverVars
    \/ Untouched /\ ServersNext /\ UNCHANGED vars
ManagerSpec == ManagerInit /\ [][ManagerNext]_<<vars, serverVars>> /\ Fairness
=============================================================================
