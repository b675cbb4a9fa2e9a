---------------------------- MODULE MCLspClient -----------------------------
(* One language server and its client on small instances. *)
EXTENDS LspClient

CONSTANTS t1, t2, none, fetching
=============================================================================
