----------------------------- MODULE MCProcPid -----------------------------
(***************************************************************************)
(* Instances of ProcPid for TLC.                                           *)
(***************************************************************************)
EXTENDS ProcPid

CONSTANTS bash, httpd
=============================================================================
