---------------------------- MODULE MCSnmpPoller ----------------------------
(***************************************************************************)
(* An instance of SnmpPoller for TLC: five files in any order.             *)
(***************************************************************************)
EXTENDS SnmpPoller, TLC

CONSTANTS routers, switches, broken, locked, vacant

(* Targets in the same place with fewer and with more OIDs, more than the  *)
(* smallest array has room for; a file that has a string for a port, one   *)
(* that cannot be read, and one that has no targets.                       *)
MCContent ==
  routers :> [outcome |-> "good", oids |-> <<2>>, types |-> {0, 2}] @@
  switches :> [outcome |-> "good", oids |-> <<3>>, types |-> {1}] @@
  broken :> [outcome |-> "mistyped", oids |-> <<1, 1>>, types |-> {0}] @@
  locked :> [outcome |-> "unreadable", oids |-> <<>>, types |-> {0}] @@
  vacant :> [outcome |-> "good", oids |-> <<>>, types |-> {0}]
=============================================================================
