----------------------------- MODULE MCPgStat -----------------------------
(***************************************************************************)
(* Instances of PgStat for TLC: two rows that come and go independently.   *)
(***************************************************************************)
EXTENDS PgStat, TLC

CONSTANTS k1, k2

AnyKey == Permutations({k1, k2})
=============================================================================
