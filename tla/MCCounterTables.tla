-------------------------- MODULE MCCounterTables --------------------------
(***************************************************************************)
(* An instance of CounterTables for TLC: one more device than the tables   *)
(* hold when none is blacklisted, and the one in the middle blacklisted.   *)
(***************************************************************************)
EXTENDS CounterTables

MCBlacklisted == {(NumDevices + 1) \div 2}
=============================================================================
