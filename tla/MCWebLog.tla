----------------------------- MODULE MCWebLog -----------------------------
(***************************************************************************)
(* Instances of WebLog for TLC.  Routes and classes are interchangeable.   *)
(***************************************************************************)
EXTENDS WebLog, TLC

CONSTANTS r1, r2, ok, notfound

AnyRoute == Permutations({r1, r2}) \cup Permutations({ok, notfound})
=============================================================================
