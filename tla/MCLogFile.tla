----------------------------- MODULE MCLogFile -----------------------------
(***************************************************************************)
(* Instances of LogFile for TLC: a rotation is due after two lines, or     *)
(* after one long line, or on a new day, and a day has two numbers.        *)
(***************************************************************************)
EXTENDS LogFile
=============================================================================
