------------------------------ MODULE MCLogger ------------------------------
(***************************************************************************)
(* An instance of Logger for TLC: the configurations of the log.           *)
(***************************************************************************)
EXTENDS Logger, TLC

CONSTANTS console, file, syslog, collector

Mode(m, outcome) == [mode |-> m, outcome |-> outcome]

(* Two modes; one mode twice; a second mode that fails in each way, after  *)
(* one that works; and a first mode that fails.                            *)
MCSetups ==
  { <<Mode(console, "ok"), Mode(file, "ok")>>,
    <<Mode(console, "ok"), Mode(console, "ok")>>,
    <<Mode(console, "ok"), Mode(file, "initfails")>>,
    <<Mode(file, "ok"), Mode(console, "ok"), Mode(syslog, "refused")>>,
    <<Mode(console, "ok"), Mode(syslog, "noadapter")>>,
    <<Mode(file, "refused")>>,
    <<Mode(file, "initfails")>> }

MCLevelOf == console :> 4 @@ file :> 0 @@ syslog :> 0
=============================================================================
