----------------------------- MODULE LogStream -----------------------------
(***************************************************************************)
(* What the agent's log promises.  The lines of a mode ("console", "file") *)
(* are, for each caller, its calls of the mode's level or above: each of   *)
(* them once, in order and with none left out; lines may be missing only   *)
(* at the end.  Callers are not ordered among each other, and two modes    *)
(* may have their lines in different orders.                               *)
(***************************************************************************)
EXTENDS Integers, Sequences, FiniteSetsExt

CONSTANTS
  Callers,  \* the goroutines that log
  Modes,    \* where lines are written to
  Levels,   \* the levels of calls, 0 (Trace) to 5 (Critical)
  LevelOf   \* the lowest level that each mode writes

VARIABLES
  calls,    \* of each caller, the levels of its calls
  lines     \* of each mode, the calls written: <<caller, number>>

StreamInit ==
  /\ calls = [c \in Callers |-> <<>>]
  /\ lines = [m \in Modes |-> <<>>]

Call(c) ==
  /\ \E level \in Levels : calls' = [calls EXCEPT ![c] = Append(@, level)]
  /\ UNCHANGED lines

(* The calls of c that mode m has yet to write. *)
Pending(m, c) ==
  {n \in DOMAIN calls[c] :
     /\ calls[c][n] >= LevelOf[m]
     /\ \A k \in DOMAIN lines[m] : lines[m][k][1] = c => lines[m][k][2] < n}

Write(m) ==
  /\ \E c \in Callers :
       /\ Pending(m, c) # {}
       /\ lines' = [lines EXCEPT ![m] = Append(@, <<c, Min(Pending(m, c))>>)]
  /\ UNCHANGED calls

StreamNext == (\E c \in Callers : Call(c)) \/ (\E m \in Modes : Write(m))

StreamSpec == StreamInit /\ [][StreamNext]_<<calls, lines>>
=============================================================================
