------------------------------ MODULE ProcPid ------------------------------
(***************************************************************************)
(* CollectProcPidStat: scans /proc process by process while processes are  *)
(* forked, renamed by exec, reparented and reaped; compares the scan with  *)
(* the one before; adds the children of a name to their parent, and        *)
(* reports the heaviest processes.                                         *)
(*                                                                         *)
(* One counter, `cpu', stands for the twelve a process has, and the choice *)
(* of the heaviest by disk traffic, which is the same loop over another    *)
(* sum, is left out.  A pid is not used again, so counters do not fall.    *)
(* A command's name is the one after the renaming of kernel threads.       *)
(***************************************************************************)
EXTENDS Integers, FiniteSets

CONSTANTS
  Pids,        \* 1 is init, whose parent is 0
  Comms,       \* the names of commands
  Whitelist, Blacklist,   \* the names the regular expressions match
  Threshold,   \* PS_THRESHOLD_CPU
  TopN,        \* PS_TOP_N_CPU
  MaxEvents,   \* bound on what the system's processes do
  MaxRounds    \* bound on the comparisons

ASSUME ConstantsAssumption ==
  /\ Pids \subseteq Nat \ {0} /\ 1 \in Pids /\ IsFiniteSet(Pids)
  /\ Whitelist \subseteq Comms /\ Blacklist \subseteq Comms
  /\ Threshold \in Nat /\ TopN \in Nat /\ MaxEvents \in Nat /\ MaxRounds \in Nat

VARIABLES
  procs,     \* the processes of the system
  unused,    \* the pids never used so far
  events,    \* how many of its processes' events happened
  pc,        \* "idle" between two scans, "scanning", "consolidating" or "sending"
  todo,      \* the directories of /proc that the scan has still to read
  old, new,  \* OldProcPidStat, NewProcPidStat
  rounds,    \* the number of scans completed
  slices,    \* the processes that consolidate has still to come to
  cons,      \* ConsPidStat
  selected,  \* the keys of cons with `selected' set
  settled    \* history: processes with name and parent unchanged since the scan before

vars == <<procs, unused, events, pc, todo, old, new, rounds, slices, cons, selected, settled>>
system == <<procs, unused, events>>
collector == <<pc, todo, old, new, rounds, slices, cons, selected>>

Process == [pid: Pids, comm: Comms, ppid: Pids \cup {0}, cpu: Nat]

(* The process or the line of a scan that has pid i, in a set of them. *)
Has(set, i) == \E p \in set : p.pid = i
The(set, i) == CHOOSE p \in set : p.pid = i

NoEntries == [k \in {} |-> 0]

(* Any tree of processes, older ones above younger ones. *)
Init ==
  /\ \E live \in {s \in SUBSET Pids : 1 \in s} :
       \E comm \in [live -> Comms], ppid \in [live -> live \cup {0}] :
         /\ ppid[1] = 0 /\ \A i \in live \ {1} : ppid[i] \in 1..(i - 1)
         /\ procs = {[pid |-> i, comm |-> comm[i], ppid |-> ppid[i], cpu |-> 0] : i \in live}
         /\ unused = {i \in Pids : \A j \in live : i > j}
  /\ events = 0
  /\ pc = "idle" /\ todo = {} /\ old = {} /\ new = {} /\ rounds = 0
  /\ slices = {} /\ cons = NoEntries /\ selected = {}
  /\ settled = {}
-----------------------------------------------------------------------------
(* What processes do, at any time: external to the agent. *)
Event == events < MaxEvents /\ events' = events + 1

Fork(p) ==
  \E i \in unused :
    /\ Event
    /\ procs' = procs \cup {[p EXCEPT !.pid = i, !.ppid = p.pid, !.cpu = 0]}
    /\ unused' = {j \in unused : j > i}
    /\ UNCHANGED settled

Exec(p) ==
  \E name \in Comms \ {p.comm} :
    /\ Event
    /\ procs' = (procs \ {p}) \cup {[p EXCEPT !.comm = name]}
    /\ settled' = settled \ {p.pid}
    /\ UNCHANGED unused

(* The children of a process that ends become children of init. *)
Exit(p) ==
  /\ p.pid # 1
  /\ Event
  /\ procs' = {IF q.ppid = p.pid THEN [q EXCEPT !.ppid = 1] ELSE q : q \in procs \ {p}}
  /\ settled' = {i \in settled : i # p.pid /\ The(procs, i).ppid # p.pid}
  /\ UNCHANGED unused

Run(p) ==
  /\ Event
  /\ procs' = (procs \ {p}) \cup {[p EXCEPT !.cpu = @ + 1]}
  /\ UNCHANGED <<unused, settled>>

System ==
  /\ \E p \in procs : Fork(p) \/ Exec(p) \/ Exit(p) \/ Run(p)
  /\ UNCHANGED collector
-----------------------------------------------------------------------------
(* f.Readdir(-1) *)
Readdir ==
  /\ pc = "idle" /\ rounds <= MaxRounds
  /\ pc' = "scanning"
  /\ todo' = {p.pid : p \in procs}
  /\ new' = {}
  /\ UNCHANGED <<system, old, rounds, slices, cons, selected, settled>>

(* One directory, in any order; a process that has gone is skipped. *)
ReadPid(i) ==
  /\ pc = "scanning" /\ i \in todo
  /\ todo' = todo \ {i}
  /\ new' = new \cup {p \in procs : p.pid = i}
  /\ UNCHANGED <<system, pc, old, rounds, slices, cons, selected, settled>>

(* Fault: the older scan's counters less the newer one's. *)
UsedBackwards ==
  {[pid |-> p.pid, comm |-> p.comm, ppid |-> p.ppid, load |-> The(old, p.pid).cpu - p.cpu] :
     p \in {q \in new : \E o \in old : o.pid = q.pid /\ o.comm = q.comm}}

(* Fault: processes that used nothing are passed over. *)
UsedIfAny ==
  {[pid |-> p.pid, comm |-> p.comm, ppid |-> p.ppid, load |-> p.cpu - The(old, p.pid).cpu] :
     p \in {q \in new : \E o \in old : o.pid = q.pid /\ o.comm = q.comm /\ o.cpu < q.cpu}}

(* What a process of both scans used in between; the scans are maps whose  *)
(* key is the pid and the name.                                            *)
Used ==
  {[pid |-> p.pid, comm |-> p.comm, ppid |-> p.ppid, load |-> p.cpu - The(old, p.pid).cpu] :
     p \in {q \in new : \E o \in old : o.pid = q.pid /\ o.comm = q.comm}}

(* pidtree[pid] *)
Children(pid) == {p \in Used : p.ppid = pid}

(* The trees of the processes, and an empty ConsPidStat. *)
Compare ==
  /\ pc = "scanning" /\ todo = {} /\ rounds > 0
  /\ pc' = "consolidating"
  /\ slices' = Children(0)
  /\ cons' = NoEntries /\ selected' = {}
  /\ UNCHANGED <<system, todo, old, new, rounds, settled>>

(* The keys of ConsPidStat: consPidStat[k], with k of the parent or own.   *)
ParentKey(p) == <<p.comm, p.ppid>>
OwnKey(p) == <<p.comm, p.pid>>

(* Fault: a child that was added to its parent is not descended into. *)
DescendFromOwn(p) == IF ParentKey(p) \in DOMAIN cons THEN {} ELSE Children(p.pid)

(* The slice that consolidate is called with after p. *)
Descend(p) == Children(p.pid)

(* consolidate(pidtree, consPidStat, pidslice) comes to a process.  It     *)
(* takes the children of one before the next of the slice, which is in the *)
(* order of a Go map; here the children of any process are next.           *)
Consolidate(p) ==
  /\ pc = "consolidating" /\ p \in slices
  /\ slices' = (slices \ {p}) \cup Descend(p)
  /\ UNCHANGED <<system, pc, todo, old, new, rounds, settled>>

AddToParent(p) ==
  /\ Consolidate(p)
  /\ ParentKey(p) \in DOMAIN cons
  /\ cons' = [cons EXCEPT ![ParentKey(p)] = @ + p.load]
  /\ UNCHANGED selected

NewEntry(p) ==
  /\ Consolidate(p)
  /\ ParentKey(p) \notin DOMAIN cons
  /\ cons' = [k \in DOMAIN cons \cup {OwnKey(p)} |-> IF k = OwnKey(p) THEN p.load ELSE cons[k]]
  /\ selected' = selected \cup {k \in {OwnKey(p)} : p.comm \in Whitelist}

(* How many of the sorted entries the loop comes to: `if i > PS_TOP_N_CPU'  *)
(* breaks after the one at TopN + 1.                                       *)
Loops(keys) == IF Cardinality(keys) < TopN + 2 THEN Cardinality(keys) ELSE TopN + 2

(* Fault: the entries are not sorted. *)
TopOfUnsorted(keys) == {s \in SUBSET keys : Cardinality(s) = Loops(keys)}

(* The first entries after sorting; those of the same load come in any     *)
(* order.                                                                  *)
Top(keys) ==
  {s \in SUBSET keys :
     Cardinality(s) = Loops(keys) /\ \A a \in s, b \in keys \ s : cons[a] >= cons[b]}

(* The processes that are still as the scan that ends has seen them. *)
AsSeen == {p.pid : p \in {q \in procs :
                          \E o \in new : o.pid = q.pid /\ o.comm = q.comm /\ o.ppid = q.ppid}}

(* The first scan is kept for the next comparison. *)
FirstScan ==
  /\ pc = "scanning" /\ todo = {} /\ rounds = 0
  /\ old' = new /\ rounds' = 1
  /\ settled' = AsSeen
  /\ pc' = "idle"
  /\ UNCHANGED <<system, todo, new, slices, cons, selected>>

(* The heaviest are selected, beside the whitelisted ones. *)
Select ==
  /\ pc = "consolidating" /\ slices = {}
  /\ \E top \in Top({k \in DOMAIN cons : cons[k] >= Threshold}) :
       selected' = selected \cup {k \in top : k[1] \notin Blacklist}
  /\ pc' = "sending"
  /\ UNCHANGED <<system, todo, old, new, rounds, slices, cons, settled>>

(* metricschannel <- m, with OldProcPidStat replaced before it. *)
Send ==
  /\ pc = "sending"
  /\ old' = new /\ rounds' = rounds + 1
  /\ settled' = AsSeen
  /\ pc' = "idle"
  /\ UNCHANGED <<system, todo, new, slices, cons, selected>>

(* After the last round nothing of interest is left to do. *)
Over == pc = "idle" /\ rounds > MaxRounds /\ UNCHANGED vars

Next ==
  \/ System
  \/ Readdir \/ (\E i \in Pids : ReadPid(i)) \/ FirstScan \/ Compare
  \/ \E p \in slices : AddToParent(p) \/ NewEntry(p)
  \/ Select \/ Send
  \/ Over

Spec == Init /\ [][Next]_vars
-----------------------------------------------------------------------------
TypeOK ==
  /\ procs \subseteq Process /\ old \subseteq Process /\ new \subseteq Process
  /\ \A p, q \in procs : p.pid = q.pid => p = q
  /\ unused \subseteq Pids /\ todo \subseteq Pids /\ settled \subseteq Pids
  /\ events \in 0..MaxEvents /\ rounds \in 0..(MaxRounds + 1)
  /\ pc \in {"idle", "scanning", "consolidating", "sending"}
  /\ slices \subseteq [pid: Pids, comm: Comms, ppid: Pids \cup {0}, load: Nat]
  /\ DOMAIN cons \subseteq Comms \X Pids
  /\ \A k \in DOMAIN cons : cons[k] \in Nat
  /\ selected \subseteq DOMAIN cons

(* The compared processes whose ancestors were all compared. *)
Closed(set) == \A d \in Used : d.ppid = 0 \/ Has(set, d.ppid) => d \in set
Rooted == {d \in Used : \A set \in SUBSET Used : Closed(set) => d \in set}

(* The use of a set of processes, tick by tick. *)
Ticks(set) == UNION {{d.pid} \X (1..d.load) : d \in set}

(* The processes of `seen' with an entry of their own are those whose      *)
(* parent has none of the same name, and an entry is the sum of its        *)
(* process and of the children without an entry.                           *)
Share(seen, leads, d) == {d} \cup {e \in seen \ leads : e.ppid = d.pid}

Entries(seen, leads) ==
  /\ \A d \in seen : d \in leads <=> ~\E e \in leads : e.pid = d.ppid /\ e.comm = d.comm
  /\ DOMAIN cons = {OwnKey(d) : d \in leads}
  /\ \A d \in leads : cons[OwnKey(d)] = Cardinality(Ticks(Share(seen, leads, d)))

(* What consolidate computes, in whatever order it goes through the trees: *)
(* every rooted process is part of exactly one entry, that of its parent   *)
(* or its own.                                                             *)
Consolidated ==
  pc = "sending" =>
    LET rooted == Rooted IN \E leads \in SUBSET rooted : Entries(rooted, leads)

(* Processes that kept their name and parent from one scan to the end of   *)
(* the next, as all their ancestors did.                                   *)
SettledTree ==
  UNION {set \in SUBSET settled :
           \A i \in set : The(procs, i).ppid = 0 \/ The(procs, i).ppid \in set}

(* Whatever other processes do during the two scans, what such a process   *)
(* used is part of the report's entries.                                   *)
NoSettledLoss ==
  pc = "sending" => LET rooted == Rooted IN \A i \in SettledTree : Has(rooted, i)

(* An entry over the threshold that is neither reported nor blacklisted    *)
(* has at least TopN entries as heavy as itself.                           *)
HeaviestSelected ==
  pc = "sending" =>
    \A k \in DOMAIN cons \ selected :
      cons[k] >= Threshold /\ k[1] \notin Blacklist =>
        Cardinality({j \in DOMAIN cons \ {k} : cons[j] >= cons[k]}) >= TopN
=============================================================================
