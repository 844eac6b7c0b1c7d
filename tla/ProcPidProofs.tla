--------------------------- MODULE ProcPidProofs ---------------------------
(***************************************************************************)
(* Proofs about ProcPid for any processes and names, whatever happens to   *)
(* the processes during the scans.                                         *)
(***************************************************************************)
EXTENDS ProcPid, FiniteSetTheorems, WellFoundedInduction, TLAPS

USE ConstantsAssumption DEF ConstantsAssumption

Same(p, q) == p.pid = q.pid /\ p.comm = q.comm /\ p.ppid = q.ppid

(* A process is younger than its parent, and pids are used in order. *)
TreeInv ==
  /\ \A p \in procs : p.ppid < p.pid
  /\ \A i \in unused :
       /\ i \notin todo /\ ~Has(old, i) /\ ~Has(new, i)
       /\ \A p \in procs : p.pid < i

(* A scan has a process once, and its counter does not fall. *)
ScansInv ==
  /\ pc # "idle" => rounds <= MaxRounds
  /\ \A o, p \in old : o.pid = p.pid => o = p
  /\ \A o, p \in new : o.pid = p.pid => o = p
  /\ \A i \in todo : ~Has(new, i)
  /\ \A o \in old \cup new, p \in procs : o.pid = p.pid => o.cpu <= p.cpu
  /\ \A o \in old, n \in new : o.pid = n.pid => o.cpu <= n.cpu

SettledInv ==
  /\ pc \in {"consolidating", "sending"} => todo = {}
  /\ \A i \in settled : \E p \in procs :
       /\ p.pid = i
       /\ \E o \in old : Same(o, p)
       /\ i \in todo \/ \E n \in new : Same(n, p)

Frontier(seen) ==
  /\ seen \cap slices = {}
  /\ \A d \in Used : d \in seen \cup slices <=> d.ppid = 0 \/ Has(seen, d.ppid)

ConsInv ==
  /\ IsFiniteSet(DOMAIN cons)
  /\ pc \in {"consolidating", "sending"} =>
       /\ slices \subseteq Rooted
       /\ \E seen \in SUBSET Rooted :
            /\ Frontier(seen)
            /\ \E leads \in SUBSET seen :
                 /\ Entries(seen, leads)
                 /\ \A d \in leads : IsFiniteSet(Ticks(Share(seen, leads, d)))
  /\ pc = "sending" => slices = {}

IInv == TypeOK /\ TreeInv /\ ScansInv /\ SettledInv /\ ConsInv /\ HeaviestSelected
-----------------------------------------------------------------------------
(* The first n numbers are n. *)
LEMMA FirstNumbers ==
  ASSUME NEW n \in Nat
  PROVE  IsFiniteSet(1..n) /\ Cardinality(1..n) = n
<1>1. IsFiniteSet(1..n) /\ Cardinality(1..n) = IF 1 > n THEN 0 ELSE n - 1 + 1
  BY FS_Interval
<1> QED
  BY <1>1

(* A process more adds its load to the ticks. *)
LEMMA TicksGrow ==
  ASSUME NEW S, NEW e, e.load \in Nat, IsFiniteSet(Ticks(S)), \A d \in S : d.pid # e.pid
  PROVE  /\ IsFiniteSet(Ticks(S \cup {e}))
         /\ Cardinality(Ticks(S \cup {e})) = Cardinality(Ticks(S)) + e.load
<1> DEFINE added == {e.pid} \X (1..e.load)
<1>1. Ticks(S \cup {e}) = Ticks(S) \cup added
  BY DEF Ticks
<1>2. IsFiniteSet(added) /\ Cardinality(added) = e.load
  <2>1. IsFiniteSet({e.pid}) /\ Cardinality({e.pid}) = 1
    BY FS_Singleton
  <2>2. IsFiniteSet(1..e.load) /\ Cardinality(1..e.load) = e.load
    BY FirstNumbers
  <2>3. IsFiniteSet(added) /\ Cardinality(added) = Cardinality({e.pid}) * Cardinality(1..e.load)
    BY <2>1, <2>2, FS_Product
  <2> QED
    BY <2>1, <2>2, <2>3
<1>3. Ticks(S) \cap added = {}
  BY DEF Ticks
<1>4. Cardinality(Ticks(S) \cap added) = 0
  BY <1>3, FS_EmptySet
<1> HIDE DEF added
<1>5. /\ IsFiniteSet(Ticks(S) \cup added)
      /\ Cardinality(Ticks(S) \cup added) =
           Cardinality(Ticks(S)) + Cardinality(added) - Cardinality(Ticks(S) \cap added)
  BY <1>2, FS_Union
<1>6. Cardinality(Ticks(S)) \in Nat
  BY FS_CardinalityType
<1>7. Cardinality(Ticks(S) \cup added) = Cardinality(Ticks(S)) + e.load
  BY <1>2, <1>4, <1>5, <1>6
<1> QED
  BY <1>1, <1>5, <1>7

(* The ticks of one process are its load. *)
LEMMA TicksOfOne ==
  ASSUME NEW e, e.load \in Nat
  PROVE  IsFiniteSet(Ticks({e})) /\ Cardinality(Ticks({e})) = e.load
<1>1. Ticks({}) = {}
  BY DEF Ticks
<1>2. IsFiniteSet(Ticks({})) /\ Cardinality(Ticks({})) = 0
  BY <1>1, FS_EmptySet
<1>3. /\ IsFiniteSet(Ticks({} \cup {e}))
      /\ Cardinality(Ticks({} \cup {e})) = Cardinality(Ticks({})) + e.load
  BY <1>2, TicksGrow
<1> QED
  BY <1>2, <1>3

Usage == [pid: Pids, comm: Comms, ppid: Pids \cup {0}, load: Nat]

(* What was used: one record for each process of both scans. *)
LEMMA UsedFacts ==
  ASSUME TypeOK, ScansInv
  PROVE  /\ Used \subseteq Usage
         /\ \A d, e \in Used : d.pid = e.pid => d = e
         /\ \A n \in new, o \in old : o.pid = n.pid /\ o.comm = n.comm =>
              \E d \in Used : Same(d, n)
<1>1. ASSUME NEW n \in new, NEW o \in old, o.pid = n.pid
      PROVE  The(old, n.pid) = o /\ n.cpu - o.cpu \in Nat
  <2>1. \A q \in old : q.pid = n.pid => q = o
    BY <1>1 DEF ScansInv
  <2>2. The(old, n.pid) = o
    BY <1>1, <2>1 DEF The
  <2>3. n.cpu \in Nat /\ o.cpu \in Nat /\ o.cpu <= n.cpu
    BY <1>1 DEF TypeOK, Process, ScansInv
  <2> QED
    BY <2>2, <2>3
<1>2. ASSUME NEW d \in Used
      PROVE  \E n \in new, o \in old :
               /\ o.pid = n.pid /\ o.comm = n.comm
               /\ d = [pid |-> n.pid, comm |-> n.comm, ppid |-> n.ppid, load |-> n.cpu - o.cpu]
  <2>1. PICK n \in new :
          /\ \E o \in old : o.pid = n.pid /\ o.comm = n.comm
          /\ d = [pid |-> n.pid, comm |-> n.comm, ppid |-> n.ppid,
                  load |-> n.cpu - The(old, n.pid).cpu]
    BY DEF Used
  <2>2. PICK o \in old : o.pid = n.pid /\ o.comm = n.comm
    BY <2>1
  <2>3. The(old, n.pid) = o
    BY <1>1, <2>2
  <2> QED
    BY <2>1, <2>2, <2>3
<1>3. ASSUME NEW d \in Used PROVE d \in Usage
  <2>1. PICK n \in new, o \in old :
          /\ o.pid = n.pid /\ o.comm = n.comm
          /\ d = [pid |-> n.pid, comm |-> n.comm, ppid |-> n.ppid, load |-> n.cpu - o.cpu]
    BY <1>2
  <2>2. n.cpu - o.cpu \in Nat
    BY <1>1, <2>1
  <2> QED
    BY <2>1, <2>2 DEF TypeOK, Process, Usage
<1>4. ASSUME NEW d \in Used, NEW e \in Used, d.pid = e.pid PROVE d = e
  <2>1. PICK n \in new, o \in old :
          /\ o.pid = n.pid /\ o.comm = n.comm
          /\ d = [pid |-> n.pid, comm |-> n.comm, ppid |-> n.ppid, load |-> n.cpu - o.cpu]
    BY <1>2
  <2>2. PICK m \in new, p \in old :
          /\ p.pid = m.pid /\ p.comm = m.comm
          /\ e = [pid |-> m.pid, comm |-> m.comm, ppid |-> m.ppid, load |-> m.cpu - p.cpu]
    BY <1>2
  <2>3. n = m /\ o = p
    BY <1>4, <2>1, <2>2 DEF ScansInv
  <2> QED
    BY <2>1, <2>2, <2>3
<1>5. ASSUME NEW n \in new, NEW o \in old, o.pid = n.pid, o.comm = n.comm
      PROVE  \E d \in Used : Same(d, n)
  <2> DEFINE d == [pid |-> n.pid, comm |-> n.comm, ppid |-> n.ppid,
                   load |-> n.cpu - The(old, n.pid).cpu]
  <2>1. d \in Used
    BY <1>5 DEF Used
  <2>2. Same(d, n)
    BY DEF Same
  <2> QED
    BY <2>1, <2>2
<1> QED
  BY <1>3, <1>4, <1>5

(* Rooted is the least set that is closed. *)
LEMMA RootedLeast ==
  ASSUME \A d, e \in Used : d.pid = e.pid => d = e
  PROVE  /\ Rooted \subseteq Used
         /\ Closed(Rooted)
         /\ \A set \in SUBSET Used : Closed(set) => Rooted \subseteq set
<1>1. Rooted \subseteq Used /\ \A set \in SUBSET Used : Closed(set) => Rooted \subseteq set
  BY DEF Rooted
<1>2. ASSUME NEW d \in Used, d.ppid = 0 \/ Has(Rooted, d.ppid)
      PROVE  d \in Rooted
  <2>1. SUFFICES ASSUME NEW set \in SUBSET Used, Closed(set) PROVE d \in set
    BY DEF Rooted
  <2>2. d.ppid = 0 \/ Has(set, d.ppid)
    BY <1>1, <1>2, <2>1 DEF Has
  <2> QED
    BY <2>1, <2>2 DEF Closed
<1> QED
  BY <1>1, <1>2 DEF Closed

(* While the scans stay, what they were compared to stays. *)
LEMMA ScansStay ==
  ASSUME old' = old, new' = new
  PROVE  Used' = Used /\ Rooted' = Rooted
<1>1. Used' = Used
  BY DEF Used, The
<1> QED
  BY <1>1 DEF Rooted, Closed, Has

LEMMA ConsStays ==
  ASSUME ConsInv, UNCHANGED <<pc, old, new, slices, cons>>
  PROVE  ConsInv'
<1>1. Used' = Used /\ Rooted' = Rooted
  BY ScansStay
<1>2. \A seen : Frontier(seen)' <=> Frontier(seen)
  BY <1>1 DEF Frontier
<1>3. \A seen, leads : Entries(seen, leads)' <=> Entries(seen, leads)
  BY DEF Entries
<1> QED
  BY <1>1, <1>2, <1>3 DEF ConsInv
-----------------------------------------------------------------------------
(* What an event of the system's processes leaves: those of before, not    *)
(* younger than they were, and one that has a new pid; the settled ones    *)
(* are as they were.                                                       *)
Proceeds ==
  /\ procs' \subseteq Process
  /\ \A p, q \in procs' : p.pid = q.pid => p = q
  /\ \A p \in procs' : p.ppid < p.pid
  /\ unused' \subseteq unused
  /\ \A r \in procs', i \in unused' : r.pid < i
  /\ \A r \in procs' : r.pid \in unused \/ \E q \in procs : q.pid = r.pid /\ q.cpu <= r.cpu
  /\ settled' \subseteq settled
  /\ \A i \in settled', p \in procs : p.pid = i => \E r \in procs' : Same(r, p)

(* The four events, one by one. *)
LEMMA ForkProceeds ==
  ASSUME TypeOK, TreeInv, NEW p \in procs, Fork(p)
  PROVE  Proceeds
<1>1. PICK i \in unused :
        /\ procs' = procs \cup {[p EXCEPT !.pid = i, !.ppid = p.pid, !.cpu = 0]}
        /\ unused' = {j \in unused : j > i}
        /\ settled' = settled
  BY DEF Fork
<1> DEFINE c == [p EXCEPT !.pid = i, !.ppid = p.pid, !.cpu = 0]
<1>2. /\ c \in Process /\ c.pid = i /\ c.ppid = p.pid /\ c.cpu = 0
      /\ p.pid < i /\ i \in Nat
  BY DEF TypeOK, Process, TreeInv
<1> HIDE DEF c
<1>3. procs' = procs \cup {c}
  BY <1>1 DEF c
<1>4. \A q \in procs : q \in Process /\ q.pid < i /\ q.pid \in Nat /\ q.cpu \in Nat
  BY DEF TypeOK, TreeInv, Process
<1>5. \A q \in procs' : \A r \in procs' : q.pid = r.pid => q = r
  BY <1>2, <1>3, <1>4 DEF TypeOK
<1>6. \A r \in procs', j \in unused' : r.pid < j
  BY <1>1, <1>2, <1>3 DEF TypeOK, TreeInv
<1>7. \A r \in procs' : r.pid \in unused \/ \E q \in procs : q.pid = r.pid /\ q.cpu <= r.cpu
  BY <1>2, <1>3, <1>4
<1>8. \A j \in settled', q \in procs : q.pid = j => \E r \in procs' : Same(r, q)
  BY <1>3 DEF Same
<1>9. \A q \in procs' : q.ppid < q.pid
  BY <1>2, <1>3 DEF TreeInv
<1> QED
  BY <1>1, <1>2, <1>3, <1>4, <1>5, <1>6, <1>7, <1>8, <1>9 DEF Proceeds

(* Exec and Run put another process of the same pid and parent in place.   *)
LEMMA ReplacedProceeds ==
  ASSUME TypeOK, TreeInv, NEW p \in procs, NEW r \in Process,
         r.pid = p.pid, r.ppid = p.ppid, p.cpu <= r.cpu,
         procs' = (procs \ {p}) \cup {r}, unused' = unused, settled' \subseteq settled,
         p.pid \in settled' => r.comm = p.comm
  PROVE  Proceeds
<1>1. \A q \in procs' : \A s \in procs' : q.pid = s.pid => q = s
  BY DEF TypeOK
<1>2. \A q \in procs' : q.ppid < q.pid
  BY DEF TreeInv
<1>3. \A q \in procs', i \in unused' : q.pid < i
  BY DEF TreeInv
<1>4. \A q \in procs' : \E s \in procs : s.pid = q.pid /\ s.cpu <= q.cpu
  BY DEF TypeOK, Process
<1>5. \A i \in settled', q \in procs : q.pid = i => \E s \in procs' : Same(s, q)
  BY DEF Same
<1>6. procs' \subseteq Process
  BY DEF TypeOK
<1> QED
  BY <1>1, <1>2, <1>3, <1>4, <1>5, <1>6 DEF Proceeds

LEMMA ExecProceeds ==
  ASSUME TypeOK, TreeInv, NEW p \in procs, Exec(p)
  PROVE  Proceeds
<1>1. PICK name \in Comms :
        /\ procs' = (procs \ {p}) \cup {[p EXCEPT !.comm = name]}
        /\ settled' = settled \ {p.pid}
        /\ unused' = unused
  BY DEF Exec
<1> DEFINE r == [p EXCEPT !.comm = name]
<1>2. r \in Process /\ r.pid = p.pid /\ r.ppid = p.ppid /\ p.cpu <= r.cpu
  BY DEF TypeOK, Process
<1> HIDE DEF r
<1>3. procs' = (procs \ {p}) \cup {r}
  BY <1>1 DEF r
<1> QED
  BY <1>1, <1>2, <1>3, ReplacedProceeds

LEMMA RunProceeds ==
  ASSUME TypeOK, TreeInv, NEW p \in procs, Run(p)
  PROVE  Proceeds
<1> DEFINE r == [p EXCEPT !.cpu = @ + 1]
<1>1. r \in Process /\ r.pid = p.pid /\ r.ppid = p.ppid /\ r.comm = p.comm /\ p.cpu <= r.cpu
  BY DEF TypeOK, Process
<1>2. procs' = (procs \ {p}) \cup {r} /\ unused' = unused /\ settled' = settled
  BY DEF Run
<1> HIDE DEF r
<1> QED
  BY <1>1, <1>2, ReplacedProceeds

LEMMA ExitProceeds ==
  ASSUME TypeOK, TreeInv, NEW p \in procs, Exit(p)
  PROVE  Proceeds
<1> DEFINE Left(q) == IF q.ppid = p.pid THEN [q EXCEPT !.ppid = 1] ELSE q
<1>1. /\ procs' = {Left(q) : q \in procs \ {p}}
      /\ settled' = {i \in settled : i # p.pid /\ The(procs, i).ppid # p.pid}
      /\ unused' = unused
  BY DEF Exit
<1>2. \A q \in procs : q \in Process /\ q.ppid < q.pid /\ q.pid \in Nat \ {0} /\ q.ppid \in Nat
  <2>1. procs \subseteq Process /\ \A q \in procs : q.ppid < q.pid
    BY DEF TypeOK, TreeInv
  <2>2. \A q \in Process : q.pid \in Pids /\ q.ppid \in Pids \cup {0}
    BY DEF Process
  <2>3. Pids \subseteq Nat \ {0} /\ Pids \cup {0} \subseteq Nat
    OBVIOUS
  <2> QED
    BY <2>1, <2>2, <2>3
<1>3. ASSUME NEW q \in procs
      PROVE  /\ Left(q) \in Process /\ Left(q).pid = q.pid /\ Left(q).cpu = q.cpu
             /\ Left(q).ppid < q.pid
  <2>1. CASE q.ppid = p.pid
    <3>1. Left(q) = [q EXCEPT !.ppid = 1] /\ 1 < q.pid
      BY <1>2, <2>1
    <3> QED
      BY <1>2, <3>1 DEF Process
  <2>2. CASE q.ppid # p.pid
    BY <1>2, <2>2
  <2> QED
    BY <2>1, <2>2
<1>4. \A i \in settled', q \in procs : q.pid = i => q # p /\ Left(q) = q
  <2>1. SUFFICES ASSUME NEW i \in settled', NEW q \in procs, q.pid = i
                 PROVE  q # p /\ Left(q) = q
    OBVIOUS
  <2>2. \A s \in procs : s.pid = i => s = q
    BY <2>1 DEF TypeOK
  <2>3. The(procs, i) = q
    BY <2>1, <2>2 DEF The
  <2> QED
    BY <1>1, <2>1, <2>3
<1> HIDE DEF Left
<1>5. ASSUME NEW r \in procs'
      PROVE  \E q \in procs : r = Left(q)
  BY <1>1
<1>6. procs' \subseteq Process /\ \A r \in procs' : r.ppid < r.pid
  BY <1>3, <1>5
<1>7. \A r \in procs' : \A s \in procs' : r.pid = s.pid => r = s
  BY <1>3, <1>5 DEF TypeOK
<1>8. \A r \in procs', i \in unused' : r.pid < i
  BY <1>1, <1>3, <1>5 DEF TreeInv
<1>9. \A r \in procs' : \E q \in procs : q.pid = r.pid /\ q.cpu <= r.cpu
  BY <1>2, <1>3, <1>5 DEF Process
<1>10. \A i \in settled', q \in procs : q.pid = i => \E r \in procs' : Same(r, q)
  <2>1. \A i \in settled', q \in procs : q.pid = i => q \in procs'
    BY <1>1, <1>4
  <2> QED
    BY <2>1 DEF Same
<1> QED
  BY <1>1, <1>6, <1>7, <1>8, <1>9, <1>10 DEF Proceeds

LEMMA SystemStep ==
  ASSUME IInv, System
  PROVE  IInv'
<1> USE DEF IInv
<1>1. PICK p \in procs : Fork(p) \/ Exec(p) \/ Exit(p) \/ Run(p)
  BY DEF System
<1>2. UNCHANGED <<pc, todo, old, new, rounds, slices, cons, selected>>
  BY DEF System, collector
<1>3. Proceeds
  BY <1>1, ForkProceeds, ExecProceeds, ExitProceeds, RunProceeds
<1>4. events' \in 0..MaxEvents
  <2>1. Event
    BY <1>1 DEF Fork, Exec, Exit, Run
  <2> QED
    BY <2>1 DEF Event, TypeOK
<1>5. TypeOK'
  BY <1>2, <1>3, <1>4 DEF TypeOK, Proceeds
<1>6. TreeInv'
  BY <1>2, <1>3 DEF TreeInv, Proceeds, Has
<1>7. ScansInv'
  <2>1. ASSUME NEW o \in old \cup new, NEW r \in procs', o.pid = r.pid
        PROVE  o.cpu <= r.cpu
    <3>1. o.pid \notin unused
      BY DEF TreeInv, Has
    <3>2. PICK q \in procs : q.pid = r.pid /\ q.cpu <= r.cpu
      BY <1>3, <2>1, <3>1 DEF Proceeds
    <3>3. o.cpu <= q.cpu
      BY <2>1, <3>2 DEF ScansInv
    <3>4. o.cpu \in Nat /\ q.cpu \in Nat /\ r.cpu \in Nat
      BY <1>5 DEF TypeOK, Process
    <3> QED
      BY <3>2, <3>3, <3>4
  <2> QED
    BY <1>2, <2>1 DEF ScansInv, Has
<1>8. SettledInv'
  <2>1. ASSUME NEW i \in settled'
        PROVE  \E r \in procs' :
                 /\ r.pid = i
                 /\ \E o \in old : Same(o, r)
                 /\ i \in todo \/ \E n \in new : Same(n, r)
    <3>1. i \in settled
      BY <1>3 DEF Proceeds
    <3>2. PICK q \in procs :
            /\ q.pid = i
            /\ \E o \in old : Same(o, q)
            /\ i \in todo \/ \E n \in new : Same(n, q)
      BY <3>1 DEF SettledInv
    <3>3. PICK r \in procs' : Same(r, q)
      BY <1>3, <2>1, <3>2 DEF Proceeds
    <3> QED
      BY <3>2, <3>3 DEF Same
  <2> QED
    BY <1>2, <2>1 DEF SettledInv, Same
<1>9. ConsInv'
  BY <1>2, ConsStays
<1>10. HeaviestSelected'
  BY <1>2 DEF HeaviestSelected
<1> QED
  BY <1>5, <1>6, <1>7, <1>8, <1>9, <1>10
-----------------------------------------------------------------------------
LEMMA ReaddirStep ==
  ASSUME IInv, Readdir
  PROVE  IInv'
<1> USE DEF IInv
<1>1. /\ rounds <= MaxRounds /\ pc' = "scanning" /\ todo' = {p.pid : p \in procs} /\ new' = {}
      /\ UNCHANGED <<procs, unused, events, old, rounds, slices, cons, selected, settled>>
  BY DEF Readdir, system
<1>2. TypeOK'
  BY <1>1 DEF TypeOK, Process
<1>3. TreeInv'
  <2>1. \A i \in unused : i \notin todo'
    BY <1>1 DEF TreeInv, TypeOK, Process
  <2> QED
    BY <1>1, <2>1 DEF TreeInv, Has
<1>4. ScansInv'
  BY <1>1 DEF ScansInv, Has
<1>5. SettledInv'
  <2>1. \A i \in settled' : \E p \in procs : p.pid = i /\ \E o \in old : Same(o, p)
    BY <1>1 DEF SettledInv
  <2>2. \A p \in procs : p.pid \in todo'
    BY <1>1
  <2> QED
    BY <1>1, <2>1, <2>2 DEF SettledInv, Same
<1>6. ConsInv' /\ HeaviestSelected'
  BY <1>1 DEF ConsInv, HeaviestSelected
<1> QED
  BY <1>2, <1>3, <1>4, <1>5, <1>6

LEMMA ReadPidStep ==
  ASSUME IInv, NEW i \in Pids, ReadPid(i)
  PROVE  IInv'
<1> USE DEF IInv
<1>1. /\ pc = "scanning" /\ i \in todo
      /\ todo' = todo \ {i} /\ new' = new \cup {p \in procs : p.pid = i}
      /\ UNCHANGED <<procs, unused, events, pc, old, rounds, slices, cons, selected, settled>>
  BY DEF ReadPid, system
<1>2. TypeOK'
  BY <1>1 DEF TypeOK
<1>3. ASSUME NEW n \in new' PROVE n \in new \/ (n \in procs /\ n.pid = i)
  BY <1>1
<1>4. TreeInv'
  <2>1. \A j \in unused : ~Has(new', j)
    BY <1>1, <1>3 DEF TreeInv, Has
  <2> QED
    BY <1>1, <2>1 DEF TreeInv, Has
<1>5. ScansInv'
  <2>1. \A n \in new : n.pid # i
    BY <1>1 DEF ScansInv, Has
  <2>2. \A n \in new' : \A m \in new' : n.pid = m.pid => n = m
    BY <1>3, <2>1 DEF ScansInv, TypeOK
  <2>3. \A j \in todo' : ~Has(new', j)
    BY <1>1, <1>3 DEF ScansInv, Has
  <2>4. \A o \in old' \cup new', p \in procs' : o.pid = p.pid => o.cpu <= p.cpu
    BY <1>1, <1>3 DEF ScansInv, TypeOK, Process
  <2>5. \A o \in old', n \in new' : o.pid = n.pid => o.cpu <= n.cpu
    BY <1>1, <1>3 DEF ScansInv
  <2> QED
    BY <1>1, <2>2, <2>3, <2>4, <2>5 DEF ScansInv, Has
<1>6. SettledInv'
  <2>1. ASSUME NEW j \in settled'
        PROVE  \E p \in procs :
                 /\ p.pid = j
                 /\ \E o \in old : Same(o, p)
                 /\ j \in todo' \/ \E n \in new' : Same(n, p)
    <3>1. PICK p \in procs :
            /\ p.pid = j
            /\ \E o \in old : Same(o, p)
            /\ j \in todo \/ \E n \in new : Same(n, p)
      BY <1>1, <2>1 DEF SettledInv
    <3>2. j \in todo' \/ \E n \in new' : Same(n, p)
      BY <1>1, <3>1 DEF Same
    <3> QED
      BY <3>1, <3>2
  <2> QED
    BY <1>1, <2>1 DEF SettledInv, Same
<1>7. ConsInv' /\ HeaviestSelected'
  BY <1>1 DEF ConsInv, HeaviestSelected
<1> QED
  BY <1>2, <1>4, <1>5, <1>6, <1>7

(* A comparison, or the first scan, is over: the scan becomes the old one. *)
LEMMA ScanEnds ==
  ASSUME IInv, FirstScan \/ Send
  PROVE  IInv'
<1> USE DEF IInv
<1>1. /\ pc' = "idle" /\ old' = new /\ settled' = AsSeen
      /\ UNCHANGED <<procs, unused, events, todo, new, slices, cons, selected>>
  BY DEF FirstScan, Send, system
<1>2. TypeOK'
  <2>1. settled' \subseteq Pids
    BY <1>1 DEF AsSeen, TypeOK, Process
  <2>2. rounds' \in 0..(MaxRounds + 1)
    BY DEF FirstScan, Send, TypeOK, ScansInv
  <2> QED
    BY <1>1, <2>1, <2>2 DEF TypeOK
<1>3. TreeInv'
  BY <1>1 DEF TreeInv, Has
<1>4. ScansInv'
  <2>1. \A n \in new : n.cpu \in Nat
    BY DEF TypeOK, Process
  <2> QED
    BY <1>1, <2>1 DEF ScansInv, Has
<1>5. SettledInv'
  <2>1. \A i \in settled' : \E p \in procs : p.pid = i /\ \E n \in new : Same(n, p)
    BY <1>1 DEF AsSeen, Same
  <2> QED
    BY <1>1, <2>1 DEF SettledInv, Same
<1>6. ConsInv' /\ HeaviestSelected'
  BY <1>1 DEF ConsInv, HeaviestSelected
<1> QED
  BY <1>2, <1>3, <1>4, <1>5, <1>6

(* What the steps between two scans leave alone. *)
LEMMA ScansKept ==
  ASSUME IInv, UNCHANGED <<procs, unused, todo, old, new, settled, rounds>>, todo = {}, pc # "idle"
  PROVE  TreeInv' /\ ScansInv' /\ SettledInv'
BY DEF IInv, TreeInv, ScansInv, SettledInv, Has, Same

LEMMA CompareStep ==
  ASSUME IInv, Compare
  PROVE  IInv'
<1>1. /\ pc # "idle" /\ todo = {} /\ pc' = "consolidating" /\ slices' = Children(0)
      /\ cons' = NoEntries /\ selected' = {}
      /\ UNCHANGED <<procs, unused, events, todo, old, new, rounds, settled>>
  BY DEF Compare, system
<1>2. /\ Used \subseteq Usage
      /\ \A d, e \in Used : d.pid = e.pid => d = e
      /\ Used' = Used /\ Rooted' = Rooted
  BY <1>1, UsedFacts, ScansStay DEF IInv
<1>3. DOMAIN NoEntries = {}
  BY DEF NoEntries
<1>4. TypeOK'
  BY <1>1, <1>2, <1>3 DEF IInv, TypeOK, Children, Usage
<1>5. TreeInv' /\ ScansInv' /\ SettledInv'
  BY <1>1, ScansKept
<1>6. ConsInv'
  <2>1. Closed(Rooted) /\ Rooted \subseteq Used
    BY <1>2, RootedLeast
  <2>2. slices' \subseteq Rooted
    BY <1>1, <2>1 DEF Children, Closed
  <2>3. Frontier({})'
    BY <1>1, <1>2 DEF Frontier, Children, Has
  <2>4. Entries({}, {})'
    BY <1>1, <1>3 DEF Entries
  <2>5. IsFiniteSet(DOMAIN cons')
    BY <1>1, <1>3, FS_EmptySet
  <2> QED
    BY <1>1, <1>2, <2>2, <2>3, <2>4, <2>5 DEF ConsInv
<1> QED
  BY <1>1, <1>4, <1>5, <1>6 DEF IInv, HeaviestSelected

(* consolidate goes on: p was seen and its children are next. *)
LEMMA FrontierMoves ==
  ASSUME IInv, NEW p \in slices, Consolidate(p), NEW seen \in SUBSET Rooted, Frontier(seen)
  PROVE  /\ p \in Rooted /\ slices' \subseteq Rooted
         /\ Frontier(seen \cup {p})'
         /\ Used' = Used /\ Rooted' = Rooted
<1>1. /\ pc = "consolidating"
      /\ slices' = (slices \ {p}) \cup Children(p.pid)
      /\ UNCHANGED <<pc, old, new>>
  BY DEF Consolidate, Descend
<1>2. /\ Used \subseteq Usage
      /\ \A d, e \in Used : d.pid = e.pid => d = e
      /\ Used' = Used /\ Rooted' = Rooted
  BY <1>1, UsedFacts, ScansStay DEF IInv
<1>3. Closed(Rooted) /\ Rooted \subseteq Used
  BY <1>2, RootedLeast
<1>4. p \in Rooted /\ slices \subseteq Rooted
  BY <1>1 DEF IInv, ConsInv
<1>5. Children(p.pid) \subseteq Rooted
  BY <1>3, <1>4 DEF Children, Closed, Has
<1>6. \A d \in Used : d.pid # 0
  BY <1>2 DEF Usage
<1>7. p \in Used /\ p \notin seen /\ seen \subseteq Used
  BY <1>3, <1>4 DEF Frontier
<1>8. \A e \in seen : e.pid # p.pid
  BY <1>2, <1>7
<1>9. \A d \in Children(p.pid) : d \notin seen /\ d # p
  <2>1. SUFFICES ASSUME NEW d \in Children(p.pid), d \in seen \/ d = p PROVE FALSE
    OBVIOUS
  <2>2. d \in Used /\ d.ppid = p.pid /\ d \in seen \cup slices
    BY <2>1 DEF Children
  <2>3. Has(seen, p.pid)
    BY <1>6, <1>7, <2>2 DEF Frontier
  <2> QED
    BY <1>8, <2>3 DEF Has
<1>10. (seen \cup {p}) \cap slices' = {}
  BY <1>1, <1>9 DEF Frontier
<1>11. ASSUME NEW d \in Used
       PROVE  d \in (seen \cup {p}) \cup slices' <=> d.ppid = 0 \/ Has(seen \cup {p}, d.ppid)
  <2>1. d \in seen \cup slices <=> d.ppid = 0 \/ Has(seen, d.ppid)
    BY DEF Frontier
  <2>2. Has(seen \cup {p}, d.ppid) <=> Has(seen, d.ppid) \/ d.ppid = p.pid
    BY DEF Has
  <2>3. d \in (seen \cup {p}) \cup slices' <=> d \in seen \cup slices \/ d.ppid = p.pid
    BY <1>1 DEF Children
  <2> QED
    BY <2>1, <2>2, <2>3
<1> QED
  BY <1>1, <1>2, <1>4, <1>5, <1>10, <1>11 DEF Frontier

(* Where consolidate is, seen from the process it comes to. *)
LEMMA ComesTo ==
  ASSUME IInv, pc = "consolidating", NEW p \in slices, NEW seen \in SUBSET Rooted, Frontier(seen)
  PROVE  /\ seen \subseteq Used /\ p \in Usage /\ p \notin seen
         /\ \A d, e \in Used : d.pid = e.pid => d = e
         /\ \A e \in seen : e.pid # p.pid /\ e.ppid # p.pid
         /\ p.ppid # p.pid
<1>1. /\ Used \subseteq Usage
      /\ \A d, e \in Used : d.pid = e.pid => d = e
  BY UsedFacts DEF IInv
<1>2. Rooted \subseteq Used /\ slices \subseteq Rooted
  BY <1>1, RootedLeast DEF IInv, ConsInv
<1>3. p \in Used /\ p \in Usage /\ seen \subseteq Used /\ p \notin seen
  BY <1>1, <1>2 DEF Frontier
<1>4. \A e \in seen : e.pid # p.pid
  BY <1>1, <1>3
<1>5. p.pid # 0
  BY <1>3 DEF Usage
<1>6. ASSUME NEW e \in Used, e \in seen \cup slices, e.ppid = p.pid PROVE FALSE
  <2>1. Has(seen, p.pid)
    BY <1>5, <1>6 DEF Frontier
  <2> QED
    BY <1>4, <2>1 DEF Has
<1> QED
  BY <1>1, <1>3, <1>4, <1>6

(* The use of a child is added to the entry of its parent. *)
LEMMA AddedShares ==
  ASSUME IInv, NEW p \in slices, AddToParent(p),
         NEW seen \in SUBSET Rooted, Frontier(seen),
         NEW leads \in SUBSET seen, Entries(seen, leads),
         \A d \in leads : IsFiniteSet(Ticks(Share(seen, leads, d)))
  PROVE  /\ Entries(seen \cup {p}, leads)'
         /\ \A d \in leads : IsFiniteSet(Ticks(Share(seen \cup {p}, leads, d)))
<1>1. /\ ParentKey(p) \in DOMAIN cons
      /\ cons' = [cons EXCEPT ![ParentKey(p)] = @ + p.load]
      /\ pc = "consolidating"
  BY DEF AddToParent, Consolidate
<1>2. /\ seen \subseteq Used /\ p \in Usage /\ p \notin seen
      /\ \A d, e \in Used : d.pid = e.pid => d = e
      /\ \A e \in seen : e.pid # p.pid /\ e.ppid # p.pid
  BY <1>1, ComesTo
<1>3. PICK l \in leads : l.comm = p.comm /\ l.pid = p.ppid
  <2>1. PICK l \in leads : ParentKey(p) = OwnKey(l)
    BY <1>1 DEF Entries
  <2> QED
    BY <2>1 DEF ParentKey, OwnKey
<1>4. \A d \in leads : d # l => d.pid # p.ppid
  BY <1>2, <1>3
<1>5. \A d \in leads :
        Share(seen \cup {p}, leads, d) = Share(seen, leads, d) \cup (IF d = l THEN {p} ELSE {})
  BY <1>2, <1>3, <1>4 DEF Share
<1>6. \A d \in leads : \A e \in Share(seen, leads, d) : e.pid # p.pid
  BY <1>2 DEF Share
<1>7. p.load \in Nat
  BY <1>2 DEF Usage
<1>8. ASSUME NEW d \in leads
      PROVE  /\ IsFiniteSet(Ticks(Share(seen \cup {p}, leads, d)))
             /\ Cardinality(Ticks(Share(seen \cup {p}, leads, d))) =
                  Cardinality(Ticks(Share(seen, leads, d))) + (IF d = l THEN p.load ELSE 0)
  <2>1. CASE d = l
    <3>1. Share(seen \cup {p}, leads, d) = Share(seen, leads, d) \cup {p}
      BY <1>5, <2>1
    <3> QED
      BY <1>6, <1>7, <2>1, <3>1, TicksGrow
  <2>2. CASE d # l
    <3>1. Share(seen \cup {p}, leads, d) = Share(seen, leads, d)
      BY <1>5, <2>2
    <3>2. Cardinality(Ticks(Share(seen, leads, d))) \in Nat
      BY FS_CardinalityType
    <3> QED
      BY <2>2, <3>1, <3>2
  <2> QED
    BY <2>1, <2>2
<1>9. ASSUME NEW d \in leads
      PROVE  cons'[OwnKey(d)] = cons[OwnKey(d)] + (IF d = l THEN p.load ELSE 0)
  <2>1. OwnKey(d) \in DOMAIN cons /\ cons[OwnKey(d)] \in Nat
    BY DEF Entries, IInv, TypeOK
  <2>2. OwnKey(d) = ParentKey(p) <=> d = l
    BY <1>3, <1>4 DEF OwnKey, ParentKey
  <2> QED
    BY <1>1, <2>1, <2>2
<1>10. DOMAIN cons' = {OwnKey(d) : d \in leads}
  BY <1>1 DEF Entries
<1>11. \A d \in leads : cons'[OwnKey(d)] = Cardinality(Ticks(Share(seen \cup {p}, leads, d)))
  BY <1>8, <1>9 DEF Entries
<1>12. \A d \in seen \cup {p} :
         d \in leads <=> ~\E e \in leads : e.pid = d.ppid /\ e.comm = d.comm
  BY <1>2, <1>3 DEF Entries
<1> QED
  BY <1>8, <1>10, <1>11, <1>12 DEF Entries

(* A process whose parent has no entry of its name gets an entry. *)
LEMMA NewShares ==
  ASSUME IInv, NEW p \in slices, NewEntry(p),
         NEW seen \in SUBSET Rooted, Frontier(seen),
         NEW leads \in SUBSET seen, Entries(seen, leads),
         \A d \in leads : IsFiniteSet(Ticks(Share(seen, leads, d)))
  PROVE  /\ Entries(seen \cup {p}, leads \cup {p})'
         /\ \A d \in leads \cup {p} : IsFiniteSet(Ticks(Share(seen \cup {p}, leads \cup {p}, d)))
<1> DEFINE more == seen \cup {p}
           now == leads \cup {p}
<1>1. /\ ParentKey(p) \notin DOMAIN cons
      /\ cons' = [k \in DOMAIN cons \cup {OwnKey(p)} |-> IF k = OwnKey(p) THEN p.load ELSE cons[k]]
      /\ pc = "consolidating"
  BY DEF NewEntry, Consolidate
<1>2. /\ seen \subseteq Used /\ p \in Usage /\ p \notin seen
      /\ \A e \in seen : e.pid # p.pid /\ e.ppid # p.pid
      /\ p.ppid # p.pid
  BY <1>1, ComesTo
<1>3. ~\E e \in leads : e.pid = p.ppid /\ e.comm = p.comm
  BY <1>1 DEF Entries, OwnKey, ParentKey
<1>4. \A d \in leads : Share(more, now, d) = Share(seen, leads, d)
  BY <1>2 DEF Share
<1>5. Share(more, now, p) = {p}
  BY <1>2 DEF Share
<1>6. p.load \in Nat
  BY <1>2 DEF Usage
<1>7. IsFiniteSet(Ticks({p})) /\ Cardinality(Ticks({p})) = p.load
  BY <1>6, TicksOfOne
<1>8. \A d \in leads : OwnKey(d) # OwnKey(p)
  BY <1>2 DEF OwnKey
<1>9. \A d \in leads : cons'[OwnKey(d)] = cons[OwnKey(d)]
  BY <1>1, <1>8 DEF Entries
<1>10. cons'[OwnKey(p)] = p.load
  BY <1>1
<1>11. DOMAIN cons' = {OwnKey(d) : d \in now}
  BY <1>1 DEF Entries
<1>12. \A d \in now : cons'[OwnKey(d)] = Cardinality(Ticks(Share(more, now, d)))
  BY <1>4, <1>5, <1>7, <1>9, <1>10 DEF Entries
<1>13. ASSUME NEW d \in more
       PROVE  d \in now <=> ~\E e \in now : e.pid = d.ppid /\ e.comm = d.comm
  <2>1. CASE d = p
    BY <1>2, <1>3, <2>1
  <2>2. CASE d \in seen
    BY <1>2, <2>2 DEF Entries
  <2> QED
    BY <2>1, <2>2
<1>14. \A d \in now : IsFiniteSet(Ticks(Share(more, now, d)))
  BY <1>4, <1>5, <1>7
<1> HIDE DEF more, now
<1>15. Entries(more, now)'
  BY <1>11, <1>12, <1>13 DEF Entries
<1> QED
  BY <1>14, <1>15 DEF more, now

LEMMA ConsolidateStep ==
  ASSUME IInv, NEW p \in slices, AddToParent(p) \/ NewEntry(p)
  PROVE  IInv'
<1>1. /\ Consolidate(p) /\ pc = "consolidating" /\ pc' = "consolidating" /\ todo = {}
      /\ UNCHANGED <<procs, unused, events, todo, old, new, rounds, settled>>
  BY DEF AddToParent, NewEntry, Consolidate, system, IInv, SettledInv
<1>2. PICK seen \in SUBSET Rooted :
        /\ Frontier(seen)
        /\ \E leads \in SUBSET seen :
             /\ Entries(seen, leads)
             /\ \A d \in leads : IsFiniteSet(Ticks(Share(seen, leads, d)))
  BY <1>1 DEF IInv, ConsInv
<1>3. PICK leads \in SUBSET seen :
        /\ Entries(seen, leads)
        /\ \A d \in leads : IsFiniteSet(Ticks(Share(seen, leads, d)))
  BY <1>2
<1>4. /\ p \in Rooted /\ slices' \subseteq Rooted
      /\ Frontier(seen \cup {p})'
      /\ Used' = Used /\ Rooted' = Rooted
  BY <1>1, <1>2, FrontierMoves
<1>5. /\ Used \subseteq Usage
      /\ \A d, e \in Used : d.pid = e.pid => d = e
  BY UsedFacts DEF IInv
<1>6. Rooted \subseteq Used
  BY <1>5, RootedLeast
<1>7. p \in Usage /\ slices' \subseteq Usage
  BY <1>4, <1>5, <1>6
<1>8. \E now \in SUBSET (seen \cup {p}) :
        /\ Entries(seen \cup {p}, now)'
        /\ \A d \in now : IsFiniteSet(Ticks(Share(seen \cup {p}, now, d)))
  <2>1. CASE AddToParent(p)
    <3>1. /\ Entries(seen \cup {p}, leads)'
          /\ \A d \in leads : IsFiniteSet(Ticks(Share(seen \cup {p}, leads, d)))
      BY <1>2, <1>3, <2>1, AddedShares
    <3> QED
      BY <3>1
  <2>2. CASE NewEntry(p)
    <3>1. /\ Entries(seen \cup {p}, leads \cup {p})'
          /\ \A d \in leads \cup {p} : IsFiniteSet(Ticks(Share(seen \cup {p}, leads \cup {p}, d)))
      BY <1>2, <1>3, <2>2, NewShares
    <3> QED
      BY <3>1
  <2> QED
    BY <2>1, <2>2
<1>9. /\ IsFiniteSet(DOMAIN cons') /\ DOMAIN cons' \subseteq Comms \X Pids
      /\ \A k \in DOMAIN cons' : cons'[k] \in Nat
      /\ selected' \subseteq DOMAIN cons'
  <2>1. p.comm \in Comms /\ p.pid \in Pids /\ p.load \in Nat
    BY <1>7 DEF Usage
  <2>2. /\ IsFiniteSet(DOMAIN cons) /\ DOMAIN cons \subseteq Comms \X Pids
        /\ \A k \in DOMAIN cons : cons[k] \in Nat
        /\ selected \subseteq DOMAIN cons
    BY DEF IInv, ConsInv, TypeOK
  <2>3. CASE AddToParent(p)
    BY <2>1, <2>2, <2>3 DEF AddToParent
  <2>4. CASE NewEntry(p)
    <3>1. /\ DOMAIN cons' = DOMAIN cons \cup {OwnKey(p)}
          /\ \A k \in DOMAIN cons' : cons'[k] \in Nat
          /\ selected' \subseteq DOMAIN cons'
      BY <2>1, <2>2, <2>4 DEF NewEntry
    <3>2. IsFiniteSet(DOMAIN cons \cup {OwnKey(p)})
      BY <2>2, FS_AddElement
    <3> QED
      BY <2>1, <2>2, <3>1, <3>2 DEF OwnKey
  <2> QED
    BY <2>3, <2>4
<1>10. TypeOK'
  BY <1>1, <1>7, <1>9 DEF IInv, TypeOK, Usage
<1>11. TreeInv' /\ ScansInv' /\ SettledInv'
  BY <1>1, ScansKept
<1>12. ConsInv'
  <2>1. seen \cup {p} \in SUBSET Rooted'
    BY <1>4
  <2> QED
    BY <1>1, <1>4, <1>8, <1>9, <2>1 DEF ConsInv
<1> QED
  BY <1>1, <1>10, <1>11, <1>12 DEF IInv, HeaviestSelected

(* What the loop over the sorted entries leaves out is lighter than all of *)
(* the TopN + 2 entries that it came to.                                   *)
LEMMA SelectStep ==
  ASSUME IInv, Select
  PROVE  IInv'
<1> DEFINE keys == {k \in DOMAIN cons : cons[k] >= Threshold}
<1>1. /\ pc = "consolidating" /\ pc' = "sending" /\ slices = {} /\ todo = {}
      /\ UNCHANGED <<procs, unused, events, todo, old, new, rounds, slices, cons, settled>>
  BY DEF Select, system, IInv, SettledInv
<1>2. PICK top \in Top(keys) : selected' = selected \cup {k \in top : k[1] \notin Blacklist}
  BY DEF Select
<1>3. /\ top \subseteq keys /\ Cardinality(top) = Loops(keys)
      /\ \A a \in top, b \in keys \ top : cons[a] >= cons[b]
  BY DEF Top
<1>4. TypeOK'
  BY <1>1, <1>2, <1>3 DEF IInv, TypeOK
<1>5. TreeInv' /\ ScansInv' /\ SettledInv'
  BY <1>1, ScansKept
<1>6. ConsInv'
  <2>1. Used' = Used /\ Rooted' = Rooted
    BY <1>1, ScansStay
  <2>2. \A seen : Frontier(seen)' <=> Frontier(seen)
    BY <1>1, <2>1 DEF Frontier
  <2>3. \A seen, leads : Entries(seen, leads)' <=> Entries(seen, leads)
    BY <1>1 DEF Entries
  <2> QED
    BY <1>1, <2>1, <2>2, <2>3 DEF IInv, ConsInv
<1>7. ASSUME NEW k \in DOMAIN cons \ selected', cons[k] >= Threshold, k[1] \notin Blacklist
      PROVE  Cardinality({j \in DOMAIN cons \ {k} : cons[j] >= cons[k]}) >= TopN
  <2> DEFINE heavier == {j \in DOMAIN cons \ {k} : cons[j] >= cons[k]}
  <2>1. k \in keys \ top
    BY <1>2, <1>7
  <2>2. IsFiniteSet(DOMAIN cons)
    BY DEF IInv, ConsInv
  <2>3. IsFiniteSet(keys) /\ Cardinality(keys) \in Nat
    BY <2>2, FS_Subset, FS_CardinalityType
  <2>4. top \subseteq heavier
    BY <1>3, <2>1
  <2>5. IsFiniteSet(heavier)
    BY <2>2, FS_Subset
  <2> HIDE DEF keys, heavier
  <2>6. Cardinality(keys) # Cardinality(top)
    BY <1>3, <2>1, <2>3, FS_Subset
  <2>7. Cardinality(top) = TopN + 2
    BY <1>3, <2>3, <2>6 DEF Loops
  <2>8. Cardinality(top) <= Cardinality(heavier) /\ Cardinality(heavier) \in Nat
    BY <2>4, <2>5, FS_Subset, FS_CardinalityType
  <2>9. Cardinality(heavier) >= TopN
    BY <2>7, <2>8
  <2> QED
    BY <2>9 DEF heavier
<1>8. HeaviestSelected'
  BY <1>1, <1>7 DEF HeaviestSelected
<1> QED
  BY <1>4, <1>5, <1>6, <1>8 DEF IInv

LEMMA Initially == Init => IInv
<1> SUFFICES ASSUME Init PROVE IInv
  OBVIOUS
<1>1. PICK live \in {s \in SUBSET Pids : 1 \in s} :
        \E comm \in [live -> Comms], ppid \in [live -> live \cup {0}] :
          /\ ppid[1] = 0 /\ \A i \in live \ {1} : ppid[i] \in 1..(i - 1)
          /\ procs = {[pid |-> i, comm |-> comm[i], ppid |-> ppid[i], cpu |-> 0] : i \in live}
          /\ unused = {i \in Pids : \A j \in live : i > j}
  BY DEF Init
<1>2. PICK comm \in [live -> Comms], ppid \in [live -> live \cup {0}] :
        /\ ppid[1] = 0 /\ \A i \in live \ {1} : ppid[i] \in 1..(i - 1)
        /\ procs = {[pid |-> i, comm |-> comm[i], ppid |-> ppid[i], cpu |-> 0] : i \in live}
        /\ unused = {i \in Pids : \A j \in live : i > j}
  BY <1>1
<1>3. /\ events = 0 /\ pc = "idle" /\ todo = {} /\ old = {} /\ new = {} /\ rounds = 0
      /\ slices = {} /\ cons = NoEntries /\ selected = {} /\ settled = {}
  BY DEF Init
<1>4. \A i \in live : i \in Pids /\ i \in Nat \ {0} /\ ppid[i] < i
  BY <1>2
<1>5. ASSUME NEW p \in procs
      PROVE  /\ p \in Process /\ p.pid \in live /\ p.ppid < p.pid
             /\ p = [pid |-> p.pid, comm |-> comm[p.pid], ppid |-> ppid[p.pid], cpu |-> 0]
  <2>1. PICK i \in live : p = [pid |-> i, comm |-> comm[i], ppid |-> ppid[i], cpu |-> 0]
    BY <1>2
  <2> QED
    BY <1>4, <2>1 DEF Process
<1>6. DOMAIN cons = {} /\ IsFiniteSet(DOMAIN cons)
  <2>1. DOMAIN cons = {}
    BY <1>3 DEF NoEntries
  <2> QED
    BY <2>1, FS_EmptySet
<1>7. TypeOK
  <2>1. procs \subseteq Process /\ \A p, q \in procs : p.pid = q.pid => p = q
    BY <1>5
  <2>2. unused \subseteq Pids
    BY <1>2
  <2> QED
    BY <1>3, <1>6, <2>1, <2>2 DEF TypeOK
<1>8. TreeInv
  <2>1. \A i \in unused, p \in procs : p.pid < i
    BY <1>2, <1>4, <1>5
  <2> QED
    BY <1>3, <1>5, <2>1 DEF TreeInv, Has
<1> QED
  BY <1>3, <1>6, <1>7, <1>8 DEF IInv, ScansInv, SettledInv, ConsInv, HeaviestSelected

LEMMA Step == IInv /\ [Next]_vars => IInv'
<1> SUFFICES ASSUME IInv, [Next]_vars PROVE IInv'
  OBVIOUS
<1>1. CASE System
  BY <1>1, SystemStep
<1>2. CASE Readdir
  BY <1>2, ReaddirStep
<1>3. ASSUME NEW i \in Pids, ReadPid(i) PROVE IInv'
  BY <1>3, ReadPidStep
<1>4. CASE FirstScan \/ Send
  BY <1>4, ScanEnds
<1>5. CASE Compare
  BY <1>5, CompareStep
<1>6. ASSUME NEW p \in slices, AddToParent(p) \/ NewEntry(p) PROVE IInv'
  BY <1>6, ConsolidateStep
<1>7. CASE Select
  BY <1>7, SelectStep
<1>8. CASE UNCHANGED vars
  <2>1. UNCHANGED <<procs, unused, events, pc, todo, old, new, rounds, slices, cons, selected, settled>>
    BY <1>8 DEF vars
  <2>2. ConsInv'
    BY <2>1, ConsStays DEF IInv
  <2>3. TypeOK' /\ TreeInv' /\ ScansInv' /\ SettledInv' /\ HeaviestSelected'
    BY <2>1 DEF IInv, TypeOK, TreeInv, ScansInv, SettledInv, HeaviestSelected, Has, Same
  <2> QED
    BY <2>2, <2>3 DEF IInv
<1> QED
  BY <1>1, <1>2, <1>3, <1>4, <1>5, <1>6, <1>7, <1>8 DEF Next, Over

(* The inductive invariant of the scans, of the trees and of what consolidate did. *)
THEOREM Invariance == Spec => []IInv
<1> QED
  BY Initially, Step, PTL DEF Spec

(* The scans, the trees and the entries have their types, whatever processes do. *)
THEOREM TypeCorrect == Spec => []TypeOK
<1>1. IInv => TypeOK
  BY DEF IInv
<1> QED
  BY <1>1, Invariance, PTL

(* An entry over the threshold that is neither reported nor blacklisted has *)
(* at least TopN others as heavy.                                           *)
THEOREM HeaviestSelectedHolds == Spec => []HeaviestSelected
<1>1. IInv => HeaviestSelected
  BY DEF IInv
<1> QED
  BY <1>1, Invariance, PTL

(* Every process that consolidate came to is rooted, and when it is over   *)
(* it came to all of them.                                                 *)
LEMMA AllSeen == IInv => Consolidated
<1> SUFFICES ASSUME IInv, pc = "sending"
             PROVE  \E leads \in SUBSET Rooted : Entries(Rooted, leads)
  BY DEF Consolidated
<1>1. PICK seen \in SUBSET Rooted :
        Frontier(seen) /\ \E leads \in SUBSET seen : Entries(seen, leads)
  BY DEF IInv, ConsInv
<1>2. slices = {}
  BY DEF IInv, ConsInv
<1>3. /\ Rooted \subseteq Used
      /\ \A set \in SUBSET Used : Closed(set) => Rooted \subseteq set
  BY UsedFacts, RootedLeast DEF IInv
<1>4. Closed(seen)
  BY <1>1, <1>2 DEF Closed, Frontier
<1>5. seen = Rooted
  BY <1>1, <1>3, <1>4
<1> QED
  BY <1>1, <1>5

(* The entries are the sums of the processes that belong to them, in       *)
(* whatever order consolidate went through the trees.                      *)
THEOREM ConsolidatedHolds == Spec => []Consolidated
BY AllSeen, Invariance, PTL

(* No least process of a settled tree is lost, so none is. *)
LEMMA SettledRooted == IInv => NoSettledLoss
<1> SUFFICES ASSUME IInv, pc = "sending", NEW set \in SUBSET settled,
                    \A i \in set : The(procs, i).ppid = 0 \/ The(procs, i).ppid \in set
             PROVE  \A i \in set : Has(Rooted, i)
  BY DEF NoSettledLoss, SettledTree
<1> DEFINE lost == {i \in set : ~Has(Rooted, i)}
<1>1. SUFFICES ASSUME lost # {} PROVE FALSE
  OBVIOUS
<1>2. lost \subseteq Nat
  BY DEF IInv, TypeOK
<1>3. PICK i \in lost : \A j \in lost : <<j, i>> \notin OpToRel(<, Nat)
  BY <1>1, <1>2, WFMin, NatLessThanWellFounded
<1>4. \A j \in lost : ~(j < i)
  BY <1>2, <1>3 DEF OpToRel
<1>5. PICK p \in procs :
        /\ p.pid = i
        /\ \E o \in old : Same(o, p)
        /\ \E n \in new : Same(n, p)
  BY DEF IInv, SettledInv
<1>6. The(procs, i) = p
  <2>1. \A q \in procs : q.pid = i => q = p
    BY <1>5 DEF IInv, TypeOK
  <2> QED
    BY <1>5, <2>1 DEF The
<1>7. PICK d \in Used : d.pid = i /\ d.ppid = p.ppid
  <2>1. PICK o \in old, n \in new : Same(o, p) /\ Same(n, p)
    BY <1>5
  <2>2. PICK d \in Used : Same(d, n)
    BY <2>1, UsedFacts DEF Same, IInv
  <2> QED
    BY <1>5, <2>1, <2>2 DEF Same
<1>8. d.ppid = 0 \/ Has(Rooted, d.ppid)
  <2>1. p.ppid = 0 \/ p.ppid \in set
    BY <1>6
  <2>2. p.ppid < i
    BY <1>5 DEF IInv, TreeInv
  <2> QED
    BY <1>4, <1>7, <2>1, <2>2
<1>9. d \in Rooted
  BY <1>8, UsedFacts, RootedLeast DEF Closed, IInv
<1> QED
  BY <1>7, <1>9 DEF Has

(* What a process of a settled tree used is in the entries of the report,  *)
(* whatever other processes do during the two scans.                       *)
THEOREM NoSettledLossHolds == Spec => []NoSettledLoss
BY SettledRooted, Invariance, PTL
=============================================================================
