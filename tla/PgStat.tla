------------------------------ MODULE PgStat ------------------------------
(***************************************************************************)
(* DoCollectPGStat keeps the last sample of the statistics and the one     *)
(* being read in two maps that change places after every round.  The keys  *)
(* are those of databases, tables and statements, whose rows come and go   *)
(* (pg_stat_statements shows the first hundred); a map is never cleared.   *)
(*                                                                         *)
(* The counters are modelled; gauges are sent as they stand in the map.    *)
(***************************************************************************)
EXTENDS Naturals, FiniteSets

CONSTANTS
  Keys,       \* the names of metrics
  MaxValue,   \* bound on the counters
  MaxTime     \* bound on the clock

ASSUME ConstantsAssumption == MaxValue \in Nat /\ MaxTime \in Nat \ {0}

VARIABLES
  now,        \* the clock: one instant for the queries of a ReadPGStat
  rows,       \* the counters Postgres shows, or Hidden
  heap,       \* the two maps
  oldmap,     \* which of them OldPGStat holds
  newmap,     \* which of them NewPGStat holds
  pc,         \* "start", "sleep" or "send"
  batch,      \* the rates of the round: growth between two instants
  last, this  \* history: what the last two successful ReadPGStat read, and when

vars == <<now, rows, heap, oldmap, newmap, pc, batch, last, this>>

Hidden == MaxValue + 1
Maps == {1, 2}
NoValue == [value |-> 0, ts |-> 0]    \* a key that is not in the map: no ts is 0
EmptyMap == [k \in Keys |-> NoValue]
NothingRead == [ts |-> 0, values |-> [k \in Keys |-> Hidden]]

Init ==
  /\ now = 1
  /\ rows \in [Keys -> 0..Hidden]
  /\ heap = [m \in Maps |-> EmptyMap]
  /\ oldmap = 1 /\ newmap = 2
  /\ pc = "start"
  /\ batch = {}
  /\ last = NothingRead /\ this = NothingRead

(* Statements and tables are run, dropped, and reset by an administrator.  *)
Database ==
  /\ \E k \in Keys, v \in 0..Hidden :
       /\ \/ v = rows[k] + 1    \* a row shows growth, or is hidden at last
          \/ v \in {0, Hidden}
          \/ rows[k] = Hidden
       /\ rows' = [rows EXCEPT ![k] = v]
  /\ UNCHANGED <<now, heap, oldmap, newmap, pc, batch, last, this>>

(* What a ReadPGStat that got to the rows of some keys leaves in map m.    *)
Updated(m, keys) ==
  [k \in Keys |-> IF k \in keys THEN [value |-> rows[k], ts |-> now] ELSE m[k]]

(* The keys a ReadPGStat may get to.  A query that fails to start ends it  *)
(* with an error, unless it is one of the last four; rows that cannot be   *)
(* scanned, and a connection that breaks between rows, end a query with    *)
(* no error at all.                                                        *)
Readable == SUBSET {k \in Keys : rows[k] # Hidden}

ReadRecord(keys) == [ts |-> now, values |-> [k \in Keys |-> IF k \in keys THEN rows[k] ELSE Hidden]]

Baseline ==
  /\ pc = "start" /\ now < MaxTime
  /\ \E keys \in Readable :
       /\ heap' = [m \in Maps |-> IF m = 1 THEN Updated(EmptyMap, keys) ELSE EmptyMap]
       /\ this' = ReadRecord(keys)
  /\ oldmap' = 1 /\ newmap' = 2
  /\ pc' = "sleep"
  /\ now' = now + 1
  /\ UNCHANGED <<rows, batch, last>>

(* Fault: a decreasing counter is not skipped. *)
SendsDecreasing(o, v) == o.ts # 0

(* The key was in both maps, and the counter did not decrease. *)
Sends(o, v) == o.ts # 0 /\ o.value <= v.value

(* The rates of a round: value and ts of both maps, whichever round left   *)
(* them there.                                                             *)
Rates(old, new) ==
  {[key |-> k, growth |-> new[k].value - old[k].value, from |-> old[k].ts, to |-> new[k].ts] :
     k \in {j \in Keys : new[j].ts # 0 /\ Sends(old[j], new[j])}}

(* Fault: both variables hold the same map from now on. *)
AssignMaps == oldmap' = newmap /\ newmap' = newmap

SwapMaps == oldmap' = newmap /\ newmap' = oldmap

(* Fault: the maps change places before the error is looked at. *)
RetryAfterSwap == SwapMaps

(* "Can't read postgres stats, try later" *)
Retry == UNCHANGED <<oldmap, newmap>>

ReadFails ==
  /\ pc = "sleep" /\ now < MaxTime
  /\ \E keys \in Readable : heap' = [heap EXCEPT ![newmap] = Updated(@, keys)]
  /\ Retry
  /\ now' = now + 1
  /\ UNCHANGED <<rows, pc, batch, last, this>>

Read ==
  /\ pc = "sleep" /\ now < MaxTime
  /\ \E keys \in Readable :
       /\ heap' = [heap EXCEPT ![newmap] = Updated(@, keys)]
       /\ this' = ReadRecord(keys)
  /\ batch' = Rates(heap'[oldmap], heap'[newmap])
  /\ SwapMaps
  /\ last' = this
  /\ pc' = "send"
  /\ now' = now + 1
  /\ UNCHANGED rows

Send ==
  /\ pc = "send"
  /\ pc' = "sleep"
  /\ batch' = {}
  /\ UNCHANGED <<now, rows, heap, oldmap, newmap, last, this>>

(* A first read that fails ends DoCollectPGStat, which CollectPGStat calls *)
(* again with new maps.                                                    *)
BaselineFails ==
  /\ pc = "start" /\ now < MaxTime
  /\ now' = now + 1
  /\ UNCHANGED <<rows, heap, oldmap, newmap, pc, batch, last, this>>

Next == Database \/ Baseline \/ BaselineFails \/ ReadFails \/ Read \/ Send

Spec == Init /\ [][Next]_vars
-----------------------------------------------------------------------------
Values == [value: 0..MaxValue, ts: 0..MaxTime]
ReadRecords == [ts: 0..MaxTime, values: [Keys -> 0..Hidden]]

TypeOK ==
  /\ now \in 1..MaxTime
  /\ rows \in [Keys -> 0..Hidden]
  /\ heap \in [Maps -> [Keys -> Values]]
  /\ oldmap \in Maps /\ newmap \in Maps
  /\ pc \in {"start", "sleep", "send"}
  /\ batch \subseteq [key: Keys, growth: 0..MaxValue, from: 1..MaxTime, to: 1..MaxTime]
  /\ last \in ReadRecords /\ this \in ReadRecords

(* A counter read in two successive successful rounds is reported with its *)
(* growth over exactly the time between them, unless it fell; whatever     *)
(* rounds failed half-way in between, and whatever the reused maps still   *)
(* hold.                                                                   *)
ReadTwiceExact ==
  pc = "send" =>
    \A k \in {j \in Keys : last.values[j] # Hidden /\ this.values[j] # Hidden} :
      {r \in batch : r.key = k} =
        IF last.values[k] <= this.values[k]
        THEN {[key |-> k, growth |-> this.values[k] - last.values[k],
               from |-> last.ts, to |-> this.ts]}
        ELSE {}

(* The divisor v.ts - ov.ts of a rate is never 0, also for keys with stale *)
(* values on either side: a NaN would make the sender drop the batch.      *)
NoZeroDivisor == \A r \in batch : r.from # r.to

(* collect-postgres.go:967, "skipping decreasing counter": no rate is      *)
(* negative.                                                               *)
NoNegativeRate == \A r \in batch : r.growth > 0 => r.to > r.from
-----------------------------------------------------------------------------
(* The inductive invariant: the two variables never hold the same map, no  *)
(* two entries of a key are of the same instant, and the old map holds     *)
(* what the last successful round read.                                    *)
IInv ==
  /\ TypeOK
  /\ oldmap # newmap
  /\ \A m \in Maps, k \in Keys : heap[m][k].ts < now
  /\ \A k \in Keys : heap[1][k].ts = heap[2][k].ts => heap[1][k].ts = 0
  /\ pc # "start" =>
       /\ this.ts # 0
       /\ \A k \in Keys : this.values[k] # Hidden =>
            heap[oldmap][k] = [value |-> this.values[k], ts |-> this.ts]
  /\ NoZeroDivisor /\ ReadTwiceExact
=============================================================================
