---------------------------- MODULE PollerProofs ----------------------------
(***************************************************************************)
(* Proofs about the collectors that poll one server each: PgStat, for      *)
(* every set of keys and every bound on counters and clock, and Ping, for  *)
(* every number of requests and of redirects.                              *)
(***************************************************************************)
EXTENDS PgStat, Ping, TLAPS

USE ConstantsAssumption DEF ConstantsAssumption

(* A read leaves values of the right type in a map, none older than what   *)
(* the map held and each either kept or of this instant.                   *)
LEMMA UpdatedMap ==
  ASSUME TypeOK, now < MaxTime, NEW keys \in Readable, NEW m \in [Keys -> Values]
  PROVE  /\ Updated(m, keys) \in [Keys -> Values]
         /\ \A k \in keys : k \in Keys /\ rows[k] # Hidden
                              /\ Updated(m, keys)[k] = [value |-> rows[k], ts |-> now]
         /\ \A k \in Keys \ keys : Updated(m, keys)[k] = m[k]
         /\ ReadRecord(keys) \in ReadRecords
         /\ \A k \in Keys : ReadRecord(keys).values[k] # Hidden => k \in keys
         /\ \A k \in keys : ReadRecord(keys).values[k] = rows[k]
         /\ ReadRecord(keys).ts = now
<1>1. \A k \in keys : k \in Keys /\ rows[k] # Hidden
  BY DEF Readable
<1>2. now \in 0..MaxTime /\ \A k \in Keys : rows[k] \in 0..Hidden
  BY DEF TypeOK
<1>3. \A k \in keys : [value |-> rows[k], ts |-> now] \in Values
  <2> TAKE k \in keys
  <2>1. rows[k] \in 0..MaxValue
    BY <1>1, <1>2 DEF Hidden
  <2> QED
    BY <1>2, <2>1 DEF Values
<1>4. Updated(m, keys) \in [Keys -> Values]
  BY <1>3 DEF Updated
<1>5. ReadRecord(keys) \in ReadRecords
  <2>1. Hidden \in 0..Hidden
    BY DEF Hidden
  <2> QED
    BY <1>1, <1>2, <2>1 DEF ReadRecord, ReadRecords
<1> QED
  BY <1>1, <1>4, <1>5 DEF Updated, ReadRecord

LEMMA EmptyMapType ==
  /\ EmptyMap \in [Keys -> Values]
  /\ \A k \in Keys : EmptyMap[k].ts = 0
BY DEF EmptyMap, NoValue, Values

LEMMA Initially == Init => IInv
<1> SUFFICES ASSUME Init PROVE IInv
  OBVIOUS
<1>1. NothingRead \in ReadRecords
  BY DEF NothingRead, ReadRecords, Hidden
<1>2. heap \in [Maps -> [Keys -> Values]] /\ \A m \in Maps, k \in Keys : heap[m][k].ts = 0
  BY EmptyMapType DEF Init
<1>3. Init
  OBVIOUS
<1>4. TypeOK
  BY <1>1, <1>2 DEF Init, TypeOK, Maps
<1> QED
  BY <1>2, <1>4 DEF Init, IInv, NoZeroDivisor, ReadTwiceExact, Maps

LEMMA DatabaseStep == ASSUME IInv, Database PROVE IInv'
<1>1. /\ rows' \in [Keys -> 0..Hidden]
      /\ UNCHANGED <<now, heap, oldmap, newmap, pc, batch, last, this>>
  BY DEF IInv, TypeOK, Database
<1> QED
  BY <1>1 DEF IInv, TypeOK, NoZeroDivisor, ReadTwiceExact

LEMMA BaselineStep == ASSUME IInv, Baseline PROVE IInv'
<1> PICK keys \in Readable :
      /\ heap' = [m \in Maps |-> IF m = 1 THEN Updated(EmptyMap, keys) ELSE EmptyMap]
      /\ this' = ReadRecord(keys)
  BY DEF Baseline
<1>1. /\ now < MaxTime /\ now' = now + 1 /\ pc' = "sleep" /\ oldmap' = 1 /\ newmap' = 2
      /\ UNCHANGED <<rows, batch, last>>
  BY DEF Baseline
<1>2. now \in 1..MaxTime /\ TypeOK
  BY DEF IInv, TypeOK
<1> DEFINE read == Updated(EmptyMap, keys)
<1>3. /\ read \in [Keys -> Values]
      /\ \A k \in keys : k \in Keys /\ read[k] = [value |-> rows[k], ts |-> now]
      /\ \A k \in Keys \ keys : read[k] = EmptyMap[k]
      /\ ReadRecord(keys) \in ReadRecords
      /\ \A k \in Keys : ReadRecord(keys).values[k] # Hidden => k \in keys
      /\ \A k \in keys : ReadRecord(keys).values[k] = rows[k]
      /\ ReadRecord(keys).ts = now
  BY <1>1, <1>2, EmptyMapType, UpdatedMap
<1>4. heap' \in [Maps -> [Keys -> Values]] /\ heap'[1] = read /\ heap'[2] = EmptyMap
  BY <1>3, EmptyMapType DEF Maps
<1> HIDE DEF read
<1>5. \A m \in Maps, k \in Keys : heap'[m][k].ts < now'
  <2>1. \A k \in Keys : read[k].ts \in {0, now}
    <3> TAKE k \in Keys
    <3>1. CASE k \in keys
      <4>1. read[k].ts = [value |-> rows[k], ts |-> now].ts
        BY <1>3, <3>1
      <4> QED
        BY <4>1
    <3>2. CASE k \notin keys
      BY <1>3, <3>2, EmptyMapType
    <3> QED
      BY <3>1, <3>2
  <2> QED
    BY <1>1, <1>2, <1>4, <2>1, EmptyMapType DEF Maps
<1>6. \A k \in Keys : heap'[1][k].ts = heap'[2][k].ts => heap'[1][k].ts = 0
  BY <1>4, EmptyMapType
<1>7. TypeOK'
  BY <1>1, <1>2, <1>3, <1>4 DEF TypeOK, Maps
<1>8. \A k \in Keys : this'.values[k] # Hidden =>
        heap'[oldmap'][k] = [value |-> this'.values[k], ts |-> this'.ts]
  BY <1>1, <1>3, <1>4
<1>9. this'.ts # 0
  BY <1>2, <1>3
<1>10. NoZeroDivisor' /\ ReadTwiceExact'
  BY <1>1 DEF IInv, NoZeroDivisor, ReadTwiceExact
<1>11. oldmap' # newmap'
  BY <1>1
<1> QED
  BY <1>5, <1>6, <1>7, <1>8, <1>9, <1>10, <1>11 DEF IInv

(* What a read, successful or not, does to the two maps. *)
LEMMA ReadHeap ==
  ASSUME IInv, now < MaxTime, NEW keys \in Readable,
         heap' = [heap EXCEPT ![newmap] = Updated(@, keys)]
  PROVE  /\ heap' \in [Maps -> [Keys -> Values]]
         /\ heap'[oldmap] = heap[oldmap]
         /\ \A k \in keys : k \in Keys /\ rows[k] # Hidden
                              /\ heap'[newmap][k] = [value |-> rows[k], ts |-> now]
         /\ \A k \in Keys \ keys : heap'[newmap][k] = heap[newmap][k]
         /\ \A m \in Maps, k \in Keys : heap'[m][k].ts < now + 1
         /\ \A k \in Keys : heap'[1][k].ts = heap'[2][k].ts => heap'[1][k].ts = 0
<1>1. /\ heap \in [Maps -> [Keys -> Values]] /\ oldmap \in Maps /\ newmap \in Maps
      /\ oldmap # newmap /\ now \in 1..MaxTime /\ TypeOK
      /\ \A m \in Maps, k \in Keys : heap[m][k].ts < now
      /\ \A k \in Keys : heap[1][k].ts = heap[2][k].ts => heap[1][k].ts = 0
  BY DEF IInv, TypeOK
<1> DEFINE read == Updated(heap[newmap], keys)
<1>2. /\ read \in [Keys -> Values]
      /\ \A k \in keys : k \in Keys /\ rows[k] # Hidden
                           /\ read[k] = [value |-> rows[k], ts |-> now]
      /\ \A k \in Keys \ keys : read[k] = heap[newmap][k]
  BY <1>1, UpdatedMap
<1>3. /\ heap' \in [Maps -> [Keys -> Values]]
      /\ heap'[newmap] = read /\ heap'[oldmap] = heap[oldmap]
  BY <1>1, <1>2
<1> HIDE DEF read
<1>4. \A k \in Keys : read[k].ts = now \/ read[k].ts = heap[newmap][k].ts
  <2> TAKE k \in Keys
  <2>1. CASE k \in keys
    <3>1. read[k].ts = [value |-> rows[k], ts |-> now].ts
      BY <1>2, <2>1
    <3> QED
      BY <3>1
  <2>2. CASE k \notin keys
    BY <1>2, <2>2
  <2> QED
    BY <2>1, <2>2
<1>5. \A m \in Maps : m = newmap \/ m = oldmap
  BY <1>1 DEF Maps
<1>6. \A m \in Maps, k \in Keys : heap[m][k].ts \in Nat
  BY <1>1 DEF Values
<1>7. \A m \in Maps, k \in Keys : heap'[m][k].ts < now + 1
  <2> TAKE m \in Maps, k \in Keys
  <2>1. heap[m][k].ts < now /\ heap[newmap][k].ts < now
    BY <1>1
  <2>2. heap'[m][k].ts = now \/ heap'[m][k].ts = heap[m][k].ts
    BY <1>3, <1>4, <1>5
  <2> QED
    BY <1>1, <1>6, <2>1, <2>2
<1>8. \A k \in Keys : heap'[newmap][k].ts = heap'[oldmap][k].ts => heap'[newmap][k].ts = 0
  <2> TAKE k \in Keys
  <2>1. heap[newmap][k].ts = heap[oldmap][k].ts => heap[newmap][k].ts = 0
    BY <1>1 DEF Maps
  <2>2. heap[oldmap][k].ts < now /\ heap[oldmap][k].ts \in Nat
    BY <1>1, <1>6
  <2>3. heap[oldmap][k].ts # now
    BY <1>1, <2>2
  <2> QED
    BY <1>3, <1>4, <2>1, <2>3
<1>9. \A k \in Keys : heap'[1][k].ts = heap'[2][k].ts => heap'[1][k].ts = 0
  BY <1>1, <1>8 DEF Maps
<1> QED
  BY <1>2, <1>3, <1>7, <1>9

LEMMA ReadFailsStep == ASSUME IInv, ReadFails PROVE IInv'
<1> PICK keys \in Readable : heap' = [heap EXCEPT ![newmap] = Updated(@, keys)]
  BY DEF ReadFails
<1>1. /\ now < MaxTime /\ now' = now + 1 /\ pc = "sleep"
      /\ UNCHANGED <<rows, pc, batch, last, this, oldmap, newmap>>
  BY DEF ReadFails, Retry
<1>2. /\ heap' \in [Maps -> [Keys -> Values]]
      /\ heap'[oldmap] = heap[oldmap]
      /\ \A m \in Maps, k \in Keys : heap'[m][k].ts < now + 1
      /\ \A k \in Keys : heap'[1][k].ts = heap'[2][k].ts => heap'[1][k].ts = 0
  BY <1>1, ReadHeap
<1>3. TypeOK'
  BY <1>1, <1>2 DEF IInv, TypeOK
<1>4. \A k \in Keys : this'.values[k] # Hidden =>
        heap'[oldmap'][k] = [value |-> this'.values[k], ts |-> this'.ts]
  BY <1>1, <1>2 DEF IInv
<1>5. NoZeroDivisor' /\ ReadTwiceExact'
  BY <1>1 DEF IInv, NoZeroDivisor, ReadTwiceExact
<1> QED
  BY <1>1, <1>2, <1>3, <1>4, <1>5 DEF IInv

LEMMA ReadStep == ASSUME IInv, Read PROVE IInv'
<1> PICK keys \in Readable :
      /\ heap' = [heap EXCEPT ![newmap] = Updated(@, keys)]
      /\ this' = ReadRecord(keys)
  BY DEF Read
<1>1. /\ now < MaxTime /\ now' = now + 1 /\ pc = "sleep" /\ pc' = "send"
      /\ batch' = Rates(heap'[oldmap], heap'[newmap])
      /\ oldmap' = newmap /\ newmap' = oldmap /\ last' = this /\ rows' = rows
  BY DEF Read, SwapMaps
<1>2. /\ heap' \in [Maps -> [Keys -> Values]]
      /\ heap'[oldmap] = heap[oldmap]
      /\ \A k \in keys : k \in Keys /\ rows[k] # Hidden
                           /\ heap'[newmap][k] = [value |-> rows[k], ts |-> now]
      /\ \A k \in Keys \ keys : heap'[newmap][k] = heap[newmap][k]
      /\ \A m \in Maps, k \in Keys : heap'[m][k].ts < now + 1
      /\ \A k \in Keys : heap'[1][k].ts = heap'[2][k].ts => heap'[1][k].ts = 0
  BY <1>1, ReadHeap
<1>3. /\ TypeOK /\ now \in 1..MaxTime /\ oldmap \in Maps /\ newmap \in Maps /\ oldmap # newmap
      /\ this.ts # 0
      /\ \A k \in Keys : this.values[k] # Hidden =>
           heap[oldmap][k] = [value |-> this.values[k], ts |-> this.ts]
  BY <1>1 DEF IInv, TypeOK
<1>4. /\ this' \in ReadRecords /\ this'.ts = now
      /\ \A k \in Keys : this'.values[k] # Hidden => k \in keys
      /\ \A k \in keys : this'.values[k] = rows[k]
  <2>1. heap[newmap] \in [Keys -> Values]
    BY <1>3 DEF TypeOK
  <2> QED
    BY <1>1, <1>3, <2>1, UpdatedMap
<1> DEFINE old == heap'[oldmap]
           new == heap'[newmap]
<1>5. old \in [Keys -> Values] /\ new \in [Keys -> Values]
  BY <1>2, <1>3
<1>6. batch' = Rates(old, new)
  BY <1>1
<1>7. \A k \in Keys : old[k].ts = new[k].ts => old[k].ts = 0
  BY <1>2, <1>3 DEF Maps
<1>8. \A k \in Keys : this.values[k] # Hidden /\ this'.values[k] # Hidden =>
        /\ old[k] = [value |-> this.values[k], ts |-> this.ts]
        /\ new[k] = [value |-> this'.values[k], ts |-> this'.ts]
  BY <1>2, <1>3, <1>4
<1>9. this'.ts # 0
  BY <1>3, <1>4
<1> HIDE DEF old, new
<1>10. \A k \in Keys : /\ old[k].value \in 0..MaxValue /\ new[k].value \in 0..MaxValue
                       /\ old[k].ts \in 0..MaxTime /\ new[k].ts \in 0..MaxTime
  BY <1>5 DEF Values
<1>11. \A r \in batch' : \E k \in Keys :
         /\ r = [key |-> k, growth |-> new[k].value - old[k].value, from |-> old[k].ts, to |-> new[k].ts]
         /\ new[k].ts # 0 /\ old[k].ts # 0 /\ old[k].value <= new[k].value
  BY <1>6 DEF Rates, Sends
<1>12. batch' \subseteq [key: Keys, growth: 0..MaxValue, from: 1..MaxTime, to: 1..MaxTime]
  <2> SUFFICES ASSUME NEW r \in batch'
               PROVE  r \in [key: Keys, growth: 0..MaxValue, from: 1..MaxTime, to: 1..MaxTime]
    OBVIOUS
  <2>1. PICK k \in Keys :
         /\ r = [key |-> k, growth |-> new[k].value - old[k].value, from |-> old[k].ts, to |-> new[k].ts]
         /\ new[k].ts # 0 /\ old[k].ts # 0 /\ old[k].value <= new[k].value
    BY <1>11
  <2>2. new[k].value - old[k].value \in 0..MaxValue
    BY <1>10, <2>1
  <2>3. old[k].ts \in 1..MaxTime /\ new[k].ts \in 1..MaxTime
    BY <1>10, <2>1
  <2> QED
    BY <2>1, <2>2, <2>3
<1>13. NoZeroDivisor'
  BY <1>7, <1>11 DEF NoZeroDivisor
<1>14. ReadTwiceExact'
  <2> SUFFICES ASSUME NEW k \in Keys, this.values[k] # Hidden, this'.values[k] # Hidden
               PROVE  {r \in batch' : r.key = k} =
                        IF this.values[k] <= this'.values[k]
                        THEN {[key |-> k, growth |-> this'.values[k] - this.values[k],
                               from |-> this.ts, to |-> this'.ts]}
                        ELSE {}
    BY <1>1 DEF ReadTwiceExact
  <2>1. /\ old[k].value = this.values[k] /\ old[k].ts = this.ts
        /\ new[k].value = this'.values[k] /\ new[k].ts = this'.ts
    <3>1. /\ old[k] = [value |-> this.values[k], ts |-> this.ts]
          /\ new[k] = [value |-> this'.values[k], ts |-> this'.ts]
      BY <1>8
    <3> QED
      BY <3>1
  <2>2. ASSUME NEW r \in batch', r.key = k
        PROVE  /\ r = [key |-> k, growth |-> this'.values[k] - this.values[k],
                       from |-> this.ts, to |-> this'.ts]
               /\ this.values[k] <= this'.values[k]
    <3>1. PICK j \in Keys :
         /\ r = [key |-> j, growth |-> new[j].value - old[j].value, from |-> old[j].ts, to |-> new[j].ts]
         /\ old[j].value <= new[j].value
      BY <1>11, <2>2
    <3>2. j = k
      BY <2>2, <3>1
    <3> QED
      BY <2>1, <3>1, <3>2
  <2>3. ASSUME this.values[k] <= this'.values[k]
        PROVE  [key |-> k, growth |-> this'.values[k] - this.values[k],
                from |-> this.ts, to |-> this'.ts] \in batch'
    BY <1>3, <1>6, <1>9, <2>1, <2>3 DEF Rates, Sends
  <2> QED
    BY <2>2, <2>3
<1>15. TypeOK'
  BY <1>1, <1>2, <1>3, <1>4, <1>12 DEF TypeOK
<1>16. \A k \in Keys : this'.values[k] # Hidden =>
         heap'[oldmap'][k] = [value |-> this'.values[k], ts |-> this'.ts]
  BY <1>1, <1>2, <1>4
<1> QED
  BY <1>1, <1>2, <1>3, <1>9, <1>13, <1>14, <1>15, <1>16 DEF IInv

LEMMA SendStep == ASSUME IInv, Send PROVE IInv'
<1>1. /\ pc = "send" /\ pc' = "sleep" /\ batch' = {}
      /\ UNCHANGED <<now, rows, heap, oldmap, newmap, last, this>>
  BY DEF Send
<1> QED
  BY <1>1 DEF IInv, TypeOK, NoZeroDivisor, ReadTwiceExact

LEMMA BaselineFailsStep == ASSUME IInv, BaselineFails PROVE IInv'
<1>1. /\ pc = "start" /\ now < MaxTime /\ now' = now + 1
      /\ UNCHANGED <<rows, heap, oldmap, newmap, pc, batch, last, this>>
  BY DEF BaselineFails
<1>2. now \in 1..MaxTime /\ heap \in [Maps -> [Keys -> Values]]
  BY DEF IInv, TypeOK
<1>3. \A m \in Maps, k \in Keys : heap[m][k].ts < now + 1
  <2> TAKE m \in Maps, k \in Keys
  <2>1. heap[m][k].ts < now /\ heap[m][k].ts \in Nat
    BY <1>2 DEF IInv, Values
  <2> QED
    BY <1>2, <2>1
<1>4. TypeOK'
  BY <1>1, <1>2 DEF IInv, TypeOK
<1> QED
  BY <1>1, <1>3, <1>4 DEF IInv, NoZeroDivisor, ReadTwiceExact

LEMMA Step == IInv /\ [Next]_vars => IInv'
<1> SUFFICES ASSUME IInv, [Next]_vars PROVE IInv'
  OBVIOUS
<1>1. CASE UNCHANGED vars
  BY <1>1 DEF vars, IInv, TypeOK, NoZeroDivisor, ReadTwiceExact
<1> QED
  BY <1>1, DatabaseStep, BaselineStep, ReadFailsStep, ReadStep, SendStep, BaselineFailsStep
  DEF Next

(* The maps, the rates and the records of what was read: the invariant the *)
(* properties below follow from.                                           *)
THEOREM Invariance == Spec => []IInv
BY Initially, Step, PTL DEF Spec

(* Values and rates stay in their ranges: no difference of two unsigned    *)
(* counters underflows.                                                    *)
THEOREM TypeCorrect == Spec => []TypeOK
<1>1. IInv => TypeOK
  BY DEF IInv
<1> QED
  BY <1>1, Invariance, PTL

(* A counter read in two successive rounds is reported exactly, whatever   *)
(* the failed rounds between them left in the map that is reused.          *)
THEOREM ReadTwiceExactHolds == Spec => []ReadTwiceExact
<1>1. IInv => ReadTwiceExact
  BY DEF IInv
<1> QED
  BY <1>1, Invariance, PTL

(* No rate is divided by zero. *)
THEOREM NoZeroDivisorHolds == Spec => []NoZeroDivisor
<1>1. IInv => NoZeroDivisor
  BY DEF IInv
<1> QED
  BY <1>1, Invariance, PTL
-----------------------------------------------------------------------------
USE BoundsAssumption

Metrics == {"connect", "request", "error.req", "error.resp", "total"}
Phases == {"tick", "connect", "wait", "exchange", "done", "failed",
           "error.req", "request", "body", "error.resp", "total"}
DialStates == {"none", "dialing", "error", "success", "connected", "used",
               "sent", "flagged", "failed"}

PingTypeOK ==
  /\ valid \in BOOLEAN
  /\ n \in 0..MaxRequests
  /\ at \in Phases
  /\ at # "tick" => n \in Requests
  /\ hop \in Hops
  /\ dial \in [Requests -> [Hops -> DialStates]]
  /\ dialerror \in [Requests -> BOOLEAN]
  /\ idle \in {"none", "coming", "there"}
  /\ sent \in Seq(Requests \X Metrics)

(* The metric m of request r has been sent. *)
WasSent(r, m) == \E i \in DOMAIN sent : sent[i] = <<r, m>>

(* Whatever lets a request be answered comes from a connection that was    *)
(* reported: where client.Do holds one, where one is idle or about to be,  *)
(* and where a dial has returned one.                                      *)
ConnectionsReported ==
  /\ at \in {"exchange", "done", "request", "body"} => WasSent(n, "connect")
  /\ idle # "none" => WasSent(n, "connect")
  /\ \A r \in Requests, h \in Hops :
       dial[r][h] \in {"connected", "used"} => WasSent(r, "connect")

(* A failed dial has sent its metric before it says that it has failed.    *)
FailuresReported ==
  /\ \A r \in Requests : dialerror[r] => WasSent(r, "error.req")
  /\ \A r \in Requests, h \in Hops :
       dial[r][h] \in {"sent", "flagged", "failed"} => WasSent(r, "error.req")

PingInv == PingTypeOK /\ ConnectionsReported /\ FailuresReported /\ ConnectFirst /\ OutcomeReported
-----------------------------------------------------------------------------
(* What was sent stays sent. *)
LEMMA SentStays ==
  ASSUME PingTypeOK, NEW e, sent' = Append(sent, e), NEW r, NEW m, WasSent(r, m)
  PROVE  WasSent(r, m)'
<1>1. PICK i \in DOMAIN sent : sent[i] = <<r, m>>
  BY DEF WasSent
<1>2. i \in DOMAIN sent' /\ sent'[i] = <<r, m>>
  BY <1>1 DEF PingTypeOK
<1> QED BY <1>2 DEF WasSent

(* Dialed moves one dial. *)
LEMMA DialedMoves ==
  ASSUME PingTypeOK, NEW r \in Requests, NEW h \in Hops, NEW state, Dialed(r, h, state),
         NEW q \in Requests, NEW g \in Hops
  PROVE  dial'[q][g] = IF q = r /\ g = h THEN state ELSE dial[q][g]
BY DEF PingTypeOK, Dialed

(* The metric that SendNow sends is the last one. *)
LEMMA SendNowSends ==
  ASSUME PingTypeOK, NEW r \in Requests, NEW m \in Metrics, SendNow(r, m)
  PROVE  WasSent(r, m)'
<1>1. sent' = Append(sent, <<r, m>>)
  BY DEF SendNow
<1>2. Len(sent) + 1 \in DOMAIN sent' /\ sent'[Len(sent) + 1] = <<r, m>>
  BY <1>1 DEF PingTypeOK
<1> QED
  BY <1>2 DEF WasSent

LEMMA PingInitially == PingInit => PingInv
BY DEF PingInit, PingInv, PingTypeOK, ConnectionsReported, FailuresReported, ConnectFirst, OutcomeReported,
       Requests, Hops, DialStates, Phases, Reported, WasSent
-----------------------------------------------------------------------------
LEMMA NextType == ASSUME PingTypeOK, [PingNext]_pingVars PROVE PingTypeOK'
<1> USE DEF PingTypeOK, Requests, Hops, Phases, DialStates, Dialed, Spare
<1>1. CASE Tick
  BY <1>1 DEF Tick, IdleAtStart
<1>2. CASE GetConn
  <2>1. CASE idle = "there"
    BY <1>2, <2>1 DEF GetConn
  <2>2. CASE idle # "there"
    <3>1. at' = "wait" /\ Dialed(n, hop, "dialing") /\ UNCHANGED <<idle, valid, n, hop, dialerror, sent>>
      BY <1>2, <2>2 DEF GetConn
    <3> QED BY <1>2, <3>1 DEF GetConn
  <2> QED BY <2>1, <2>2
<1>3. CASE UseDialed
  BY <1>3 DEF UseDialed
<1>4. CASE UseIdle
  BY <1>4 DEF UseIdle
<1>5. CASE DialError \/ Redirect \/ Response \/ Timeout
  BY <1>5 DEF DialError, Redirect, Response, Timeout
<1>6. CASE ConnIdle
  BY <1>6 DEF ConnIdle
<1>7. ASSUME NEW r \in Requests, NEW h \in Hops, DialEnds(r, h) PROVE PingTypeOK'
  BY <1>7 DEF DialEnds
<1>8. ASSUME NEW r \in Requests, NEW h \in Hops, DialSucceeded(r, h) PROVE PingTypeOK'
  <2>1. sent' \in Seq(Requests \X Metrics)
    BY <1>8 DEF DialSucceeded, SendNow, Metrics
  <2>2. idle' \in {"none", "coming", "there"}
    BY <1>8 DEF DialSucceeded
  <2> QED BY <1>8, <2>1, <2>2 DEF DialSucceeded
<1>9. ASSUME NEW r \in Requests, NEW h \in Hops, DialFailed(r, h) PROVE PingTypeOK'
  <2> DEFINE step == FailureSteps[dial[r][h]]
  <2>1. CASE step = "send"
    <3>1. SendNow(r, "error.req") /\ Dialed(r, h, "sent") /\ UNCHANGED <<dialerror, valid, n, at, hop, idle>>
      BY <1>9, <2>1 DEF DialFailed
    <3> QED BY <3>1 DEF SendNow, Metrics
  <2>2. CASE step # "send"
    <3>1. /\ \E state \in DialStates : Dialed(r, h, state)
          /\ dialerror' \in [Requests -> BOOLEAN]
          /\ UNCHANGED <<sent, valid, n, at, hop, idle>>
      BY <1>9, <2>2 DEF DialFailed
    <3> QED BY <3>1
  <2> QED BY <2>1, <2>2
<1>10. CASE AfterDo
  BY <1>10 DEF AfterDo
<1>11. CASE Report
  BY <1>11 DEF Report, SendNow, Metrics
<1>12. CASE ReadBody
  BY <1>12 DEF ReadBody
<1>13. CASE Quiet \/ UNCHANGED pingVars
  BY <1>13 DEF Quiet, pingVars
<1> QED
  BY <1>1, <1>2, <1>3, <1>4, <1>5, <1>6, <1>7, <1>8, <1>9, <1>10, <1>11, <1>12, <1>13
     DEF PingNext, Request, Do, Dial

(* The steps of a dial that has failed, one by one. *)
LEMMA FailureStep ==
  ASSUME PingTypeOK, NEW r \in Requests, NEW h \in Hops, DialFailed(r, h)
  PROVE  /\ UNCHANGED <<valid, n, at, hop, idle>>
         /\ \/ /\ dial[r][h] = "error"
               /\ SendNow(r, "error.req") /\ Dialed(r, h, "sent") /\ UNCHANGED dialerror
            \/ /\ dial[r][h] = "sent"
               /\ dialerror' = [dialerror EXCEPT ![r] = TRUE]
               /\ Dialed(r, h, "flagged") /\ UNCHANGED sent
            \/ /\ dial[r][h] = "flagged"
               /\ Dialed(r, h, "failed") /\ UNCHANGED <<dialerror, sent>>
<1>1. dial[r][h] \in {"error", "sent", "flagged"}
  BY DEF DialFailed, FailureSteps
<1>2. CASE dial[r][h] = "error"
  BY <1>2 DEF DialFailed, FailureSteps
<1>3. CASE dial[r][h] = "sent"
  BY <1>3 DEF DialFailed, FailureSteps
<1>4. CASE dial[r][h] = "flagged"
  BY <1>4 DEF DialFailed, FailureSteps
<1> QED BY <1>1, <1>2, <1>3, <1>4

LEMMA NextConnections ==
  ASSUME PingInv, [PingNext]_pingVars PROVE ConnectionsReported'
<1> USE DEF PingInv, PingTypeOK, ConnectionsReported, Requests, Hops, Dialed
<1>1. CASE Tick
  <2>1. UNCHANGED <<sent, dial>> /\ idle' = "none" /\ at' \in {"connect", "tick"}
    BY <1>1 DEF Tick, IdleAtStart
  <2> QED BY <2>1 DEF WasSent
<1>2. CASE Do \/ AfterDo \/ ReadBody \/ ConnIdle \/ Quiet \/ UNCHANGED pingVars
  <2>1. UNCHANGED <<sent, n>>
    BY <1>2 DEF Do, AfterDo, ReadBody, ConnIdle, Quiet, pingVars,
       GetConn, UseDialed, UseIdle, DialError, Redirect, Response, Timeout
  <2>2. \A r, m : WasSent(r, m)' <=> WasSent(r, m)
    BY <2>1 DEF WasSent
  <2>3. CASE GetConn
    BY <2>1, <2>2, <2>3 DEF GetConn
  <2>4. CASE UseDialed
    BY <2>1, <2>2, <2>4 DEF UseDialed
  <2>5. CASE UseIdle
    BY <2>1, <2>2, <2>5 DEF UseIdle, Spare
  <2>6. CASE DialError \/ Redirect \/ Response \/ Timeout
    BY <2>1, <2>2, <2>6 DEF DialError, Redirect, Response, Timeout
  <2>7. CASE AfterDo
    BY <2>1, <2>2, <2>7 DEF AfterDo
  <2>8. CASE ReadBody \/ ConnIdle
    BY <2>1, <2>2, <2>8 DEF ReadBody, ConnIdle
  <2>9. CASE Quiet \/ UNCHANGED pingVars
    BY <2>2, <2>9 DEF Quiet, pingVars
  <2> QED BY <1>2, <2>3, <2>4, <2>5, <2>6, <2>7, <2>8, <2>9 DEF Do
<1>3. ASSUME NEW r \in Requests, NEW h \in Hops, DialEnds(r, h) PROVE ConnectionsReported'
  <2>1. UNCHANGED <<n, at, idle, sent>> /\ \E state \in {"error", "success"} : Dialed(r, h, state)
    BY <1>3 DEF DialEnds
  <2>2. \A q \in Requests, g \in Hops :
          dial'[q][g] \in {"connected", "used"} => dial[q][g] \in {"connected", "used"}
    BY <2>1, DialedMoves
  <2> QED BY <2>1, <2>2 DEF WasSent
<1>4. ASSUME NEW r \in Requests, NEW h \in Hops, DialSucceeded(r, h) PROVE ConnectionsReported'
  <2>1. WasSent(r, "connect")'
    BY <1>4, SendNowSends DEF DialSucceeded, Metrics
  <2>2. \A q, m : WasSent(q, m) => WasSent(q, m)'
    BY <1>4, SentStays DEF DialSucceeded, SendNow
  <2>3. idle' = idle \/ r = n'
    BY <1>4 DEF DialSucceeded
  <2>4. UNCHANGED <<n, at>>
    BY <1>4 DEF DialSucceeded
  <2>5. \A q \in Requests, g \in Hops :
          dial'[q][g] \in {"connected", "used"} => q = r \/ dial[q][g] \in {"connected", "used"}
    BY <1>4 DEF DialSucceeded
  <2> QED BY <2>1, <2>2, <2>3, <2>4, <2>5
<1>5. ASSUME NEW r \in Requests, NEW h \in Hops, DialFailed(r, h) PROVE ConnectionsReported'
  <2>1. \A q, m : WasSent(q, m) => WasSent(q, m)'
    BY <1>5, FailureStep, SentStays DEF SendNow, WasSent
  <2>2. UNCHANGED <<n, at, idle>>
    BY <1>5 DEF DialFailed
  <2>3. \A q \in Requests, g \in Hops :
          dial'[q][g] \in {"connected", "used"} => dial[q][g] \in {"connected", "used"}
    <3>1. \E state \in {"sent", "flagged", "failed"} : Dialed(r, h, state)
      BY <1>5, FailureStep
    <3> QED BY <3>1, DialedMoves
  <2> QED BY <2>1, <2>2, <2>3
<1>6. CASE Report
  <2>1. \A q, m : WasSent(q, m) => WasSent(q, m)'
    BY <1>6, SentStays DEF Report, SendNow
  <2> QED BY <1>6, <2>1 DEF Report
<1> QED
  BY <1>1, <1>2, <1>3, <1>4, <1>5, <1>6 DEF PingNext, Request, Dial

LEMMA NextFailures ==
  ASSUME PingInv, [PingNext]_pingVars PROVE FailuresReported'
<1> USE DEF PingInv, PingTypeOK, FailuresReported, Requests, Hops, Dialed
<1>1. CASE Tick \/ Do \/ AfterDo \/ ReadBody \/ ConnIdle \/ Quiet \/ UNCHANGED pingVars
  <2>1. UNCHANGED <<sent, dialerror>>
    BY <1>1 DEF Tick, Do, AfterDo, ReadBody, ConnIdle, Quiet, pingVars,
       GetConn, UseDialed, UseIdle, DialError, Redirect, Response, Timeout
  <2>2. \/ dial' = dial
        \/ at # "tick" /\ \E state \in {"dialing", "used"} : Dialed(n, hop, state)
    <3>1. CASE GetConn
      BY <3>1 DEF GetConn
    <3>2. CASE UseDialed
      BY <3>2 DEF UseDialed
    <3>3. CASE UseIdle \/ DialError \/ Redirect \/ Response \/ Timeout
      BY <3>3 DEF UseIdle, DialError, Redirect, Response, Timeout
    <3> QED
      BY <1>1, <3>1, <3>2, <3>3 DEF Do, Tick, AfterDo, ReadBody, ConnIdle, Quiet, pingVars
  <2>3. \A r \in Requests, h \in Hops :
          dial'[r][h] \in {"sent", "flagged", "failed"} => dial[r][h] = dial'[r][h]
    <3>1. ASSUME NEW state, state \in {"dialing", "used"}, at # "tick", Dialed(n, hop, state),
                 NEW r \in Requests, NEW h \in Hops
          PROVE  dial'[r][h] \in {state, dial[r][h]}
      BY <3>1
    <3> QED
      BY <2>2, <3>1
  <2> QED BY <2>1, <2>3 DEF WasSent
<1>2. ASSUME NEW r \in Requests, NEW h \in Hops, DialEnds(r, h) PROVE FailuresReported'
  BY <1>2 DEF DialEnds, WasSent
<1>3. ASSUME NEW r \in Requests, NEW h \in Hops, DialSucceeded(r, h) PROVE FailuresReported'
  <2>1. \A q, m : WasSent(q, m) => WasSent(q, m)'
    BY <1>3, SentStays DEF DialSucceeded, SendNow
  <2> QED BY <1>3, <2>1 DEF DialSucceeded
<1>4. ASSUME NEW r \in Requests, NEW h \in Hops, DialFailed(r, h) PROVE FailuresReported'
  <2>1. \A q, m : WasSent(q, m) => WasSent(q, m)'
    BY <1>4, FailureStep, SentStays DEF SendNow, WasSent
  <2>2. WasSent(r, "error.req")'
    BY <1>4, <2>1, FailureStep, SendNowSends DEF Metrics
  <2>3. \A q \in Requests : dialerror'[q] => q = r \/ dialerror[q]
    <3>1. dialerror' = dialerror \/ dialerror' = [dialerror EXCEPT ![r] = TRUE]
      BY <1>4, FailureStep
    <3> QED BY <3>1
  <2>4. \A q \in Requests, g \in Hops : q # r => dial'[q][g] = dial[q][g]
    <3>1. \E state \in {"sent", "flagged", "failed"} : Dialed(r, h, state)
      BY <1>4, FailureStep
    <3> QED BY <3>1, DialedMoves
  <2> QED BY <2>1, <2>2, <2>3, <2>4
<1>5. CASE Report
  <2>1. \A q, m : WasSent(q, m) => WasSent(q, m)'
    BY <1>5, SentStays DEF Report, SendNow
  <2> QED BY <1>5, <2>1 DEF Report
<1> QED
  BY <1>1, <1>2, <1>3, <1>4, <1>5 DEF PingNext, Request, Dial

(* A metric of sent' is one of sent, or the one that was added.            *)
LEMMA AppendedSent ==
  ASSUME PingTypeOK, NEW e, sent' = Append(sent, e)
  PROVE  /\ DOMAIN sent' = 1..(Len(sent) + 1) /\ DOMAIN sent = 1..Len(sent) /\ Len(sent) \in Nat
         /\ \A i \in DOMAIN sent : sent'[i] = sent[i]
         /\ sent'[Len(sent) + 1] = e
BY DEF PingTypeOK

(* Sending anything but a time that no connection precedes. *)
LEMMA AppendedConnectFirst ==
  ASSUME PingTypeOK, ConnectFirst, NEW r \in Requests, NEW m \in Metrics, SendNow(r, m),
         m = "request" => WasSent(r, "connect")
  PROVE  ConnectFirst'
<1>1. sent' = Append(sent, <<r, m>>)
  BY DEF SendNow
<1>2. SUFFICES ASSUME NEW i \in DOMAIN sent', sent'[i][2] = "request"
               PROVE  \E j \in 1..(i - 1) : sent'[j] = <<sent'[i][1], "connect">>
  BY DEF ConnectFirst
<1>3. CASE i \in DOMAIN sent
  <2>1. PICK j \in 1..(i - 1) : sent[j] = <<sent[i][1], "connect">>
    BY <1>1, <1>2, <1>3, AppendedSent DEF ConnectFirst
  <2>2. j \in DOMAIN sent /\ sent'[j] = sent[j] /\ sent'[i] = sent[i]
    BY <1>1, <1>3, <2>1, AppendedSent
  <2> QED BY <2>1, <2>2
<1>4. CASE i = Len(sent) + 1
  <2>1. sent'[i] = <<r, m>> /\ m = "request"
    BY <1>1, <1>2, <1>4, AppendedSent
  <2>2. PICK j \in DOMAIN sent : sent[j] = <<r, "connect">>
    BY <2>1 DEF WasSent
  <2>3. j \in 1..(i - 1) /\ sent'[j] = sent[j]
    BY <1>1, <1>4, AppendedSent
  <2> QED BY <2>1, <2>2, <2>3
<1>5. i \in 1..(Len(sent) + 1) /\ DOMAIN sent = 1..Len(sent) /\ Len(sent) \in Nat
  BY <1>1, AppendedSent
<1> QED BY <1>3, <1>4, <1>5

LEMMA NextConnectFirst ==
  ASSUME PingInv, [PingNext]_pingVars PROVE ConnectFirst'
<1> USE DEF PingInv
<1>1. CASE UNCHANGED sent
  BY <1>1 DEF ConnectFirst
<1>2. CASE Report
  <2>1. n \in Requests /\ at \in Metrics /\ SendNow(n, at)
    BY <1>2 DEF Report, PingTypeOK, Metrics
  <2>2. at = "request" => WasSent(n, "connect")
    BY DEF ConnectionsReported
  <2> QED BY <2>1, <2>2, AppendedConnectFirst
<1>3. ASSUME NEW r \in Requests, NEW h \in Hops, DialSucceeded(r, h) PROVE ConnectFirst'
  BY <1>3, AppendedConnectFirst DEF DialSucceeded, Metrics
<1>4. ASSUME NEW r \in Requests, NEW h \in Hops, DialFailed(r, h) PROVE ConnectFirst'
  <2>1. UNCHANGED sent \/ SendNow(r, "error.req")
    BY <1>4, FailureStep
  <2> QED BY <1>1, <2>1, AppendedConnectFirst DEF Metrics
<1>5. CASE Tick \/ Do \/ AfterDo \/ ReadBody \/ ConnIdle \/ Quiet \/ UNCHANGED pingVars
  BY <1>1, <1>5 DEF Tick, Do, AfterDo, ReadBody, ConnIdle, Quiet, pingVars,
     GetConn, UseDialed, UseIdle, DialError, Redirect, Response, Timeout
<1>6. ASSUME NEW r \in Requests, NEW h \in Hops, DialEnds(r, h) PROVE ConnectFirst'
  BY <1>1, <1>6 DEF DialEnds
<1> QED BY <1>2, <1>3, <1>4, <1>5, <1>6 DEF PingNext, Request, Dial

Outcomes == {"error.req", "error.resp", "total"}

LEMMA NextOutcome ==
  ASSUME PingInv, [PingNext]_pingVars PROVE OutcomeReported'
<1> USE DEF PingInv
<1>0. SUFFICES ASSUME valid, NEW r \in 1..n', r < n' \/ at' = "tick"
               PROVE  Reported(r, Outcomes)'
  <2>1. valid' = valid
    BY DEF PingNext, Tick, Request, Do, AfterDo, Report, ReadBody, ConnIdle, Dial, DialEnds,
       DialSucceeded, DialFailed, Quiet, pingVars,
       GetConn, UseDialed, UseIdle, DialError, Redirect, Response, Timeout
  <2> QED BY <2>1 DEF OutcomeReported, Outcomes
<1>1. ASSUME NEW m \in Outcomes, WasSent(r, m)' PROVE Reported(r, Outcomes)'
  BY <1>1 DEF WasSent, Reported
<1>2. ASSUME NEW e, sent' = Append(sent, e), Reported(r, Outcomes)
      PROVE  Reported(r, Outcomes)'
  BY <1>2, AppendedSent DEF Reported
<1>3. ASSUME UNCHANGED sent, Reported(r, Outcomes) PROVE Reported(r, Outcomes)'
  BY <1>3 DEF Reported
<1>4. CASE Tick
  <2>1. r \in 1..n /\ at = "tick" /\ UNCHANGED sent
    BY <1>0, <1>4 DEF Tick, PingTypeOK
  <2>2. Reported(r, Outcomes)
    BY <1>0, <2>1 DEF OutcomeReported, Outcomes
  <2> QED BY <1>3, <2>1, <2>2
<1>5. ASSUME n' = n, r < n \/ at = "tick" PROVE Reported(r, Outcomes)
  BY <1>0, <1>5 DEF OutcomeReported, Outcomes
<1>6. CASE Report
  <2>1. n \in Requests /\ at \in Metrics /\ SendNow(n, at) /\ n' = n
    BY <1>6 DEF Report, PingTypeOK, Metrics
  <2>2. CASE r < n
    BY <1>2, <1>5, <2>1, <2>2 DEF SendNow
  <2>3. CASE r = n
    <3>1. at \in Outcomes
      BY <1>0, <1>6, <2>1, <2>3 DEF Report, PingTypeOK, Outcomes
    <3> QED BY <1>1, <2>1, <2>3, <3>1, SendNowSends
  <2> QED BY <1>0, <2>1, <2>2, <2>3 DEF PingTypeOK
<1>7. CASE AfterDo
  <2>1. n' = n /\ UNCHANGED sent /\ n \in Requests
    BY <1>7 DEF AfterDo, PingTypeOK
  <2>2. CASE r < n
    BY <1>3, <1>5, <2>1, <2>2
  <2>3. CASE r = n
    <3>1. dialerror[n]
      BY <1>0, <1>7, <2>1, <2>3 DEF AfterDo
    <3>2. WasSent(r, "error.req")'
      BY <2>1, <2>3, <3>1 DEF FailuresReported, WasSent
    <3> QED BY <1>1, <3>2 DEF Outcomes
  <2> QED BY <1>0, <2>1, <2>2, <2>3 DEF PingTypeOK
<1>8. ASSUME NEW q \in Requests, NEW h \in Hops, Dial(q, h) PROVE Reported(r, Outcomes)'
  <2>1. UNCHANGED <<n, at>>
    BY <1>8 DEF Dial, DialEnds, DialSucceeded, DialFailed
  <2>2. UNCHANGED sent \/ SendNow(q, "connect") \/ SendNow(q, "error.req")
    BY <1>8, FailureStep DEF Dial, DialEnds, DialSucceeded
  <2> QED BY <1>0, <1>2, <1>3, <1>5, <2>1, <2>2 DEF SendNow
<1>9. CASE Do \/ ReadBody \/ ConnIdle \/ Quiet \/ UNCHANGED pingVars
  <2>1. UNCHANGED <<n, sent>> /\ (at' = "tick" => at = "tick")
    BY <1>9 DEF Do, ReadBody, ConnIdle, Quiet, pingVars,
       GetConn, UseDialed, UseIdle, DialError, Redirect, Response, Timeout
  <2> QED BY <1>0, <1>3, <1>5, <2>1
<1> QED BY <1>4, <1>6, <1>7, <1>8, <1>9 DEF PingNext, Request

LEMMA PingStep == PingInv /\ [PingNext]_pingVars => PingInv'
BY NextType, NextConnections, NextFailures, NextConnectFirst, NextOutcome DEF PingInv

(* Every reachable state of the pinger satisfies PingInv. *)
LEMMA PingInvariance == PingSpec => []PingInv
BY PingInitially, PingStep, PTL DEF PingSpec

(* Every variable keeps its type. *)
THEOREM PingTypeCorrect == PingSpec => []PingTypeOK
BY PingInvariance, PTL DEF PingInv

(* request of collect-ping.go: whichever dials fail and whenever they end, *)
(* a request that is over has sent an error or its total time.             *)
THEOREM OutcomeReportedCorrect == PingSpec => []OutcomeReported
BY PingInvariance, PTL DEF PingInv

(* The transport of a request is its own: a time is sent only after the    *)
(* time of a connection made for the same request.                         *)
THEOREM ConnectFirstCorrect == PingSpec => []ConnectFirst
BY PingInvariance, PTL DEF PingInv
=============================================================================
