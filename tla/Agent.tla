------------------------------- MODULE Agent -------------------------------
(***************************************************************************)
(* The agent as one process: the collector goroutines main starts, the     *)
(* buffered channel `metricschannel' they all send to, the one sender      *)
(* goroutine that empties it, and systemd, which restarts the process      *)
(* after a panic.                                                          *)
(*                                                                         *)
(* What a collector measures is abstracted to instants of the clock: a     *)
(* sample taken at time t holds the value of its counters at t, so the     *)
(* metrics computed from two samples report what happened between them.    *)
(* The zero value of a Go struct, a sample no read has filled in, is the   *)
(* value of the counters at time 0, before the agent was first started.    *)
(***************************************************************************)
EXTENDS Naturals, Sequences

CONSTANTS
  Collectors,   \* the collector goroutines main can start
  KindOf,       \* the control structure of each, one of Kinds
  Configurations, \* the sets of them a configuration file may enable
  Delta,        \* DELTA, the sampling interval
  PgPause,      \* the pause of CollectPGStat before it connects again
  CertPause,    \* the pause of CollectCertExpiry after an error
  CertPeriod,   \* the pause of CollectCertExpiry after a success
  Capacity,     \* the capacity of metricschannel
  Carbon,       \* TRUE when CARBONURL is set: the Carbon sender runs
  MaxTime,      \* bound on the clock
  MaxCrashes    \* bound on the number of panics

(***************************************************************************)
(* The collectors by the shape of their loop:                              *)
(*   proc        CollectProcStat, CollectDiskStat, CollectNetDevStat,      *)
(*               CollectVMStat, CollectProcPidStat and CollectMySQLStat:   *)
(*               a baseline, then sleep, read, compare, send; any error    *)
(*               ends the goroutine                                        *)
(*   netsnmp     CollectSnmpStat: the same, with four batches a round and  *)
(*               the baseline moved after the last of them                 *)
(*   gauge       CollectMemStat, CollectFSStat, CollectFileStat: no        *)
(*               baseline, read, send, sleep; an error ends the goroutine  *)
(*   conntrack   CollectConntrackStat: no baseline, driven by a ticker     *)
(*   cert        CollectCertExpiry: no baseline, retries after a minute    *)
(*   postgres    CollectPGStat: starts over when the baseline fails, keeps *)
(*               the baseline when a later read fails                      *)
(*   snmptarget  CollectSnmpTarget: a failed read throws the baseline away *)
(*   webserver   CollectWebserverStat: goes on without a baseline, and     *)
(*               takes an answer other than 200 for a successful read      *)
(***************************************************************************)
Kinds == {"proc", "netsnmp", "gauge", "conntrack", "cert",
          "postgres", "snmptarget", "webserver"}

(* The kinds that report the difference of two samples. *)
Differencing == {"proc", "netsnmp", "postgres", "snmptarget", "webserver"}

ASSUME ConstantsAssumption ==
  /\ KindOf \in [Collectors -> Kinds]
  /\ Delta \in Nat \ {0}
  /\ PgPause \in Nat /\ CertPause \in Nat /\ CertPeriod \in Nat
  /\ Capacity \in Nat \ {0}
  /\ Carbon \in BOOLEAN
  /\ MaxTime \in Nat \ {0} /\ MaxCrashes \in Nat

ASSUME ConfigurationsAssumption ==
  Configurations # {} /\ Configurations \subseteq SUBSET Collectors

VARIABLES
  now,             \* the clock
  up,              \* TRUE while the process runs
  crashes,         \* how often it panicked
  pc,              \* where each collector is
  wake,            \* when it may go on: the end of its sleep, its next tick
  base,            \* the time of the sample it compares the next one with
  held,            \* the time of the sample NewWebserverStat holds
  batch,           \* what it is sending: the two instants it compared
  left,            \* how many batches of the round are still to be sent
  metricschannel,  \* the batches queued for the sender
  taken,           \* the batch the sender works on, if any
  posted           \* the batches the metrics store received, in order

local == <<pc, wake, base, held, batch, left>>
vars == <<now, up, crashes, pc, wake, base, held, batch, left,
          metricschannel, taken, posted>>

(* SendSnmpStats sends the ip, icmp, tcp and udp counters separately. *)
Parts(c) == IF KindOf[c] = "netsnmp" THEN 4 ELSE 1

Streams == {s \in Collectors \X (1..4) : s[2] <= Parts(s[1])}
Unanchored == {s \in Streams : KindOf[s[1]] = "webserver"}
Instants == 0..MaxTime
Batch == [stream: Streams, from: Instants, to: Instants]
-----------------------------------------------------------------------------
(* Where a collector stands when main has started it at time t. *)
EntryPoint(c) ==
  CASE KindOf[c] = "snmptarget" -> "connect"
    [] KindOf[c] \in Differencing \ {"snmptarget"} -> "start"
    [] OTHER -> "wait"

(* main starts the collectors.  Those the configuration file does not ask  *)
(* for (no DSN, no service, no target) end at once.                        *)
StartedIn(enabled) ==
  [c \in Collectors |-> IF c \in enabled THEN EntryPoint(c) ELSE "stopped"]

FirstWake(c, t) == IF KindOf[c] = "conntrack" THEN t + Delta ELSE t

Init ==
  /\ now = 1
  /\ up = TRUE
  /\ crashes = 0
  /\ \E enabled \in Configurations : pc = StartedIn(enabled)
  /\ wake = [c \in Collectors |-> FirstWake(c, 1)]
  /\ base = [c \in Collectors |-> 0]
  /\ held = [c \in Collectors |-> 0]
  /\ batch = [c \in Collectors |-> [from |-> 0, to |-> 0]]
  /\ left = [c \in Collectors |-> 0]
  /\ metricschannel = <<>>
  /\ taken = <<>>
  /\ posted = <<>>

(* The next tick a ticker delivers once the tick due at wake[c] has been   *)
(* received: its channel keeps one tick, later ones are dropped meanwhile. *)
NextTick(c) == wake[c] + ((now - wake[c]) \div Delta + 1) * Delta

Goto(c, label) == pc' = [pc EXCEPT ![c] = label]
SleepUntil(c, t) == wake' = [wake EXCEPT ![c] = t]

(* g.Connect of an SNMP target: its failure ends the goroutine. *)
Connect(c) ==
  /\ up /\ pc[c] = "connect"
  /\ \E next \in {"start", "stopped"} : Goto(c, next)
  /\ UNCHANGED <<now, up, crashes, wake, base, held, batch, left, metricschannel, taken, posted>>

(* The first read, the baseline of the first comparison. *)
Baseline(c) ==
  /\ up /\ pc[c] = "start" /\ now >= wake[c]
  /\ base' = [base EXCEPT ![c] = now]
  /\ Goto(c, "wait")
  /\ SleepUntil(c, now + Delta)
  /\ UNCHANGED <<now, up, crashes, held, batch, left, metricschannel, taken, posted>>

BaselineFails(c) ==
  /\ up /\ pc[c] = "start" /\ now >= wake[c]
  /\ \/ /\ KindOf[c] \in {"proc", "netsnmp"}
        /\ Goto(c, "stopped")
        /\ UNCHANGED wake
     \/ /\ KindOf[c] = "postgres"
        /\ SleepUntil(c, now + PgPause)
        /\ UNCHANGED pc
     \/ /\ KindOf[c] = "snmptarget"
        /\ SleepUntil(c, now + Delta)
        /\ UNCHANGED pc
     \/ /\ KindOf[c] = "webserver"
        /\ Goto(c, "wait")
        /\ SleepUntil(c, now + Delta)
  /\ UNCHANGED <<now, up, crashes, base, held, batch, left, metricschannel, taken, posted>>

(* Fault: the old sample is never replaced. *)
BaseUnmoved(c) == base[c]

(* Every kind but netsnmp makes the new sample the baseline before it      *)
(* sends.                                                                  *)
BaseAfterSample(c) ==
  IF KindOf[c] \in Differencing \ {"netsnmp"} THEN now ELSE base[c]

(* A successful read.  The metrics are computed at once. *)
Sample(c) ==
  /\ up /\ pc[c] = "wait" /\ now >= wake[c]
  /\ batch' = [batch EXCEPT ![c] =
                 [from |-> IF KindOf[c] \in Differencing THEN base[c] ELSE now, to |-> now]]
  /\ base' = [base EXCEPT ![c] = BaseAfterSample(c)]
  /\ wake' = IF KindOf[c] = "conntrack" THEN [wake EXCEPT ![c] = NextTick(c)] ELSE wake
  /\ held' = IF KindOf[c] = "webserver" THEN [held EXCEPT ![c] = now] ELSE held
  /\ left' = [left EXCEPT ![c] = Parts(c)]
  /\ Goto(c, "send")
  /\ UNCHANGED <<now, up, crashes, metricschannel, taken, posted>>

(* The status page answers, but not with 200: ReadWebserverStat leaves     *)
(* NewWebserverStat as it is and returns nil.                              *)
StaleSample(c) ==
  /\ up /\ pc[c] = "wait" /\ now >= wake[c]
  /\ KindOf[c] = "webserver"
  /\ batch' = [batch EXCEPT ![c] = [from |-> base[c], to |-> held[c]]]
  /\ base' = [base EXCEPT ![c] = held[c]]
  /\ left' = [left EXCEPT ![c] = Parts(c)]
  /\ Goto(c, "send")
  /\ UNCHANGED <<now, up, crashes, wake, held, metricschannel, taken, posted>>

SampleFails(c) ==
  /\ up /\ pc[c] = "wait" /\ now >= wake[c]
  /\ \/ /\ KindOf[c] \in {"proc", "netsnmp", "gauge"}
        /\ Goto(c, "stopped")
        /\ UNCHANGED wake
     \/ /\ KindOf[c] \in {"postgres", "webserver"}
        /\ SleepUntil(c, now + Delta)
        /\ UNCHANGED pc
     \/ /\ KindOf[c] = "snmptarget"
        /\ Goto(c, "start")
        /\ SleepUntil(c, now)
     \/ /\ KindOf[c] = "conntrack"
        /\ SleepUntil(c, NextTick(c))
        /\ UNCHANGED pc
     \/ /\ KindOf[c] = "cert"
        /\ SleepUntil(c, now + CertPause)
        /\ UNCHANGED pc
  /\ UNCHANGED <<now, up, crashes, base, held, batch, left, metricschannel, taken, posted>>

(* The stream the next batch of the round belongs to. *)
Stream(c) == <<c, Parts(c) - left[c] + 1>>

(* Fault: a batch that finds the channel full is dropped. *)
EnqueueOrDrop(c) ==
  metricschannel' =
    IF Len(metricschannel) = Capacity THEN metricschannel
    ELSE Append(metricschannel,
           [stream |-> Stream(c), from |-> batch[c].from, to |-> batch[c].to])

(* metricschannel <- m, which blocks while the channel is full. *)
Enqueue(c) ==
  /\ Len(metricschannel) < Capacity
  /\ metricschannel' = Append(metricschannel,
       [stream |-> Stream(c), from |-> batch[c].from, to |-> batch[c].to])

(* Fault: the loop is driven by a ticker. *)
AfterRoundOfTicker(c) == wake[c] + Delta

AfterRound(c) ==
  CASE KindOf[c] = "conntrack" -> wake[c]
    [] KindOf[c] = "cert" -> now + CertPeriod
    [] OTHER -> now + Delta

BaseAfterRound(c) == IF KindOf[c] = "netsnmp" THEN batch[c].to ELSE base[c]

(* One send; the last one ends the round, and with it the life of its      *)
(* metrics.                                                                *)
Send(c) ==
  /\ up /\ pc[c] = "send"
  /\ Enqueue(c)
  /\ left' = [left EXCEPT ![c] = @ - 1]
  /\ IF left[c] > 1
     THEN UNCHANGED <<pc, wake, base>>
     ELSE /\ Goto(c, "wait")
          /\ SleepUntil(c, AfterRound(c))
          /\ base' = [base EXCEPT ![c] = BaseAfterRound(c)]
  /\ batch' = IF left[c] > 1 THEN batch
              ELSE [batch EXCEPT ![c] = [from |-> 0, to |-> 0]]
  /\ UNCHANGED <<now, up, crashes, held, taken, posted>>
-----------------------------------------------------------------------------
(* m = <-metricschannel, the head of both senders' loop. *)
Receive ==
  /\ up /\ taken = <<>> /\ metricschannel # <<>>
  /\ taken' = <<Head(metricschannel)>>
  /\ metricschannel' = Tail(metricschannel)
  /\ UNCHANGED <<now, up, crashes, local, posted>>

(* Fault: after a time-out the batch is posted again, received or not. *)
DeliveredWithRetry == posted' = posted \o taken /\ taken' \in {<<>>, taken}

Delivered == posted' = posted \o taken /\ taken' = <<>>
Dropped == UNCHANGED posted /\ taken' = <<>>

(* Fault: the batch of a failed exchange is queued again. *)
MetricsSenderRequeues ==
  /\ up /\ ~Carbon /\ taken # <<>>
  /\ \/ /\ Delivered
        /\ UNCHANGED metricschannel
     \/ /\ Len(metricschannel) < Capacity
        /\ metricschannel' = metricschannel \o taken
        /\ Dropped
  /\ UNCHANGED <<now, up, crashes, local>>

(* One POST per batch.  A batch that cannot be marshalled (a NaN), a       *)
(* request that cannot be built and a failed exchange are logged and       *)
(* forgotten; the status of the answer is not looked at.                   *)
MetricsSenderJSON ==
  /\ up /\ ~Carbon /\ taken # <<>>
  /\ Delivered \/ Dropped
  /\ UNCHANGED <<now, up, crashes, local, metricschannel>>

(* One connection per batch.  A failed dial drops the batch; what Fprintf  *)
(* returns is ignored, so a connection that breaks may lose any suffix of  *)
(* the batch.                                                              *)
MetricsSenderCarbon ==
  /\ up /\ Carbon /\ taken # <<>>
  /\ Delivered \/ Dropped
  /\ UNCHANGED <<now, up, crashes, local, metricschannel>>
-----------------------------------------------------------------------------
(* A panic in any goroutine ends the process: the channel is gone. *)
Crash ==
  /\ up /\ crashes < MaxCrashes
  /\ up' = FALSE
  /\ crashes' = crashes + 1
  /\ pc' = [c \in Collectors |-> "stopped"]
  /\ metricschannel' = <<>>
  /\ taken' = <<>>
  /\ UNCHANGED <<now, wake, base, held, batch, left, posted>>

(* systemd starts it again (Restart=always), with all its state fresh; the *)
(* configuration may have been changed since.                              *)
Restart ==
  /\ ~up
  /\ up' = TRUE
  /\ \E enabled \in Configurations : pc' = StartedIn(enabled)
  /\ wake' = [c \in Collectors |-> FirstWake(c, now)]
  /\ base' = [c \in Collectors |-> 0]
  /\ held' = [c \in Collectors |-> 0]
  /\ batch' = [c \in Collectors |-> [from |-> 0, to |-> 0]]
  /\ left' = [c \in Collectors |-> 0]
  /\ UNCHANGED <<now, crashes, metricschannel, taken, posted>>

Tick ==
  /\ now < MaxTime
  /\ now' = now + 1
  /\ UNCHANGED <<up, crashes, local, metricschannel, taken, posted>>

(* At the bound of the clock, with nothing left to do, the model stutters; *)
(* any other state without a step is a deadlock TLC reports.               *)
Horizon ==
  /\ now = MaxTime /\ up
  /\ \A c \in Collectors :
       \/ pc[c] = "stopped"
       \/ pc[c] \in {"start", "wait"} /\ wake[c] > now
  /\ metricschannel = <<>> /\ taken = <<>>
  /\ UNCHANGED vars

Collect(c) ==
  \/ Connect(c)
  \/ Baseline(c)
  \/ BaselineFails(c)
  \/ Sample(c)
  \/ StaleSample(c)
  \/ SampleFails(c)
  \/ Send(c)

Sender == Receive \/ MetricsSenderJSON \/ MetricsSenderCarbon

Next ==
  \/ \E c \in Collectors : Collect(c)
  \/ Sender
  \/ Crash
  \/ Restart
  \/ Tick
  \/ Horizon

(***************************************************************************)
(* The sender always goes on: this assumes that dials and exchanges end,   *)
(* though the JSON client sets no timeout.  A blocked send is granted      *)
(* again and again the chance to proceed and takes it in the end: the Go   *)
(* runtime queues blocked senders first come, first served.  systemd       *)
(* restarts the process.  Nothing is assumed of the reads and the clock.   *)
(***************************************************************************)
Fairness ==
  /\ WF_vars(Sender)
  /\ WF_vars(Restart)
  /\ \A c \in Collectors : SF_vars(Send(c))

SafetySpec == Init /\ [][Next]_vars
Spec == SafetySpec /\ Fairness
-----------------------------------------------------------------------------
TypeOK ==
  /\ now \in Instants \ {0}
  /\ up \in BOOLEAN
  /\ crashes \in 0..MaxCrashes
  /\ pc \in [Collectors -> {"connect", "start", "wait", "send", "stopped"}]
  /\ wake \in [Collectors -> Nat]
  /\ base \in [Collectors -> Instants]
  /\ held \in [Collectors -> Instants]
  /\ batch \in [Collectors -> [from: Instants, to: Instants]]
  /\ left \in [Collectors -> 0..4]
  /\ metricschannel \in Seq(Batch) /\ Len(metricschannel) <= Capacity
  /\ taken \in Seq(Batch) /\ Len(taken) <= 1
  /\ posted \in Seq(Batch)

(* What waits to be reported, oldest first. *)
Backlog == taken \o metricschannel

Feed == INSTANCE MetricsFeed WITH received <- posted

(* The agent keeps the promise of MetricsFeed: through drops, panics,      *)
(* failed reads and backpressure the store is never sent a batch of a      *)
(* stream that overlaps or precedes one it already has.                    *)
FeedSpec == Feed!Spec

(* A report that covers a whole interval, if it is one of a difference. *)
Full(r) ==
  KindOf[r.stream[1]] \in Differencing =>
    \/ r.to >= r.from + Delta
    \/ KindOf[r.stream[1]] = "webserver" /\ r.to \in {0, r.from}

(* A rate is never computed over less than one sampling interval: the code *)
(* divides by DELTA (or, in the Postgres collector, by the difference of   *)
(* two timestamps) and the sleeps around errors and new baselines must     *)
(* never bring two samples closer than that.  Only a web server whose      *)
(* status page does not answer 200 reports no time at all, or time that    *)
(* ends at the zero value when that happens before the first good sample.  *)
FullInterval == \A i \in DOMAIN Backlog : Full(Backlog[i])

(* Where the next batch of a stream will begin. *)
NextFrom(s) ==
  LET c == s[1] IN
    IF pc[c] # "send" THEN base[c]
    ELSE IF s[2] >= Stream(c)[2] THEN batch[c].from ELSE batch[c].to

(* No time is skipped between two batches of a stream, whatever reads      *)
(* failed and whichever of them are still queued: the next batch will      *)
(* begin where the newest one in the queue ends.  Only an SNMP target,     *)
(* which throws its baseline away, may leave a gap.                        *)
NoGap ==
  \A i \in DOMAIN Backlog :
    LET r == Backlog[i] IN
      /\ KindOf[r.stream[1]] \in Differencing \ {"snmptarget"}
      /\ \A j \in DOMAIN Backlog : Backlog[j].stream = r.stream => j <= i
      => r.to = NextFrom(r.stream)

(* A round is settled in the end: the collector gets out of its blocked    *)
(* sends and what it sent leaves the queue, however full the channel was.  *)
Sending(c, t) == pc[c] = "send" /\ batch[c].to = t
Queued(c, t) == \E i \in DOMAIN Backlog : Backlog[i].stream[1] = c /\ Backlog[i].to = t

RoundSettles ==
  \A c \in Collectors, t \in 1..MaxTime :
    Sending(c, t) ~> ~Sending(c, t) /\ ~Queued(c, t)
-----------------------------------------------------------------------------
(***************************************************************************)
(* The inductive invariant behind FeedSpec and FullInterval.               *)
(***************************************************************************)

(* What the loop of each collector maintains between its steps. *)
LocalInv(c) ==
  /\ base[c] <= now /\ held[c] <= now
  /\ pc[c] \in {"connect", "start"} /\ KindOf[c] = "webserver" =>
       base[c] = 0 /\ held[c] = 0
  /\ pc[c] = "wait" /\ KindOf[c] \in Differencing => wake[c] >= base[c] + Delta
  /\ pc[c] \in {"wait", "send"} =>
       IF KindOf[c] = "webserver" THEN held[c] # 0 => base[c] = held[c]
       ELSE KindOf[c] \in Differencing => base[c] # 0
  /\ pc[c] = "send" =>
       /\ left[c] \in 1..Parts(c)
       /\ batch[c].to <= now
       /\ batch[c].from = 0 => KindOf[c] = "webserver"
       /\ KindOf[c] \in Differencing \ {"netsnmp"} => base[c] = batch[c].to
       /\ KindOf[c] \in Differencing =>
            \/ batch[c].to >= batch[c].from + Delta
            \/ KindOf[c] = "webserver" /\ batch[c].to \in {0, batch[c].from}

(* A comparison with the zero value may start anew from any instant. *)
OrNow(t) == IF t = 0 THEN now ELSE t

(* Report r ends before its collector's next report of the stream begins.  *)
Reaches(r) ==
  LET c == r.stream[1] IN
    /\ r.to <= now
    /\ pc[c] = "wait" /\ KindOf[c] \in Differencing => r.to <= OrNow(base[c])
    /\ pc[c] = "send" =>
         /\ r.to <= OrNow(batch[c].to)
         /\ r.stream[2] >= Stream(c)[2] => r.to <= OrNow(batch[c].from)

Follows(r, s) ==
  r.stream = s.stream =>
    \/ s.stream \in Unanchored /\ 0 \in {s.from, s.to}
    \/ r.to <= s.from

AllReach(q) == \A i \in DOMAIN q : Reaches(q[i])
InOrder(q) == \A i, j \in DOMAIN q : i < j => Follows(q[i], q[j])
Before(q, s) == \A i \in DOMAIN q, j \in DOMAIN s : Follows(q[i], s[j])

AllFull(q) == \A i \in DOMAIN q : Full(q[i])

(* Reports leave their collector, the queue and the sender in the order of *)
(* the time they cover, and the collectors are never behind them.          *)
IInv ==
  /\ TypeOK
  /\ \A c \in Collectors : LocalInv(c)
  /\ AllReach(posted) /\ AllReach(taken) /\ AllReach(metricschannel)
  /\ Before(posted, taken) /\ Before(posted, metricschannel)
  /\ Before(taken, metricschannel)
  /\ InOrder(metricschannel)
  /\ AllFull(taken) /\ AllFull(metricschannel)
=============================================================================
