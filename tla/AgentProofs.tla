---------------------------- MODULE AgentProofs ----------------------------
(***************************************************************************)
(* Proofs about Agent for every set of collectors, interval, capacity and  *)
(* bound.                                                                  *)
(***************************************************************************)
EXTENDS Agent, SequenceTheorems, TLAPS

USE ConstantsAssumption DEF ConstantsAssumption

(* A ticker's next tick is an instant. *)
LEMMA NextTickType ==
  ASSUME TypeOK, NEW c \in Collectors, now >= wake[c]
  PROVE  NextTick(c) \in Nat
<1> DEFINE n == (now - wake[c]) \div Delta
<1>1. now - wake[c] \in Nat
  BY DEF TypeOK, Instants
<1>2. n \in Nat
  BY <1>1
<1>3. (n + 1) * Delta \in Nat
  <2> HIDE DEF n
  <2> QED BY <1>2
<1> QED
  <2> HIDE DEF n
  <2>1. wake[c] \in Nat
    BY DEF TypeOK
  <2>2. wake[c] + (n + 1) * Delta \in Nat
    BY <1>3, <2>1
  <2> QED BY <2>2 DEF NextTick, n

LEMMA InitType == Init => TypeOK
BY DEF Init, TypeOK, StartedIn, EntryPoint, FirstWake, Instants, Differencing, Kinds

LEMMA ConnectType == ASSUME TypeOK, NEW c \in Collectors, Connect(c) PROVE TypeOK'
BY DEF TypeOK, Connect, Goto

LEMMA BaselineType == ASSUME TypeOK, NEW c \in Collectors, Baseline(c) PROVE TypeOK'
BY DEF TypeOK, Baseline, Goto, SleepUntil, Instants

LEMMA BaselineFailsType == ASSUME TypeOK, NEW c \in Collectors, BaselineFails(c) PROVE TypeOK'
<1>1. now + PgPause \in Nat /\ now + Delta \in Nat
  BY DEF TypeOK, Instants
<1>2. /\ pc \in [Collectors -> {"connect", "start", "wait", "send", "stopped"}]
      /\ wake \in [Collectors -> Nat]
  BY DEF TypeOK
<1>3. pc' = pc \/ \E label \in {"stopped", "wait"} : pc' = [pc EXCEPT ![c] = label]
  BY DEF BaselineFails, Goto
<1>4. wake' = wake \/ \E t \in {now + PgPause, now + Delta} : wake' = [wake EXCEPT ![c] = t]
  BY DEF BaselineFails, SleepUntil
<1>5. pc' \in [Collectors -> {"connect", "start", "wait", "send", "stopped"}]
  BY <1>2, <1>3
<1>6. wake' \in [Collectors -> Nat]
  BY <1>1, <1>2, <1>4
<1> QED
  BY <1>5, <1>6 DEF TypeOK, BaselineFails

LEMMA SampleType == ASSUME TypeOK, NEW c \in Collectors, Sample(c) PROVE TypeOK'
<1>1. NextTick(c) \in Nat
  BY NextTickType DEF Sample
<1>2. now \in Instants /\ base[c] \in Instants /\ Parts(c) \in 0..4
  BY DEF TypeOK, Parts
<1>3. wake' \in [Collectors -> Nat]
  BY <1>1 DEF TypeOK, Sample
<1>4. BaseAfterSample(c) \in Instants
  BY <1>2 DEF BaseAfterSample
<1>5. /\ batch' \in [Collectors -> [from: Instants, to: Instants]]
      /\ base' \in [Collectors -> Instants]
      /\ held' \in [Collectors -> Instants]
      /\ left' \in [Collectors -> 0..4]
  BY <1>2, <1>4 DEF TypeOK, Sample
<1> QED
  BY <1>3, <1>5 DEF TypeOK, Sample, Goto

LEMMA StaleSampleType == ASSUME TypeOK, NEW c \in Collectors, StaleSample(c) PROVE TypeOK'
BY DEF TypeOK, StaleSample, Goto, Parts

LEMMA SampleFailsType == ASSUME TypeOK, NEW c \in Collectors, SampleFails(c) PROVE TypeOK'
<1>1. NextTick(c) \in Nat
  BY NextTickType DEF SampleFails
<1> QED
  <2>1. now + Delta \in Nat /\ now \in Nat /\ now + CertPause \in Nat
    BY DEF TypeOK, Instants
  <2>2. /\ pc \in [Collectors -> {"connect", "start", "wait", "send", "stopped"}]
        /\ wake \in [Collectors -> Nat]
    BY DEF TypeOK
  <2>3. pc' = pc \/ \E label \in {"stopped", "start"} : pc' = [pc EXCEPT ![c] = label]
    BY DEF SampleFails, Goto
  <2>4. wake' = wake \/ \E t \in {now + Delta, now, NextTick(c), now + CertPause} :
                          wake' = [wake EXCEPT ![c] = t]
    BY DEF SampleFails, SleepUntil
  <2>5. pc' \in [Collectors -> {"connect", "start", "wait", "send", "stopped"}]
    BY <2>2, <2>3
  <2>6. wake' \in [Collectors -> Nat]
    BY <1>1, <2>1, <2>2, <2>4
  <2> QED
    BY <2>5, <2>6 DEF TypeOK, SampleFails

(* What a collector sends is a batch of one of its streams. *)
LEMMA SentType ==
  ASSUME TypeOK, NEW c \in Collectors, left[c] \in 1..Parts(c)
  PROVE  [stream |-> Stream(c), from |-> batch[c].from, to |-> batch[c].to] \in Batch
<1>1. Stream(c) \in Streams
  BY DEF Streams, Stream, Parts
<1>2. batch[c].from \in Instants /\ batch[c].to \in Instants
  BY DEF TypeOK
<1> QED
  BY <1>1, <1>2 DEF Batch

LEMMA SendType ==
  ASSUME TypeOK, NEW c \in Collectors, left[c] \in 1..Parts(c), Send(c)
  PROVE  TypeOK'
<1> DEFINE m == [stream |-> Stream(c), from |-> batch[c].from, to |-> batch[c].to]
<1>1. m \in Batch
  BY SentType
<1>2. metricschannel' \in Seq(Batch) /\ Len(metricschannel') <= Capacity
  <2> HIDE DEF m
  <2>1. metricschannel' = Append(metricschannel, m) /\ Len(metricschannel) < Capacity
    BY DEF Send, Enqueue, m
  <2> QED
    BY <1>1, <2>1 DEF TypeOK
<1>3. left' \in [Collectors -> 0..4]
  BY DEF TypeOK, Send, Parts
<1>4. AfterRound(c) \in Nat
  <2>1. wake[c] \in Nat /\ now + CertPeriod \in Nat /\ now + Delta \in Nat
    BY DEF TypeOK, Instants
  <2> QED
    BY <2>1 DEF AfterRound
<1>5. BaseAfterRound(c) \in Instants
  BY DEF TypeOK, BaseAfterRound
<1>6. /\ pc' \in [Collectors -> {"connect", "start", "wait", "send", "stopped"}]
      /\ wake' \in [Collectors -> Nat]
      /\ base' \in [Collectors -> Instants]
  <2>1. CASE left[c] > 1
    BY <2>1 DEF TypeOK, Send
  <2>2. CASE ~(left[c] > 1)
    <3>1. /\ pc' = [pc EXCEPT ![c] = "wait"]
          /\ wake' = [wake EXCEPT ![c] = AfterRound(c)]
          /\ base' = [base EXCEPT ![c] = BaseAfterRound(c)]
      BY <2>2 DEF Send, Goto, SleepUntil
    <3> QED
      BY <1>4, <1>5, <3>1 DEF TypeOK
  <2> QED
    BY <2>1, <2>2
<1>7. batch' \in [Collectors -> [from: Instants, to: Instants]]
  <2>1. 0 \in Instants
    BY DEF Instants
  <2> QED
    BY <2>1 DEF TypeOK, Send
<1> QED
  BY <1>2, <1>3, <1>6, <1>7 DEF TypeOK, Send

LEMMA ReceiveType == ASSUME TypeOK, Receive PROVE TypeOK'
<1>1. metricschannel # <<>> /\ metricschannel \in Seq(Batch)
  BY DEF TypeOK, Receive
<1>2. Head(metricschannel) \in Batch /\ Tail(metricschannel) \in Seq(Batch)
  BY <1>1
<1>3. Len(Tail(metricschannel)) <= Capacity
  BY <1>1 DEF TypeOK
<1> QED
  BY <1>2, <1>3 DEF TypeOK, Receive, local

LEMMA SenderType ==
  ASSUME TypeOK, MetricsSenderJSON \/ MetricsSenderCarbon
  PROVE  TypeOK'
<1>1. posted \o taken \in Seq(Batch)
  BY DEF TypeOK
<1>2. posted' \in {posted, posted \o taken} /\ taken' = <<>>
  BY DEF MetricsSenderJSON, MetricsSenderCarbon, Delivered, Dropped
<1>3. UNCHANGED <<now, up, crashes, local, metricschannel>>
  BY DEF MetricsSenderJSON, MetricsSenderCarbon
<1>4. posted' \in Seq(Batch)
  BY <1>1, <1>2 DEF TypeOK
<1> QED
  BY <1>2, <1>3, <1>4 DEF TypeOK, local

LEMMA ProcessType ==
  ASSUME TypeOK, Crash \/ Restart \/ Tick \/ Horizon
  PROVE  TypeOK'
<1>1. CASE Crash
  <2>1. crashes' \in 0..MaxCrashes
    BY <1>1 DEF TypeOK, Crash
  <2>2. pc' \in [Collectors -> {"connect", "start", "wait", "send", "stopped"}]
    BY <1>1 DEF Crash
  <2>3. /\ metricschannel' = <<>> /\ taken' = <<>> /\ up' = FALSE
        /\ UNCHANGED <<now, wake, base, held, batch, left, posted>>
    BY <1>1 DEF Crash
  <2>4. <<>> \in Seq(Batch) /\ Len(<<>>) = 0
    OBVIOUS
  <2>5. up' \in BOOLEAN
    BY <2>3
  <2> QED
    BY <2>1, <2>2, <2>3, <2>4, <2>5 DEF TypeOK
<1>2. CASE Restart
  <2>1. pc' \in [Collectors -> {"connect", "start", "wait", "send", "stopped"}]
    BY <1>2 DEF Restart, StartedIn, EntryPoint, Differencing, Kinds
  <2>2. now \in Nat /\ 0 \in Instants
    BY DEF TypeOK, Instants
  <2>3. wake' \in [Collectors -> Nat]
    BY <1>2, <2>2 DEF Restart, FirstWake
  <2>4. /\ up' \in BOOLEAN /\ base' \in [Collectors -> Instants] /\ held' \in [Collectors -> Instants]
        /\ batch' \in [Collectors -> [from: Instants, to: Instants]] /\ left' \in [Collectors -> 0..4]
        /\ UNCHANGED <<now, crashes, metricschannel, taken, posted>>
    BY <1>2, <2>2 DEF Restart
  <2> QED
    BY <2>1, <2>3, <2>4 DEF TypeOK
<1>3. CASE Tick
  BY <1>3 DEF TypeOK, Tick, local, Instants
<1>4. CASE Horizon
  BY <1>4 DEF TypeOK, Horizon, vars
<1> QED
  BY <1>1, <1>2, <1>3, <1>4
-----------------------------------------------------------------------------
(* A collector's step leaves the clock and the other collectors alone. *)
LEMMA Frame ==
  ASSUME TypeOK, NEW c \in Collectors, Collect(c), NEW d \in Collectors, d # c
  PROVE  /\ now' = now
         /\ pc'[d] = pc[d] /\ wake'[d] = wake[d] /\ base'[d] = base[d]
         /\ held'[d] = held[d] /\ batch'[d] = batch[d] /\ left'[d] = left[d]
<1>1. CASE Connect(c)
  BY <1>1 DEF TypeOK, Connect, Goto
<1>2. CASE Baseline(c)
  BY <1>2 DEF TypeOK, Baseline, Goto, SleepUntil
<1>3. CASE BaselineFails(c)
  BY <1>3 DEF TypeOK, BaselineFails, Goto, SleepUntil
<1>4. CASE Sample(c)
  BY <1>4 DEF TypeOK, Sample, Goto
<1>5. CASE StaleSample(c)
  BY <1>5 DEF TypeOK, StaleSample, Goto
<1>6. CASE SampleFails(c)
  BY <1>6 DEF TypeOK, SampleFails, Goto, SleepUntil
<1>7. CASE Send(c)
  BY <1>7 DEF TypeOK, Send, Goto, SleepUntil
<1> QED
  BY <1>1, <1>2, <1>3, <1>4, <1>5, <1>6, <1>7 DEF Collect

(* Each step of a collector keeps what its loop maintains. *)
LEMMA CollectLocal ==
  ASSUME TypeOK, NEW c \in Collectors, LocalInv(c), Collect(c)
  PROVE  LocalInv(c)'
<1> USE DEF LocalInv
<1>0. /\ now \in Nat \ {0} /\ base[c] \in Nat /\ held[c] \in Nat /\ wake[c] \in Nat
      /\ batch[c].from \in Nat /\ batch[c].to \in Nat /\ left[c] \in Nat
  <2>1. batch[c] \in [from: Instants, to: Instants] /\ left[c] \in 0..4
    BY DEF TypeOK
  <2>2. /\ now \in Instants /\ now # 0
        /\ base[c] \in Instants /\ held[c] \in Instants /\ wake[c] \in Nat
    BY DEF TypeOK
  <2> QED
    BY <2>1, <2>2 DEF Instants
<1>1. CASE Connect(c)
  BY <1>0, <1>1 DEF TypeOK, Connect, Goto
<1>2. CASE Baseline(c)
  BY <1>0, <1>2 DEF TypeOK, Baseline, Goto, SleepUntil
<1>3. CASE BaselineFails(c)
  BY <1>0, <1>3 DEF TypeOK, BaselineFails, Goto, SleepUntil, Differencing
<1>4. CASE Sample(c)
  <2>1. /\ now' = now /\ pc'[c] = "send"
        /\ batch'[c] = [from |-> IF KindOf[c] \in Differencing THEN base[c] ELSE now, to |-> now]
        /\ base'[c] = BaseAfterSample(c)
        /\ held'[c] = IF KindOf[c] = "webserver" THEN now ELSE held[c]
        /\ left'[c] = Parts(c)
    BY <1>4 DEF TypeOK, Sample, Goto
  <2>2. pc[c] = "wait" /\ now >= wake[c]
    BY <1>4 DEF Sample
  <2>3. Parts(c) \in 1..Parts(c)
    BY DEF Parts
  <2> QED
    BY <1>0, <2>1, <2>2, <2>3 DEF BaseAfterSample, Differencing, Parts
<1>5. CASE StaleSample(c)
  <2>1. /\ now' = now /\ pc'[c] = "send"
        /\ batch'[c] = [from |-> base[c], to |-> held[c]]
        /\ base'[c] = held[c] /\ held'[c] = held[c]
        /\ left'[c] = Parts(c)
    BY <1>5 DEF TypeOK, StaleSample, Goto
  <2>2. pc[c] = "wait" /\ KindOf[c] = "webserver"
    BY <1>5 DEF StaleSample
  <2>3. Parts(c) \in 1..Parts(c)
    BY DEF Parts
  <2> QED
    BY <1>0, <2>1, <2>2, <2>3 DEF Differencing, Parts
<1>6. CASE SampleFails(c)
  BY <1>0, <1>6 DEF TypeOK, SampleFails, Goto, SleepUntil, Differencing
<1>7. CASE Send(c)
  <2>1. /\ now' = now /\ held'[c] = held[c]
        /\ left'[c] = left[c] - 1 /\ pc[c] = "send"
    BY <1>7 DEF TypeOK, Send
  <2>2. CASE left[c] > 1
    <3>1. /\ pc'[c] = "send" /\ wake'[c] = wake[c] /\ base'[c] = base[c]
          /\ batch'[c] = batch[c]
      BY <1>7, <2>2 DEF Send
    <3> QED
      BY <1>0, <2>1, <2>2, <3>1 DEF Parts
  <2>3. CASE ~(left[c] > 1)
    <3>1. /\ pc'[c] = "wait" /\ wake'[c] = AfterRound(c)
          /\ base'[c] = BaseAfterRound(c)
      BY <1>7, <2>3 DEF TypeOK, Send, Goto, SleepUntil
    <3>2. base'[c] \in Nat /\ base'[c] <= now
      BY <1>0, <2>1, <3>1 DEF BaseAfterRound
    <3>3. KindOf[c] \in Differencing => wake'[c] = now + Delta
      BY <3>1 DEF AfterRound, Differencing
    <3>4. IF KindOf[c] = "webserver" THEN held[c] # 0 => base'[c] = held[c]
          ELSE KindOf[c] \in Differencing => base'[c] # 0
      <4>1. KindOf[c] = "netsnmp" => base'[c] >= Delta
        BY <1>0, <2>1, <3>1 DEF BaseAfterRound, Differencing
      <4> QED
        BY <1>0, <2>1, <3>1, <4>1 DEF BaseAfterRound, Differencing
    <3> QED
      BY <1>0, <2>1, <3>1, <3>2, <3>3, <3>4
  <2> QED
    BY <2>2, <2>3
<1> QED
  BY <1>1, <1>2, <1>3, <1>4, <1>5, <1>6, <1>7 DEF Collect

(* No step of a collector falls behind a report it has already made. *)
LEMMA CollectReaches ==
  ASSUME TypeOK, NEW c \in Collectors, LocalInv(c), Collect(c),
         NEW r \in Batch, Reaches(r)
  PROVE  Reaches(r)'
<1> DEFINE d == r.stream[1]
<1>0. d \in Collectors /\ r.stream[2] \in 1..4 /\ r.to \in Nat
  BY DEF Batch, Streams, Instants
<1>1. CASE d # c
  <2>1. /\ now' = now /\ pc'[d] = pc[d] /\ base'[d] = base[d]
        /\ batch'[d] = batch[d] /\ left'[d] = left[d]
    BY <1>0, <1>1, Frame
  <2> QED
    BY <2>1 DEF Reaches, OrNow, Stream
<1>2. CASE d = c
  <2>0. /\ now \in Nat /\ now # 0 /\ base[c] \in Nat /\ held[c] \in Nat
        /\ batch[c].from \in Nat /\ batch[c].to \in Nat /\ left[c] \in Nat
    <3>1. batch[c] \in [from: Instants, to: Instants] /\ left[c] \in 0..4
      BY DEF TypeOK
    <3>2. now \in Instants /\ now # 0 /\ base[c] \in Instants /\ held[c] \in Instants
      BY DEF TypeOK
    <3> QED
      BY <3>1, <3>2 DEF Instants
  <2>1. /\ r.to <= now
        /\ pc[c] = "wait" /\ KindOf[c] \in Differencing => r.to <= OrNow(base[c])
        /\ pc[c] = "send" =>
             /\ r.to <= OrNow(batch[c].to)
             /\ r.stream[2] >= Stream(c)[2] => r.to <= OrNow(batch[c].from)
    BY <1>2 DEF Reaches
  <2> SUFFICES
        /\ r.to <= now'
        /\ pc'[c] = "wait" /\ KindOf[c] \in Differencing =>
             r.to <= IF base'[c] = 0 THEN now' ELSE base'[c]
        /\ pc'[c] = "send" =>
             /\ r.to <= IF batch'[c].to = 0 THEN now' ELSE batch'[c].to
             /\ r.stream[2] >= Parts(c) - left'[c] + 1 =>
                  r.to <= IF batch'[c].from = 0 THEN now' ELSE batch'[c].from
    BY <1>2 DEF Reaches, OrNow, Stream
  <2>2. CASE Connect(c)
    BY <1>0, <2>0, <2>1, <2>2 DEF TypeOK, Connect, Goto
  <2>3. CASE Baseline(c)
    BY <1>0, <2>0, <2>1, <2>3 DEF TypeOK, Baseline, Goto
  <2>4. CASE BaselineFails(c)
    BY <1>0, <2>0, <2>1, <2>4 DEF TypeOK, BaselineFails, Goto, LocalInv, Differencing
  <2>5. CASE Sample(c)
    <3>1. /\ now' = now /\ pc'[c] = "send" /\ pc[c] = "wait"
          /\ batch'[c] = [from |-> IF KindOf[c] \in Differencing THEN base[c] ELSE now, to |-> now]
      BY <2>5 DEF TypeOK, Sample, Goto
    <3> QED
      BY <1>0, <2>0, <2>1, <3>1 DEF OrNow
  <2>6. CASE StaleSample(c)
    <3>1. /\ now' = now /\ pc'[c] = "send" /\ pc[c] = "wait"
          /\ batch'[c] = [from |-> base[c], to |-> held[c]]
          /\ KindOf[c] = "webserver"
      BY <2>6 DEF TypeOK, StaleSample, Goto
    <3>2. held[c] # 0 => base[c] = held[c]
      BY <3>1 DEF LocalInv
    <3> QED
      BY <1>0, <2>0, <2>1, <3>1, <3>2 DEF OrNow, Differencing
  <2>7. CASE SampleFails(c)
    BY <1>0, <2>0, <2>1, <2>7 DEF TypeOK, SampleFails, Goto, OrNow, Differencing
  <2>8. CASE Send(c)
    <3>1. /\ now' = now /\ left'[c] = left[c] - 1
          /\ pc[c] = "send" /\ left[c] \in 1..Parts(c)
      BY <2>8 DEF TypeOK, Send, LocalInv
    <3>2. CASE left[c] > 1
      <4>1. pc'[c] = "send" /\ base'[c] = base[c] /\ batch'[c] = batch[c]
        BY <2>8, <3>2 DEF Send
      <4> QED
        BY <1>0, <2>0, <2>1, <3>1, <4>1 DEF OrNow, Stream, Parts
    <3>3. CASE ~(left[c] > 1)
      <4>1. pc'[c] = "wait" /\ base'[c] = BaseAfterRound(c)
        BY <2>8, <3>3 DEF TypeOK, Send, Goto
      <4>2. KindOf[c] \in Differencing => base'[c] = batch[c].to
        BY <3>1, <4>1 DEF BaseAfterRound, LocalInv
      <4> QED
        BY <1>0, <2>0, <2>1, <3>1, <4>1, <4>2 DEF OrNow
    <3> QED
      BY <3>2, <3>3
  <2> QED
    BY <2>2, <2>3, <2>4, <2>5, <2>6, <2>7, <2>8 DEF Collect
<1> QED
  BY <1>1, <1>2

(* What a collector sends lies after every report it has made before, and  *)
(* its next report will lie after this one.                                *)
LEMMA SentInOrder ==
  ASSUME TypeOK, NEW c \in Collectors, LocalInv(c), Send(c),
         NEW m, m = [stream |-> Stream(c), from |-> batch[c].from, to |-> batch[c].to]
  PROVE  /\ m \in Batch
         /\ Full(m)
         /\ Reaches(m)'
         /\ \A r \in Batch : Reaches(r) => Follows(r, m)
<1>1. pc[c] = "send" /\ left[c] \in 1..Parts(c)
  BY DEF Send, LocalInv
<1>2. m \in Batch
  BY <1>1, SentType
<1>3. m.stream[1] = c /\ m.stream[2] = Parts(c) - left[c] + 1 /\ m.stream = Stream(c)
  BY DEF Stream
<1>4. Full(m)
  BY <1>1, <1>3 DEF Full, LocalInv
<1>5. /\ now \in Nat /\ now # 0 /\ base[c] \in Nat
      /\ batch[c].from \in Nat /\ batch[c].to \in Nat /\ left[c] \in Nat
  <2>1. batch[c] \in [from: Instants, to: Instants] /\ left[c] \in 0..4
    BY DEF TypeOK
  <2>2. now \in Instants /\ now # 0 /\ base[c] \in Instants
    BY DEF TypeOK
  <2> QED
    BY <2>1, <2>2 DEF Instants
<1>6. Reaches(m)'
  <2>1. /\ now' = now /\ left'[c] = left[c] - 1 /\ batch[c].to <= now
    BY <1>1 DEF TypeOK, Send, LocalInv
  <2>2. CASE left[c] > 1
    <3>1. pc'[c] = "send" /\ base'[c] = base[c] /\ batch'[c] = batch[c]
      BY <2>2 DEF Send
    <3> QED
      BY <1>1, <1>3, <1>5, <2>1, <3>1 DEF Reaches, OrNow, Stream, Parts
  <2>3. CASE ~(left[c] > 1)
    <3>1. pc'[c] = "wait" /\ base'[c] = BaseAfterRound(c)
      BY <2>3 DEF TypeOK, Send, Goto
    <3>2. KindOf[c] \in Differencing => base'[c] = batch[c].to
      BY <1>1, <3>1 DEF BaseAfterRound, LocalInv
    <3> QED
      BY <1>3, <1>5, <2>1, <3>1, <3>2 DEF Reaches, OrNow
  <2> QED
    BY <2>2, <2>3
<1>7. ASSUME NEW r \in Batch, Reaches(r), r.stream = m.stream
      PROVE  (m.stream \in Unanchored /\ m.from = 0) \/ r.to <= m.from
  <2>1. r.to <= OrNow(batch[c].from)
    BY <1>1, <1>3, <1>5, <1>7 DEF Reaches, Stream, Parts
  <2>2. CASE batch[c].from = 0
    <3>1. KindOf[c] = "webserver"
      BY <1>1, <2>2 DEF LocalInv
    <3> QED
      BY <1>2, <1>3, <2>2, <3>1 DEF Unanchored, Batch
  <2>3. CASE batch[c].from # 0
    BY <2>1, <2>3 DEF OrNow
  <2> QED
    BY <2>2, <2>3
<1> QED
  BY <1>2, <1>4, <1>6, <1>7 DEF Follows
-----------------------------------------------------------------------------
(* A queue that only loses reports stays where the collectors are ahead. *)
LEMMA ReachKept ==
  ASSUME posted \in Seq(Batch), taken \in Seq(Batch), metricschannel \in Seq(Batch),
         \A r \in Batch : Reaches(r) => Reaches(r)'
  PROVE  /\ AllReach(posted) /\ posted' = posted => AllReach(posted)'
         /\ AllReach(taken) /\ taken' = taken => AllReach(taken)'
         /\ AllReach(metricschannel) /\ metricschannel' = metricschannel
              => AllReach(metricschannel)'
<1>1. /\ \A i \in DOMAIN posted : posted[i] \in Batch
      /\ \A i \in DOMAIN taken : taken[i] \in Batch
      /\ \A i \in DOMAIN metricschannel : metricschannel[i] \in Batch
  OBVIOUS
<1> QED
  BY <1>1 DEF AllReach, Reaches

(* A collector's step keeps the inductive invariant. *)
LEMMA CollectStep ==
  ASSUME IInv, NEW c \in Collectors, Collect(c)
  PROVE  IInv'
<1>1. TypeOK /\ LocalInv(c)
  BY DEF IInv
<1>2. TypeOK'
  <2>1. Send(c) => left[c] \in 1..Parts(c)
    BY <1>1 DEF Send, LocalInv
  <2> QED
    BY <1>1, <2>1, ConnectType, BaselineType, BaselineFailsType, SampleType,
       StaleSampleType, SampleFailsType, SendType DEF Collect
<1>3. \A d \in Collectors : LocalInv(d)'
  <2>1. LocalInv(c)'
    BY <1>1, CollectLocal
  <2>2. ASSUME NEW d \in Collectors, d # c PROVE LocalInv(d)'
    <3>1. LocalInv(d)
      BY DEF IInv
    <3>2. /\ now' = now /\ pc'[d] = pc[d] /\ wake'[d] = wake[d] /\ base'[d] = base[d]
          /\ held'[d] = held[d] /\ batch'[d] = batch[d] /\ left'[d] = left[d]
      BY <1>1, <2>2, Frame
    <3> QED
      BY <3>1, <3>2 DEF LocalInv
  <2> QED
    BY <2>1, <2>2
<1>4. \A r \in Batch : Reaches(r) => Reaches(r)'
  BY <1>1, CollectReaches
<1>5. posted' = posted /\ taken' = taken
  BY DEF Collect, Connect, Baseline, BaselineFails, Sample, StaleSample, SampleFails, Send
<1>6. posted \in Seq(Batch) /\ taken \in Seq(Batch) /\ metricschannel \in Seq(Batch)
  BY <1>1 DEF TypeOK
<1>7. AllReach(posted)' /\ AllReach(taken)'
  BY <1>4, <1>5, <1>6, ReachKept DEF IInv
<1>8. Before(posted, taken)' /\ AllFull(taken)'
  BY <1>5 DEF IInv, Before, AllFull
<1>9. CASE metricschannel' = metricschannel
  <2>1. AllReach(metricschannel)'
    BY <1>4, <1>6, <1>9, ReachKept DEF IInv
  <2>2. /\ Before(posted, metricschannel)' /\ Before(taken, metricschannel)'
        /\ InOrder(metricschannel)' /\ AllFull(metricschannel)'
    BY <1>5, <1>9 DEF IInv, Before, InOrder, AllFull
  <2> QED
    BY <1>2, <1>3, <1>7, <1>8, <2>1, <2>2 DEF IInv
<1>10. CASE Send(c)
  <2> DEFINE m == [stream |-> Stream(c), from |-> batch[c].from, to |-> batch[c].to]
  <2>1. metricschannel' = Append(metricschannel, m)
    BY <1>10 DEF Send, Enqueue
  <2>2. /\ m \in Batch /\ Full(m) /\ \A r \in Batch : Reaches(r) => Follows(r, m)
    BY <1>1, <1>10, SentInOrder
  <2>3. \A n : n = m => Reaches(n)'
    BY <1>1, <1>10, SentInOrder
  <2> HIDE DEF m
  <2>4. PICK n : n = m
    OBVIOUS
  <2>5. /\ metricschannel' = Append(metricschannel, n) /\ n \in Batch /\ Full(n)
        /\ Reaches(n)' /\ \A r \in Batch : Reaches(r) => Follows(r, n)
    BY <2>1, <2>2, <2>3, <2>4
  <2>6. /\ DOMAIN metricschannel' = 1..(Len(metricschannel) + 1)
        /\ metricschannel'[Len(metricschannel) + 1] = n
        /\ \A i \in 1..Len(metricschannel) :
             i \in DOMAIN metricschannel /\ metricschannel'[i] = metricschannel[i]
        /\ Len(metricschannel) \in Nat
    BY <1>6, <2>5
  <2>7. \A i \in DOMAIN metricschannel' :
          \/ i \in DOMAIN metricschannel /\ metricschannel'[i] = metricschannel[i]
          \/ i = Len(metricschannel) + 1 /\ metricschannel'[i] = n
    BY <2>6
  <2>8. AllReach(metricschannel)'
    <3>1. \A i \in DOMAIN metricschannel : metricschannel[i] \in Batch
      BY <1>6
    <3> QED
      BY <1>4, <2>5, <2>7, <3>1 DEF IInv, AllReach, Reaches
  <2>9. AllFull(metricschannel)'
    BY <2>5, <2>7 DEF IInv, AllFull
  <2>10. /\ \A i \in DOMAIN posted : Follows(posted[i], n)
         /\ \A i \in DOMAIN taken : Follows(taken[i], n)
         /\ \A i \in DOMAIN metricschannel : Follows(metricschannel[i], n)
    <3>1. /\ \A i \in DOMAIN posted : posted[i] \in Batch
          /\ \A i \in DOMAIN taken : taken[i] \in Batch
          /\ \A i \in DOMAIN metricschannel : metricschannel[i] \in Batch
      BY <1>6
    <3> QED
      BY <2>5, <3>1 DEF IInv, AllReach
  <2>11. Before(posted, metricschannel)' /\ Before(taken, metricschannel)'
    BY <1>5, <2>7, <2>10 DEF IInv, Before
  <2>12. InOrder(metricschannel)'
    <3>1. DOMAIN metricschannel = 1..Len(metricschannel)
      BY <1>6
    <3> QED
      BY <2>6, <2>7, <2>10, <3>1 DEF IInv, InOrder
  <2> QED
    BY <1>2, <1>3, <1>7, <1>8, <2>8, <2>9, <2>11, <2>12 DEF IInv
<1> QED
  BY <1>9, <1>10 DEF Collect, Connect, Baseline, BaselineFails, Sample, StaleSample,
     SampleFails

(* A step that leaves clock and collectors alone keeps what holds of them. *)
LEMMA IdleCollectors ==
  ASSUME UNCHANGED <<now, local>>
  PROVE  /\ \A c \in Collectors : LocalInv(c) => LocalInv(c)'
         /\ \A r \in Batch : Reaches(r) => Reaches(r)'
BY DEF local, LocalInv, Reaches, OrNow, Stream

(* The head of the channel moves to the sender. *)
LEMMA ReceiveStep == ASSUME IInv, Receive PROVE IInv'
<1>1. TypeOK' /\ TypeOK
  BY ReceiveType DEF IInv
<1>2. /\ posted \in Seq(Batch) /\ metricschannel \in Seq(Batch) /\ metricschannel # <<>>
      /\ taken \in Seq(Batch)
      /\ taken' = <<Head(metricschannel)>> /\ metricschannel' = Tail(metricschannel)
      /\ posted' = posted /\ UNCHANGED <<now, local>>
  BY <1>1 DEF TypeOK, Receive
<1>3. /\ \A c \in Collectors : LocalInv(c)'
      /\ \A r \in Batch : Reaches(r) => Reaches(r)'
  BY <1>2, IdleCollectors DEF IInv
<1>4. AllReach(posted)'
  BY <1>2, <1>3, ReachKept DEF IInv
<1>5. /\ 1 \in DOMAIN metricschannel
      /\ \A i \in DOMAIN taken' : i = 1 /\ taken'[i] = metricschannel[1]
  BY <1>2
<1>6. \A i \in DOMAIN metricschannel' :
        /\ i + 1 \in DOMAIN metricschannel /\ 1 < i + 1
        /\ metricschannel'[i] = metricschannel[i + 1]
  BY <1>2
<1>7. \A i \in DOMAIN metricschannel :
        metricschannel[i] \in Batch /\ Reaches(metricschannel[i])
  BY <1>2 DEF IInv, AllReach
<1>8. AllReach(taken)' /\ AllReach(metricschannel)'
  BY <1>3, <1>5, <1>6, <1>7 DEF AllReach, Reaches
<1>9. /\ Before(posted, taken)' /\ Before(posted, metricschannel)'
      /\ Before(taken, metricschannel)'
      /\ AllFull(taken)' /\ AllFull(metricschannel)'
  BY <1>2, <1>5, <1>6 DEF IInv, Before, InOrder, AllFull
<1>10. InOrder(metricschannel)'
  <2>1. \A i, j \in DOMAIN metricschannel' : i < j => i + 1 < j + 1
    BY <1>2
  <2> QED
    BY <1>6, <2>1 DEF IInv, InOrder
<1> QED
  BY <1>1, <1>3, <1>4, <1>8, <1>9, <1>10 DEF IInv

(* The sender delivers its batch or drops it. *)
LEMMA SenderStep ==
  ASSUME IInv, MetricsSenderJSON \/ MetricsSenderCarbon
  PROVE  IInv'
<1>1. TypeOK' /\ TypeOK
  BY SenderType DEF IInv
<1>2. /\ posted \in Seq(Batch) /\ taken \in Seq(Batch) /\ metricschannel \in Seq(Batch)
      /\ posted' \in {posted, posted \o taken} /\ taken' = <<>>
      /\ metricschannel' = metricschannel /\ UNCHANGED <<now, local>>
  BY <1>1 DEF TypeOK, MetricsSenderJSON, MetricsSenderCarbon, Delivered, Dropped
<1>3. /\ \A c \in Collectors : LocalInv(c)'
      /\ \A r \in Batch : Reaches(r) => Reaches(r)'
  BY <1>2, IdleCollectors DEF IInv
<1>4. \A i \in DOMAIN posted' :
        \/ i \in DOMAIN posted /\ posted'[i] = posted[i]
        \/ \E j \in DOMAIN taken : posted'[i] = taken[j]
  <2>1. CASE posted' = posted
    BY <2>1
  <2>2. CASE posted' = posted \o taken
    <3>1. \A i \in DOMAIN posted' :
            \/ i \in DOMAIN posted /\ posted'[i] = posted[i]
            \/ i - Len(posted) \in DOMAIN taken /\ posted'[i] = taken[i - Len(posted)]
      BY <1>2, <2>2
    <3> QED
      BY <3>1
  <2> QED
    BY <1>2, <2>1, <2>2
<1>5. /\ \A i \in DOMAIN posted : posted[i] \in Batch /\ Reaches(posted[i])
      /\ \A i \in DOMAIN taken : taken[i] \in Batch /\ Reaches(taken[i])
  BY <1>2 DEF IInv, AllReach
<1>6. AllReach(posted)'
  BY <1>3, <1>4, <1>5 DEF AllReach, Reaches
<1>7. AllReach(metricschannel)'
  BY <1>2, <1>3, ReachKept DEF IInv
<1>8. AllReach(taken)' /\ AllFull(taken)' /\ Before(posted, taken)' /\ Before(taken, metricschannel)'
  BY <1>2 DEF AllReach, AllFull, Before
<1>9. Before(posted, metricschannel)'
  BY <1>2, <1>4 DEF IInv, Before
<1>10. InOrder(metricschannel)' /\ AllFull(metricschannel)'
  BY <1>2 DEF IInv, InOrder, AllFull
<1> QED
  BY <1>1, <1>3, <1>6, <1>7, <1>8, <1>9, <1>10 DEF IInv

(* Crashes, restarts and the clock. *)
LEMMA ProcessStep ==
  ASSUME IInv, Crash \/ Restart \/ Tick
  PROVE  IInv'
<1>1. TypeOK' /\ TypeOK
  BY ProcessType DEF IInv
<1>2. /\ posted \in Seq(Batch) /\ taken \in Seq(Batch) /\ metricschannel \in Seq(Batch)
      /\ now \in Nat /\ now # 0 /\ now' \in Nat /\ now <= now'
  BY <1>1 DEF TypeOK, Instants, Crash, Restart, Tick
<1>3. \A c \in Collectors : LocalInv(c)'
  <2> TAKE c \in Collectors
  <2>1. /\ LocalInv(c)
        /\ base[c] \in Nat /\ held[c] \in Nat /\ batch[c].to \in Nat /\ batch[c].from \in Nat
    <3>1. batch[c] \in [from: Instants, to: Instants]
      BY <1>1 DEF TypeOK
    <3> QED
      BY <1>1, <3>1 DEF IInv, TypeOK, Instants
  <2>2. CASE Crash
    <3>1. /\ pc'[c] = "stopped" /\ now' = now /\ base' = base /\ held' = held
      BY <2>2 DEF Crash
    <3> QED
      BY <2>1, <3>1 DEF LocalInv
  <2>3. CASE Restart
    <3>1. /\ pc'[c] \in {EntryPoint(c), "stopped"}
          /\ base'[c] = 0 /\ held'[c] = 0 /\ now' = now
      BY <2>3 DEF Restart, StartedIn
    <3>2. KindOf[c] \in Differencing => EntryPoint(c) \in {"connect", "start"}
      BY DEF EntryPoint
    <3>3. EntryPoint(c) # "send" /\ (KindOf[c] = "webserver" => KindOf[c] \in Differencing)
      BY DEF EntryPoint, Differencing
    <3> QED
      BY <1>2, <3>1, <3>2, <3>3 DEF LocalInv
  <2>4. CASE Tick
    <3>1. now' = now + 1 /\ UNCHANGED local
      BY <2>4 DEF Tick
    <3> QED
      BY <1>2, <2>1, <3>1 DEF LocalInv, local
  <2> QED
    BY <2>2, <2>3, <2>4
<1>4. \A r \in Batch : Reaches(r) => Reaches(r)'
  <2> TAKE r \in Batch
  <2> HAVE Reaches(r)
  <2> DEFINE c == r.stream[1]
  <2>1. c \in Collectors /\ r.to \in Nat /\ r.to <= now
    BY DEF Batch, Streams, Instants, Reaches
  <2>2. CASE Crash
    <3>1. pc'[c] = "stopped" /\ now' = now
      BY <2>1, <2>2 DEF Crash
    <3> QED
      BY <2>1, <3>1 DEF Reaches
  <2>3. CASE Restart
    <3>1. /\ pc'[c] \in {EntryPoint(c), "stopped"} /\ now' = now
      BY <2>1, <2>3 DEF Restart, StartedIn
    <3>2. /\ EntryPoint(c) # "send"
          /\ EntryPoint(c) = "wait" => KindOf[c] \notin Differencing
      BY DEF EntryPoint
    <3> QED
      BY <2>1, <3>1, <3>2 DEF Reaches
  <2>4. CASE Tick
    <3>1. now' = now + 1 /\ UNCHANGED local
      BY <2>4 DEF Tick
    <3>2. /\ batch[c].from \in Nat /\ batch[c].to \in Nat /\ base[c] \in Nat
      <4>1. batch[c] \in [from: Instants, to: Instants] /\ base[c] \in Instants
        BY <1>1, <2>1 DEF TypeOK
      <4> QED
        BY <4>1 DEF Instants
    <3> QED
      BY <1>2, <2>1, <3>1, <3>2 DEF Reaches, OrNow, Stream, local
  <2> QED
    BY <2>2, <2>3, <2>4
<1>5. posted' = posted /\ AllReach(posted)'
  BY <1>2, <1>4, ReachKept DEF IInv, Crash, Restart, Tick
<1>6. CASE Crash
  <2>1. metricschannel' = <<>> /\ taken' = <<>>
    BY <1>6 DEF Crash
  <2>2. /\ AllReach(taken)' /\ AllReach(metricschannel)' /\ Before(posted, taken)'
        /\ Before(posted, metricschannel)' /\ Before(taken, metricschannel)'
        /\ InOrder(metricschannel)' /\ AllFull(taken)' /\ AllFull(metricschannel)'
    BY <2>1 DEF AllReach, Before, InOrder, AllFull
  <2> QED
    BY <1>1, <1>3, <1>5, <2>2 DEF IInv
<1>7. CASE Restart \/ Tick
  <2>1. metricschannel' = metricschannel /\ taken' = taken
    BY <1>7 DEF Restart, Tick
  <2>2. AllReach(taken)' /\ AllReach(metricschannel)'
    BY <1>2, <1>4, <2>1, ReachKept DEF IInv
  <2>3. /\ Before(posted, taken)' /\ Before(posted, metricschannel)'
        /\ Before(taken, metricschannel)' /\ InOrder(metricschannel)'
        /\ AllFull(taken)' /\ AllFull(metricschannel)'
    BY <1>5, <2>1 DEF IInv, Before, InOrder, AllFull
  <2> QED
    BY <1>1, <1>3, <1>5, <2>2, <2>3 DEF IInv
<1> QED
  BY <1>6, <1>7

LEMMA IInvInit == Init => IInv
<1> SUFFICES ASSUME Init PROVE IInv
  OBVIOUS
<1>1. TypeOK
  BY InitType
<1>2. \A c \in Collectors : LocalInv(c)
  <2> TAKE c \in Collectors
  <2>1. /\ now = 1 /\ pc[c] \in {EntryPoint(c), "stopped"}
        /\ base[c] = 0 /\ held[c] = 0
    BY DEF Init, StartedIn
  <2>2. /\ KindOf[c] \in Differencing => EntryPoint(c) \in {"connect", "start"}
        /\ EntryPoint(c) # "send" /\ (KindOf[c] = "webserver" => KindOf[c] \in Differencing)
    BY DEF EntryPoint, Differencing
  <2> QED
    BY <2>1, <2>2 DEF LocalInv
<1>3. posted = <<>> /\ taken = <<>> /\ metricschannel = <<>>
  BY DEF Init
<1> QED
  BY <1>1, <1>2, <1>3 DEF IInv, AllReach, Before, InOrder, AllFull

LEMMA IInvStep == IInv /\ [Next]_vars => IInv'
<1> SUFFICES ASSUME IInv, [Next]_vars PROVE IInv'
  OBVIOUS
<1>1. ASSUME NEW c \in Collectors, Collect(c) PROVE IInv'
  BY <1>1, CollectStep
<1>2. CASE Sender
  BY <1>2, ReceiveStep, SenderStep DEF Sender
<1>3. CASE Crash \/ Restart \/ Tick
  BY <1>3, ProcessStep
<1>4. CASE UNCHANGED vars
  <2>1. UNCHANGED vars
    BY <1>4
  <2>2. TypeOK'
    BY <2>1 DEF IInv, vars, TypeOK
  <2>3. \A c \in Collectors : LocalInv(c)'
    BY <2>1 DEF IInv, vars, LocalInv
  <2>4. AllReach(posted)' /\ AllReach(taken)' /\ AllReach(metricschannel)'
    BY <2>1 DEF IInv, vars, AllReach, Reaches, OrNow, Stream
  <2>5. /\ Before(posted, taken)' /\ Before(posted, metricschannel)'
        /\ Before(taken, metricschannel)' /\ InOrder(metricschannel)'
    BY <2>1 DEF IInv, vars, Before, InOrder, Follows
  <2>6. AllFull(taken)' /\ AllFull(metricschannel)'
    BY <2>1 DEF IInv, vars, AllFull, Full
  <2> QED
    BY <2>2, <2>3, <2>4, <2>5, <2>6 DEF IInv
<1> QED
  BY <1>1, <1>2, <1>3, <1>4 DEF Next, Horizon

(* The inductive invariant holds of every behaviour of the agent. *)
THEOREM Invariance == SafetySpec => []IInv
BY IInvInit, IInvStep, PTL DEF SafetySpec

(* Every variable of the agent keeps its type: the channel never holds     *)
(* more than its capacity, a round never more than its parts.              *)
THEOREM TypeCorrect == SafetySpec => []TypeOK
<1>1. IInv => TypeOK
  BY DEF IInv
<1> QED
  BY <1>1, Invariance, PTL

(* No collector, however its reads fail and its sends block, queues a rate *)
(* computed over less than one interval.                                   *)
THEOREM FullIntervalHolds == SafetySpec => []FullInterval
<1>1. IInv => FullInterval
  <2> SUFFICES ASSUME IInv, NEW i \in DOMAIN Backlog PROVE Full(Backlog[i])
    BY DEF FullInterval
  <2>1. taken \in Seq(Batch) /\ metricschannel \in Seq(Batch)
    BY DEF IInv, TypeOK
  <2>2. \/ i \in DOMAIN taken /\ Backlog[i] = taken[i]
        \/ /\ i - Len(taken) \in DOMAIN metricschannel
           /\ Backlog[i] = metricschannel[i - Len(taken)]
    BY <2>1 DEF Backlog
  <2> QED
    BY <2>2 DEF IInv, AllFull
<1> QED
  BY <1>1, Invariance, PTL

(* Concatenating one element appends it. *)
LEMMA OneElement ==
  ASSUME NEW S, NEW q \in Seq(S), NEW t \in Seq(S), t # <<>>, Len(t) <= 1
  PROVE  /\ 1 \in DOMAIN t /\ t[1] \in S
         /\ q \o t = Append(q, t[1])
<1>1. Len(t) \in Nat \ {0}
  BY EmptySeq
<1>2. Len(t) = 1
  <2>1. \A k \in Nat \ {0} : k <= 1 => k = 1
    OBVIOUS
  <2> QED
    BY <1>1, <2>1, Zenon
<1>3. 1 \in DOMAIN t /\ t[1] \in S
  BY <1>2, LenProperties, ElementOfSeq
<1>4. /\ Append(q, t[1]) \in Seq(S) /\ q \o t \in Seq(S)
      /\ Len(Append(q, t[1])) = Len(q) + 1 /\ Len(q \o t) = Len(q) + 1
  <2>1. Append(q, t[1]) \in Seq(S) /\ Len(Append(q, t[1])) = Len(q) + 1
    BY <1>3, AppendProperties
  <2>2. q \o t \in Seq(S) /\ Len(q \o t) = Len(q) + Len(t)
    BY ConcatProperties
  <2> QED
    BY <1>2, <2>1, <2>2
<1>5. \A i \in 1..(Len(q) + 1) : (q \o t)[i] = Append(q, t[1])[i]
  <2>1. TAKE i \in 1..(Len(q) + 1)
  <2>2. CASE i \in 1..Len(q)
    BY <1>2, <1>3, <2>2, AppendProperties, ConcatProperties
  <2>3. CASE i = Len(q) + 1
    BY <1>2, <1>3, <2>3, AppendProperties, ConcatProperties
  <2> QED
    BY <2>1, <2>2, <2>3
<1> QED
  BY <1>3, <1>4, <1>5, SeqEqual

(* The agent implements MetricsFeed: the store never gets a report that    *)
(* goes back over time a report it has got before covers.                  *)
THEOREM FeedRefinement == SafetySpec => FeedSpec
<1>1. Init => Feed!Init
  BY DEF Init, Feed!Init
<1>2. IInv /\ [Next]_vars => [Feed!Next]_posted
  <2> SUFFICES ASSUME IInv, Next, posted' # posted PROVE Feed!Next
    BY DEF vars
  <2>1. /\ posted \in Seq(Batch) /\ taken \in Seq(Batch) /\ Len(taken) <= 1
    BY DEF IInv, TypeOK
  <2>2. posted' = posted \o taken /\ taken # <<>>
    BY DEF Next, Collect, Connect, Baseline, BaselineFails, Sample, StaleSample,
       SampleFails, Send, Sender, Receive, MetricsSenderJSON, MetricsSenderCarbon,
       Delivered, Dropped, Crash, Restart, Tick, Horizon, vars
  <2>3. 1 \in DOMAIN taken /\ taken[1] \in Batch
    BY <2>1, <2>2, OneElement
  <2>4. posted' = Append(posted, taken[1])
    BY <2>1, <2>2, OneElement
  <2>5. Feed!Extends(taken[1])
    BY <2>3 DEF IInv, Before, Follows, Feed!Extends
  <2>6. taken[1] \in Feed!Report
    BY <2>3 DEF Batch, Feed!Report
  <2> QED
    BY <2>4, <2>5, <2>6 DEF Feed!Next, Feed!Post
<1> QED
  BY <1>1, <1>2, Invariance, PTL DEF SafetySpec, FeedSpec, Feed!Spec
-----------------------------------------------------------------------------
(* The collectors that keep their baseline: all but SNMP targets.          *)
Gapless(r) == KindOf[r.stream[1]] \in Differencing \ {"snmptarget"}

Newest(i) == \A j \in DOMAIN Backlog : Backlog[j].stream = Backlog[i].stream => j <= i

(* NoGap made inductive: a collector that still has to take a baseline has *)
(* nothing in the queue, and neither has a process that is down.           *)
GapInv ==
  /\ NoGap
  /\ ~up => Backlog = <<>>
  /\ \A i \in DOMAIN Backlog :
       Gapless(Backlog[i]) => pc[Backlog[i].stream[1]] \notin {"connect", "start"}

LEMMA BacklogType ==
  ASSUME TypeOK
  PROVE  Backlog \in Seq(Batch) /\ \A i \in DOMAIN Backlog : Backlog[i] \in Batch
<1>1. taken \in Seq(Batch) /\ metricschannel \in Seq(Batch)
  BY DEF TypeOK
<1>2. Backlog \in Seq(Batch)
  BY <1>1 DEF Backlog
<1> QED
  BY <1>2, ElementOfSeq

(* What is to be shown of the state after a step. *)
LEMMA GapNext ==
  ASSUME up',
         \A i \in DOMAIN Backlog' :
           Gapless(Backlog'[i]) => pc'[Backlog'[i].stream[1]] \notin {"connect", "start"},
         \A i \in DOMAIN Backlog' :
           /\ Gapless(Backlog'[i])
           /\ \A j \in DOMAIN Backlog' : Backlog'[j].stream = Backlog'[i].stream => j <= i
           => \A s : s = Backlog'[i].stream => Backlog'[i].to = NextFrom(s)'
  PROVE  GapInv'
BY DEF GapInv, NoGap, Gapless, NextFrom, Stream

(* Between two sends a collector that keeps its baseline leaves the place  *)
(* where the next batch of each of its streams will begin.                 *)
LEMMA NextFromKept ==
  ASSUME TypeOK, NEW c \in Collectors, Collect(c), ~Send(c), NEW s \in Streams,
         s[1] = c => /\ KindOf[c] \in Differencing \ {"snmptarget"}
                     /\ pc[c] \notin {"connect", "start"}
  PROVE  /\ NextFrom(s)' = NextFrom(s)
         /\ s[1] = c => pc'[c] \notin {"connect", "start"}
         /\ s[1] # c => pc'[s[1]] = pc[s[1]]
<1>0. s[1] \in Collectors /\ s[2] \in 1..4
  BY DEF Streams
<1>1. CASE s[1] # c
  <2>1. /\ pc'[s[1]] = pc[s[1]] /\ base'[s[1]] = base[s[1]]
        /\ batch'[s[1]] = batch[s[1]] /\ left'[s[1]] = left[s[1]]
    BY <1>0, <1>1, Frame
  <2> QED
    BY <1>1, <2>1 DEF NextFrom, Stream
<1>2. CASE s[1] = c
  <2>1. NextFrom(s) = base[c] /\ Parts(c) \in Nat
    BY <1>2 DEF NextFrom, Collect, Connect, Baseline, BaselineFails, Sample, StaleSample,
       SampleFails, Parts
  <2>2. CASE Sample(c) \/ StaleSample(c)
    <3>1. /\ pc'[c] = "send" /\ left'[c] = Parts(c)
          /\ batch'[c].from = base[c]
      BY <1>2, <2>2 DEF TypeOK, Sample, StaleSample, Goto
    <3>2. Stream(c)'[2] = 1
      BY <2>1, <3>1 DEF Stream
    <3> QED
      BY <1>0, <1>2, <2>1, <3>1, <3>2 DEF NextFrom
  <2>3. CASE SampleFails(c)
    <3>1. base' = base /\ pc'[c] \in {"stopped", "wait"}
      BY <1>2, <2>3 DEF TypeOK, SampleFails, Goto
    <3> QED
      BY <1>2, <2>1, <3>1 DEF NextFrom
  <2> QED
    BY <1>2, <2>2, <2>3 DEF Collect, Connect, Baseline, BaselineFails
<1> QED
  BY <1>1, <1>2

(* After a send the next batch of its stream will begin where the batch    *)
(* just sent ends; the other streams are as they were.                     *)
LEMMA NextFromSent ==
  ASSUME TypeOK, NEW c \in Collectors, LocalInv(c), Send(c),
         KindOf[c] \in Differencing
  PROVE  /\ \A s \in Streams :
              NextFrom(s)' = IF s = Stream(c) THEN batch[c].to ELSE NextFrom(s)
         /\ pc'[c] \notin {"connect", "start"}
<1>1. /\ pc[c] = "send" /\ left[c] \in 1..Parts(c) /\ left[c] \in Nat /\ Parts(c) \in Nat
      /\ left'[c] = left[c] - 1
  BY DEF TypeOK, Send, LocalInv, Parts
<1>2. KindOf[c] # "netsnmp" => base[c] = batch[c].to
  BY <1>1 DEF LocalInv
<1>3. Stream(c)[1] = c /\ Stream(c)[2] = Parts(c) - left[c] + 1
  BY DEF Stream
<1>4. \A s \in Streams : s[1] \in Collectors /\ s[2] \in Nat /\ s[2] <= Parts(s[1])
                          /\ s = <<s[1], s[2]>>
  BY DEF Streams
<1>5. CASE left[c] > 1
  <2>1. pc'[c] = "send" /\ batch'[c] = batch[c]
    BY <1>1, <1>5 DEF Send
  <2>2. Stream(c)'[2] = Stream(c)[2] + 1
    BY <1>1 DEF Stream
  <2>3. ASSUME NEW s \in Streams, s # Stream(c), s[1] = c
        PROVE  NextFrom(s)' = NextFrom(s)
    <3>1. s[2] # Stream(c)[2]
      BY <1>4, <2>3 DEF Stream
    <3> QED
      BY <1>1, <1>3, <1>4, <2>1, <2>2, <2>3, <3>1 DEF NextFrom
  <2>4. ASSUME NEW s \in Streams, s = Stream(c) PROVE NextFrom(s)' = batch[c].to
    <3>1. s[1] = c /\ s[2] < Stream(c)'[2]
      BY <1>1, <1>3, <2>2, <2>4
    <3> QED
      BY <1>1, <1>3, <1>4, <2>1, <2>2, <3>1 DEF NextFrom
  <2>5. ASSUME NEW s \in Streams, s[1] # c
        PROVE  NextFrom(s)' = NextFrom(s)
    <3>1. /\ pc'[s[1]] = pc[s[1]] /\ base'[s[1]] = base[s[1]]
          /\ batch'[s[1]] = batch[s[1]] /\ left'[s[1]] = left[s[1]]
      BY <1>4, <2>5, Frame DEF Collect
    <3> QED
      BY <3>1 DEF NextFrom, Stream
  <2> QED
    BY <1>3, <2>1, <2>3, <2>4, <2>5
<1>6. CASE ~(left[c] > 1)
  <2>1. pc'[c] = "wait" /\ base'[c] = BaseAfterRound(c)
    BY <1>6 DEF TypeOK, Send, Goto
  <2>2. base'[c] = batch[c].to
    BY <1>2, <2>1 DEF BaseAfterRound
  <2>3. Stream(c)[2] = Parts(c)
    BY <1>1, <1>3, <1>6
  <2>4. ASSUME NEW s \in Streams, s # Stream(c), s[1] = c
        PROVE  NextFrom(s)' = NextFrom(s)
    <3>1. s[2] < Stream(c)[2]
      BY <1>1, <1>4, <2>3, <2>4 DEF Stream
    <3> QED
      BY <1>1, <1>4, <2>1, <2>2, <2>3, <2>4, <3>1 DEF NextFrom
  <2>5. ASSUME NEW s \in Streams, s[1] # c
        PROVE  NextFrom(s)' = NextFrom(s)
    <3>1. /\ pc'[s[1]] = pc[s[1]] /\ base'[s[1]] = base[s[1]]
          /\ batch'[s[1]] = batch[s[1]] /\ left'[s[1]] = left[s[1]]
      BY <1>4, <2>5, Frame DEF Collect
    <3> QED
      BY <3>1 DEF NextFrom, Stream
  <2>6. ASSUME NEW s \in Streams, s = Stream(c) PROVE NextFrom(s)' = batch[c].to
    <3>1. s[1] = c
      BY <1>3, <2>6
    <3> QED
      BY <2>1, <2>2, <3>1 DEF NextFrom
  <2> QED
    BY <1>3, <2>1, <2>4, <2>5, <2>6
<1> QED
  BY <1>5, <1>6

LEMMA CollectGap ==
  ASSUME IInv, GapInv, NEW c \in Collectors, Collect(c)
  PROVE  GapInv'
<1>1. TypeOK /\ LocalInv(c)
  BY DEF IInv
<1>2. /\ Backlog \in Seq(Batch) /\ metricschannel \in Seq(Batch) /\ taken \in Seq(Batch)
      /\ \A i \in DOMAIN Backlog :
           /\ Backlog[i] \in Batch /\ Backlog[i].stream \in Streams
           /\ Backlog[i].stream[1] \in Collectors
  <2>1. \A r \in Batch : r.stream \in Streams /\ r.stream[1] \in Collectors
    BY DEF Batch, Streams
  <2> QED
    BY <1>1, <2>1, BacklogType DEF TypeOK
<1>3. up' /\ taken' = taken
  BY DEF Collect, Connect, Baseline, BaselineFails, Sample, StaleSample, SampleFails, Send
<1>4. CASE ~Send(c)
  <2>1. Backlog' = Backlog
    BY <1>3, <1>4 DEF Backlog, Collect, Connect, Baseline, BaselineFails, Sample, StaleSample,
       SampleFails
  <2>2. ASSUME NEW i \in DOMAIN Backlog, Gapless(Backlog[i]),
               NEW s, s = Backlog[i].stream
        PROVE  /\ NextFrom(s)' = NextFrom(s)
               /\ pc'[Backlog[i].stream[1]] \notin {"connect", "start"}
    <3>1. pc[Backlog[i].stream[1]] \notin {"connect", "start"}
      BY <2>2 DEF GapInv
    <3>2. /\ s \in Streams /\ s[1] \in Collectors /\ pc[s[1]] \notin {"connect", "start"}
          /\ KindOf[s[1]] \in Differencing \ {"snmptarget"}
      BY <1>2, <2>2, <3>1 DEF Gapless
    <3> QED
      BY <1>1, <1>4, <2>2, <3>2, NextFromKept
  <2>3. ASSUME NEW i \in DOMAIN Backlog', Gapless(Backlog'[i])
        PROVE  pc'[Backlog'[i].stream[1]] \notin {"connect", "start"}
    BY <2>1, <2>2, <2>3 DEF Gapless
  <2>4. ASSUME NEW i \in DOMAIN Backlog', Gapless(Backlog'[i]),
               \A j \in DOMAIN Backlog' : Backlog'[j].stream = Backlog'[i].stream => j <= i,
               NEW s, s = Backlog'[i].stream
        PROVE  Backlog'[i].to = NextFrom(s)'
    <3>1. i \in DOMAIN Backlog /\ Gapless(Backlog[i]) /\ s = Backlog[i].stream
      BY <2>1, <2>4 DEF Gapless
    <3>2. Backlog[i].to = NextFrom(s)
      BY <2>1, <2>4, <3>1 DEF GapInv, NoGap, Gapless
    <3> QED
      BY <2>1, <2>2, <3>1, <3>2
  <2> QED
    BY <1>3, <2>3, <2>4, GapNext
<1>5. CASE Send(c)
  <2> DEFINE m == [stream |-> Stream(c), from |-> batch[c].from, to |-> batch[c].to]
             n == Len(Backlog)
  <2>1. m \in Batch
    BY <1>1, <1>5, SentType DEF LocalInv, Send
  <2>2. Backlog' = Append(Backlog, m)
    <3>1. metricschannel' = Append(metricschannel, m)
      BY <1>5 DEF Send, Enqueue
    <3> HIDE DEF m
    <3> QED
      BY <1>2, <1>3, <2>1, <3>1 DEF Backlog
  <2>3. m.stream = Stream(c) /\ m.stream[1] = c /\ m.to = batch[c].to
    BY DEF Stream
  <2> HIDE DEF m
  <2>4. /\ n \in Nat /\ DOMAIN Backlog = 1..n /\ DOMAIN Backlog' = 1..(n + 1)
        /\ Backlog'[n + 1] = m
        /\ \A i \in 1..n : Backlog'[i] = Backlog[i]
    BY <1>2, <2>1, <2>2
  <2> HIDE DEF n
  <2>5. \A i \in DOMAIN Backlog' :
          \/ i \in DOMAIN Backlog /\ Backlog'[i] = Backlog[i]
          \/ i = n + 1 /\ Backlog'[i] = m
    BY <2>4
  <2>6. n + 1 \in DOMAIN Backlog' /\ \A i \in DOMAIN Backlog : i \in DOMAIN Backlog' /\ ~(n + 1 <= i)
    BY <2>4
  <2>7. ASSUME NEW i \in DOMAIN Backlog', Gapless(Backlog'[i])
        PROVE  pc'[Backlog'[i].stream[1]] \notin {"connect", "start"}
    <3>1. CASE Backlog'[i].stream[1] = c
      BY <1>1, <1>5, <2>7, <3>1, NextFromSent DEF Gapless
    <3>2. CASE Backlog'[i].stream[1] # c
      <4>1. i \in DOMAIN Backlog /\ Backlog'[i] = Backlog[i]
        BY <2>3, <2>5, <3>2
      <4> QED
        BY <1>1, <1>2, <2>7, <3>2, <4>1, Frame DEF GapInv
    <3> QED
      BY <3>1, <3>2
  <2>8. ASSUME NEW i \in DOMAIN Backlog', Gapless(Backlog'[i]),
               \A j \in DOMAIN Backlog' : Backlog'[j].stream = Backlog'[i].stream => j <= i,
               NEW s, s = Backlog'[i].stream
        PROVE  Backlog'[i].to = NextFrom(s)'
    <3>1. CASE Backlog'[i] = m
      <4>1. s = Stream(c) /\ s \in Streams /\ KindOf[c] \in Differencing
        BY <2>1, <2>3, <2>8, <3>1 DEF Gapless, Batch
      <4> QED
        BY <1>1, <1>5, <2>3, <3>1, <4>1, NextFromSent
    <3>2. CASE Backlog'[i] # m
      <4>1. i \in DOMAIN Backlog /\ Backlog'[i] = Backlog[i]
        BY <2>5, <3>2
      <4>2. s # Stream(c) /\ s \in Streams /\ s = Backlog[i].stream /\ s[1] \in Collectors
        BY <1>2, <2>3, <2>4, <2>6, <2>8, <4>1
      <4>3. \A j \in DOMAIN Backlog : Backlog[j].stream = s => j <= i
        BY <2>4, <2>6, <2>8, <4>1
      <4>4. Backlog[i].to = NextFrom(s)
        BY <2>8, <4>1, <4>2, <4>3 DEF GapInv, NoGap, Gapless
      <4>5. NextFrom(s)' = NextFrom(s)
        <5>1. CASE s[1] # c
          <6>1. /\ pc'[s[1]] = pc[s[1]] /\ base'[s[1]] = base[s[1]]
                /\ batch'[s[1]] = batch[s[1]] /\ left'[s[1]] = left[s[1]]
            BY <1>1, <4>2, <5>1, Frame
          <6> QED
            BY <6>1 DEF NextFrom, Stream
        <5>2. CASE s[1] = c
          <6>1. KindOf[c] \in Differencing
            BY <2>8, <4>1, <5>2 DEF Gapless
          <6> QED
            BY <1>1, <1>5, <4>2, <6>1, NextFromSent
        <5> QED
          BY <5>1, <5>2
      <4> QED
        BY <4>1, <4>4, <4>5
    <3> QED
      BY <3>1, <3>2
  <2> QED
    BY <1>3, <2>7, <2>8, GapNext
<1> QED
  BY <1>4, <1>5

(* The steps of the sender, of the process and of the clock. *)
LEMMA OtherGap ==
  ASSUME IInv, GapInv, Sender \/ Crash \/ Restart \/ Tick \/ UNCHANGED vars
  PROVE  GapInv'
<1>1. /\ metricschannel \in Seq(Batch) /\ taken \in Seq(Batch) /\ Len(taken) <= 1
      /\ Backlog \in Seq(Batch)
  BY BacklogType DEF IInv, TypeOK
<1>2. CASE Receive \/ Tick \/ UNCHANGED vars
  <2>1. Backlog' = Backlog
    <3>1. CASE Receive
      <4>1. /\ taken = <<>> /\ metricschannel # <<>>
            /\ taken' = <<Head(metricschannel)>> /\ metricschannel' = Tail(metricschannel)
        BY <3>1 DEF Receive
      <4>2. <<Head(metricschannel)>> \o Tail(metricschannel) = metricschannel
        BY <1>1, <4>1
      <4>3. <<>> \o metricschannel = metricschannel
        BY <1>1
      <4> QED
        BY <4>1, <4>2, <4>3 DEF Backlog
    <3>2. CASE Tick \/ UNCHANGED vars
      BY <3>2 DEF Tick, vars, Backlog
    <3> QED
      BY <1>2, <3>1, <3>2
  <2>2. UNCHANGED <<up, local>>
    BY <1>2 DEF Receive, Tick, vars, local
  <2> QED
    BY <2>1, <2>2 DEF GapInv, NoGap, Gapless, NextFrom, Stream, local
<1>3. CASE MetricsSenderJSON \/ MetricsSenderCarbon
  <2>1. /\ taken # <<>> /\ taken' = <<>> /\ metricschannel' = metricschannel /\ up
        /\ UNCHANGED <<up, local>>
    BY <1>3 DEF MetricsSenderJSON, MetricsSenderCarbon, Delivered, Dropped
  <2>2. Len(taken) = 1
    <3>1. Len(taken) \in Nat /\ Len(taken) # 0
      BY <1>1, <2>1, EmptySeq
    <3>2. \A k \in Nat : k # 0 /\ k <= 1 => k = 1
      OBVIOUS
    <3> QED
      BY <1>1, <3>1, <3>2, Zenon
  <2>3. Backlog' = metricschannel
    BY <1>1, <2>1 DEF Backlog
  <2>4. /\ Len(metricschannel) \in Nat
        /\ DOMAIN Backlog' = 1..Len(metricschannel)
        /\ DOMAIN Backlog = 1..(Len(metricschannel) + 1)
        /\ \A i \in 1..Len(metricschannel) : Backlog[i + 1] = metricschannel[i]
    <3>1. Len(metricschannel) \in Nat /\ DOMAIN metricschannel = 1..Len(metricschannel)
      BY <1>1
    <3>2. /\ Len(Backlog) = Len(taken) + Len(metricschannel)
          /\ DOMAIN Backlog = 1..Len(Backlog)
          /\ \A i \in 1..Len(Backlog) :
               Backlog[i] = IF i <= Len(taken) THEN taken[i] ELSE metricschannel[i - Len(taken)]
      BY <1>1, ConcatProperties DEF Backlog
    <3> HIDE DEF Backlog
    <3>3. \A i \in 1..Len(metricschannel) : Backlog[i + 1] = metricschannel[i]
      <4>1. TAKE i \in 1..Len(metricschannel)
      <4>2. i + 1 \in 1..Len(Backlog) /\ ~(i + 1 <= 1) /\ i + 1 - 1 = i
        BY <2>2, <3>1, <3>2
      <4> QED
        BY <2>2, <3>2, <4>2
    <3> QED
      BY <2>2, <2>3, <3>1, <3>2, <3>3
  <2>5. \A i \in DOMAIN Backlog' :
          i \in Nat /\ i + 1 \in DOMAIN Backlog /\ Backlog'[i] = Backlog[i + 1]
    BY <2>3, <2>4
  <2>6. \A j \in DOMAIN Backlog : j = 1 \/ (j - 1 \in DOMAIN Backlog' /\ j \in Nat)
    BY <2>4
  <2>7. ASSUME NEW i \in DOMAIN Backlog', Gapless(Backlog'[i])
        PROVE  pc'[Backlog'[i].stream[1]] \notin {"connect", "start"}
    BY <2>1, <2>5, <2>7 DEF GapInv, local
  <2>8. ASSUME NEW i \in DOMAIN Backlog', Gapless(Backlog'[i]),
               \A j \in DOMAIN Backlog' : Backlog'[j].stream = Backlog'[i].stream => j <= i,
               NEW s, s = Backlog'[i].stream
        PROVE  Backlog'[i].to = NextFrom(s)'
    <3>1. i + 1 \in DOMAIN Backlog /\ Backlog'[i] = Backlog[i + 1] /\ i \in Nat
      BY <2>5
    <3>2. ASSUME NEW j \in DOMAIN Backlog, Backlog[j].stream = Backlog[i + 1].stream
          PROVE  j <= i + 1
      <4>1. CASE j = 1
        BY <3>1, <4>1
      <4>2. CASE j # 1
        <5>1. j - 1 \in DOMAIN Backlog' /\ j \in Nat
          BY <2>6, <4>2
        <5>2. Backlog'[j - 1] = Backlog[j]
          BY <2>5, <5>1
        <5>3. j - 1 <= i
          BY <2>8, <3>1, <3>2, <5>1, <5>2
        <5> QED
          BY <3>1, <5>1, <5>3
      <4> QED
        BY <4>1, <4>2
    <3>3. Backlog[i + 1].to = NextFrom(s)
      BY <2>8, <3>1, <3>2 DEF GapInv, NoGap, Gapless
    <3> QED
      BY <2>1, <3>1, <3>3 DEF NextFrom, Stream, local
  <2> QED
    BY <2>1, <2>7, <2>8, GapNext
<1>4. CASE Crash \/ Restart
  <2>1. Backlog' = <<>>
    <3>1. CASE Crash
      BY <3>1 DEF Crash, Backlog
    <3>2. CASE Restart
      BY <3>2 DEF Restart, Backlog, GapInv
    <3> QED
      BY <1>4, <3>1, <3>2
  <2> QED
    BY <2>1 DEF GapInv, NoGap
<1> QED
  BY <1>2, <1>3, <1>4 DEF Sender

(* Between two batches of a stream no time is skipped, whatever reads      *)
(* failed and however long the channel was full: what the newest queued    *)
(* batch ends with is where the next one will begin.                       *)
THEOREM NoGapHolds == SafetySpec => []NoGap
<1>1. Init => GapInv
  BY DEF Init, GapInv, NoGap, Backlog
<1>2. IInv /\ GapInv /\ [Next]_vars => GapInv'
  BY CollectGap, OtherGap DEF Next, Horizon
<1>3. GapInv => NoGap
  BY DEF GapInv
<1> QED
  BY <1>1, <1>2, <1>3, Invariance, PTL DEF SafetySpec
=============================================================================
