---------------------------- MODULE LoggerProofs ----------------------------
(***************************************************************************)
(* Proofs about Logger, and that it implements LogStream, for every set of *)
(* callers, every configuration, buffer and bound.                         *)
(***************************************************************************)
EXTENDS Logger, SequenceTheorems, TLAPS

USE LoggerAssumption DEF LoggerAssumption

(* What has been sent to Logger i and is still to be written. *)
Pipe(i) == (IF hand[i] = NoMessage THEN <<>> ELSE <<hand[i]>>) \o queue[i]

(* How many of its calls each caller has sent to the k-th of the Loggers.  *)
Sent(k) ==
  [c \in Callers |-> IF pc[c] \in 1..k THEN Len(calls[c]) - 1 ELSE Len(calls[c])]

(* The messages p under way are numbered calls already sent, those of a    *)
(* caller in the order it made them.                                       *)
Ordered(p, sent) ==
  /\ \A j \in DOMAIN p : p[j][2] <= sent[p[j][1]]
  /\ \A j, l \in DOMAIN p : j < l /\ p[j][1] = p[l][1] => p[j][2] < p[l][2]

(* The lines l are older than what is under way. *)
Older(p, l, sent) ==
  /\ \A x \in DOMAIN l : l[x][2] <= sent[l[x][1]]
  /\ \A x \in DOMAIN l, j \in DOMAIN p : l[x][1] = p[j][1] => l[x][2] < p[j][2]

(* No call of the level that was sent is lost. *)
NoneLost(p, l, sent, made, level) ==
  \A c \in Callers : \A n \in 1..sent[c] :
    made[c][n] >= level =>
      \/ \E x \in DOMAIN l : l[x] = <<c, n>>
      \/ \E j \in DOMAIN p : p[j] = <<c, n>>

PipeInv(k) == Ordered(Pipe(loggers[k]), Sent(k))

LinesInv(k) ==
  LET i == loggers[k]
      m == setup[i].mode
  IN i \in outputs =>
       /\ Older(Pipe(i), lines[m], Sent(k))
       /\ NoneLost(Pipe(i), lines[m], Sent(k), calls, LevelOf[m])

(* The Loggers that are called: each once, one with an output of each mode *)
(* that was set up, and no other ever gets a message.                      *)
OneEach(l, O) ==
  \A j, k \in DOMAIN l :
    \/ l[j] = l[k]
    \/ l[j] \in O /\ l[k] \in O /\ setup[l[j]].mode = setup[l[k]].mode
    => j = k

Covers(l, O) ==
  \A i \in O : \E k \in DOMAIN l : l[k] \in O /\ setup[l[k]].mode = setup[i].mode

LoggersInv ==
  /\ OneEach(loggers, outputs)
  /\ Covers(loggers, outputs)
  /\ \A i \in DOMAIN setup : Pipe(i) # <<>> => \E k \in DOMAIN loggers : loggers[k] = i

(* Nothing is logged while the log is set up. *)
SetupInv ==
  main.step = "setup" =>
    /\ \A k \in DOMAIN loggers : loggers[k] < main.at
    /\ \A i \in DOMAIN setup : queue[i] = <<>> /\ hand[i] = NoMessage
    /\ \A c \in Callers : calls[c] = <<>>
    /\ \A m \in Modes : lines[m] = <<>>

(* A caller on its way through the Loggers has made a call. *)
CallersInv ==
  \A c \in Callers :
    /\ Len(calls[c]) <= MaxCalls + 1
    /\ pc[c] # 0 => calls[c] # <<>>

(* The Loggers that Fatal has closed are empty for good. *)
Shut(k) ==
  /\ loggers[k] \notin running
  /\ queue[loggers[k]] = <<>> /\ hand[loggers[k]] = NoMessage

(* After Fatal is called in the set-up, its call stays the only one. *)
FatalInv ==
  /\ main.step \in {"fatal", "quit", "drain", "exited"} =>
       /\ calls[Main] = <<ErrorLevel>>
       /\ \A c \in Callers \ {Main} : calls[c] = <<>>
       /\ main.step # "fatal" => pc[Main] = 0
  /\ main.step \in {"quit", "drain"} =>
       /\ main.at \in DOMAIN loggers
       /\ \A k \in 1..(main.at - 1) : Shut(k)
  /\ main.step = "drain" =>
       loggers[main.at] \notin running /\ hand[loggers[main.at]] = NoMessage
  /\ main.step = "exited" => \A k \in DOMAIN loggers : Shut(k)

IInv ==
  /\ TypeOK
  /\ setup \in Setups
  /\ main = At(main.step, main.at) /\ main.at \in Nat
  /\ LoggersInv /\ SetupInv /\ CallersInv /\ FatalInv
  /\ \A k \in DOMAIN loggers : PipeInv(k) /\ LinesInv(k)

(* What the types say of the configuration and the Loggers. *)
LEMMA Facts ==
  ASSUME IInv
  PROVE  /\ setup \in Seq([mode: Modes, outcome: Outcomes])
         /\ Len(setup) \in Nat /\ DOMAIN setup = 1..Len(setup)
         /\ \A i \in DOMAIN setup : setup[i].mode \in Modes
         /\ loggers \in Seq(DOMAIN setup)
         /\ Len(loggers) \in Nat /\ DOMAIN loggers = 1..Len(loggers)
         /\ \A k \in DOMAIN loggers : loggers[k] \in DOMAIN setup /\ k \in Nat
<1>1. setup \in Seq([mode: Modes, outcome: Outcomes])
  BY DEF IInv
<1>2. loggers \in Seq(DOMAIN setup)
  BY DEF IInv, TypeOK
<1>3. Len(loggers) \in Nat /\ DOMAIN loggers = 1..Len(loggers)
  BY <1>2
<1>4. \A k \in DOMAIN loggers : loggers[k] \in DOMAIN setup /\ k \in Nat
  BY <1>2, <1>3, ElementOfSeq
<1>5. Len(setup) \in Nat /\ DOMAIN setup = 1..Len(setup)
  BY <1>1
<1>6. \A i \in DOMAIN setup : setup[i].mode \in Modes
  <2>1. \A i \in 1..Len(setup) : setup[i] \in [mode: Modes, outcome: Outcomes]
    BY <1>1, ElementOfSeq
  <2> QED
    BY <1>5, <2>1
<1> QED
  BY <1>1, <1>2, <1>3, <1>4, <1>5, <1>6

(* A message is a pair that is not NoMessage. *)
LEMMA MessageType ==
  ASSUME NEW m \in Messages
  PROVE  /\ m # NoMessage /\ m[1] \in Callers /\ m[2] \in Nat \ {0} /\ m = <<m[1], m[2]>>
BY DEF Messages

LEMMA PipeType ==
  ASSUME IInv, NEW i \in DOMAIN setup
  PROVE  /\ queue[i] \in Seq(Messages)
         /\ Pipe(i) \in Seq(Messages)
         /\ Len(Pipe(i)) \in Nat /\ DOMAIN Pipe(i) = 1..Len(Pipe(i))
         /\ \A j \in DOMAIN Pipe(i) : Pipe(i)[j] \in Messages /\ j \in Nat \ {0}
<1>1. queue[i] \in Seq(Messages) /\ hand[i] \in Messages \cup {NoMessage}
  BY DEF IInv, TypeOK
<1>2. Pipe(i) \in Seq(Messages)
  BY <1>1 DEF Pipe
<1> HIDE DEF Pipe
<1>3. Len(Pipe(i)) \in Nat /\ DOMAIN Pipe(i) = 1..Len(Pipe(i))
  BY <1>2
<1> QED
  BY <1>1, <1>2, <1>3, ElementOfSeq

(* A goroutine that receives a message keeps it among those under way. *)
LEMMA PipeTake ==
  ASSUME IInv, NEW i \in DOMAIN setup, Take(i)
  PROVE  \A j \in DOMAIN setup : Pipe(j)' = Pipe(j)
<1>1. /\ hand[i] = NoMessage /\ queue[i] # <<>> /\ queue[i] \in Seq(Messages)
      /\ queue \in [DOMAIN setup -> Seq(Messages)]
      /\ hand \in [DOMAIN setup -> Messages \cup {NoMessage}]
      /\ hand' = [hand EXCEPT ![i] = Head(queue[i])]
      /\ queue' = [queue EXCEPT ![i] = Tail(@)]
  BY DEF IInv, TypeOK, Take
<1>2. Head(queue[i]) \in Messages
  BY <1>1
<1>3. Head(queue[i]) # NoMessage
  BY <1>2, MessageType
<1>4. Pipe(i)' = <<Head(queue[i])>> \o Tail(queue[i])
  BY <1>1, <1>3 DEF Pipe
<1>5. Pipe(i) = queue[i]
  BY <1>1 DEF Pipe
<1>6. <<Head(queue[i])>> \o Tail(queue[i]) = queue[i]
  BY <1>1
<1>7. \A j \in DOMAIN setup : j # i => Pipe(j)' = Pipe(j)
  BY <1>1 DEF Pipe
<1> QED
  BY <1>4, <1>5, <1>6, <1>7

LEMMA PipeQueued ==
  ASSUME IInv, NEW i \in DOMAIN setup, NEW m \in Messages, Queued(i, m), hand' = hand
  PROVE  /\ Pipe(i)' = Append(Pipe(i), m)
         /\ \A j \in DOMAIN setup : j # i => Pipe(j)' = Pipe(j)
<1>1. /\ queue[i] \in Seq(Messages) /\ hand[i] \in Messages \cup {NoMessage}
      /\ queue \in [DOMAIN setup -> Seq(Messages)]
      /\ queue' = [queue EXCEPT ![i] = Append(@, m)]
  BY DEF IInv, TypeOK, Queued
<1>2. \A j \in DOMAIN setup : j # i => Pipe(j)' = Pipe(j)
  BY <1>1 DEF Pipe
<1>3. Pipe(i)' = (IF hand[i] = NoMessage THEN <<>> ELSE <<hand[i]>>) \o Append(queue[i], m)
  BY <1>1 DEF Pipe
<1>4. \A s \in Seq(Messages) : s \o Append(queue[i], m) = Append(s \o queue[i], m)
  BY <1>1
<1>5. (IF hand[i] = NoMessage THEN <<>> ELSE <<hand[i]>>) \in Seq(Messages)
  BY <1>1
<1> QED
  BY <1>2, <1>3, <1>4, <1>5 DEF Pipe

(* The first message under way is the one in the goroutine's hand, if any, *)
(* and the first of the queue if there is none; what remains is the tail.  *)
LEMMA PipeWritten ==
  ASSUME IInv, NEW i \in DOMAIN setup,
         \/ hand[i] # NoMessage /\ hand' = [hand EXCEPT ![i] = NoMessage] /\ queue' = queue
         \/ /\ hand[i] = NoMessage /\ hand' = hand
            /\ queue[i] # <<>> /\ queue' = [queue EXCEPT ![i] = Tail(@)]
  PROVE  /\ Pipe(i) # <<>> /\ Pipe(i)' = Tail(Pipe(i))
         /\ Pipe(i)[1] = IF hand[i] = NoMessage THEN Head(queue[i]) ELSE hand[i]
         /\ \A j \in DOMAIN setup : j # i => Pipe(j)' = Pipe(j)
<1>1. /\ queue[i] \in Seq(Messages) /\ hand[i] \in Messages \cup {NoMessage}
      /\ queue \in [DOMAIN setup -> Seq(Messages)]
      /\ hand \in [DOMAIN setup -> Messages \cup {NoMessage}]
  BY DEF IInv, TypeOK
<1>2. \A j \in DOMAIN setup : j # i => Pipe(j)' = Pipe(j)
  BY <1>1 DEF Pipe
<1>3. CASE hand[i] # NoMessage
  <2>1. Pipe(i) = <<hand[i]>> \o queue[i] /\ hand[i] \in Messages
    BY <1>1, <1>3 DEF Pipe
  <2>2. Pipe(i)' = <<>> \o queue[i]
    BY <1>1, <1>3 DEF Pipe
  <2>3. \A m \in Messages : /\ <<m>> \o queue[i] # <<>> /\ (<<m>> \o queue[i])[1] = m
                           /\ Tail(<<m>> \o queue[i]) = queue[i] /\ <<>> \o queue[i] = queue[i]
    BY <1>1
  <2> QED
    BY <1>2, <1>3, <2>1, <2>2, <2>3
<1>4. CASE hand[i] = NoMessage
  <2>1. Pipe(i) = <<>> \o queue[i] /\ Pipe(i)' = <<>> \o Tail(queue[i]) /\ queue[i] # <<>>
    BY <1>1, <1>4 DEF Pipe
  <2>2. <<>> \o queue[i] = queue[i] /\ <<>> \o Tail(queue[i]) = Tail(queue[i])
        /\ queue[i][1] = Head(queue[i])
    BY <1>1, <2>1
  <2> QED
    BY <1>2, <1>4, <2>1, <2>2
<1> QED
  BY <1>3, <1>4
-----------------------------------------------------------------------------
(* NewLogger appends to the Loggers unless the mode has one already.       *)
LEMMA RegisteredFacts ==
  ASSUME IInv, NEW i \in DOMAIN setup, main = At("setup", i),
         NEW O, O \in {outputs, outputs \cup {i}},
         NEW l, l = Registered(i)
  PROVE  /\ l \in Seq(DOMAIN setup) /\ l # <<>>
         /\ \A k \in DOMAIN l : l[k] \in DOMAIN setup /\ l[k] < i + 1
         /\ OneEach(l, O) /\ Covers(l, O)
<1>1. /\ loggers \in Seq(DOMAIN setup) /\ Len(loggers) \in Nat
      /\ DOMAIN loggers = 1..Len(loggers) /\ DOMAIN setup = 1..Len(setup)
      /\ \A k \in DOMAIN loggers : loggers[k] \in DOMAIN setup
      /\ Len(setup) \in Nat /\ i \in Nat
  BY Facts
<1>2. \A k \in DOMAIN loggers : loggers[k] < i
  BY DEF IInv, SetupInv, At
<1>3. LoggersInv
  BY DEF IInv
<1>4. CASE \E n \in DOMAIN loggers :
              loggers[n] \in outputs /\ setup[loggers[n]].mode = setup[i].mode
  <2>1. l = loggers
    BY <1>4 DEF Registered
  <2>2. \A k \in DOMAIN loggers : loggers[k] # i /\ (loggers[k] \in O <=> loggers[k] \in outputs)
    BY <1>1, <1>2
  <2>3. \A k \in DOMAIN l : l[k] < i + 1
    BY <1>1, <1>2, <2>1
  <2>4. l # <<>>
    BY <1>4, <2>1
  <2>5. \A o \in O : \E k \in DOMAIN l : l[k] \in O /\ setup[l[k]].mode = setup[o].mode
    BY <1>3, <1>4, <2>1, <2>2 DEF LoggersInv, OneEach, Covers
  <2> QED
    BY <1>1, <1>3, <2>1, <2>2, <2>3, <2>4, <2>5 DEF LoggersInv, OneEach, Covers
<1>5. CASE ~ \E n \in DOMAIN loggers :
              loggers[n] \in outputs /\ setup[loggers[n]].mode = setup[i].mode
  <2> DEFINE n == Len(loggers) + 1
  <2>1. l = Append(loggers, i)
    BY <1>5 DEF Registered
  <2>2. /\ l \in Seq(DOMAIN setup) /\ DOMAIN l = 1..n /\ n \in Nat \ {0} /\ l[n] = i
        /\ \A k \in DOMAIN loggers : k \in DOMAIN l /\ l[k] = loggers[k] /\ k # n
    BY <1>1, <2>1
  <2>3. \A k \in DOMAIN l : k = n \/ k \in DOMAIN loggers
    BY <1>1, <2>2
  <2> HIDE DEF n
  <2>4. \A k \in DOMAIN loggers : loggers[k] # i /\ (loggers[k] \in O <=> loggers[k] \in outputs)
    BY <1>1, <1>2
  <2>5. \A k \in DOMAIN l : l[k] \in DOMAIN setup /\ l[k] < i + 1
    <3>1. \A k \in DOMAIN loggers : l[k] \in DOMAIN setup /\ l[k] < i + 1
      <4>1. \A k \in DOMAIN loggers : loggers[k] \in Nat
        BY <1>1
      <4> QED
        BY <1>1, <1>2, <2>2, <4>1
    <3> QED
      BY <1>1, <2>2, <2>3, <3>1
  <2>6. ASSUME NEW j \in DOMAIN l, NEW k \in DOMAIN l,
               \/ l[j] = l[k]
               \/ /\ l[j] \in O /\ l[k] \in O
                  /\ setup[l[j]].mode = setup[l[k]].mode
        PROVE  j = k
    <3>1. CASE j \in DOMAIN loggers /\ k \in DOMAIN loggers
      <4>1. l[j] = loggers[j] /\ l[k] = loggers[k]
        BY <2>2, <3>1
      <4> QED
        BY <1>3, <2>4, <2>6, <3>1, <4>1 DEF LoggersInv, OneEach, Covers
    <3>2. CASE j = n /\ k \in DOMAIN loggers
      BY <1>5, <2>2, <2>4, <2>6, <3>2
    <3>3. CASE k = n /\ j \in DOMAIN loggers
      BY <1>5, <2>2, <2>4, <2>6, <3>3
    <3> QED
      BY <2>3, <3>1, <3>2, <3>3
  <2>7. ASSUME NEW o \in O
        PROVE  \E k \in DOMAIN l : l[k] \in O /\ setup[l[k]].mode = setup[o].mode
    <3>1. CASE o \in outputs
      <4>1. PICK k \in DOMAIN loggers :
              loggers[k] \in outputs /\ setup[loggers[k]].mode = setup[o].mode
        BY <1>3, <3>1 DEF LoggersInv, OneEach, Covers
      <4>2. k \in DOMAIN l /\ l[k] = loggers[k] /\ l[k] \in O
        BY <2>2, <2>4, <4>1
      <4> QED
        BY <4>1, <4>2
    <3>2. CASE o \notin outputs
      <4>1. o = i /\ n \in DOMAIN l
        BY <2>2, <3>2
      <4> QED
        BY <2>2, <4>1
    <3> QED
      BY <3>1, <3>2
  <2>8. l # <<>>
    BY <2>1, <1>1
  <2> QED
    BY <2>2, <2>5, <2>6, <2>7, <2>8 DEF OneEach, Covers
<1> QED
  BY <1>4, <1>5

LEMMA SentValue ==
  ASSUME NEW c \in Callers, NEW k \in Nat \ {0}
  PROVE  /\ pc[c] \in 1..k => Sent(k)[c] = Len(calls[c]) - 1
         /\ pc[c] \notin 1..k => Sent(k)[c] = Len(calls[c])
         /\ pc'[c] \in 1..k => Sent(k)'[c] = Len(calls'[c]) - 1
         /\ pc'[c] \notin 1..k => Sent(k)'[c] = Len(calls'[c])
BY DEF Sent

(* A step of initLogging that leaves the queues and the lines empty. *)
LEMMA QuietStep ==
  ASSUME \A i \in DOMAIN setup' : queue'[i] = <<>> /\ hand'[i] = NoMessage,
         \A m \in Modes : lines'[m] = <<>>,
         \A k \in DOMAIN loggers' : loggers'[k] \in DOMAIN setup' /\ k \in Nat \ {0},
         \A i \in DOMAIN setup' : setup'[i].mode \in Modes,
         \A c \in Callers :
           \/ calls'[c] = <<>> /\ pc'[c] = 0
           \/ Len(calls'[c]) = 1 /\ pc'[c] = IF loggers' = <<>> THEN 0 ELSE 1
  PROVE  /\ \A i \in DOMAIN setup' : Pipe(i)' = <<>>
         /\ \A k \in DOMAIN loggers' : PipeInv(k)' /\ LinesInv(k)'
<1>1. \A i \in DOMAIN setup' : Pipe(i)' = <<>>
  BY DEF Pipe
<1>2. ASSUME NEW k \in DOMAIN loggers' PROVE PipeInv(k)' /\ LinesInv(k)'
  <2>1. ASSUME NEW c \in Callers PROVE Sent(k)'[c] = 0
    <3>1. CASE calls'[c] = <<>> /\ pc'[c] = 0
      BY <1>2, <3>1, SentValue
    <3>2. CASE Len(calls'[c]) = 1 /\ pc'[c] = IF loggers' = <<>> THEN 0 ELSE 1
      <4>1. pc'[c] = 1
        BY <1>2, <3>2
      <4>2. 1 \in 1..k
        BY <1>2
      <4> QED
        <5>1. pc'[c] \in 1..k
          BY <4>1, <4>2
        <5>2. Sent(k)'[c] = Len(calls'[c]) - 1
          BY <1>2, <5>1, SentValue
        <5> QED
          BY <3>2, <5>2
    <3> QED
      BY <3>1, <3>2
  <2>2. Pipe(loggers[k])' = <<>> /\ lines'[setup'[loggers'[k]].mode] = <<>>
    BY <1>1, <1>2
  <2>3. ASSUME NEW sent, \A c \in Callers : sent[c] = 0, NEW made, NEW level
        PROVE  Ordered(<<>>, sent) /\ Older(<<>>, <<>>, sent) /\ NoneLost(<<>>, <<>>, sent, made, level)
    BY <2>3 DEF Ordered, Older, NoneLost
  <2> QED
    <3>1. ASSUME NEW p, p = <<>>, NEW l, l = <<>>, NEW made, NEW level
          PROVE  Ordered(p, Sent(k)') /\ Older(p, l, Sent(k)') /\ NoneLost(p, l, Sent(k)', made, level)
      BY <2>1, <2>3, <3>1
    <3> QED
      BY <2>2, <3>1 DEF PipeInv, LinesInv
<1> QED
  BY <1>1, <1>2

(* What a step of initLogging does to the Loggers and to main. *)
LoggersSetUp ==
  /\ loggers' \in Seq(DOMAIN setup)
  /\ outputs' \subseteq DOMAIN setup /\ running' \subseteq DOMAIN setup
  /\ OneEach(loggers', outputs') /\ Covers(loggers', outputs')
  /\ main'.step = "setup" => \A k \in DOMAIN loggers' : loggers'[k] < main'.at
  /\ main' = At(main'.step, main'.at) /\ main'.at \in Nat
  /\ main'.step \in {"setup", "run", "fatal", "killed"}

LEMMA NewLoggerStep ==
  ASSUME IInv, NEW i \in DOMAIN setup, main = At("setup", i),
         NewLogger(i), outputs' \in {outputs, outputs \cup {i}},
         main' \in {At("setup", i + 1), At("fatal", 0), At("killed", 0)}
  PROVE  LoggersSetUp /\ loggers' # <<>>
<1>1. i \in Nat /\ i + 1 \in Nat
  BY Facts
<1>2. /\ main' = At(main'.step, main'.at) /\ main'.at \in Nat
      /\ main'.step = "setup" => main'.at = i + 1
      /\ main'.step \in {"setup", "run", "fatal", "killed"}
  BY <1>1 DEF At
<1>3. loggers' = Registered(i) /\ running' = running \cup {i}
  BY DEF NewLogger
<1>4. outputs \subseteq DOMAIN setup /\ running \subseteq DOMAIN setup
  BY DEF IInv, TypeOK
<1>5. /\ loggers' \in Seq(DOMAIN setup) /\ loggers' # <<>>
      /\ \A k \in DOMAIN loggers' : loggers'[k] < i + 1
      /\ OneEach(loggers', outputs') /\ Covers(loggers', outputs')
  BY <1>3, RegisteredFacts
<1>6. outputs' \subseteq DOMAIN setup /\ running' \subseteq DOMAIN setup
  BY <1>3, <1>4
<1> QED
  BY <1>2, <1>5, <1>6 DEF LoggersSetUp

LEMMA OldLoggers ==
  ASSUME IInv, UNCHANGED <<loggers, outputs, running>>,
         main' \in {At("run", 0), At("fatal", 0)}
  PROVE  LoggersSetUp
<1>1. /\ main' = At(main'.step, main'.at) /\ main'.at \in Nat
      /\ main'.step \in {"run", "fatal"}
  BY DEF At
<1>2. loggers \in Seq(DOMAIN setup) /\ outputs \subseteq DOMAIN setup /\ running \subseteq DOMAIN setup
  BY DEF IInv, TypeOK
<1>3. LoggersInv
  BY DEF IInv
<1> QED
  BY <1>1, <1>2, <1>3 DEF LoggersInv, LoggersSetUp

(* The five ways a mode is dealt with. *)
LEMMA SetupStep == ASSUME IInv, InitLogging PROVE IInv'
<1>1. /\ setup \in Seq([mode: Modes, outcome: Outcomes]) /\ setup \in Setups
      /\ Len(setup) \in Nat /\ DOMAIN setup = 1..Len(setup)
      /\ \A i \in DOMAIN setup : setup[i].mode \in Modes
  BY Facts DEF IInv
<1>2. main.step = "setup" /\ TypeOK /\ UNCHANGED <<setup, queue, hand, lines>>
  BY DEF IInv, InitLogging, SetLogger, ModeRefused, InitFails, NoAdapter, StartCollectors,
     SetUp, At
<1>3. /\ \A i \in DOMAIN setup : queue[i] = <<>> /\ hand[i] = NoMessage
      /\ \A c \in Callers : calls[c] = <<>> /\ pc[c] = 0
      /\ \A m \in Modes : lines[m] = <<>>
  BY <1>2 DEF IInv, SetupInv, CallersInv
<1>4. LoggersSetUp
  BY NewLoggerStep, OldLoggers DEF InitLogging, SetLogger, ModeRefused, InitFails, NoAdapter,
     StartCollectors, SetUp
<1>5. \/ main'.step \in {"setup", "run", "killed"} /\ UNCHANGED <<calls, pc>>
      \/ main'.step = "fatal" /\ Calling(Main, ErrorLevel, loggers')
  BY DEF InitLogging, SetLogger, ModeRefused, InitFails, NoAdapter, StartCollectors, At
<1>6. /\ calls' \in [Callers -> Seq(Levels)] /\ pc' \in [Callers -> {0, 1}]
      /\ \A c \in Callers :
           \/ calls'[c] = <<>> /\ pc'[c] = 0
           \/ /\ c = Main /\ main'.step = "fatal" /\ calls'[c] = <<ErrorLevel>>
              /\ Len(calls'[c]) = 1 /\ pc'[c] = IF loggers' = <<>> THEN 0 ELSE 1
      /\ main'.step = "fatal" => calls'[Main] = <<ErrorLevel>>
  <2>1. calls \in [Callers -> Seq(Levels)] /\ pc \in [Callers -> {0, 1}]
    BY <1>2, <1>3 DEF TypeOK
  <2>2. Append(<<>>, ErrorLevel) = <<ErrorLevel>> /\ <<ErrorLevel>> \in Seq(Levels)
        /\ Len(<<ErrorLevel>>) = 1
    OBVIOUS
  <2>3. CASE UNCHANGED <<calls, pc>> /\ main'.step # "fatal"
    BY <1>3, <2>1, <2>3
  <2>4. CASE main'.step = "fatal" /\ Calling(Main, ErrorLevel, loggers')
    <3>1. /\ calls' = [calls EXCEPT ![Main] = Append(@, ErrorLevel)]
          /\ pc' = [pc EXCEPT ![Main] = IF loggers' = <<>> THEN 0 ELSE 1]
      BY <2>4 DEF Calling
    <3>2. calls' = [calls EXCEPT ![Main] = <<ErrorLevel>>]
      BY <1>3, <2>1, <2>2, <3>1
    <3>3. calls' \in [Callers -> Seq(Levels)]
      BY <2>1, <2>2, <3>2
    <3>4. pc' \in [Callers -> {0, 1}]
      BY <2>1, <3>1
    <3>5. calls'[Main] = <<ErrorLevel>> /\ pc'[Main] = IF loggers' = <<>> THEN 0 ELSE 1
      BY <2>1, <3>1, <3>2
    <3>6. \A c \in Callers : c # Main => calls'[c] = <<>> /\ pc'[c] = 0
      BY <1>3, <2>1, <3>1, <3>2
    <3> QED
      BY <2>2, <2>4, <3>3, <3>4, <3>5, <3>6
  <2> QED
    BY <1>5, <2>3, <2>4
<1>7. /\ Len(loggers') \in Nat /\ DOMAIN loggers' = 1..Len(loggers')
      /\ \A k \in DOMAIN loggers' : loggers'[k] \in DOMAIN setup /\ k \in Nat \ {0}
      /\ loggers' # <<>> => Len(loggers') > 0
  <2>1. \A l \in Seq(DOMAIN setup) :
          /\ Len(l) \in Nat /\ DOMAIN l = 1..Len(l)
          /\ \A k \in DOMAIN l : l[k] \in DOMAIN setup /\ k \in Nat \ {0}
          /\ l # <<>> => Len(l) > 0
    OBVIOUS
  <2> QED
    BY <1>4, <2>1 DEF LoggersSetUp
<1>8. /\ \A i \in DOMAIN setup' : Pipe(i)' = <<>>
      /\ \A k \in DOMAIN loggers' : PipeInv(k)' /\ LinesInv(k)'
  BY <1>1, <1>2, <1>3, <1>6, <1>7, QuietStep
<1>9. TypeOK'
  <2>1. pc' \in [Callers -> 0..Len(loggers')]
    <3>1. \A c \in Callers : pc'[c] \in 0..Len(loggers')
      BY <1>6, <1>7
    <3> QED
      BY <1>6, <3>1
  <2> QED
    BY <1>2, <1>4, <1>6, <2>1 DEF TypeOK, LoggersSetUp
<1>10. LoggersInv'
  BY <1>2, <1>4, <1>8 DEF LoggersInv, LoggersSetUp, OneEach, Covers
<1>11. SetupInv' /\ CallersInv' /\ FatalInv'
  <2>1. SetupInv'
    BY <1>2, <1>3, <1>4, <1>6 DEF SetupInv, LoggersSetUp
  <2>2. CallersInv'
    <3>1. ASSUME NEW c \in Callers
          PROVE  Len(calls'[c]) <= MaxCalls + 1 /\ (pc'[c] # 0 => calls'[c] # <<>>)
      <4>1. CASE calls'[c] = <<>> /\ pc'[c] = 0
        BY <4>1
      <4>2. CASE calls'[c] = <<ErrorLevel>> /\ Len(calls'[c]) = 1
        BY <4>2
      <4> QED
        BY <1>6, <4>1, <4>2
    <3> QED
      BY <3>1 DEF CallersInv
  <2>3. FatalInv'
    BY <1>4, <1>6 DEF FatalInv, LoggersSetUp
  <2> QED
    BY <2>1, <2>2, <2>3
<1> QED
  BY <1>1, <1>2, <1>4, <1>8, <1>9, <1>10, <1>11 DEF IInv, LoggersSetUp
-----------------------------------------------------------------------------
(* Sent counts calls, and is all of them for a caller that is not at or    *)
(* before the k-th Logger.                                                 *)
LEMMA SentType ==
  ASSUME IInv, NEW c \in Callers, NEW k \in DOMAIN loggers
  PROVE  /\ Sent(k)[c] \in Nat /\ Sent(k)[c] <= Len(calls[c])
         /\ Len(calls[c]) \in Nat /\ DOMAIN calls[c] = 1..Len(calls[c])
         /\ pc[c] \in Nat /\ pc[c] <= Len(loggers)
         /\ pc[c] # 0 => Len(calls[c]) >= 1
<1>1. calls[c] \in Seq(Levels) /\ pc[c] \in 0..Len(loggers)
  BY DEF IInv, TypeOK
<1>2. Len(loggers) \in Nat /\ k \in Nat \ {0}
  BY Facts
<1>3. pc[c] # 0 => calls[c] # <<>>
  BY DEF IInv, CallersInv
<1>4. Len(calls[c]) \in Nat /\ DOMAIN calls[c] = 1..Len(calls[c])
      /\ (calls[c] # <<>> => Len(calls[c]) >= 1)
  BY <1>1
<1>5. Sent(k)[c] \in Nat /\ Sent(k)[c] <= Len(calls[c])
  <2>1. CASE pc[c] \in 1..k
    <3>1. pc[c] # 0 /\ Sent(k)[c] = Len(calls[c]) - 1
      BY <1>2, <2>1, SentValue
    <3> QED
      BY <1>3, <1>4, <3>1
  <2>2. CASE pc[c] \notin 1..k
    <3>1. Sent(k)[c] = Len(calls[c])
      BY <1>2, <2>2, SentValue
    <3> QED
      BY <1>4, <3>1
  <2> QED
    BY <2>1, <2>2
<1> QED
  BY <1>1, <1>2, <1>3, <1>4, <1>5

(* A further call of a caller loses none of those sent. *)
LEMMA NoneLostLonger ==
  ASSUME NEW p, NEW l, NEW sent, NEW level, NEW made, NEW more, NoneLost(p, l, sent, made, level),
         \A c \in Callers : \A n \in 1..sent[c] : more[c][n] = made[c][n]
  PROVE  NoneLost(p, l, sent, more, level)
BY DEF NoneLost

(* A step that sends and writes nothing keeps what is known of the pipes.  *)
LEMMA PipesKept ==
  ASSUME IInv, NEW k \in DOMAIN loggers, UNCHANGED <<setup, loggers, outputs, lines>>,
         \A i \in DOMAIN setup : Pipe(i)' = Pipe(i),
         Sent(k)' = Sent(k),
         \A c \in Callers : \A n \in DOMAIN calls[c] : calls'[c][n] = calls[c][n]
  PROVE  PipeInv(k)' /\ LinesInv(k)'
<1>1. loggers[k] \in DOMAIN setup /\ PipeInv(k) /\ LinesInv(k)
  BY Facts DEF IInv
<1>2. Pipe(loggers[k])' = Pipe(loggers[k])
  BY <1>1
<1>3. PipeInv(k)'
  BY <1>1, <1>2 DEF PipeInv
<1>4. \A c \in Callers : \A n \in 1..Sent(k)[c] : n \in DOMAIN calls[c]
  BY SentType
<1>5. LinesInv(k)'
  BY <1>1, <1>2, <1>4, NoneLostLonger DEF LinesInv
<1> QED
  BY <1>3, <1>5

LEMMA LogCallStep == ASSUME IInv, NEW c \in Callers, LogCall(c) PROVE IInv'
<1>1. PICK level \in Levels : Calling(c, level, loggers)
  BY DEF LogCall
<1>2. /\ main.step = "run" /\ pc[c] = 0 /\ Len(calls[c]) < MaxCalls
      /\ UNCHANGED <<setup, main, loggers, outputs, running, queue, hand, lines>>
  BY DEF LogCall
<1>3. /\ TypeOK /\ calls \in [Callers -> Seq(Levels)] /\ calls[c] \in Seq(Levels)
      /\ pc \in [Callers -> 0..Len(loggers)] /\ loggers \in Seq(DOMAIN setup)
      /\ Len(loggers) \in Nat
  BY Facts DEF IInv, TypeOK
<1>4. /\ calls' = [calls EXCEPT ![c] = Append(@, level)]
      /\ pc' = [pc EXCEPT ![c] = IF loggers = <<>> THEN 0 ELSE 1]
  BY <1>1 DEF Calling
<1>5. /\ Append(calls[c], level) \in Seq(Levels) /\ Append(calls[c], level) # <<>>
      /\ Len(Append(calls[c], level)) = Len(calls[c]) + 1
      /\ \A n \in DOMAIN calls[c] : Append(calls[c], level)[n] = calls[c][n]
  <2>1. DOMAIN calls[c] = 1..Len(calls[c])
    BY <1>3
  <2> DEFINE made == calls[c]
  <2>2. made \in Seq(Levels)
    BY <1>3
  <2> HIDE DEF made
  <2>3. /\ Append(made, level) \in Seq(Levels) /\ Append(made, level) # <<>>
        /\ Len(Append(made, level)) = Len(made) + 1
        /\ \A n \in 1..Len(made) : Append(made, level)[n] = made[n]
    BY <2>2, AppendProperties
  <2> QED
    BY <2>1, <2>3 DEF made
<1>6. \A i \in DOMAIN setup : Pipe(i)' = Pipe(i)
  BY <1>2 DEF Pipe
<1>7. loggers # <<>> => 1 \in 0..Len(loggers)
  BY <1>3
<1>8. TypeOK'
  <2>1. pc' \in [Callers -> 0..Len(loggers')]
    BY <1>2, <1>3, <1>4, <1>7
  <2>2. calls' \in [Callers -> Seq(Levels)]
    BY <1>3, <1>4, <1>5
  <2> QED
    BY <1>2, <1>3, <2>1, <2>2 DEF TypeOK
<1>9. \A k \in DOMAIN loggers : PipeInv(k)' /\ LinesInv(k)'
  <2> TAKE k \in DOMAIN loggers
  <2>1. ASSUME NEW d \in Callers PROVE Sent(k)'[d] = Sent(k)[d]
    <3>1. CASE d = c
      <4>1. k \in Nat \ {0} /\ loggers # <<>>
        BY Facts
      <4>2. pc'[c] = 1 /\ Len(calls'[c]) = Len(calls[c]) + 1 /\ Len(calls[c]) \in Nat
        BY <1>3, <1>4, <1>5, <4>1
      <4>3. 1 \in 1..k /\ 0 \notin 1..k
        BY <4>1
      <4>4. Sent(k)'[c] = Len(calls[c]) + 1 - 1
        <5>1. pc'[c] \in 1..k
          BY <4>2, <4>3
        <5>2. Sent(k)'[c] = Len(calls'[c]) - 1
          BY <4>1, <5>1, SentValue
        <5> QED
          BY <4>2, <5>2
      <4>5. Sent(k)[c] = Len(calls[c])
        BY <1>2, <4>1, <4>3, SentValue
      <4> QED
        BY <3>1, <4>2, <4>4, <4>5
    <3>2. CASE d # c
      BY <1>3, <1>4, <3>2 DEF Sent
    <3> QED
      BY <3>1, <3>2
  <2>3. Sent(k)' = Sent(k)
    BY <2>1 DEF Sent
  <2>2. \A d \in Callers : \A n \in DOMAIN calls[d] : calls'[d][n] = calls[d][n]
    BY <1>3, <1>4, <1>5
  <2> QED
    BY <1>2, <1>6, <2>2, <2>3, PipesKept
<1>10. LoggersInv'
  BY <1>2, <1>6 DEF IInv, LoggersInv, OneEach, Covers
<1>11. SetupInv' /\ FatalInv'
  BY <1>2 DEF SetupInv, FatalInv
<1>12. CallersInv'
  <2>1. Len(calls[c]) + 1 <= MaxCalls + 1
    <3>1. Len(calls[c]) \in Nat
      BY <1>3
    <3> QED
      BY <1>2, <3>1
  <2> QED
    BY <1>3, <1>4, <1>5, <2>1 DEF IInv, CallersInv
<1> QED
  BY <1>2, <1>8, <1>9, <1>10, <1>11, <1>12 DEF IInv
-----------------------------------------------------------------------------
(* A message that is queued is the caller's next one. *)
LEMMA Appended ==
  ASSUME NEW p \in Seq(Messages), NEW l \in Seq(Messages), NEW sent \in [Callers -> Nat],
         NEW c \in Callers, NEW h \in Messages, h = <<c, sent[c] + 1>>,
         NEW made, NEW level, Ordered(p, sent), NEW more, more = [sent EXCEPT ![c] = @ + 1]
  PROVE  /\ Ordered(Append(p, h), more)
         /\ Older(p, l, sent) => Older(Append(p, h), l, more)
         /\ NoneLost(p, l, sent, made, level) => NoneLost(Append(p, h), l, more, made, level)
<1> DEFINE q == Append(p, h)
           n == Len(p) + 1
<1>1. /\ \A j \in DOMAIN p : /\ p[j] \in Messages /\ p[j][1] \in Callers /\ p[j][2] \in Nat
                             /\ j \in Nat /\ j < n
      /\ \A x \in DOMAIN l : l[x] \in Messages /\ l[x][1] \in Callers /\ l[x][2] \in Nat
  <2>1. \A j \in DOMAIN p : p[j] \in Messages /\ j \in Nat /\ j < n
    BY ElementOfSeq
  <2>2. \A x \in DOMAIN l : l[x] \in Messages
    BY ElementOfSeq
  <2> QED
    BY <2>1, <2>2, MessageType
<1>2. /\ DOMAIN q = 1..n /\ n \in Nat /\ q[n] = h
      /\ \A j \in DOMAIN p : j \in DOMAIN q /\ q[j] = p[j]
      /\ n \in DOMAIN q
  BY AppendProperties
<1>3. \A j \in DOMAIN q : j = n \/ j \in DOMAIN p
  BY <1>2
<1>4. \A d \in Callers : /\ sent[d] \in Nat /\ more[d] \in Nat /\ sent[d] <= more[d]
                        /\ more[d] = IF d = c THEN sent[d] + 1 ELSE sent[d]
  OBVIOUS
<1>5. h[1] = c /\ h[2] = sent[c] + 1
  OBVIOUS
<1> HIDE DEF q, n
<1>6. Ordered(q, more)
  <2>1. ASSUME NEW j \in DOMAIN q PROVE q[j][2] <= more[q[j][1]]
    <3>1. CASE j = n
      BY <1>2, <1>4, <1>5, <3>1
    <3>2. CASE j \in DOMAIN p
      <4>1. /\ q[j] = p[j] /\ p[j][2] <= sent[p[j][1]]
            /\ p[j][1] \in Callers /\ p[j][2] \in Nat
        BY <1>1, <1>2, <3>2 DEF Ordered
      <4>2. sent[p[j][1]] <= more[p[j][1]] /\ sent[p[j][1]] \in Nat /\ more[p[j][1]] \in Nat
        BY <1>4, <4>1
      <4> QED
        BY <4>1, <4>2
    <3> QED
      BY <1>3, <3>1, <3>2
  <2>2. ASSUME NEW j \in DOMAIN q, NEW k \in DOMAIN q, j < k, q[j][1] = q[k][1]
        PROVE  q[j][2] < q[k][2]
    <3>1. j \in DOMAIN p
      BY <1>1, <1>2, <1>3, <2>2
    <3>2. CASE k = n
      <4>1. q[j][2] <= sent[c]
        BY <1>2, <1>5, <2>2, <3>1, <3>2 DEF Ordered
      <4> QED
        BY <1>1, <1>2, <1>4, <1>5, <3>1, <3>2, <4>1
    <3>3. CASE k \in DOMAIN p
      BY <1>2, <2>2, <3>1, <3>3 DEF Ordered
    <3> QED
      BY <1>3, <3>2, <3>3
  <2> QED
    BY <2>1, <2>2 DEF Ordered
<1>7. ASSUME Older(p, l, sent) PROVE Older(q, l, more)
  <2>1. ASSUME NEW x \in DOMAIN l PROVE l[x][2] <= more[l[x][1]]
    BY <1>1, <1>4, <1>7 DEF Older
  <2>2. ASSUME NEW x \in DOMAIN l, NEW j \in DOMAIN q, l[x][1] = q[j][1]
        PROVE  l[x][2] < q[j][2]
    <3>1. CASE j = n
      <4>1. l[x][2] <= sent[c]
        BY <1>2, <1>5, <1>7, <2>2, <3>1 DEF Older
      <4> QED
        BY <1>1, <1>2, <1>4, <1>5, <3>1, <4>1
    <3>2. CASE j \in DOMAIN p
      BY <1>2, <1>7, <2>2, <3>2 DEF Older
    <3> QED
      BY <1>3, <3>1, <3>2
  <2> QED
    BY <2>1, <2>2 DEF Older
<1>8. ASSUME NoneLost(p, l, sent, made, level) PROVE NoneLost(q, l, more, made, level)
  <2>1. ASSUME NEW d \in Callers, NEW k \in 1..more[d], made[d][k] >= level
        PROVE  \/ \E x \in DOMAIN l : l[x] = <<d, k>>
               \/ \E j \in DOMAIN q : q[j] = <<d, k>>
    <3>1. CASE k \in 1..sent[d]
      <4>1. \/ \E x \in DOMAIN l : l[x] = <<d, k>>
            \/ \E j \in DOMAIN p : p[j] = <<d, k>>
        BY <1>8, <2>1, <3>1 DEF NoneLost
      <4> QED
        BY <1>2, <4>1
    <3>2. CASE k \notin 1..sent[d]
      <4>1. d = c /\ k = sent[c] + 1
        BY <1>4, <2>1, <3>2
      <4> QED
        BY <1>2, <4>1
    <3> QED
      BY <3>1, <3>2
  <2> QED
    BY <2>1 DEF NoneLost
<1> QED
  BY <1>6, <1>7, <1>8 DEF q

(* The first message is written, or is not of the level. *)
LEMMA WrittenFirst ==
  ASSUME NEW p \in Seq(Messages), p # <<>>, NEW l \in Seq(Messages),
         NEW sent \in [Callers -> Nat], NEW made, NEW level, NEW k,
         k = IF made[p[1][1]][p[1][2]] >= level THEN Append(l, p[1]) ELSE l,
         Ordered(p, sent)
  PROVE  /\ Ordered(Tail(p), sent)
         /\ Older(p, l, sent) => Older(Tail(p), k, sent)
         /\ NoneLost(p, l, sent, made, level) => NoneLost(Tail(p), k, sent, made, level)
<1> DEFINE q == Tail(p)
<1>1. /\ Len(p) \in Nat \ {0} /\ DOMAIN p = 1..Len(p) /\ 1 \in DOMAIN p
      /\ q \in Seq(Messages) /\ Len(q) = Len(p) - 1 /\ DOMAIN q = 1..Len(q)
      /\ \A i \in DOMAIN q : q[i] = p[i + 1]
  BY EmptySeq, HeadTailProperties
<1>2. p[1] \in Messages
  BY <1>1, ElementOfSeq
<1> HIDE DEF q
<1>3. \A j \in DOMAIN q : /\ j \in Nat \ {0} /\ j + 1 \in DOMAIN p /\ q[j] = p[j + 1]
                         /\ 1 < j + 1
  BY <1>1
<1>4. \A j \in DOMAIN p : j # 1 => j - 1 \in DOMAIN q /\ q[j - 1] = p[j]
  <2>1. TAKE j \in DOMAIN p
  <2>2. HAVE j # 1
  <2>3. j - 1 \in DOMAIN q /\ j - 1 + 1 = j
    BY <1>1, <2>2
  <2> QED
    BY <1>1, <2>3
<1>5. \A i, j \in DOMAIN q : i < j => i + 1 < j + 1
  BY <1>3
<1>6. Ordered(q, sent)
  BY <1>3, <1>5 DEF Ordered
<1>7. ASSUME NEW j \in DOMAIN q, p[1][1] = q[j][1] PROVE p[1][2] < q[j][2]
  <2>1. 1 \in DOMAIN p /\ j + 1 \in DOMAIN p /\ 1 < j + 1 /\ q[j] = p[j + 1]
    BY <1>1, <1>3
  <2>2. \A a, b \in DOMAIN p : a < b /\ p[a][1] = p[b][1] => p[a][2] < p[b][2]
    BY DEF Ordered
  <2> QED
    BY <1>7, <2>1, <2>2
<1>8. \A x \in DOMAIN k : (x \in DOMAIN l /\ k[x] = l[x]) \/ k[x] = p[1]
  <2>1. \A x \in DOMAIN Append(l, p[1]) :
          \/ x \in DOMAIN l /\ Append(l, p[1])[x] = l[x]
          \/ Append(l, p[1])[x] = p[1]
    BY <1>2, AppendProperties
  <2> QED
    BY <2>1
<1>9. \A x \in DOMAIN l : x \in DOMAIN k /\ k[x] = l[x]
  <2>1. \A x \in DOMAIN l : x \in DOMAIN Append(l, p[1]) /\ Append(l, p[1])[x] = l[x]
    BY <1>2, AppendProperties
  <2> QED
    BY <2>1
<1>10. made[p[1][1]][p[1][2]] >= level => \E x \in DOMAIN k : k[x] = p[1]
  <2>1. \E x \in DOMAIN Append(l, p[1]) : Append(l, p[1])[x] = p[1]
    <3>1. Len(l) + 1 \in DOMAIN Append(l, p[1]) /\ Append(l, p[1])[Len(l) + 1] = p[1]
      BY <1>2, AppendProperties
    <3> QED
      BY <3>1
  <2> QED
    BY <2>1
<1>11. ASSUME Older(p, l, sent) PROVE Older(q, k, sent)
  <2>1. ASSUME NEW x \in DOMAIN k PROVE k[x][2] <= sent[k[x][1]]
    BY <1>1, <1>8, <1>11 DEF Older, Ordered
  <2>2. ASSUME NEW x \in DOMAIN k, NEW j \in DOMAIN q, k[x][1] = q[j][1]
        PROVE  k[x][2] < q[j][2]
    <3>1. CASE k[x] = p[1]
      BY <1>7, <2>2, <3>1
    <3>2. CASE x \in DOMAIN l /\ k[x] = l[x]
      <4>1. l[x][1] = p[j + 1][1] /\ j + 1 \in DOMAIN p /\ q[j] = p[j + 1]
        BY <1>3, <2>2, <3>2
      <4> QED
        BY <1>11, <3>2, <4>1 DEF Older
    <3> QED
      BY <1>8, <3>1, <3>2
  <2> QED
    BY <2>1, <2>2 DEF Older
<1>12. ASSUME NoneLost(p, l, sent, made, level) PROVE NoneLost(q, k, sent, made, level)
  <2>1. ASSUME NEW d \in Callers, NEW n \in 1..sent[d], made[d][n] >= level
        PROVE  \/ \E x \in DOMAIN k : k[x] = <<d, n>>
               \/ \E j \in DOMAIN q : q[j] = <<d, n>>
    <3>1. CASE \E x \in DOMAIN l : l[x] = <<d, n>>
      BY <1>9, <3>1
    <3>2. CASE p[1] = <<d, n>>
      <4>1. p[1][1] = d /\ p[1][2] = n
        BY <3>2
      <4> QED
        BY <1>10, <2>1, <3>2, <4>1
    <3>3. CASE \E j \in DOMAIN p : p[j] = <<d, n>> /\ j # 1
      BY <1>4, <3>3
    <3> QED
      BY <1>12, <2>1, <3>1, <3>2, <3>3 DEF NoneLost
  <2> QED
    BY <2>1 DEF NoneLost
<1> QED
  BY <1>6, <1>11, <1>12 DEF q
-----------------------------------------------------------------------------
LEMMA SentFun ==
  ASSUME IInv, NEW k \in DOMAIN loggers
  PROVE  Sent(k) \in [Callers -> Nat]
<1>1. Sent(k) = [c \in Callers |-> Sent(k)[c]]
  BY DEF Sent
<1> QED
  BY <1>1, SentType

LEMMA LinesType ==
  ASSUME IInv, NEW i \in DOMAIN setup
  PROVE  setup[i].mode \in Modes /\ lines[setup[i].mode] \in Seq(Messages)
BY Facts DEF IInv, TypeOK

(* A message reaches the queue of one more Logger. *)
LEMMA WriterMsgTo ==
  ASSUME IInv, NEW c \in Callers, writerMsg(c),
         NEW b, b = pc[c], NEW i, i = loggers[b], NEW h, h = <<c, Len(calls[c])>>
  PROVE  IInv'
<1>1. /\ Up /\ b # 0 /\ Queued(i, h) /\ pc' = [pc EXCEPT ![c] = NextLogger(@)]
      /\ UNCHANGED <<setup, main, loggers, outputs, running, hand, calls, lines>>
  BY DEF writerMsg
<1>2. /\ TypeOK /\ calls \in [Callers -> Seq(Levels)] /\ pc \in [Callers -> 0..Len(loggers)]
      /\ Len(loggers) \in Nat /\ DOMAIN loggers = 1..Len(loggers)
  BY Facts DEF IInv, TypeOK
<1>3. b \in DOMAIN loggers /\ b \in Nat \ {0} /\ b <= Len(loggers)
  <2>1. b \in 0..Len(loggers)
    BY <1>2
  <2> QED
    BY <1>1, <1>2, <2>1
<1>4. i \in DOMAIN setup
  BY <1>3, Facts
<1>5. h \in Messages /\ Len(calls[c]) \in Nat /\ Len(calls[c]) >= 1
  <2>1. Len(calls[c]) <= MaxCalls + 1
    BY DEF IInv, CallersInv
  <2>2. Len(calls[c]) \in Nat /\ Len(calls[c]) >= 1
    BY <1>1, <1>3, SentType
  <2> QED
    BY <2>1, <2>2 DEF Messages
<1>6. /\ pc'[c] = IF b < Len(loggers) THEN b + 1 ELSE 0
      /\ \A d \in Callers : d # c => pc'[d] = pc[d]
  BY <1>1, <1>2 DEF NextLogger
<1>7. /\ Pipe(i)' = Append(Pipe(i), h)
      /\ \A j \in DOMAIN setup : j # i => Pipe(j)' = Pipe(j)
  BY <1>1, <1>4, <1>5, PipeQueued
<1>8. TypeOK'
  <2>1. pc' \in [Callers -> 0..Len(loggers)]
    <3>1. pc'[c] \in 0..Len(loggers)
      BY <1>2, <1>3, <1>6
    <3> QED
      BY <1>1, <1>2, <1>6, <3>1
  <2>2. /\ queue \in [DOMAIN setup -> Seq(Messages)] /\ Len(queue[i]) < BufLen
        /\ queue' = [queue EXCEPT ![i] = Append(@, h)]
        /\ \A j \in DOMAIN setup : Len(queue[j]) <= BufLen
    BY <1>1, <1>2 DEF TypeOK, Queued
  <2>3. Append(queue[i], h) \in Seq(Messages) /\ Len(Append(queue[i], h)) = Len(queue[i]) + 1
        /\ Len(queue[i]) \in Nat
    BY <1>4, <1>5, <2>2
  <2>4. queue' \in [DOMAIN setup -> Seq(Messages)]
        /\ \A j \in DOMAIN setup : Len(queue'[j]) <= BufLen
    BY <1>4, <2>2, <2>3
  <2> QED
    BY <1>1, <1>2, <2>1, <2>4 DEF TypeOK
<1>9. \A k \in DOMAIN loggers : PipeInv(k)' /\ LinesInv(k)'
  <2> TAKE k \in DOMAIN loggers
  <2>1. k \in Nat \ {0} /\ k <= Len(loggers) /\ PipeInv(k) /\ LinesInv(k)
    BY <1>2 DEF IInv
  <2>2. CASE k # b
    <3>1. loggers[k] \in DOMAIN setup /\ loggers[k] # i
      BY <1>3, <2>2, Facts DEF IInv, LoggersInv, OneEach
    <3>2. Pipe(loggers[k])' = Pipe(loggers[k])
      BY <1>1, <1>7, <3>1
    <3>3. pc'[c] \in 1..k <=> b \in 1..k
      BY <1>2, <1>3, <1>6, <2>1, <2>2
    <3>4. Sent(k)' = Sent(k)
      <4>1. ASSUME NEW d \in Callers PROVE pc'[d] \in 1..k <=> pc[d] \in 1..k
        BY <1>6, <3>3
      <4> QED
        BY <1>1, <4>1 DEF Sent
    <3> QED
      BY <1>1, <2>1, <3>2, <3>4 DEF PipeInv, LinesInv
  <2>3. CASE k = b
    <3>1. Sent(k) \in [Callers -> Nat]
      BY SentFun
    <3>2. Sent(k)[c] = Len(calls[c]) - 1 /\ Sent(k)'[c] = Len(calls[c])
      <4>1. b \in 1..k /\ pc'[c] \notin 1..k
        BY <1>2, <1>3, <1>6, <2>3
      <4> QED
        BY <1>1, <2>1, <4>1, SentValue
    <3>3. Sent(k)' = [Sent(k) EXCEPT ![c] = @ + 1]
      <4>1. ASSUME NEW d \in Callers, d # c PROVE Sent(k)'[d] = Sent(k)[d]
        BY <1>1, <1>6, <4>1 DEF Sent
      <4>2. Sent(k)'[c] = Sent(k)[c] + 1
        BY <1>5, <3>2
      <4>3. Sent(k)' = [d \in Callers |-> Sent(k)'[d]]
        BY DEF Sent
      <4> QED
        BY <3>1, <4>1, <4>2, <4>3
    <3>4. h = <<c, Sent(k)[c] + 1>>
      BY <1>5, <3>2
    <3>5. Pipe(i) \in Seq(Messages) /\ lines[setup[i].mode] \in Seq(Messages)
      BY <1>4, PipeType, LinesType
    <3>6. loggers[k] = i
      BY <2>3
    <3>7. Ordered(Pipe(i), Sent(k))
      BY <2>1, <3>6 DEF PipeInv
    <3>8. /\ Ordered(Append(Pipe(i), h), Sent(k)')
          /\ \A l \in Seq(Messages) : Older(Pipe(i), l, Sent(k)) => Older(Append(Pipe(i), h), l, Sent(k)')
          /\ \A l \in Seq(Messages) : \A made, level :
               NoneLost(Pipe(i), l, Sent(k), made, level) =>
                 NoneLost(Append(Pipe(i), h), l, Sent(k)', made, level)
      BY <1>5, <3>1, <3>3, <3>4, <3>5, <3>7, Appended
    <3>9. Pipe(loggers[k])' = Append(Pipe(i), h)
      BY <1>1, <1>7, <3>6
    <3> QED
      BY <1>1, <2>1, <3>5, <3>6, <3>8, <3>9 DEF PipeInv, LinesInv
  <2> QED
    BY <2>2, <2>3
<1>10. LoggersInv'
  <2>1. \A j \in DOMAIN setup : Pipe(j)' # <<>> => Pipe(j) # <<>> \/ j = i
    BY <1>7
  <2> QED
    BY <1>1, <1>3, <2>1 DEF IInv, LoggersInv, OneEach, Covers
<1>11. SetupInv' /\ CallersInv' /\ FatalInv'
  <2>1. calls[c] # <<>>
    BY <1>1 DEF IInv, CallersInv
  <2>2. main.step # "setup"
    BY <2>1 DEF IInv, SetupInv
  <2>3. main.step \in {"fatal", "quit", "drain", "exited"} => main.step = "fatal"
    BY <1>1, <2>1 DEF IInv, FatalInv
  <2>4. CallersInv'
    BY <1>1, <1>6, <2>1 DEF IInv, CallersInv
  <2>5. FatalInv'
    BY <1>1, <2>3 DEF IInv, FatalInv
  <2> QED
    BY <1>1, <2>2, <2>4, <2>5 DEF SetupInv
<1> QED
  BY <1>1, <1>8, <1>9, <1>10, <1>11 DEF IInv

LEMMA WriterMsgStep == ASSUME IInv, NEW c \in Callers, writerMsg(c) PROVE IInv'
BY WriterMsgTo
-----------------------------------------------------------------------------
LEMMA TakeStep == ASSUME IInv, NEW i \in DOMAIN setup, Take(i) PROVE IInv'
<1>1. /\ Up /\ i \in running /\ queue[i] # <<>> /\ hand[i] = NoMessage
      /\ hand' = [hand EXCEPT ![i] = Head(queue[i])]
      /\ queue' = [queue EXCEPT ![i] = Tail(@)]
      /\ UNCHANGED <<setup, main, loggers, outputs, running, pc, calls, lines>>
  BY DEF Take
<1>2. \A j \in DOMAIN setup : Pipe(j)' = Pipe(j)
  BY PipeTake
<1>3. /\ TypeOK /\ queue \in [DOMAIN setup -> Seq(Messages)]
      /\ hand \in [DOMAIN setup -> Messages \cup {NoMessage}]
      /\ \A j \in DOMAIN setup : Len(queue[j]) <= BufLen
  BY DEF IInv, TypeOK
<1>4. TypeOK'
  <2>1. /\ Head(queue[i]) \in Messages /\ Tail(queue[i]) \in Seq(Messages)
        /\ Len(Tail(queue[i])) <= BufLen
    <3>1. queue[i] \in Seq(Messages) /\ Len(queue[i]) <= BufLen
      BY <1>3
    <3> QED
      BY <1>1, <3>1
  <2>2. /\ queue' \in [DOMAIN setup -> Seq(Messages)]
        /\ hand' \in [DOMAIN setup -> Messages \cup {NoMessage}]
        /\ \A j \in DOMAIN setup : Len(queue'[j]) <= BufLen
    BY <1>1, <1>3, <2>1
  <2> QED
    BY <1>1, <1>3, <2>2 DEF TypeOK
<1>5. \A k \in DOMAIN loggers : PipeInv(k)' /\ LinesInv(k)'
  BY <1>1, <1>2, PipesKept DEF Sent
<1>6. LoggersInv'
  BY <1>1, <1>2 DEF IInv, LoggersInv, OneEach, Covers
<1>7. SetupInv' /\ CallersInv'
  BY <1>1 DEF IInv, SetupInv, CallersInv
<1>8. FatalInv'
  <2>1. \A k \in DOMAIN loggers : Shut(k) => Shut(k)'
    <3>1. \A k \in DOMAIN loggers : Shut(k) => loggers[k] # i
      BY <1>1 DEF Shut
    <3> QED
      BY <1>1, <1>3, <3>1, Facts DEF Shut
  <2>2. main.step = "drain" => loggers[main.at] # i
    BY <1>1 DEF IInv, FatalInv
  <2>3. main.step \in {"quit", "drain"} => \A k \in 1..(main.at - 1) : k \in DOMAIN loggers
    BY Facts DEF IInv, FatalInv
  <2>4. hand'[loggers[main.at]] = hand[loggers[main.at]] \/ main.step # "drain"
    BY <1>1, <1>3, <2>2, Facts DEF IInv, FatalInv
  <2> QED
    BY <1>1, <2>1, <2>3, <2>4 DEF IInv, FatalInv
<1> QED
  BY <1>1, <1>4, <1>5, <1>6, <1>7, <1>8 DEF IInv

(* The oldest message under way to a Logger is dealt with. *)
LEMMA WriteStep ==
  ASSUME IInv, NEW i \in DOMAIN setup, NEW h, h = Pipe(i)[1], Pipe(i) # <<>>,
         Pipe(i)' = Tail(Pipe(i)), \A j \in DOMAIN setup : j # i => Pipe(j)' = Pipe(j),
         WriteMsg(i, h), UNCHANGED <<setup, loggers, outputs, pc, calls>>
  PROVE  /\ \A k \in DOMAIN loggers : PipeInv(k)' /\ LinesInv(k)'
         /\ LoggersInv'
         /\ lines' \in [Modes -> Seq(Messages)]
<1> DEFINE m == setup[i].mode
<1>1. /\ h \in Messages /\ m \in Modes /\ lines \in [Modes -> Seq(Messages)]
      /\ Pipe(i) \in Seq(Messages)
  <2>1. Pipe(i) \in Seq(Messages)
    BY PipeType
  <2>2. 1 \in DOMAIN Pipe(i)
    BY <2>1
  <2>3. h \in Messages
    BY <2>2, PipeType
  <2> QED
    BY <2>1, <2>3, LinesType DEF IInv, TypeOK
<1>2. PICK a \in DOMAIN loggers : loggers[a] = i
  BY DEF IInv, LoggersInv
<1>3. LoggersInv'
  BY DEF IInv, LoggersInv, OneEach, Covers
<1>4. lines' \in [Modes -> Seq(Messages)]
  BY <1>1 DEF WriteMsg
<1>5. \A k : Sent(k)' = Sent(k)
  BY DEF Sent
<1>6. ASSUME NEW k \in DOMAIN loggers PROVE PipeInv(k)' /\ LinesInv(k)'
  <2>1. PipeInv(k) /\ LinesInv(k) /\ loggers[k] \in DOMAIN setup /\ setup[loggers[k]].mode \in Modes
    BY Facts DEF IInv
  <2>2. CASE k = a
    <3>1. Ordered(Pipe(i), Sent(k)) /\ Sent(k) \in [Callers -> Nat]
      BY <1>2, <2>1, <2>2, SentFun DEF PipeInv
    <3>2. Ordered(Tail(Pipe(i)), Sent(k))
      BY <1>1, <3>1, WrittenFirst
    <3>3. PipeInv(k)'
      BY <1>2, <1>5, <2>2, <3>2 DEF PipeInv
    <3>4. LinesInv(k)'
      <4> SUFFICES ASSUME i \in outputs PROVE LinesInv(k)'
        BY <1>2, <2>2 DEF LinesInv
      <4>1. lines'[m] = IF calls[h[1]][h[2]] >= LevelOf[m] THEN Append(lines[m], h) ELSE lines[m]
        BY <1>1 DEF WriteMsg
      <4>2. Older(Pipe(i), lines[m], Sent(k)) /\ NoneLost(Pipe(i), lines[m], Sent(k), calls, LevelOf[m])
        BY <1>2, <2>1, <2>2 DEF LinesInv
      <4>3. lines[m] \in Seq(Messages)
        BY <1>1
      <4> HIDE DEF m
      <4>4. ASSUME NEW l, l = lines'[m]
            PROVE  /\ Older(Tail(Pipe(i)), l, Sent(k))
                   /\ NoneLost(Tail(Pipe(i)), l, Sent(k), calls, LevelOf[m])
        BY <1>1, <3>1, <4>1, <4>2, <4>3, <4>4, WrittenFirst
      <4> QED
        BY <1>2, <1>5, <2>2, <4>4 DEF LinesInv, m
    <3> QED
      BY <3>3, <3>4
  <2>3. CASE k # a
    <3>1. loggers[k] # i /\ Pipe(loggers[k])' = Pipe(loggers[k])
      BY <1>2, <2>1, <2>3 DEF IInv, LoggersInv, OneEach
    <3>2. loggers[k] \in outputs => lines'[setup[loggers[k]].mode] = lines[setup[loggers[k]].mode]
      <4>1. loggers[k] \in outputs /\ i \in outputs => setup[loggers[k]].mode # m
        BY <1>2, <2>3 DEF IInv, LoggersInv, OneEach
      <4> QED
        BY <1>1, <2>1, <4>1 DEF WriteMsg
    <3> QED
      BY <1>5, <2>1, <3>1, <3>2 DEF PipeInv, LinesInv
  <2> QED
    BY <2>2, <2>3
<1> QED
  BY <1>3, <1>4, <1>6

(* What the goroutine writes, and what Close writes in its place. *)
LEMMA WrittenWrites ==
  ASSUME IInv, NEW i \in DOMAIN setup, Written(i)
  PROVE  /\ Pipe(i) # <<>> /\ WriteMsg(i, Pipe(i)[1]) /\ Pipe(i)' = Tail(Pipe(i))
         /\ \A j \in DOMAIN setup : j # i => Pipe(j)' = Pipe(j)
         /\ UNCHANGED <<setup, main, loggers, outputs, running, queue, pc, calls>>
         /\ Up /\ hand[i] # NoMessage /\ hand' = [hand EXCEPT ![i] = NoMessage]
<1>1. /\ Up /\ hand[i] # NoMessage /\ WriteMsg(i, hand[i])
      /\ hand' = [hand EXCEPT ![i] = NoMessage]
      /\ UNCHANGED <<setup, main, loggers, outputs, running, queue, pc, calls>>
  BY DEF Written, RunningOn
<1>2. /\ Pipe(i) # <<>> /\ Pipe(i)' = Tail(Pipe(i)) /\ Pipe(i)[1] = hand[i]
      /\ \A j \in DOMAIN setup : j # i => Pipe(j)' = Pipe(j)
  BY <1>1, PipeWritten
<1> QED
  BY <1>1, <1>2

LEMMA WrittenStep == ASSUME IInv, NEW i \in DOMAIN setup, Written(i) PROVE IInv'
<1>1. /\ Up /\ hand[i] # NoMessage /\ hand' = [hand EXCEPT ![i] = NoMessage]
      /\ UNCHANGED <<setup, main, loggers, outputs, running, queue, pc, calls>>
  BY WrittenWrites
<1>2. /\ \A k \in DOMAIN loggers : PipeInv(k)' /\ LinesInv(k)'
      /\ LoggersInv' /\ lines' \in [Modes -> Seq(Messages)]
  BY WrittenWrites, WriteStep
<1>3. TypeOK'
  BY <1>1, <1>2 DEF IInv, TypeOK
<1>4. main.step # "setup"
  BY <1>1 DEF IInv, SetupInv
<1>5. \A j \in DOMAIN setup : hand[j] = NoMessage => hand'[j] = NoMessage
  BY <1>1 DEF IInv, TypeOK
<1>6. SetupInv' /\ CallersInv'
  BY <1>1, <1>4 DEF IInv, SetupInv, CallersInv
<1>7. FatalInv'
  <2>1. \A k \in DOMAIN loggers : Shut(k) => Shut(k)'
    BY <1>1, <1>5, Facts DEF Shut
  <2>2. main.step \in {"quit", "drain"} =>
          /\ \A k \in 1..(main.at - 1) : k \in DOMAIN loggers
          /\ loggers[main.at] \in DOMAIN setup
    <3>1. main.step \in {"quit", "drain"} => main.at \in DOMAIN loggers
      BY DEF IInv, FatalInv
    <3>2. DOMAIN loggers = 1..Len(loggers) /\ Len(loggers) \in Nat
      BY Facts
    <3> QED
      BY <3>1, <3>2, Facts
  <2> QED
    BY <1>1, <1>5, <2>1, <2>2 DEF IInv, FatalInv
<1> QED
  BY <1>1, <1>2, <1>3, <1>6, <1>7 DEF IInv

LEMMA DrainWrites ==
  ASSUME IInv, Drain, NEW i, i = loggers[main.at], queue[i] # <<>>
  PROVE  /\ i \in DOMAIN setup /\ i \notin running
         /\ Pipe(i) # <<>> /\ WriteMsg(i, Pipe(i)[1]) /\ Pipe(i)' = Tail(Pipe(i))
         /\ \A j \in DOMAIN setup : j # i => Pipe(j)' = Pipe(j)
         /\ UNCHANGED <<setup, main, loggers, outputs, running, hand, pc, calls>>
         /\ main.step = "drain" /\ queue' = [queue EXCEPT ![i] = Tail(@)]
<1>1. /\ main.step = "drain" /\ WriteMsg(i, Head(queue[i]))
      /\ queue' = [queue EXCEPT ![i] = Tail(@)]
      /\ UNCHANGED <<setup, main, loggers, outputs, running, hand, pc, calls>>
  BY DEF Drain
<1>2. main.at \in DOMAIN loggers /\ i \notin running /\ hand[i] = NoMessage
  BY <1>1 DEF IInv, FatalInv
<1>3. i \in DOMAIN setup
  BY <1>2, Facts
<1>4. /\ Pipe(i) # <<>> /\ Pipe(i)' = Tail(Pipe(i)) /\ Pipe(i)[1] = Head(queue[i])
      /\ \A j \in DOMAIN setup : j # i => Pipe(j)' = Pipe(j)
  BY <1>1, <1>2, <1>3, PipeWritten
<1> QED
  BY <1>1, <1>2, <1>3, <1>4

(* Where Close goes on. *)
LEMMA CloseFromType ==
  ASSUME NEW k \in Nat, main' = CloseFrom(k)
  PROVE  /\ main' = At(main'.step, main'.at) /\ main'.at \in Nat
         /\ \/ main'.step = "exited" /\ k > Len(loggers)
            \/ main'.step = "quit" /\ main'.at = k /\ ~(k > Len(loggers))
BY DEF CloseFrom, At

LEMMA DrainStep == ASSUME IInv, Drain PROVE IInv'
<1> DEFINE i == loggers[main.at]
<1>1. /\ main.step = "drain" /\ main.at \in DOMAIN loggers /\ main.at \in Nat \ {0}
      /\ i \notin running /\ hand[i] = NoMessage /\ i \in DOMAIN setup
      /\ calls[Main] = <<ErrorLevel>> /\ \A c \in Callers \ {Main} : calls[c] = <<>>
      /\ pc[Main] = 0 /\ \A k \in 1..(main.at - 1) : Shut(k)
      /\ UNCHANGED <<setup, loggers, outputs, running, hand, pc, calls>>
      /\ DOMAIN loggers = 1..Len(loggers) /\ Len(loggers) \in Nat
  BY Facts DEF IInv, FatalInv, Drain
<1>2. CASE queue[i] = <<>>
  <2>1. main' = CloseFrom(main.at + 1) /\ UNCHANGED <<queue, lines>>
    BY <1>2 DEF Drain
  <2>2. /\ main' = At(main'.step, main'.at) /\ main'.at \in Nat
        /\ \/ main'.step = "exited" /\ main.at + 1 > Len(loggers)
           \/ main'.step = "quit" /\ main'.at = main.at + 1 /\ ~(main.at + 1 > Len(loggers))
    BY <1>1, <2>1, CloseFromType
  <2>3. Shut(main.at)
    BY <1>1, <1>2 DEF Shut
  <2>4. \A k \in DOMAIN loggers : Shut(k) => Shut(k)'
    BY <1>1, <2>1 DEF Shut
  <2>5. \A k \in 1..main.at : Shut(k)'
    BY <1>1, <2>3, <2>4
  <2>6. FatalInv'
    <3>1. CASE main'.step = "exited" /\ main.at + 1 > Len(loggers)
      <4>1. \A k \in DOMAIN loggers : k \in 1..main.at
        BY <1>1, <3>1
      <4> QED
        BY <1>1, <2>5, <3>1, <4>1 DEF FatalInv
    <3>2. CASE main'.step = "quit" /\ main'.at = main.at + 1 /\ ~(main.at + 1 > Len(loggers))
      <4>1. main'.at \in DOMAIN loggers /\ main'.at - 1 = main.at
        BY <1>1, <3>2
      <4> QED
        BY <1>1, <2>5, <3>2, <4>1 DEF FatalInv
    <3> QED
      BY <2>2, <3>1, <3>2
  <2>7. TypeOK' /\ CallersInv' /\ SetupInv'
    BY <1>1, <2>1, <2>2 DEF IInv, TypeOK, CallersInv, SetupInv
  <2>8. \A j \in DOMAIN setup : Pipe(j)' = Pipe(j)
    BY <1>1, <2>1 DEF Pipe
  <2>9. LoggersInv'
    BY <1>1, <2>8 DEF IInv, LoggersInv, OneEach, Covers
  <2>10. \A k \in DOMAIN loggers : PipeInv(k)' /\ LinesInv(k)'
    BY <1>1, <2>1, <2>8, PipesKept DEF Sent
  <2> QED
    BY <1>1, <2>2, <2>6, <2>7, <2>9, <2>10 DEF IInv
<1>3. CASE queue[i] # <<>>
  <2>1. UNCHANGED main /\ queue' = [queue EXCEPT ![i] = Tail(@)]
    BY <1>3 DEF Drain
  <2>2. /\ \A k \in DOMAIN loggers : PipeInv(k)' /\ LinesInv(k)'
        /\ LoggersInv' /\ lines' \in [Modes -> Seq(Messages)]
    BY <1>1, <1>3, DrainWrites, WriteStep
  <2>3. TypeOK'
    <3>1. queue \in [DOMAIN setup -> Seq(Messages)] /\ \A j \in DOMAIN setup : Len(queue[j]) <= BufLen
      BY DEF IInv, TypeOK
    <3>2. Tail(queue[i]) \in Seq(Messages) /\ Len(Tail(queue[i])) <= BufLen
      <4>1. queue[i] \in Seq(Messages) /\ Len(queue[i]) <= BufLen
        BY <1>1, <3>1
      <4> QED
        BY <1>3, <4>1
    <3>3. queue' \in [DOMAIN setup -> Seq(Messages)] /\ \A j \in DOMAIN setup : Len(queue'[j]) <= BufLen
      BY <1>1, <2>1, <3>1, <3>2
    <3> QED
      BY <1>1, <2>1, <2>2, <3>3 DEF IInv, TypeOK
  <2>4. FatalInv'
    <3>1. \A k \in 1..(main.at - 1) : loggers[k] # i
      BY <1>1, <1>3 DEF Shut
    <3>2. \A k \in 1..(main.at - 1) : Shut(k)'
      <4>1. \A k \in 1..(main.at - 1) : loggers[k] \in DOMAIN setup
        <5>1. \A k \in 1..(main.at - 1) : k \in DOMAIN loggers
          BY <1>1
        <5> QED
          BY <5>1, Facts
      <4>2. queue \in [DOMAIN setup -> Seq(Messages)]
        BY DEF IInv, TypeOK
      <4> QED
        BY <1>1, <2>1, <3>1, <4>1, <4>2 DEF Shut
    <3> QED
      BY <1>1, <2>1, <3>2 DEF FatalInv
  <2>5. CallersInv' /\ SetupInv'
    BY <1>1, <2>1 DEF IInv, CallersInv, SetupInv
  <2> QED
    BY <1>1, <2>1, <2>2, <2>3, <2>4, <2>5 DEF IInv
<1> QED
  BY <1>2, <1>3

(* Steps that only move main or stop a goroutine. *)
LEMMA MainStep ==
  ASSUME IInv, FatalCalled \/ Quit \/ Killed
  PROVE  IInv'
<1>1. /\ UNCHANGED <<setup, loggers, outputs, queue, hand, pc, calls, lines>>
      /\ DOMAIN loggers = 1..Len(loggers) /\ Len(loggers) \in Nat
      /\ main = At(main.step, main.at) /\ main.at \in Nat
  BY Facts DEF IInv, FatalCalled, Quit, Killed
<1>2. /\ \A j \in DOMAIN setup : Pipe(j)' = Pipe(j)
      /\ \A k : Sent(k)' = Sent(k)
  BY <1>1 DEF Pipe, Sent
<1>3. /\ LoggersInv' /\ CallersInv'
      /\ \A k \in DOMAIN loggers : PipeInv(k)' /\ LinesInv(k)'
  BY <1>1, <1>2, PipesKept DEF IInv, LoggersInv, OneEach, Covers, CallersInv
<1>4. CASE FatalCalled
  <2>1. main.step = "fatal" /\ pc[Main] = 0 /\ main' = CloseFrom(1) /\ running' = running
    BY <1>4 DEF FatalCalled
  <2>2. /\ main' = At(main'.step, main'.at) /\ main'.at \in Nat
        /\ \/ main'.step = "exited" /\ 1 > Len(loggers)
           \/ main'.step = "quit" /\ main'.at = 1 /\ ~(1 > Len(loggers))
    BY <2>1, CloseFromType
  <2>3. FatalInv'
    <3>1. calls[Main] = <<ErrorLevel>> /\ \A c \in Callers \ {Main} : calls[c] = <<>>
      BY <2>1 DEF IInv, FatalInv
    <3>2. CASE main'.step = "exited" /\ 1 > Len(loggers)
      <4>1. DOMAIN loggers = {}
        BY <1>1, <3>2
      <4> QED
        BY <1>1, <2>1, <3>1, <3>2, <4>1 DEF FatalInv
    <3>3. CASE main'.step = "quit" /\ main'.at = 1 /\ ~(1 > Len(loggers))
      <4>1. 1 \in DOMAIN loggers /\ 1..(main'.at - 1) = {}
        BY <1>1, <3>3
      <4> QED
        BY <1>1, <2>1, <3>1, <3>3, <4>1 DEF FatalInv
    <3> QED
      BY <2>2, <3>2, <3>3
  <2>4. TypeOK' /\ SetupInv'
    BY <1>1, <2>1, <2>2 DEF IInv, TypeOK, SetupInv
  <2> QED
    BY <1>1, <1>3, <2>2, <2>3, <2>4 DEF IInv
<1>5. CASE Quit
  <2>1. /\ main.step = "quit" /\ hand[loggers[main.at]] = NoMessage
        /\ running' = running \ {loggers[main.at]}
        /\ main' = [main EXCEPT !.step = "drain"]
    BY <1>5 DEF Quit, Receives
  <2>2. main' = At("drain", main.at) /\ main'.step = "drain" /\ main'.at = main.at
    BY <1>1, <2>1 DEF At
  <2>3. FatalInv'
    <3>1. \A k : Shut(k) => Shut(k)'
      BY <1>1, <2>1 DEF Shut
    <3> QED
      BY <1>1, <2>1, <2>2, <3>1 DEF IInv, FatalInv
  <2>4. TypeOK' /\ SetupInv'
    BY <1>1, <2>1, <2>2 DEF IInv, TypeOK, SetupInv
  <2> QED
    BY <1>1, <1>3, <2>2, <2>3, <2>4 DEF IInv
<1>6. CASE Killed
  <2>1. main' = At("killed", 0) /\ running' = running
    BY <1>6 DEF Killed
  <2>2. TypeOK' /\ SetupInv' /\ FatalInv'
    BY <1>1, <2>1 DEF IInv, TypeOK, SetupInv, FatalInv, At
  <2> QED
    BY <1>1, <1>3, <2>1, <2>2 DEF IInv, At
<1> QED
  BY <1>4, <1>5, <1>6
-----------------------------------------------------------------------------
LEMMA IInvInit == Init => IInv
<1> SUFFICES ASSUME Init PROVE IInv
  OBVIOUS
<1>1. /\ setup \in Setups /\ main = At("setup", 1) /\ loggers = <<>> /\ outputs = {} /\ running = {}
      /\ queue = [i \in DOMAIN setup |-> <<>>] /\ hand = [i \in DOMAIN setup |-> NoMessage]
      /\ pc = [c \in Callers |-> 0] /\ calls = [c \in Callers |-> <<>>]
      /\ lines = [m \in Modes |-> <<>>]
  BY DEF Init
<1>2. DOMAIN loggers = {} /\ Len(loggers) = 0 /\ loggers \in Seq(DOMAIN setup)
  BY <1>1
<1>3. TypeOK
  BY <1>1, <1>2 DEF TypeOK, At
<1>4. LoggersInv
  BY <1>1, <1>2 DEF LoggersInv, OneEach, Covers, Pipe
<1>5. SetupInv /\ FatalInv
  BY <1>1, <1>2 DEF SetupInv, FatalInv, At
<1>6. CallersInv
  BY <1>1 DEF CallersInv
<1> QED
  BY <1>1, <1>2, <1>3, <1>4, <1>5, <1>6 DEF IInv, At

LEMMA IInvStep == IInv /\ [Next]_vars => IInv'
<1> SUFFICES ASSUME IInv, [Next]_vars PROVE IInv'
  OBVIOUS
<1>1. CASE InitLogging
  BY <1>1, SetupStep
<1>2. ASSUME NEW c \in Callers, LogCall(c) \/ writerMsg(c) PROVE IInv'
  BY <1>2, LogCallStep, WriterMsgStep
<1>3. ASSUME NEW i \in DOMAIN setup, StartLogger(i) PROVE IInv'
  BY <1>3, TakeStep, WrittenStep DEF StartLogger
<1>4. CASE Fatal \/ Killed
  BY <1>4, MainStep, DrainStep DEF Fatal
<1>5. CASE UNCHANGED vars
  <2>1. UNCHANGED <<setup, main, loggers, outputs, running, queue, hand, pc, calls, lines>>
    BY <1>5 DEF vars
  <2>2. /\ \A i : Pipe(i)' = Pipe(i)
        /\ \A k : Sent(k)' = Sent(k) /\ (Shut(k) => Shut(k)')
    BY <2>1 DEF Pipe, Sent, Shut
  <2>3. TypeOK' /\ SetupInv' /\ CallersInv' /\ FatalInv'
    BY <2>1, <2>2 DEF IInv, TypeOK, SetupInv, CallersInv, FatalInv
  <2>4. LoggersInv'
    BY <2>1, <2>2 DEF IInv, LoggersInv, OneEach, Covers
  <2>5. \A k \in DOMAIN loggers : PipeInv(k)' /\ LinesInv(k)'
    BY <2>1, <2>2, PipesKept DEF IInv
  <2> QED
    BY <2>1, <2>3, <2>4, <2>5 DEF IInv
<1> QED
  BY <1>1, <1>2, <1>3, <1>4, <1>5 DEF Next, Silence

(* The inductive invariant holds of every behaviour of the log. *)
THEOREM Invariance == Spec => []IInv
BY IInvInit, IInvStep, PTL DEF Spec

(* Every variable of the log keeps its type: no queue exceeds buffer_len,  *)
(* and no caller comes to a Logger there is not.                           *)
THEOREM TypeCorrect == Spec => []TypeOK
<1>1. IInv => TypeOK
  BY DEF IInv
<1> QED
  BY <1>1, Invariance, PTL

(* When Fatal has ended the process, its message is the last line of every *)
(* mode that was set up and whose level it reaches.                        *)
THEOREM FatalReportedHolds == Spec => []FatalReported
<1>1. IInv => FatalReported
  <2> SUFFICES ASSUME IInv, main.step = "exited", NEW o \in outputs,
                      ErrorLevel >= LevelOf[setup[o].mode],
                      NEW l, l = lines[setup[o].mode]
               PROVE  l # <<>> /\ Last(l) = <<Main, Len(calls[Main])>>
    BY DEF FatalReported, SetUpModes
  <2>1. PICK k \in DOMAIN loggers : loggers[k] \in outputs /\ setup[loggers[k]].mode = setup[o].mode
    BY DEF IInv, LoggersInv, Covers
  <2>2. /\ calls[Main] = <<ErrorLevel>> /\ \A c \in Callers \ {Main} : calls[c] = <<>>
        /\ pc[Main] = 0 /\ Shut(k)
    BY DEF IInv, FatalInv
  <2>3. Pipe(loggers[k]) = <<>>
    BY <2>2 DEF Pipe, Shut
  <2>4. /\ Older(Pipe(loggers[k]), l, Sent(k))
        /\ NoneLost(Pipe(loggers[k]), l, Sent(k), calls, LevelOf[setup[o].mode])
    BY <2>1 DEF IInv, LinesInv
  <2>5. k \in Nat \ {0} /\ l \in Seq(Messages)
    <3>1. o \in DOMAIN setup
      BY DEF IInv, TypeOK
    <3> QED
      BY <3>1, Facts, LinesType
  <2>6. Sent(k)[Main] = 1 /\ Len(calls[Main]) = 1
    <3>1. Len(calls[Main]) = 1 /\ pc[Main] \notin 1..k
      BY <2>2, <2>5
    <3> QED
      BY <2>5, <3>1, SentValue
  <2>7. \A c \in Callers : c # Main => Sent(k)[c] = 0
    BY <2>2, SentType
  <2>8. \A x \in DOMAIN l : l[x] = <<Main, 1>>
    <3> TAKE x \in DOMAIN l
    <3>1. /\ l[x][1] \in Callers /\ l[x][2] \in Nat \ {0} /\ l[x] = <<l[x][1], l[x][2]>>
      BY <2>5, ElementOfSeq, MessageType
    <3>2. l[x][2] <= Sent(k)[l[x][1]]
      BY <2>4 DEF Older
    <3> QED
      BY <2>6, <2>7, <3>1, <3>2
  <2>9. \E x \in DOMAIN l : l[x] = <<Main, 1>>
    <3>1. 1 \in 1..Sent(k)[Main] /\ calls[Main][1] = ErrorLevel
      BY <2>2, <2>6
    <3>2. /\ calls[Main][1] >= LevelOf[setup[o].mode]
          /\ ~ \E j \in DOMAIN Pipe(loggers[k]) : Pipe(loggers[k])[j] = <<Main, 1>>
      BY <2>3, <3>1
    <3> QED
      BY <2>4, <3>1, <3>2 DEF NoneLost
  <2>10. l # <<>> /\ Len(l) \in DOMAIN l
    BY <2>5, <2>9
  <2> QED
    BY <2>6, <2>8, <2>10 DEF Last
<1> QED
  BY <1>1, Invariance, PTL

(* What is written is the oldest call that the mode has yet to write. *)
LEMMA WriteRefines ==
  ASSUME IInv, NEW i \in DOMAIN setup, NEW h, h = Pipe(i)[1], Pipe(i) # <<>>,
         WriteMsg(i, h), UNCHANGED calls
  PROVE  [Stream!StreamNext]_<<calls, lines>>
<1> DEFINE m == setup[i].mode
           l == lines[m]
           p == Pipe(i)
           c == h[1]
<1>1. /\ p \in Seq(Messages) /\ 1 \in DOMAIN p /\ h \in Messages
      /\ m \in Modes /\ l \in Seq(Messages) /\ lines \in [Modes -> Seq(Messages)]
      /\ \A j \in DOMAIN p : j \in Nat \ {0} /\ p[j] \in Messages
  <2>1. /\ p \in Seq(Messages)
        /\ \A j \in DOMAIN p : j \in Nat \ {0} /\ p[j] \in Messages
    BY PipeType
  <2>2. 1 \in DOMAIN p
    BY <2>1
  <2> QED
    BY <2>1, <2>2, LinesType DEF IInv, TypeOK
<1>2. c \in Callers /\ h[2] \in Nat \ {0} /\ h = <<c, h[2]>>
  BY <1>1, MessageType
<1>3. CASE i \in outputs /\ calls[c][h[2]] >= LevelOf[m]
  <2>1. PICK k \in DOMAIN loggers : loggers[k] = i
    BY DEF IInv, LoggersInv
  <2>2. Ordered(p, Sent(k)) /\ Older(p, l, Sent(k)) /\ NoneLost(p, l, Sent(k), calls, LevelOf[m])
    BY <1>3, <2>1 DEF IInv, PipeInv, LinesInv
  <2>3. /\ Sent(k)[c] \in Nat /\ Sent(k)[c] <= Len(calls[c]) /\ Len(calls[c]) \in Nat
        /\ DOMAIN calls[c] = 1..Len(calls[c])
    BY <1>2, SentType
  <2>4. h[2] \in DOMAIN calls[c]
    <3>1. h[2] <= Sent(k)[c]
      BY <1>1, <2>2 DEF Ordered
    <3> QED
      BY <1>2, <2>3, <3>1
  <2>5. h[2] \in Stream!Pending(m, c)
    BY <1>1, <1>3, <2>2, <2>4 DEF Older, Stream!Pending
  <2>6. ASSUME NEW n \in Stream!Pending(m, c) PROVE h[2] <= n /\ n \in Nat
    <3>1. /\ n \in DOMAIN calls[c] /\ calls[c][n] >= LevelOf[m]
          /\ \A x \in DOMAIN l : l[x][1] = c => l[x][2] < n
      BY <2>6 DEF Stream!Pending
    <3>2. n \in Nat \ {0}
      BY <2>3, <3>1
    <3>3. CASE n <= Sent(k)[c]
      <4>1. n \in 1..Sent(k)[c]
        BY <2>3, <3>2, <3>3
      <4>2. ~ \E x \in DOMAIN l : l[x] = <<c, n>>
        BY <3>1, <3>2
      <4>3. PICK j \in DOMAIN p : p[j] = <<c, n>>
        BY <1>2, <2>2, <3>1, <4>1, <4>2 DEF NoneLost
      <4>4. p[j][1] = c /\ p[j][2] = n /\ (j = 1 \/ 1 < j)
        BY <1>1, <4>3
      <4> QED
        BY <1>1, <1>2, <2>2, <3>2, <4>4 DEF Ordered
    <3>4. CASE ~(n <= Sent(k)[c])
      <4>1. h[2] <= Sent(k)[c]
        BY <1>1, <2>2 DEF Ordered
      <4> QED
        BY <1>2, <2>3, <3>2, <3>4, <4>1
    <3> QED
      BY <3>3, <3>4
  <2>7. h[2] = Stream!Min(Stream!Pending(m, c))
    <3> DEFINE P == Stream!Pending(m, c)
    <3>1. h[2] \in P /\ \A y \in P : h[2] <= y /\ y \in Nat
      BY <2>5, <2>6
    <3> HIDE DEF P
    <3>2. \A x \in P : (\A y \in P : x <= y) => x = h[2]
      BY <3>1
    <3> QED
      BY <3>1, <3>2 DEF Stream!Min, P
  <2>8. lines' = [lines EXCEPT ![m] = Append(@, <<c, h[2]>>)]
    BY <1>2, <1>3 DEF WriteMsg
  <2>9. Stream!Write(m)
    BY <1>2, <2>5, <2>7, <2>8 DEF Stream!Write
  <2> QED
    BY <1>1, <2>9 DEF Stream!StreamNext
<1>4. CASE ~(i \in outputs /\ calls[c][h[2]] >= LevelOf[m])
  BY <1>4 DEF WriteMsg
<1> QED
  BY <1>3, <1>4

(* The log implements LogStream: through every queue and every failure of  *)
(* the set-up, the lines of a mode are the calls of each caller of the     *)
(* mode's level or above, once each, in order and with none left out.      *)
THEOREM LogStreamRefinement == Spec => LogStreamSpec
<1>1. Init => Stream!StreamInit
  BY DEF Init, Stream!StreamInit
<1>2. IInv /\ [Next]_vars => [Stream!StreamNext]_<<calls, lines>>
  <2> SUFFICES ASSUME IInv, Next, ~(UNCHANGED <<calls, lines>>)
               PROVE  Stream!StreamNext
    BY DEF vars
  <2>1. CASE InitLogging
    <3>1. Calling(Main, ErrorLevel, loggers') /\ UNCHANGED lines
      BY <2>1 DEF InitLogging, SetLogger, ModeRefused, InitFails, NoAdapter, StartCollectors
    <3> QED
      BY <3>1 DEF Calling, Stream!StreamNext, Stream!Call
  <2>2. ASSUME NEW c \in Callers, LogCall(c) \/ writerMsg(c) PROVE Stream!StreamNext
    BY <2>2 DEF LogCall, writerMsg, Calling, Stream!StreamNext, Stream!Call
  <2>3. ASSUME NEW i \in DOMAIN setup, StartLogger(i) PROVE Stream!StreamNext
    <3>1. Written(i)
      BY <2>3 DEF StartLogger, Take
    <3> QED
      BY <3>1, WrittenWrites, WriteRefines
  <2>4. CASE Fatal \/ Killed
    <3>1. Drain /\ queue[loggers[main.at]] # <<>>
      BY <2>4 DEF Fatal, Killed, FatalCalled, Quit, Drain
    <3> QED
      BY <3>1, DrainWrites, WriteRefines
  <2> QED
    BY <2>1, <2>2, <2>3, <2>4 DEF Next, Silence, vars
<1> QED
  BY <1>1, <1>2, Invariance, PTL DEF Spec, LogStreamSpec, Stream!StreamSpec
=============================================================================
