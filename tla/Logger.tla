------------------------------- MODULE Logger -------------------------------
(***************************************************************************)
(* The agent's log, log/log.go: initLogging, which makes a Logger for each *)
(* mode of the configuration; the goroutine of each Logger, which takes    *)
(* messages from its queue and writes them; log calls, which put a message *)
(* into the queue of one Logger after the other and wait where it is full; *)
(* and Fatal, which closes the Loggers and ends the process.               *)
(*                                                                         *)
(* A Logger is known by the position of its mode in the configuration.  A  *)
(* message is <<caller, number>>, the number of the call of that caller.   *)
(***************************************************************************)
EXTENDS Integers, Sequences, FiniteSets, SequencesExt

CONSTANTS
  Callers,   \* the goroutines that log, once the log is set up
  Main,      \* of these, the one of main
  Modes,     \* the values of [log] mode
  Levels,    \* the levels of calls
  ErrorLevel,\* that of log.Error and log.Fatal (4)
  LevelOf,   \* of each mode, the level of its section
  Setups,    \* the configurations: sequences of a mode and what comes of it
  BufLen,    \* [log] buffer_len
  MaxCalls,  \* bound: how often each caller logs
  NoMessage

(* What comes of a mode: it is set up; initLogging refuses it, because it  *)
(* has no section or because the directory of its file cannot be made; its *)
(* adapter cannot be initialised; there is no adapter of that name.        *)
Outcomes == {"ok", "refused", "initfails", "noadapter"}

ASSUME LoggerAssumption ==
  /\ Main \in Callers
  /\ Levels \subseteq Nat /\ ErrorLevel \in Levels
  /\ LevelOf \in [Modes -> Nat]
  /\ Setups \subseteq Seq([mode: Modes, outcome: Outcomes])
  /\ BufLen \in Nat \ {0} /\ MaxCalls \in Nat
  /\ NoMessage \notin Callers \X Nat

VARIABLES
  setup,    \* the configuration of this run
  main,     \* where main is: setting up mode `at', running, closing Logger `at'
  loggers,  \* the package variable: the Loggers that are called, in order
  outputs,  \* the Loggers that have an output
  running,  \* the Loggers whose goroutine runs
  queue,    \* the messages in each Logger's channel
  hand,     \* the message that each Logger's goroutine is writing
  pc,       \* of each caller, which of `loggers' it comes to next, or 0
  calls,    \* of each caller, the levels of its calls
  lines     \* of each mode, what was written

vars == <<setup, main, loggers, outputs, running, queue, hand, pc, calls, lines>>

At(step, i) == [step |-> step, at |-> i]

Init ==
  /\ setup \in Setups
  /\ main = At("setup", 1)
  /\ loggers = <<>>
  /\ outputs = {}
  /\ running = {}
  /\ queue = [i \in DOMAIN setup |-> <<>>]
  /\ hand = [i \in DOMAIN setup |-> NoMessage]
  /\ pc = [c \in Callers |-> 0]
  /\ calls = [c \in Callers |-> <<>>]
  /\ lines = [m \in Modes |-> <<>>]

Up == main.step \notin {"exited", "killed"}

(* The caller comes to the first of the Loggers l. *)
Calling(c, level, l) ==
  /\ calls' = [calls EXCEPT ![c] = Append(@, level)]
  /\ pc' = [pc EXCEPT ![c] = IF l = <<>> THEN 0 ELSE 1]
-----------------------------------------------------------------------------
(* Fault: every Logger is appended. *)
RegisteredAlways(i) == Append(loggers, i)

(* NewLogger appends the Logger, unless there is one of the same adapter,  *)
(* which then stays: the assignment to the loop variable replaces nothing. *)
(* A Logger has the name of its adapter only once that is set up.          *)
Registered(i) ==
  IF \E n \in DOMAIN loggers :
       loggers[n] \in outputs /\ setup[loggers[n]].mode = setup[i].mode
  THEN loggers ELSE Append(loggers, i)

SetUp(i, outcome) ==
  /\ main = At("setup", i) /\ i \in DOMAIN setup
  /\ setup[i].outcome = outcome

(* newLogger starts the goroutine before the adapter is set up. *)
NewLogger(i) ==
  /\ loggers' = Registered(i)
  /\ running' = running \cup {i}

SetLogger(i) ==
  /\ SetUp(i, "ok")
  /\ NewLogger(i)
  /\ outputs' = outputs \cup {i}
  /\ main' = At("setup", i + 1)
  /\ UNCHANGED <<setup, queue, hand, pc, calls, lines>>

(* log.Fatal in initLogging. *)
ModeRefused(i) ==
  /\ SetUp(i, "refused")
  /\ Calling(Main, ErrorLevel, loggers)
  /\ main' = At("fatal", 0)
  /\ UNCHANGED <<setup, loggers, outputs, running, queue, hand, lines>>

(* log.Fatal in NewLogger: the new Logger is called, and has no output. *)
InitFails(i) ==
  /\ SetUp(i, "initfails")
  /\ NewLogger(i)
  /\ Calling(Main, ErrorLevel, loggers')
  /\ main' = At("fatal", 0)
  /\ UNCHANGED <<setup, outputs, queue, hand, lines>>

(* The panic in SetLogger. *)
NoAdapter(i) ==
  /\ SetUp(i, "noadapter")
  /\ NewLogger(i)
  /\ main' = At("killed", 0)
  /\ UNCHANGED <<setup, outputs, queue, hand, pc, calls, lines>>

StartCollectors ==
  /\ main = At("setup", Len(setup) + 1)
  /\ main' = At("run", 0)
  /\ UNCHANGED <<setup, loggers, outputs, running, queue, hand, pc, calls, lines>>
-----------------------------------------------------------------------------
(* log.Trace to log.Critical. *)
LogCall(c) ==
  /\ main.step = "run" /\ pc[c] = 0 /\ Len(calls[c]) < MaxCalls
  /\ \E level \in Levels : Calling(c, level, loggers)
  /\ UNCHANGED <<setup, main, loggers, outputs, running, queue, hand, lines>>

(* Fault: a message that finds the queue full is dropped. *)
QueuedOrDropped(i, m) ==
  queue' = IF Len(queue[i]) < BufLen THEN [queue EXCEPT ![i] = Append(@, m)] ELSE queue

Queued(i, m) ==
  Len(queue[i]) < BufLen /\ queue' = [queue EXCEPT ![i] = Append(@, m)]

(* Fault: the loop over the Loggers goes one too far. *)
NextOneTooFar(k) == IF k <= Len(loggers) THEN k + 1 ELSE 0

NextLogger(k) == IF k < Len(loggers) THEN k + 1 ELSE 0

(* l.msg <- lm, for one Logger after the other. *)
writerMsg(c) ==
  /\ Up /\ pc[c] # 0
  /\ Queued(loggers[pc[c]], <<c, Len(calls[c])>>)
  /\ pc' = [pc EXCEPT ![c] = NextLogger(@)]
  /\ UNCHANGED <<setup, main, loggers, outputs, running, hand, calls, lines>>

(* The adapter of Logger i, if it has one, writes what reaches its level. *)
WriteMsg(i, m) ==
  lines' = IF i \in outputs /\ calls[m[1]][m[2]] >= LevelOf[setup[i].mode]
           THEN [lines EXCEPT ![setup[i].mode] = Append(@, m)] ELSE lines

(* A turn of StartLogger: the goroutine receives a message ... *)
Take(i) ==
  /\ Up /\ i \in running /\ hand[i] = NoMessage /\ queue[i] # <<>>
  /\ hand' = [hand EXCEPT ![i] = Head(queue[i])]
  /\ queue' = [queue EXCEPT ![i] = Tail(@)]
  /\ UNCHANGED <<setup, main, loggers, outputs, running, pc, calls, lines>>

(* Fault: the goroutine of a Logger with nowhere to write to ends. *)
RunningWithOutput(i) == IF i \in outputs THEN running ELSE running \ {i}

RunningOn(i) == running

(* ... and writes it. *)
Written(i) ==
  /\ Up /\ hand[i] # NoMessage
  /\ WriteMsg(i, hand[i])
  /\ hand' = [hand EXCEPT ![i] = NoMessage]
  /\ running' = RunningOn(i)
  /\ UNCHANGED <<setup, main, loggers, outputs, queue, pc, calls>>

StartLogger(i) == Take(i) \/ Written(i)
-----------------------------------------------------------------------------
(* Fatal closes the Loggers from k on, then ends the process. *)
CloseFrom(k) == IF k > Len(loggers) THEN At("exited", 0) ELSE At("quit", k)

FatalCalled ==
  /\ main.step = "fatal" /\ pc[Main] = 0
  /\ main' = CloseFrom(1)
  /\ UNCHANGED <<setup, loggers, outputs, running, queue, hand, pc, calls, lines>>

(* Fault: the channel has a buffer, or is closed: the goroutine may still  *)
(* be writing when Close goes on.                                          *)
ReceivesAtOnce(i) == i \in running

(* The goroutine receives only between two messages. *)
Receives(i) == i \in running /\ hand[i] = NoMessage

(* l.quit <- true, which the goroutine's select may prefer to a message. *)
Quit ==
  /\ main.step = "quit"
  /\ Receives(loggers[main.at])
  /\ running' = running \ {loggers[main.at]}
  /\ main' = [main EXCEPT !.step = "drain"]
  /\ UNCHANGED <<setup, loggers, outputs, queue, hand, pc, calls, lines>>

(* Close writes what is left in the queue itself. *)
Drain ==
  /\ main.step = "drain"
  /\ LET i == loggers[main.at] IN
       IF queue[i] = <<>>
       THEN main' = CloseFrom(main.at + 1) /\ UNCHANGED <<queue, lines>>
       ELSE /\ WriteMsg(i, Head(queue[i]))
            /\ queue' = [queue EXCEPT ![i] = Tail(@)]
            /\ UNCHANGED main
  /\ UNCHANGED <<setup, loggers, outputs, running, hand, pc, calls>>

(* A panic in a collector, or systemd stops the process: nothing is closed. *)
Killed ==
  /\ main.step = "run"
  /\ main' = At("killed", 0)
  /\ UNCHANGED <<setup, loggers, outputs, running, queue, hand, pc, calls, lines>>

(* The process has ended, or every caller has reached its bound. *)
Silence ==
  /\ Up => /\ main.step = "run"
           /\ \A c \in Callers : pc[c] = 0 /\ Len(calls[c]) = MaxCalls
           /\ \A i \in DOMAIN setup : queue[i] = <<>> /\ hand[i] = NoMessage
  /\ UNCHANGED vars

InitLogging ==
  \/ \E i \in DOMAIN setup :
       SetLogger(i) \/ ModeRefused(i) \/ InitFails(i) \/ NoAdapter(i)
  \/ StartCollectors

Fatal == FatalCalled \/ Quit \/ Drain

Next ==
  \/ InitLogging
  \/ \E c \in Callers : LogCall(c) \/ writerMsg(c)
  \/ \E i \in DOMAIN setup : StartLogger(i)
  \/ Fatal
  \/ Killed
  \/ Silence

(* The goroutines run, and a line that is being written gets written.      *)
(* Blocked senders are served in the order they came.                      *)
Fairness ==
  /\ WF_vars(Fatal)
  /\ WF_vars(\E i \in DOMAIN setup : StartLogger(i))
  /\ \A c \in Callers : SF_vars(writerMsg(c))

Spec == Init /\ [][Next]_vars /\ Fairness
-----------------------------------------------------------------------------
Messages == Callers \X (1..(MaxCalls + 1))

TypeOK ==
  /\ main.step \in {"setup", "run", "fatal", "quit", "drain", "exited", "killed"}
  /\ loggers \in Seq(DOMAIN setup) /\ outputs \subseteq DOMAIN setup
  /\ running \subseteq DOMAIN setup
  /\ queue \in [DOMAIN setup -> Seq(Messages)]
  /\ \A i \in DOMAIN setup : Len(queue[i]) <= BufLen
  /\ hand \in [DOMAIN setup -> Messages \cup {NoMessage}]
  /\ pc \in [Callers -> 0..Len(loggers)]
  /\ calls \in [Callers -> Seq(Levels)]
  /\ lines \in [Modes -> Seq(Messages)]

(* The log implements LogStream: through the queues, the goroutines, a     *)
(* mode that is configured twice, and Close, the lines of a mode are the   *)
(* calls of each caller, once and in order.                                *)
Stream == INSTANCE LogStream WITH calls <- calls, lines <- lines
LogStreamSpec == Stream!StreamSpec

SetUpModes == {setup[i].mode : i \in outputs}

(* Fatal ends the process only when its message is the last line of every  *)
(* mode that was set up; the process ends without a word only if the first *)
(* mode could not be set up.                                               *)
FatalReported ==
  main.step = "exited" =>
    \A m \in SetUpModes :
      ErrorLevel >= LevelOf[m] =>
        lines[m] # <<>> /\ Last(lines[m]) = <<Main, Len(calls[Main])>>

(* A call is written in every mode that was set up and whose level it      *)
(* reaches, however full the queues are, unless the process ends.          *)
EventuallyWritten ==
  \A m \in Modes, c \in Callers, n \in 1..(MaxCalls + 1) :
    (/\ m \in SetUpModes /\ n <= Len(calls[c])
     /\ calls[c][n] >= LevelOf[m]) ~>
      (<<c, n>> \in ToSet(lines[m]) \/ ~Up)

(* Fatal ends the process: no Close waits for ever for its goroutine. *)
FatalExits == main.step = "fatal" ~> main.step = "exited"
=============================================================================
