------------------------------ MODULE WebLog ------------------------------
(***************************************************************************)
(* CollectWebLogStat: one goroutine per web service follows the access log *)
(* and counts the requests of each route (URL and method) and response     *)
(* class over windows of the log's own time.  A window is closed by the    *)
(* first record more than DELTA after the window's first one: its metrics  *)
(* go to metricschannel and that record opens the next window.             *)
(*                                                                         *)
(* Lines that do not parse change nothing and are left out.  The fields    *)
(* io_rx, io_tx, t_us_* and t_time of ReqStat are summed in the same way:  *)
(* `bytes' stands for all of them.                                         *)
(***************************************************************************)
EXTENDS Naturals, Sequences, FiniteSets

CONSTANTS
  Routes,    \* URL and method of a request: the shortprefix
  Classes,   \* response classes: with the route, the prefix
  Stamps,    \* the time stamps of log records
  Sizes,     \* the values of the summed fields
  Delta,     \* DELTA
  MaxLog     \* bound on the number of records

ASSUME ConstantsAssumption ==
  /\ Stamps \subseteq Nat \ {0}    \* 0 is the value of last_ts before the first record
  /\ Sizes \subseteq Nat
  /\ Delta \in Nat
  /\ MaxLog \in Nat

VARIABLES
  pc,           \* "reading" a line or "sending" a window
  last_ts,      \* the time stamp of the open window's first record
  webmetrics,   \* the open window's statistics per prefix
  reqmetrics,   \* the open window's number of requests per shortprefix
  pending,      \* the record that closed the window being sent
  log,          \* history: the records read so far
  first,        \* history: the position in log of the open window's first record
  sent          \* history: the windows sent, with their positions in log

vars == <<pc, last_ts, webmetrics, reqmetrics, pending, log, first, sent>>

Prefixes == Routes \X Classes
ReqStat == [prefix: Prefixes, ts: Stamps, bytes: Sizes]
Prefix(w) == w.prefix
Shortprefix(w) == w.prefix[1]

(* A key that is not in a Go map reads as the zero value.  webmetrics      *)
(* holds no statistic with req = 0, so that marks the keys it lacks.       *)
NoStat == [ts |-> 0, req |-> 0, bytes |-> 0]
NoMetrics == [p \in Prefixes |-> NoStat]
NoRequests == [r \in Routes |-> 0]

(* Fault: a metric is stamped with the end of its window. *)
StatOfEnd(w) == [ts |-> w.ts + Delta, req |-> 1, bytes |-> w.bytes]

(* A statistic of webmetrics starts as the first record of its prefix. *)
Stat(w) == [ts |-> w.ts, req |-> 1, bytes |-> w.bytes]

None == [prefix |-> <<>>, ts |-> 0, bytes |-> 0]

Init ==
  /\ pc = "reading"
  /\ last_ts = 0
  /\ webmetrics = NoMetrics
  /\ reqmetrics = NoRequests
  /\ pending = None
  /\ log = <<>>
  /\ first = 1
  /\ sent = <<>>

(* Fault: the record that closed a window is not counted in the next one. *)
OpenEmptyWindow(w) ==
  /\ last_ts' = w.ts
  /\ webmetrics' = NoMetrics
  /\ reqmetrics' = NoRequests

(* w opens a window. *)
OpenWindow(w) ==
  /\ last_ts' = w.ts
  /\ webmetrics' = [NoMetrics EXCEPT ![Prefix(w)] = Stat(w)]
  /\ reqmetrics' = [NoRequests EXCEPT ![Shortprefix(w)] = 1]

(* Fault: the window is measured from its last record. *)
ClosesSliding(w) == w.ts > log[Len(log)].ts + Delta

(* (w.ts - last_ts) > int64(DELTA) *)
Closes(w) == w.ts > last_ts + Delta

FirstRecord(w) ==
  /\ pc = "reading" /\ last_ts = 0
  /\ OpenWindow(w)
  /\ log' = Append(log, w)
  /\ UNCHANGED <<pc, pending, first, sent>>

CloseWindow(w) ==
  /\ pc = "reading" /\ last_ts # 0 /\ Closes(w)
  /\ pc' = "sending"
  /\ pending' = w
  /\ UNCHANGED <<last_ts, webmetrics, reqmetrics, log, first, sent>>

(* metricschannel <- m, when the channel has room. *)
Send ==
  /\ pc = "sending"
  /\ sent' = Append(sent, [stats |-> webmetrics, totals |-> reqmetrics,
                           from |-> first, to |-> Len(log)])
  /\ OpenWindow(pending)
  /\ log' = Append(log, pending)
  /\ first' = Len(log) + 1
  /\ pending' = None
  /\ pc' = "reading"

(* Fault: the record's own fields overwrite the sums. *)
AccumulatedLast(w) ==
  IF webmetrics[Prefix(w)].req > 0
  THEN [webmetrics[Prefix(w)] EXCEPT !.req = @ + 1, !.bytes = w.bytes]
  ELSE Stat(w)

(* The statistic of w's prefix once w is counted. *)
Accumulated(w) ==
  IF webmetrics[Prefix(w)].req > 0
  THEN [webmetrics[Prefix(w)] EXCEPT !.req = @ + 1, !.bytes = @ + w.bytes]
  ELSE Stat(w)

(* Fault: a record that starts a metric sets its route's count. *)
CountedReset(w) == IF webmetrics[Prefix(w)].req > 0 THEN reqmetrics[Shortprefix(w)] + 1 ELSE 1

(* The number of requests of w's route once w is counted. *)
Counted(w) == reqmetrics[Shortprefix(w)] + 1

Accumulate(w) ==
  /\ pc = "reading" /\ last_ts # 0 /\ ~Closes(w)
  /\ webmetrics' = [webmetrics EXCEPT ![Prefix(w)] = Accumulated(w)]
  /\ reqmetrics' = [reqmetrics EXCEPT ![Shortprefix(w)] = Counted(w)]
  /\ log' = Append(log, w)
  /\ UNCHANGED <<pc, last_ts, pending, first, sent>>

(* The next line of the log, with whatever time stamp: the web server's    *)
(* workers write it, and its clock may be set back.                        *)
ReadLine ==
  \E w \in ReqStat :
    /\ Len(log) < MaxLog
    /\ FirstRecord(w) \/ CloseWindow(w) \/ Accumulate(w)

(* At the bound the log stays silent and the goroutine waits for a line. *)
Silence == Len(log) >= MaxLog /\ pc = "reading" /\ UNCHANGED vars

Next == ReadLine \/ Send \/ Silence

Spec == Init /\ [][Next]_vars
-----------------------------------------------------------------------------
Stats == [ts: Stamps \cup {0}, req: Nat, bytes: Nat]
WebMetrics == [Prefixes -> Stats]
ReqMetrics == [Routes -> Nat]

TypeOK ==
  /\ pc \in {"reading", "sending"}
  /\ last_ts \in Nat
  /\ webmetrics \in WebMetrics
  /\ reqmetrics \in ReqMetrics
  /\ pending \in ReqStat \cup {None}
  /\ log \in Seq(ReqStat)
  /\ first \in Nat \ {0}
  /\ sent \in Seq([stats: WebMetrics, totals: ReqMetrics, from: Nat, to: Nat])

(* The records of a prefix, or of all prefixes of a route, among q[a..b]. *)
OfPrefix(q, p, a, b) == {i \in a..b : Prefix(q[i]) = p}
OfRoute(q, r, a, b) == {i \in a..b : Shortprefix(q[i]) = r}

(* stats and totals count the records q[a..b], and no others. *)
Exact(q, stats, totals, a, b) ==
  /\ \A p \in Prefixes : stats[p].req = Cardinality(OfPrefix(q, p, a, b))
  /\ \A r \in Routes : totals[r] = Cardinality(OfRoute(q, r, a, b))

(* The two maps of the open window, each updated by its own statement in   *)
(* three places of the loop, count exactly the records of the window, also *)
(* while a send blocks with the next record already read.                  *)
WindowExact == Exact(log, webmetrics, reqmetrics, first, Len(log))

(* Every record is counted in exactly one window: what was sent of a       *)
(* window is exact, and a window begins where the one before it ends.      *)
SentExact ==
  \A k \in DOMAIN sent :
    /\ Exact(log, sent[k].stats, sent[k].totals, sent[k].from, sent[k].to)
    /\ sent[k].from = IF k = 1 THEN 1 ELSE sent[k - 1].to + 1
    /\ k = Len(sent) => first = sent[k].to + 1

(* The requests that the statistics count for a route, class by class.     *)
Requests(stats, r) == UNION {{c} \X (1..stats[<<r, c>>].req) : c \in Classes}

(* The .ratio metrics of a route's response classes add up to 1, though    *)
(* numerator and denominator come from two maps.                           *)
RatiosAddUp ==
  \A k \in DOMAIN sent : \A r \in Routes :
    sent[k].totals[r] = Cardinality(Requests(sent[k].stats, r))

(* No record of a window that was sent is later than DELTA after the       *)
(* window's first record, and the window ended because the next record is. *)
WindowSpan ==
  \A k \in DOMAIN sent :
    LET start == log[sent[k].from].ts IN
      /\ \A i \in sent[k].from .. sent[k].to : log[i].ts <= start + Delta
      /\ log[sent[k].to + 1].ts > start + Delta

(* What the records of a prefix among q[a..b] carried, byte by byte.       *)
Octets(q, p, a, b) == UNION {{i} \X (1..q[i].bytes) : i \in OfPrefix(q, p, a, b)}

(* stats sums up the records q[a..b], and no others. *)
SumsUp(q, stats, a, b) ==
  \A p \in Prefixes : stats[p].bytes = Cardinality(Octets(q, p, a, b))

(* The sums of the open window, and of every window sent, are those of its *)
(* records, prefix by prefix: since every record is in exactly one window, *)
(* nothing a record carried is lost and nothing is counted twice.          *)
BytesExact ==
  /\ SumsUp(log, webmetrics, first, Len(log))
  /\ \A k \in DOMAIN sent : SumsUp(log, sent[k].stats, sent[k].from, sent[k].to)
-----------------------------------------------------------------------------
(* The inductive invariant: what the loop knows of the open window, and    *)
(* that the positions of the windows sent lie before it.                   *)
IInv ==
  /\ TypeOK
  /\ WindowExact /\ SentExact /\ WindowSpan /\ BytesExact
  /\ sent = <<>> => first = 1
  /\ last_ts = 0 => log = <<>> /\ first = 1 /\ sent = <<>>
  /\ last_ts # 0 =>
       /\ first <= Len(log) /\ log[first].ts = last_ts
       /\ \A i \in first..Len(log) : log[i].ts <= last_ts + Delta
  /\ pc = "sending" => pending \in ReqStat /\ Closes(pending) /\ last_ts # 0
  /\ \A k \in DOMAIN sent : 1 <= sent[k].from /\ sent[k].from <= sent[k].to /\ sent[k].to < first
=============================================================================
