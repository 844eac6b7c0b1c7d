---------------------------- MODULE MetricsFeed ----------------------------
(***************************************************************************)
(* What the agent promises to the metrics store, whatever its collectors,  *)
(* its queue and its network do.  A report carries what one stream of      *)
(* metrics counted between the instants `from' and `to'.  The store may    *)
(* miss reports, but it never gets a report that goes back over time an    *)
(* earlier report of the stream has covered: nothing is counted twice and  *)
(* a stream's reports arrive in order.  The exception is a report that     *)
(* compares a sample with the zero value of its counters, at time 0.       *)
(***************************************************************************)
EXTENDS Naturals, Sequences

CONSTANTS
  Streams,     \* the streams of metrics
  Instants,    \* the instants of the clock
  Unanchored   \* the streams that may compare a sample with the zero value

VARIABLE received   \* the reports the store has received, in order

Report == [stream: Streams, from: Instants, to: Instants]

Init == received = <<>>

Extends(r) ==
  \/ r.stream \in Unanchored /\ 0 \in {r.from, r.to}
  \/ \A i \in DOMAIN received : received[i].stream = r.stream => received[i].to <= r.from

Post(r) == received' = Append(received, r) /\ Extends(r)

Next == \E r \in Report : Post(r)

Spec == Init /\ [][Next]_received
=============================================================================
