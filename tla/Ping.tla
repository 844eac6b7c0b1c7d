-------------------------------- MODULE Ping --------------------------------
(***************************************************************************)
(* The HTTP pinger: CollectPing, which calls request at each tick, and     *)
(* request, whose transport dials in goroutines of its own.  The callback  *)
(* Dial sends a metric, waiting for a place in the channel, and sets a     *)
(* variable of the request that started it, which may be over by then.     *)
(*                                                                         *)
(* A hop is one round trip of client.Do: the first request, or one that a  *)
(* redirect asks for.  A hop takes the idle connection if there is one and *)
(* dials if there is none, and then takes whichever comes first: its own   *)
(* dial, or an earlier connection that becomes idle.  What net/http does   *)
(* here is modelled from how request uses it.                              *)
(***************************************************************************)
EXTENDS Integers, Sequences, SequencesExt

CONSTANTS
  MaxRequests,  \* bound: the ticks
  MaxHops       \* bound: the redirects that are followed, and one (11)

ASSUME BoundsAssumption == MaxRequests \in Nat \ {0} /\ MaxHops \in Nat \ {0}

Requests == 1..MaxRequests
Hops == 1..MaxHops

VARIABLES
  valid,      \* NewRequest accepts the URL of the configuration
  n,          \* the ticks so far: the number of the request
  at,         \* where CollectPing is, in or out of a request
  hop,        \* the hop that client.Do is at
  dial,       \* of each request and hop, where its dial is
  dialerror,  \* of each request
  idle,       \* the transport's connection: "none", "coming" or "there"
  sent        \* history: the metrics sent: <<request, metric>>

pingVars == <<valid, n, at, hop, dial, dialerror, idle, sent>>

PingInit ==
  /\ valid \in BOOLEAN
  /\ n = 0
  /\ at = "tick"
  /\ hop = 1
  /\ dial = [r \in Requests |-> [h \in Hops |-> "none"]]
  /\ dialerror = [r \in Requests |-> FALSE]
  /\ idle = "none"
  /\ sent = <<>>

Dialed(r, h, state) == dial' = [dial EXCEPT ![r][h] = state]
SendNow(r, metric) == sent' = Append(sent, <<r, metric>>)
-----------------------------------------------------------------------------
(* Fault: the transport is made once, for all requests. *)
IdleOfLastRequest == idle

(* Each request has its own transport, with no connection. *)
IdleAtStart == "none"

(* A tick; ticks that come while a request is under way are merged.        *)
Tick ==
  /\ at = "tick" /\ n < MaxRequests
  /\ n' = n + 1
  /\ hop' = 1
  /\ idle' = IdleAtStart
  /\ at' = IF valid THEN "connect" ELSE "tick"
  /\ UNCHANGED <<valid, dial, dialerror, sent>>

(* A round trip begins: with the idle connection, or with a dial. *)
GetConn ==
  /\ at = "connect"
  /\ IF idle = "there"
     THEN at' = "exchange" /\ idle' = "none" /\ UNCHANGED dial
     ELSE at' = "wait" /\ Dialed(n, hop, "dialing") /\ UNCHANGED idle
  /\ UNCHANGED <<valid, n, hop, dialerror, sent>>

(* The dial has returned a connection.  The TLS handshake may fail. *)
UseDialed ==
  /\ at = "wait" /\ dial[n][hop] = "connected"
  /\ at' \in {"exchange", "failed"}
  /\ Dialed(n, hop, "used")
  /\ UNCHANGED <<valid, n, hop, dialerror, idle, sent>>

(* A connection that nobody waits for becomes idle, if it is of the host   *)
(* of the request and there is no other.                                   *)
Spare == {"none", "coming"}

(* An earlier connection is idle first; the dial goes on by itself. *)
UseIdle ==
  /\ at = "wait" /\ idle = "there"
  /\ at' = "exchange"
  /\ idle' \in IF dial[n][hop] = "connected" THEN Spare ELSE {"none"}
  /\ UNCHANGED <<valid, n, hop, dial, dialerror, sent>>

(* The dial has returned its error, and client.Do returns it. *)
DialError ==
  /\ at = "wait" /\ dial[n][hop] = "failed"
  /\ at' = "failed"
  /\ UNCHANGED <<valid, n, hop, dial, dialerror, idle, sent>>

(* A redirect to the same host, whose connection becomes idle in a while,  *)
(* or to another one, of which the transport has no connection.            *)
Redirect ==
  /\ at = "exchange" /\ hop < MaxHops
  /\ hop' = hop + 1
  /\ at' = "connect"
  /\ idle' \in {"coming", "none"}
  /\ UNCHANGED <<valid, n, dial, dialerror, sent>>

(* The last response, or an error of the exchange. *)
Response ==
  /\ at = "exchange"
  /\ at' \in {"done", "failed"}
  /\ UNCHANGED <<valid, n, hop, dial, dialerror, idle, sent>>

(* Fault: a client without a timeout. *)
NoTimeout == FALSE

(* The timeout of the client, 5 s, over all hops.  The dialer gives up     *)
(* after 2 s, so that the first dial ends before, but for its send_now.    *)
CanTimeOut == ~(hop = 1 /\ dial[n][1] = "dialing")

Timeout ==
  /\ at \in {"wait", "exchange"}
  /\ CanTimeOut
  /\ at' = "failed"
  /\ UNCHANGED <<valid, n, hop, dial, dialerror, idle, sent>>

Do == GetConn \/ UseDialed \/ UseIdle \/ DialError \/ Redirect \/ Response \/ Timeout

(* The connection of the previous hop gets idle; an idle one is closed, by *)
(* the server or after a second.                                           *)
ConnIdle ==
  /\ idle # "none"
  /\ idle' = IF idle = "coming" THEN "there" ELSE "none"
  /\ UNCHANGED <<valid, n, at, hop, dial, dialerror, sent>>
-----------------------------------------------------------------------------
(* The callback, in a goroutine of the transport.  Its first step is the   *)
(* call of dialer.Dial; when that is over there is a metric to send.       *)
DialEnds(r, h) ==
  /\ dial[r][h] = "dialing"
  /\ \E state \in {"error", "success"} : Dialed(r, h, state)
  /\ UNCHANGED <<valid, n, at, hop, dialerror, idle, sent>>

DialSucceeded(r, h) ==
  /\ dial[r][h] = "success"
  /\ SendNow(r, "connect")
  /\ Dialed(r, h, "connected")
  /\ LET wanted == at = "wait" /\ h = hop IN
       idle' \in IF r = n /\ ~wanted /\ idle = "none" THEN Spare ELSE {idle}
  /\ UNCHANGED <<valid, n, at, hop, dialerror>>

(* Fault: the flag is set before the metric is sent. *)
FlagFirst == [error |-> "flag", sent |-> "failed", flagged |-> "send"]

(* After a failed dial: the metric is sent, then the flag is set. *)
FailureSteps == [error |-> "send", sent |-> "flag", flagged |-> "failed"]

DialFailed(r, h) ==
  /\ dial[r][h] \in DOMAIN FailureSteps
  /\ LET step == FailureSteps[dial[r][h]] IN
       CASE step = "send" -> /\ SendNow(r, "error.req") /\ Dialed(r, h, "sent")
                             /\ UNCHANGED dialerror
         [] step = "flag" -> /\ dialerror' = [dialerror EXCEPT ![r] = TRUE]
                             /\ Dialed(r, h, "flagged") /\ UNCHANGED sent
         [] OTHER         -> /\ Dialed(r, h, "failed")
                             /\ UNCHANGED <<dialerror, sent>>
  /\ UNCHANGED <<valid, n, at, hop, idle>>

Dial(r, h) == DialEnds(r, h) \/ DialSucceeded(r, h) \/ DialFailed(r, h)
-----------------------------------------------------------------------------
(* client.Do has returned: nothing more if a dial has failed. *)
AfterDo ==
  /\ at \in {"done", "failed"}
  /\ at' = IF dialerror[n] THEN "tick"
           ELSE IF at = "failed" THEN "error.req" ELSE "request"
  /\ UNCHANGED <<valid, n, hop, dial, dialerror, idle, sent>>

(* A send_now of request, and what follows it. *)
Report ==
  /\ at \in {"error.req", "request", "error.resp", "total"}
  /\ SendNow(n, at)
  /\ at' = IF at = "request" THEN "body" ELSE "tick"
  /\ UNCHANGED <<valid, n, hop, dial, dialerror, idle>>

(* The body is read, or the reading fails or times out. *)
ReadBody ==
  /\ at = "body"
  /\ \/ at' = "total" /\ idle' = "coming"
     \/ at' = "error.resp" /\ UNCHANGED idle
  /\ UNCHANGED <<valid, n, hop, dial, dialerror, sent>>

Request == Do \/ AfterDo \/ Report \/ ReadBody

(* The ticks are used up and nothing runs any more. *)
Quiet ==
  /\ at = "tick" /\ n = MaxRequests
  /\ \A r \in Requests, h \in Hops : dial[r][h] \in {"none", "connected", "used", "failed"}
  /\ UNCHANGED pingVars

PingNext ==
  \/ Tick
  \/ Request
  \/ ConnIdle
  \/ \E r \in Requests, h \in Hops : Dial(r, h)
  \/ Quiet

(* A dial ends, by its timeout; a metric finds its place in the channel;   *)
(* the client's timeout ends what does not end by itself.                  *)
Fairness ==
  /\ WF_pingVars(AfterDo \/ Report \/ ReadBody)
  /\ WF_pingVars(GetConn \/ DialError \/ Timeout)
  /\ \A r \in Requests, h \in Hops : WF_pingVars(Dial(r, h))

PingSpec == PingInit /\ [][PingNext]_pingVars /\ Fairness
-----------------------------------------------------------------------------
Reported(r, metrics) == \E i \in DOMAIN sent : sent[i][1] = r /\ sent[i][2] \in metrics

(* A request that is over has told the store how it ended, whichever of    *)
(* its dials failed, and although a failed dial makes it end in silence.   *)
OutcomeReported ==
  valid =>
    \A r \in 1..n :
      r < n \/ at = "tick" => Reported(r, {"error.req", "error.resp", "total"})

(* The time of a request is sent after the time of a connection that was   *)
(* made for the same request: no request is measured on a connection of an *)
(* earlier one.                                                            *)
ConnectFirst ==
  \A i \in DOMAIN sent :
    sent[i][2] = "request" =>
      \E j \in 1..(i - 1) : sent[j] = <<sent[i][1], "connect">>

(* A request ends, whatever the server does, so that the next tick finds   *)
(* the pinger ready.                                                       *)
RequestEnds ==
  \A r \in Requests : n = r /\ at # "tick" ~> n = r /\ at = "tick"
=============================================================================
