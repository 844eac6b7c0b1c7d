------------------------------ MODULE MCAgent ------------------------------
(***************************************************************************)
(* Instances of Agent for TLC: which collectors there are, of which kind,  *)
(* and which of them run together.                                         *)
(***************************************************************************)
EXTENDS Agent, TLC

CONSTANTS cpu, net, mem, ct, cert, pg, router, web

FeedKinds ==
  cpu :> "proc" @@ pg :> "postgres" @@ router :> "snmptarget" @@
  web :> "webserver" @@ net :> "netsnmp" @@ mem :> "gauge"

(* A collector that ends on an error beside one that starts over; the two  *)
(* that live with failed reads; a gauge; and the one that sends four       *)
(* batches a round, which together exceed the capacity of the channel.     *)
FeedConfigurations == {{cpu, pg}, {router, web}, {mem, router}, {net}}

(* Three collectors that wake up in their own ways, for a full channel. *)
LiveKinds == cpu :> "proc" @@ ct :> "conntrack" @@ cert :> "cert"
LiveConfigurations == {{cpu, ct, cert}}
=============================================================================
