----------------------------- MODULE SnmpPoller -----------------------------
(***************************************************************************)
(* The SNMP poller: CollectSnmp, which decodes one file of targets after   *)
(* the other into the same slice and starts a goroutine for each target,   *)
(* and those goroutines, which poll their targets for ever.                *)
(*                                                                         *)
(* json.Unmarshal reuses the memory of the slice it is given, down to the  *)
(* arrays of OIDs of its elements.  A goroutine has a copy of its target,  *)
(* but the copy shares the array: it reads the OIDs once, when it starts,  *)
(* and the names in every round, while the next file may be decoded.       *)
(*                                                                         *)
(* An entry of a file, an OID with its name, is <<f, i, k>>: the k-th of   *)
(* target i of file f.  A rate is right when both the OID and the name are *)
(* of the entry it is reported for.                                        *)
(***************************************************************************)
EXTENDS Integers, Sequences, FiniteSets, SequencesExt

CONSTANTS
  Files,     \* the files of SNMP_JSON_DIR
  Content,   \* of each: the outcome of reading it, the OIDs of each target,
             \* the types of their variables
  MinCap,    \* the capacity the decoder gives a new array (4)
  Modulus,   \* 2^32 for the counters of 32 bits, 2^64 for those of 64
  Torn,      \* what a string is while it is being written
  NoEntry    \* what an array holds where nothing was decoded yet

(* What comes of a file: it cannot be read, is no JSON, is JSON but some   *)
(* field has another type than SnmpTarget's, or is as it should be.        *)
Outcomes == {"unreadable", "malformed", "mistyped", "good"}

ASSUME FilesAssumption ==
  /\ IsFiniteSet(Files)
  /\ \A f \in Files : /\ Content[f].outcome \in Outcomes
                      /\ Content[f].oids \in Seq(Nat \ {0})
                      /\ Content[f].types \subseteq 0..2
  /\ MinCap \in Nat \ {0, 1}   \* half of one is nothing to grow by
  /\ Modulus \in Nat /\ Modulus > 2 /\ Modulus % 2 = 0

Targets == UNION {{f} \X DOMAIN Content[f].oids : f \in Files}
Entries ==
  UNION {{t \o <<k>> : k \in 1..Content[t[1]].oids[t[2]]} : t \in Targets}

VARIABLES
  list,     \* the files, in the order of Readdir that has no order
  loader,   \* where CollectSnmp is: its file, target, entry and next step
  arrays,   \* the arrays of OIDs ever allocated
  elems,    \* the elements of snmptargets: an array and a length
  pc,       \* where each target's goroutine is
  slice,    \* the array and length its copy of the target has
  oids,     \* the OIDs it asks for
  counter,  \* its oldcounters: a value and a type
  report    \* what the last step reported, when it was a round

vars == <<list, loader, arrays, elems, pc, slice, oids, counter, report>>
goroutines == <<pc, slice, oids, counter>>

NoReport == [target |-> <<>>, entries |-> <<>>, rate |-> 0, growth |-> 0, wrapped |-> FALSE]
NoSlice == [array |-> 0, len |-> 0]

Init ==
  /\ list \in SetToSeqs(Files)
  /\ loader = [step |-> "file", file |-> 1, elem |-> 1, entry |-> 1]
  /\ arrays = <<>>
  /\ elems = <<>>
  /\ pc = [t \in Targets |-> "none"]
  /\ slice = [t \in Targets |-> NoSlice]
  /\ oids = [t \in Targets |-> <<>>]
  /\ counter = [t \in Targets |-> [value |-> 0, type |-> 0]]
  /\ report = NoReport

Silent == report' = NoReport

File == list[loader.file]
Oids == Content[File].oids   \* how many OIDs each of its targets has
-----------------------------------------------------------------------------
(* Fault: a file that cannot be read ends the loop. *)
AfterUnreadable == "done"

SkipUnreadable == "file"

(* The next file is read: skipped if it cannot be, and if it is no JSON    *)
(* CollectSnmp returns before anything is decoded.  A file without targets *)
(* makes the decoder take a new slice, of no elements.                     *)
ReadFile ==
  /\ loader.step = "file"
  /\ loader' =
       IF loader.file > Len(list) THEN [loader EXCEPT !.step = "done"]
       ELSE CASE Content[File].outcome = "unreadable" ->
                   [loader EXCEPT !.step = SkipUnreadable, !.file = @ + 1]
              [] Content[File].outcome = "malformed" -> [loader EXCEPT !.step = "done"]
              [] OTHER -> [loader EXCEPT !.step = IF Oids = <<>> THEN "start" ELSE "begin",
                                         !.elem = 1, !.entry = 1]
  /\ elems' = IF loader'.step = "start" THEN <<>> ELSE elems
  /\ UNCHANGED <<list, arrays, goroutines>>
  /\ Silent

(* The element is in the slice already, perhaps beyond its length. *)
Element == IF loader.elem \in DOMAIN elems THEN elems[loader.elem] ELSE NoSlice
Cap(s) == IF s.array = 0 THEN 0 ELSE Len(arrays[s.array])

(* Fault: an empty array grows by half of nothing. *)
NewCapWithoutMin(s) == Cap(s) + Cap(s) \div 2

NewCap(s) == LET n == Cap(s) + Cap(s) \div 2 IN IF n < MinCap THEN MinCap ELSE n

Grown(s) ==
  [k \in 1..NewCap(s) |-> IF k <= Cap(s) THEN arrays[s.array][k] ELSE NoEntry]

(* The decoder comes to the next entry.  It makes a larger array, with a   *)
(* copy of the old one, only when the entry has no room in the old one,    *)
(* and begins to write the strings.                                        *)
BeginEntry ==
  /\ loader.step = "begin"
  /\ LET s == Element
         k == loader.entry
         a == IF k > Cap(s) THEN Len(arrays) + 1 ELSE s.array
         all == IF k > Cap(s) THEN Append(arrays, Grown(s)) ELSE arrays
         e == [array |-> a, len |-> IF k > s.len THEN k ELSE s.len]
     IN /\ arrays' = [all EXCEPT ![a] = [@ EXCEPT ![k] = Torn]]
        /\ elems' = IF loader.elem \in DOMAIN elems
                    THEN [elems EXCEPT ![loader.elem] = e] ELSE Append(elems, e)
  /\ loader' = [loader EXCEPT !.step = "end"]
  /\ UNCHANGED <<list, goroutines>>
  /\ Silent

(* The strings are written.  After the last entry the slice gets its       *)
(* length; after the last target, and if no field was of another type,     *)
(* the goroutines are started.                                             *)
EndEntry ==
  /\ loader.step = "end"
  /\ LET i == loader.elem
         k == loader.entry
     IN /\ arrays' = [arrays EXCEPT ![Element.array] =
                        [@ EXCEPT ![k] = <<File, i, k>>]]
        /\ IF k < Oids[i]
           THEN /\ loader' = [loader EXCEPT !.step = "begin", !.entry = k + 1]
                /\ UNCHANGED elems
           ELSE /\ loader' = IF i < Len(Oids)
                             THEN [loader EXCEPT !.step = "begin", !.elem = i + 1, !.entry = 1]
                             ELSE [loader EXCEPT !.step = "start"]
                /\ elems' = [elems EXCEPT ![i] = [@ EXCEPT !.len = k]]
  /\ UNCHANGED <<list, goroutines>>
  /\ Silent

(* go CollectSnmpTarget(snmptarget) for the targets of the file. *)
StartTargets ==
  /\ loader.step = "start"
  /\ IF Content[File].outcome = "mistyped"
     THEN /\ loader' = [loader EXCEPT !.step = "done"]
          /\ UNCHANGED <<pc, slice>>
     ELSE /\ loader' = [loader EXCEPT !.step = "file", !.file = @ + 1]
          /\ pc' = [t \in Targets |-> IF t[1] = File THEN "connect" ELSE pc[t]]
          /\ slice' = [t \in Targets |-> IF t[1] = File THEN elems[t[2]] ELSE slice[t]]
  /\ UNCHANGED <<list, arrays, elems, oids, counter>>
  /\ Silent
-----------------------------------------------------------------------------
(* Fault: the goroutine has a pointer to the element, not a copy. *)
SliceOfElement(t) == IF t[2] \in DOMAIN elems THEN elems[t[2]] ELSE slice[t]

Slice(t) == slice[t]

Goto(t, label) == pc' = [pc EXCEPT ![t] = label]

(* g.Connect(); its failure ends the goroutine. *)
Connect(t) ==
  /\ pc[t] = "connect"
  /\ \E next \in {"oids", "ended"} : Goto(t, next)
  /\ UNCHANGED <<list, loader, arrays, elems, slice, oids, counter>>
  /\ Silent

(* One turn of the loop that copies the OIDs. *)
CopyOid(t) ==
  /\ pc[t] = "oids"
  /\ LET k == Len(oids[t]) + 1
     IN /\ oids' = [oids EXCEPT ![t] = Append(@, arrays[Slice(t).array][k])]
        /\ IF k >= Slice(t).len THEN Goto(t, "baseline") ELSE UNCHANGED pc
  /\ UNCHANGED <<list, loader, arrays, elems, slice, counter>>
  /\ Silent

(* The first read, or the first one after an error.  One counter stands    *)
(* for those of the target.  Types: 0, 32 bits; 1, 64 bits; 2, a gauge.    *)
Baseline(t) ==
  /\ pc[t] = "baseline"
  /\ \E v \in 0..(Modulus - 1), type \in Content[t[1]].types :
       counter' = [counter EXCEPT ![t] = [value |-> v, type |-> type]]
  /\ Goto(t, "wait")
  /\ UNCHANGED <<list, loader, arrays, elems, slice, oids>>
  /\ Silent

(* A read that fails; the next one is a baseline. *)
ReadFails(t) ==
  /\ pc[t] \in {"baseline", "wait"}
  /\ Goto(t, "baseline")
  /\ UNCHANGED <<list, loader, arrays, elems, slice, oids, counter>>
  /\ Silent

(* Fault: a counter that fell is not looked for. *)
DifferenceUnwrapped(old, new) == new - old

(* Counters of 32 bits, in variables of 64: the largest one, not the       *)
(* modulus, is added when a counter fell.                                  *)
Difference32(old, new) == IF new < old THEN Modulus - 1 - old + new ELSE new - old

(* Counters of 64 bits, subtracted as signed integers of 64 bits. *)
Difference64(old, new) ==
  LET d == (new - old) % Modulus IN IF d < Modulus \div 2 THEN d ELSE d - Modulus

Rate(type, old, new) ==
  CASE type = 0 -> Difference32(old, new)
    [] type = 1 -> Difference64(old, new)
    [] type = 2 -> new

(* How much can be counted in an interval: less than once round a counter  *)
(* of 32 bits, and less than half round one of 64.                         *)
Growths(type) == 0..(IF type = 1 THEN Modulus \div 2 - 1 ELSE Modulus - 1)

(* A round: the read, and a rate for each OID, under the names of now. *)
Poll(t) ==
  /\ pc[t] = "wait"
  /\ \E growth \in Growths(counter[t].type) :
       LET old == counter[t].value
           new == (old + growth) % Modulus
       IN /\ report' =
               [target |-> t,
                entries |-> [k \in DOMAIN oids[t] |->
                               <<oids[t][k], arrays[Slice(t).array][k]>>],
                rate |-> Rate(counter[t].type, old, new),
                growth |-> IF counter[t].type = 2 THEN new ELSE growth,
                wrapped |-> counter[t].type = 0 /\ new < old]
          /\ counter' = [counter EXCEPT ![t].value = new]
  /\ UNCHANGED <<list, loader, arrays, elems, pc, slice, oids>>

CollectSnmp == ReadFile \/ BeginEntry \/ EndEntry \/ StartTargets

CollectSnmpTarget(t) ==
  Connect(t) \/ CopyOid(t) \/ Baseline(t) \/ ReadFails(t) \/ Poll(t)

Next ==
  \/ CollectSnmp
  \/ \E t \in Targets : CollectSnmpTarget(t)

Spec == Init /\ [][Next]_vars
-----------------------------------------------------------------------------
Slices == [array: 0..Len(arrays), len: Nat]
Place == Entries \cup {Torn, NoEntry}

TypeOK ==
  /\ list \in SetToSeqs(Files)
  /\ loader \in [step: {"file", "begin", "end", "start", "done"},
                file: 1..(Len(list) + 1), elem: Nat \ {0}, entry: Nat \ {0}]
  /\ arrays \in Seq(Seq(Place))
  /\ elems \in Seq(Slices) /\ \A i \in DOMAIN elems : elems[i].len <= Cap(elems[i])
  /\ pc \in [Targets -> {"none", "connect", "oids", "baseline", "wait", "ended"}]
  /\ slice \in [Targets -> Slices]
  /\ oids \in [Targets -> Seq(Place)]
  /\ counter \in [Targets -> [value: 0..(Modulus - 1), type: 0..2]]
  /\ report.entries \in Seq(Place \X Place)

Position(f) == CHOOSE n \in DOMAIN list : list[n] = f

(* A later file that was decoded has an entry in the same place. *)
Overwritten(t, k) ==
  \E n \in (Position(t[1]) + 1)..Len(list) :
    LET later == Content[list[n]] IN
      /\ n <= loader.file
      /\ later.outcome \in {"mistyped", "good"}
      /\ t[2] <= Len(later.oids) /\ k <= later.oids[t[2]]

(* A target is polled for its own OIDs, each under its own name, and for   *)
(* as many as its file gives, whatever the decoding of files before and    *)
(* after it has left in memory; only where a later file has an OID in the  *)
(* same place of the same element is that not so.                          *)
OwnEntries ==
  report # NoReport =>
    LET t == report.target IN
      /\ Len(report.entries) = Content[t[1]].oids[t[2]]
      /\ \A k \in DOMAIN report.entries :
           Overwritten(t, k) \/ report.entries[k] = <<t \o <<k>>, t \o <<k>>>>

(* The rate of a counter is what was counted in the interval; it is one    *)
(* less when a counter of 32 bits went round, and never negative.          *)
RateWithinOne ==
  report # NoReport =>
    /\ report.rate = IF report.wrapped THEN report.growth - 1 ELSE report.growth
    /\ report.rate >= 0

(* When CollectSnmp ends, the targets of every good file have been started *)
(* up to the first one that could not be decoded, and no others.           *)
GoodFilesStarted ==
  loader.step = "done" =>
    \A t \in Targets :
      pc[t] # "none" <=>
        /\ Content[t[1]].outcome = "good"
        /\ \A n \in 1..Position(t[1]) :
             Content[list[n]].outcome \in {"good", "unreadable"}
=============================================================================
