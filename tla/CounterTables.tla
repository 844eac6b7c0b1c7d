--------------------------- MODULE CounterTables ---------------------------
(***************************************************************************)
(* The tables of counters that five collectors fill from a file of /proc   *)
(* or from MySQL and compare with the ones of the round before.  The       *)
(* tables are never cleared.  CPUs, disks and network devices have the     *)
(* slot of their position in the file, MySQL's variables that of their     *)
(* name, and the groups of /proc/net/snmp that of the order in which the   *)
(* collector asks for them.                                                *)
(*                                                                         *)
(* A behaviour is one collector's.  What it reads is known by a number, in *)
(* the order in which files list it, so that a file is a set of numbers.   *)
(* A value is abstracted to where it comes from: whose counters were read, *)
(* and in which round.  A rate is right when both its values are of the    *)
(* metric it is sent under, and of this round and the one before.          *)
(***************************************************************************)
EXTENDS Integers, FiniteSetsExt

CONSTANTS
  NumDevices,   \* how many CPUs, disks, network devices or variables there are
  Blacklisted,  \* the ones diskdev_blacklist and netdev_blacklist match
  MaxSlots,     \* MAX_DISK, MAX_NETDEV: the length of the tables
  MaxRounds     \* bound on the number of rounds

ASSUME DevicesAssumption ==
  /\ NumDevices \in Nat \ {0}
  /\ Blacklisted \subseteq 1..NumDevices
  /\ MaxSlots \in Nat \ {0} /\ MaxRounds \in Nat \ {0}

VARIABLES
  kind,      \* which collector runs
  running,   \* FALSE when an error has ended it
  round,     \* the number of the last read
  old, new,  \* the tables: a name and a value in each slot
  count,     \* how many slots the last read but one filled: num_cpu, num_dev
  lists,     \* what the last two reads found in the file, the newer first
  reports    \* the rates of the last round: a name and two values

vars == <<kind, running, round, old, new, count, lists, reports>>

Kinds == {"cpu", "disk", "netdev", "mysql", "netsnmp"}
ByPosition == {"cpu", "disk", "netdev"}

(* The groups of lines CollectSnmpStat asks for: Ip, Icmp, IcmpMsg, Tcp,   *)
(* Udp and UdpLite; and those it sends.                                    *)
Groups == 1..6
IcmpMsg == 3
SentGroups == {1, 2, 4, 5}

None == 0
Names == IF kind = "netsnmp" THEN Groups ELSE 1..NumDevices
Slots == IF kind \in ByPosition THEN 1..MaxSlots ELSE Names
Blank == [name |-> None, of |-> None, at |-> 0]
Reading(d, t) == [name |-> d, of |-> d, at |-> t]

(* What a file can hold: devices come and go, but `cpu ', the first line   *)
(* of /proc/stat, stays (ReadProcStat has no bound on its loop and panics  *)
(* at more CPUs than MAX_CPU, which no file here has); the answer of MySQL *)
(* may break off, which rows.Next() reports like its end; the lines        *)
(* IcmpMsg appear with the first message they count.                       *)
Files ==
  CASE kind = "cpu" -> {f \in SUBSET Names : 1 \in f /\ Cardinality(f) <= MaxSlots}
    [] kind \in {"disk", "netdev"} -> SUBSET Names
    [] kind = "mysql" -> {1..n : n \in Names \cup {0}}
    [] kind = "netsnmp" -> {Groups, Groups \ {IcmpMsg}}

MayFollow(f, g) == kind = "netsnmp" => f \subseteq g
-----------------------------------------------------------------------------
(* Fault: a blacklisted line keeps its slot. *)
KeepsSlotAlways(d) == TRUE

(* A blacklisted line is parsed into the slot of the next one. *)
KeepsSlot(d) == kind = "cpu" \/ d \notin Blacklisted

(* Fault: the end of the table is not looked at. *)
NeverFull(n) == FALSE

Full(n) == n > MaxSlots

Kept(f) == {d \in f : KeepsSlot(d)}

(* The slot the line of d is parsed into, if the table has it. *)
Slot(f, d) == Cardinality({e \in Kept(f) : e < d}) + 1

LinesOf(f, i) == {d \in f : Slot(f, d) = i}

(* ReadProcStat, ReadProcDiskStat and ReadNetDevStat: line by line, until  *)
(* the end of the file or the table.  A slot has the last line that was    *)
(* parsed into it, and without one what it held.                           *)
ReadPositions(table, f, t) ==
  [i \in Slots |-> IF LinesOf(f, i) = {} THEN table[i] ELSE Reading(Max(LinesOf(f, i)), t)]

(* ReadMySQLStat: a map by name, so that a name keeps its slot. *)
ReadNames(table, f, t) == [i \in Slots |-> IF i \in f THEN Reading(i, t) ELSE table[i]]

(* /proc/net/snmp has a line of names and a line of values for each group. *)
IsNames(l) == l % 2 = 1

(* The group of the l-th line of f; a line after the end is empty. *)
Tag(f, l) ==
  LET pair == (l + 1) \div 2
      group == IF IcmpMsg \notin f /\ pair >= IcmpMsg THEN pair + 1 ELSE pair
  IN IF group \in f THEN group ELSE None

(* readProperties: the names of the group are replaced by the fields of    *)
(* the next line, whatever it is.  Only if its tag is the right one a      *)
(* second line is read, and only if that has the tag too the values are    *)
(* replaced.  A line of values in the place of the names leaves no name    *)
(* that is sent.                                                           *)
ReadProperties(entry, g, f, l, t) ==
  LET read == Tag(f, l) = g /\ Tag(f, l + 1) = g
  IN [name |-> IF IsNames(l) THEN Tag(f, l) ELSE None,
      of   |-> IF read THEN g ELSE entry.of,
      at   |-> IF read THEN t ELSE entry.at]

LineAfter(f, g, l) == IF Tag(f, l) = g THEN l + 2 ELSE l + 1

(* ReadSnmpStat asks for one group after the other, from where the last    *)
(* one has left the file.                                                  *)
LineFor(f, g) ==
  LET second == LineAfter(f, 1, 1)
      third == LineAfter(f, 2, second)
      fourth == LineAfter(f, 3, third)
      fifth == LineAfter(f, 4, fourth)
  IN <<1, second, third, fourth, fifth, LineAfter(f, 5, fifth)>>[g]

ReadGroups(table, f, t) ==
  [g \in Groups |-> ReadProperties(table[g], g, f, LineFor(f, g), t)]

Filled(table, f, t) ==
  CASE kind \in ByPosition -> ReadPositions(table, f, t)
    [] kind = "mysql" -> ReadNames(table, f, t)
    [] kind = "netsnmp" -> ReadGroups(table, f, t)

(* How many slots a read filled: num_cpu + 1, num_disks, num_dev + 1. *)
Count(f) ==
  IF kind \notin ByPosition THEN 0
  ELSE IF Full(Cardinality(Kept(f))) THEN MaxSlots ELSE Cardinality(Kept(f))
-----------------------------------------------------------------------------
Init ==
  /\ kind \in Kinds
  /\ running = TRUE
  /\ round = 1
  /\ new = [i \in Slots |-> Blank]
  /\ \E f \in Files :
       /\ old = Filled(new, f, 1)
       /\ count = Count(f)
       /\ lists = <<f, f>>
  /\ reports = {}

Rate(name, a, b) ==
  [name |-> name, from |-> [of |-> a.of, at |-> a.at], to |-> [of |-> b.of, at |-> b.at]]

(* Fault: the loop over the CPUs runs once more. *)
ComparedOneMore(table, n) == 1..(IF count < MaxSlots THEN count + 1 ELSE count)

(* Fault: the names of the new read are looked up. *)
ComparedByNewNames(table, n) == {g \in SentGroups \cap Slots : table[g].name = g}

(* The slots a round compares: CPUs and network devices by the count of    *)
(* the old table, disks by that of the new one, variables that were ever   *)
(* read into the new map, and the groups that are sent if their old names  *)
(* are names.                                                              *)
Compared(table, n) ==
  CASE kind \in {"cpu", "netdev"} -> 1..count
    [] kind = "disk" -> 1..n
    [] kind = "mysql" -> {i \in Slots : table[i].name # None}
    [] kind = "netsnmp" -> {g \in SentGroups : old[g].name = g}

(* The name the rates of a slot are sent under; that of a CPU is its place. *)
SentName(table, i) ==
  CASE kind \in {"cpu", "mysql", "netsnmp"} -> i
    [] kind = "disk" -> table[i].name
    [] kind = "netdev" -> old[i].name

(* Fault: the old table is not replaced. *)
TablesUnmoved(table) == old' = old /\ new' = table

(* The new table is copied to the old one; MySQL's maps change places. *)
MoveTables(table) ==
  /\ old' = table
  /\ new' = IF kind = "mysql" THEN old ELSE table

(* A round: a read of the whole file, the comparison, and the sending. *)
Round(f) ==
  /\ running /\ round < MaxRounds
  /\ MayFollow(lists[1], f)
  /\ LET table == Filled(new, f, round + 1)
     IN /\ reports' =
             {Rate(SentName(table, i), old[i], table[i]) : i \in Compared(table, Count(f))}
        /\ MoveTables(table)
  /\ count' = Count(f)
  /\ round' = round + 1
  /\ lists' = <<f, lists[1]>>
  /\ UNCHANGED <<kind, running>>

(* A read that fails ends the collector. *)
ReadFails ==
  /\ running
  /\ running' = FALSE
  /\ reports' = {}
  /\ UNCHANGED <<kind, round, old, new, count, lists>>

Next ==
  \/ \E f \in Files : Round(f)
  \/ ReadFails

Spec == Init /\ [][Next]_vars
-----------------------------------------------------------------------------
Value == [of: Names \cup {None}, at: 0..MaxRounds]
Entry == [name: Names \cup {None}, of: Names \cup {None}, at: 0..MaxRounds]

TypeOK ==
  /\ kind \in Kinds /\ running \in BOOLEAN
  /\ round \in 1..MaxRounds
  /\ old \in [Slots -> Entry] /\ new \in [Slots -> Entry]
  /\ count \in 0..MaxSlots
  /\ lists \in Files \X Files
  /\ reports \subseteq [name: Names, from: Value, to: Value]

Compares == running /\ round > 1

(* The devices that have slots after a read of f, and their places. *)
Shown(f) == {d \in f : kind = "cpu" \/ d \notin Blacklisted}
Place(f, d) == Cardinality({e \in Shown(f) : e < d}) + 1

(* A CPU, disk or device whose place in the file two reads agree on is     *)
(* reported, with its own growth in the interval, whatever other devices,  *)
(* blacklisted or not, came or went behind it.  When places move, which    *)
(* the code does not notice, nothing is promised of the moved ones.  CPUs  *)
(* are reported under the number of their place.                           *)
UnmovedRight ==
  Compares /\ kind \in ByPosition =>
    \A d \in Shown(lists[1]) \cap Shown(lists[2]) :
      LET place == Place(lists[1], d)
          name == IF kind = "cpu" THEN place ELSE d
      IN place = Place(lists[2], d) /\ place <= MaxSlots =>
           {r \in reports : r.name = name} =
             {Rate(name, Reading(d, round - 1), Reading(d, round))}

(* The percentages of a CPU are divided by the sum of its growth: with no  *)
(* growth they are NaN, which makes the JSON sender drop the whole batch.  *)
(* That happens in no other round than one in which a CPU went off line.   *)
DividesByZeroOnlyOnLoss ==
  kind = "cpu" /\ (\E r \in reports : r.from = r.to) =>
    Cardinality(lists[1]) < Cardinality(lists[2])

(* What a read of f can find by name.  On a host without IcmpMsg lines the *)
(* groups behind them are never found.                                     *)
Found(f) ==
  IF kind = "mysql" THEN f
  ELSE IF IcmpMsg \in f THEN SentGroups ELSE {g \in SentGroups : g < IcmpMsg}

(* A variable or group that two reads in a row found is reported with its  *)
(* own growth between them: entries older rounds left never come before.   *)
NamedRight ==
  Compares /\ kind \in {"mysql", "netsnmp"} =>
    \A d \in Found(lists[1]) \cap Found(lists[2]) :
      {r \in reports : r.name = d} =
        {Rate(d, Reading(d, round - 1), Reading(d, round))}

(* However the file and the answers end early, no value of one metric is   *)
(* compared with one of another, and a group of /proc/net/snmp is never    *)
(* compared with anything but its last values.                             *)
NoMixture ==
  kind \in {"mysql", "netsnmp"} =>
    \A r \in reports :
      /\ r.to.of = r.name /\ r.from.of \in {r.name, None}
      /\ kind = "netsnmp" => r.from = [of |-> r.name, at |-> round - 1]
=============================================================================
