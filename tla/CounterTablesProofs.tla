------------------------- MODULE CounterTablesProofs -------------------------
(***************************************************************************)
(* Proofs about CounterTables: for any number of devices, any blacklist    *)
(* and tables of any length, what keeps its place or its name is compared  *)
(* with itself, over one interval.                                         *)
(***************************************************************************)
EXTENDS CounterTables, FiniteSetTheorems, TLAPS

USE DevicesAssumption DEF DevicesAssumption

(* The slots of the devices of f have what was read of them in round t. *)
Placed(table, f, t) ==
  \A d \in Kept(f) : Slot(f, d) <= MaxSlots => table[Slot(f, d)] = Reading(d, t)

(* CPUs, disks and devices: the old table has the last read in its places. *)
PlacesInv ==
  kind \in ByPosition => count = Count(lists[1]) /\ Placed(old, lists[1], round)

(* A slot of MySQL's maps is of one variable or blank. *)
OfName(table, i) ==
  table[i].of \in {i, None} /\ (table[i].name # None => table[i].of = i)

MapsInv ==
  kind = "mysql" =>
    /\ \A i \in Slots : OfName(old, i) /\ OfName(new, i)
    /\ \A i \in lists[1] : old[i] = Reading(i, round)

(* A group that is sent has its last values, or not its name. *)
Grouped(table, f, t) ==
  \A g \in SentGroups :
    IF g \in Found(f) THEN table[g] = Reading(g, t) ELSE table[g].name # g

GroupsInv == kind = "netsnmp" => Grouped(old, lists[1], round)

IInv ==
  /\ TypeOK
  /\ PlacesInv
  /\ MapsInv
  /\ GroupsInv
  /\ UnmovedRight
  /\ DividesByZeroOnlyOnLoss
  /\ NamedRight
  /\ NoMixture
-----------------------------------------------------------------------------
(* Files and slots.                                                        *)

LEMMA FileType ==
  ASSUME kind \in Kinds, NEW f \in Files
  PROVE  f \subseteq Names /\ f \subseteq Nat \ {0} /\ IsFiniteSet(f)
<1>1. Names \subseteq Nat \ {0} /\ IsFiniteSet(Names)
  <2>1. 1 \in Int /\ 6 \in Int /\ NumDevices \in Int
    OBVIOUS
  <2>2. IsFiniteSet(1..6) /\ IsFiniteSet(1..NumDevices)
    BY <2>1, FS_Interval, Zenon
  <2> QED
    BY <2>2 DEF Names, Groups
<1>2. f \subseteq Names
  <2>1. CASE kind = "mysql"
    <3>1. PICK n \in Names \cup {0} : f = 1..n
      BY <2>1 DEF Files
    <3> QED
      BY <2>1, <3>1 DEF Names
  <2>2. CASE kind # "mysql"
    BY <2>2 DEF Files, Kinds, Names, Groups
  <2> QED
    BY <2>1, <2>2
<1> QED
  BY <1>1, <1>2, FS_Subset

LEMMA KeptType ==
  ASSUME NEW f, IsFiniteSet(f)
  PROVE  Kept(f) \subseteq f /\ IsFiniteSet(Kept(f)) /\ Cardinality(Kept(f)) \in Nat
<1>1. Kept(f) \subseteq f
  BY DEF Kept
<1> QED
  BY <1>1, FS_Subset, FS_CardinalityType

(* The place of d among the numbers of K. *)
Rank(K, d) == Cardinality({e \in K : e < d}) + 1

LEMMA RankType ==
  ASSUME NEW K, IsFiniteSet(K), NEW d
  PROVE  /\ IsFiniteSet({e \in K : e < d})
         /\ Rank(K, d) \in Nat \ {0}
<1> DEFINE B == {e \in K : e < d}
<1>1. IsFiniteSet(B) /\ Cardinality(B) \in Nat
  <2>1. B \in SUBSET K
    OBVIOUS
  <2> HIDE DEF B
  <2> QED
    BY <2>1, FS_Subset, FS_CardinalityType
<1>2. Rank(K, d) = Cardinality(B) + 1
  BY DEF Rank
<1> HIDE DEF B
<1>3. Rank(K, d) \in Nat \ {0}
  BY <1>1, <1>2
<1> QED
  BY <1>1, <1>3 DEF B

LEMMA RankOrder ==
  ASSUME NEW K, IsFiniteSet(K), K \subseteq Nat, NEW e \in K, NEW d \in Nat, e < d
  PROVE  Rank(K, e) < Rank(K, d)
<1> DEFINE B == {x \in K : x < e}
           C == {x \in K : x < d}
<1>1. IsFiniteSet(B) /\ IsFiniteSet(C)
  BY RankType
<1>2. B \cup {e} \subseteq C /\ e \notin B
  <2>1. e \in Nat /\ d \in Nat
    OBVIOUS
  <2>2. ASSUME NEW x \in B
        PROVE  x \in C /\ x # e
    <3>1. x \in K /\ x < e /\ x \in Nat
      OBVIOUS
    <3> QED
      BY <2>1, <3>1
  <2>3. e \in C
    OBVIOUS
  <2> QED
    BY <2>2, <2>3
<1>3. Rank(K, e) = Cardinality(B) + 1 /\ Rank(K, d) = Cardinality(C) + 1
  BY DEF Rank
<1> HIDE DEF B, C
<1>4. Cardinality(B \cup {e}) = Cardinality(B) + 1
  BY <1>1, <1>2, FS_AddElement
<1>5. Cardinality(B \cup {e}) <= Cardinality(C)
  BY <1>1, <1>2, FS_Subset
<1>6. Cardinality(B) \in Nat /\ Cardinality(C) \in Nat
  BY <1>1, FS_CardinalityType
<1> QED
  BY <1>3, <1>4, <1>5, <1>6

LEMMA RankBound ==
  ASSUME NEW K, IsFiniteSet(K), K \subseteq Nat, NEW d \in K
  PROVE  /\ Rank(K, d) \in 1..Cardinality(K)
         /\ Rank(K, d) = Cardinality(K) => \A e \in K : e <= d
<1> DEFINE B == {x \in K : x < d}
<1>1. IsFiniteSet(B) /\ Rank(K, d) \in Nat \ {0}
  BY RankType
<1>2. B \subseteq K \ {d} /\ \A x \in B : x <= d
  <2>1. d \in Nat
    OBVIOUS
  <2> QED
    BY <2>1
<1>3. Rank(K, d) = Cardinality(B) + 1
  BY DEF Rank
<1> HIDE DEF B
<1>4. /\ IsFiniteSet(K \ {d})
      /\ Cardinality(K \ {d}) = Cardinality(K) - 1
  BY FS_RemoveElement
<1>5. /\ Cardinality(B) <= Cardinality(K \ {d})
      /\ Cardinality(K \ {d}) = Cardinality(B) => K \ {d} = B
  BY <1>2, <1>4, FS_Subset
<1>6. Cardinality(B) \in Nat /\ Cardinality(K) \in Nat
  BY <1>1, FS_CardinalityType
<1>7. Rank(K, d) \in 1..Cardinality(K)
  BY <1>1, <1>3, <1>4, <1>5, <1>6
<1>8. ASSUME Rank(K, d) = Cardinality(K), NEW e \in K
      PROVE  e <= d
  <2>1. K \ {d} = B /\ d \in Nat
    BY <1>3, <1>4, <1>5, <1>6, <1>8
  <2> QED
    BY <1>2, <2>1
<1> QED
  BY <1>7, <1>8

(* No place is left out: those of n numbers are 1 to n. *)
LEMMA RankTaken ==
  ASSUME NEW K, IsFiniteSet(K), K \subseteq Nat, NEW i \in 1..Cardinality(K)
  PROVE  \E d \in K : Rank(K, d) = i
<1> DEFINE N == 1..Cardinality(K)
           place == [d \in K |-> Rank(K, d)]
<1>1. Cardinality(K) \in Nat
  BY FS_CardinalityType
<1>2. IsFiniteSet(N) /\ Cardinality(N) = Cardinality(K)
  <2>1. Cardinality(K) \in Int /\ 1 \in Int
    BY <1>1
  <2> QED
    BY <1>1, <2>1, FS_Interval
<1>3. place \in [K -> N]
  BY RankBound
<1>4. ASSUME NEW d \in K, NEW e \in K, d # e
      PROVE  place[d] # place[e]
  <2>1. d \in Nat /\ e \in Nat
    OBVIOUS
  <2>2. Rank(K, d) \in Nat /\ Rank(K, e) \in Nat
    BY RankType
  <2>3. d < e => Rank(K, d) < Rank(K, e)
    BY <2>1, RankOrder
  <2>4. e < d => Rank(K, e) < Rank(K, d)
    BY <2>1, RankOrder
  <2>5. Rank(K, d) # Rank(K, e)
    BY <1>4, <2>1, <2>2, <2>3, <2>4
  <2> QED
    BY <2>5
<1>5. place \in Injection(K, N)
  BY <1>3, <1>4 DEF Injection, IsInjective
<1>6. place \in Surjection(K, N)
  <2> HIDE DEF N, place
  <2> QED
    BY <1>2, <1>5, FS_Injection
<1> QED
  BY <1>6 DEF Surjection

(* A finite set of numbers has a greatest one, the one in the last place.  *)
LEMMA MaxIsMember ==
  ASSUME NEW S, IsFiniteSet(S), S \subseteq Nat, S # {}
  PROVE  Max(S) \in S
<1>1. Cardinality(S) \in Nat /\ Cardinality(S) # 0
  BY FS_CardinalityType, FS_EmptySet
<1>2. Cardinality(S) \in 1..Cardinality(S)
  BY <1>1
<1>3. PICK d \in S : Rank(S, d) = Cardinality(S)
  BY <1>2, RankTaken
<1>4. \A e \in S : d >= e
  <2>1. \A e \in S : e <= d
    BY <1>3, RankBound
  <2> QED
    BY <2>1
<1> QED
  BY <1>4 DEF Max

LEMMA SlotIsRank ==
  ASSUME NEW f, NEW d
  PROVE  Slot(f, d) = Rank(Kept(f), d)
BY DEF Slot, Rank

(* The last line that is parsed into the slot of a device is its own. *)
LEMMA OwnLine ==
  ASSUME NEW f, IsFiniteSet(f), f \subseteq Nat, NEW d \in Kept(f)
  PROVE  /\ LinesOf(f, Slot(f, d)) # {}
         /\ Max(LinesOf(f, Slot(f, d))) = d
<1> DEFINE L == LinesOf(f, Slot(f, d))
<1>1. d \in L /\ L \subseteq Nat
  BY KeptType DEF LinesOf
<1>2. \A x \in L : d >= x
  <2> SUFFICES ASSUME NEW x \in L, ~(d >= x)
               PROVE  FALSE
    OBVIOUS
  <2>1. x \in f /\ d < x /\ Slot(f, x) = Slot(f, d)
    BY <1>1 DEF LinesOf
  <2>2. Slot(f, d) \in Nat /\ d \in Nat /\ x \in Nat
    BY <1>1, KeptType, RankType, SlotIsRank
  <2>3. Slot(f, d) < Slot(f, x)
    <3>1. IsFiniteSet(Kept(f)) /\ Kept(f) \subseteq Nat
      BY KeptType
    <3> QED
      BY <2>1, <2>2, <3>1, RankOrder, SlotIsRank
  <2> QED
    BY <2>1, <2>2, <2>3
<1> HIDE DEF L
<1>3. \A x \in L : (\A y \in L : x >= y) => x = d
  BY <1>1, <1>2
<1>4. Max(L) = d
  BY <1>1, <1>2, <1>3 DEF Max
<1> QED
  BY <1>1, <1>4 DEF L

(* Every slot a collector counts has a device, and every device with a     *)
(* slot in the table is counted.                                           *)
LEMMA Counted ==
  ASSUME kind \in Kinds, kind \in ByPosition, NEW f \in Files
  PROVE  /\ Count(f) \in 0..MaxSlots
         /\ \A i \in 1..Count(f) :
              i <= MaxSlots /\ \E d \in Kept(f) : Slot(f, d) = i
         /\ \A d \in Kept(f) : Slot(f, d) <= MaxSlots => Slot(f, d) \in 1..Count(f)
<1>1. IsFiniteSet(Kept(f)) /\ Kept(f) \subseteq Nat /\ Cardinality(Kept(f)) \in Nat
  BY FileType, KeptType
<1>2. /\ Count(f) \in Nat /\ Count(f) <= MaxSlots /\ Count(f) <= Cardinality(Kept(f))
      /\ Count(f) = MaxSlots \/ Count(f) = Cardinality(Kept(f))
  BY <1>1 DEF Count, Full
<1>3. ASSUME NEW i \in 1..Count(f)
      PROVE  i <= MaxSlots /\ \E d \in Kept(f) : Slot(f, d) = i
  <2>1. i \in 1..Cardinality(Kept(f)) /\ i <= MaxSlots
    BY <1>1, <1>2
  <2> QED
    BY <1>1, <2>1, RankTaken, SlotIsRank
<1>4. ASSUME NEW d \in Kept(f), Slot(f, d) <= MaxSlots
      PROVE  Slot(f, d) \in 1..Count(f)
  <2>1. Slot(f, d) \in 1..Cardinality(Kept(f))
    BY <1>1, RankBound, SlotIsRank
  <2> QED
    BY <1>1, <1>2, <1>4, <2>1
<1> QED
  BY <1>2, <1>3, <1>4

(* What is counted fits the table, and is no more than there is. *)
LEMMA CountedType ==
  ASSUME kind \in Kinds, kind \in ByPosition, NEW f \in Files
  PROVE  1..Count(f) \subseteq Slots /\ 1..Count(f) \subseteq Names /\ Kept(f) \subseteq Names
<1>1. Kept(f) \subseteq Names /\ IsFiniteSet(f)
  BY FileType, KeptType
<1>2. Names = 1..NumDevices /\ IsFiniteSet(Names) /\ Cardinality(Names) = NumDevices
  <2>1. Names = 1..NumDevices /\ 1 \in Int /\ NumDevices \in Int
    BY DEF Names, ByPosition
  <2> QED
    BY <2>1, FS_Interval
<1>3. Cardinality(Kept(f)) \in Nat /\ Cardinality(Kept(f)) <= NumDevices
  BY <1>1, <1>2, KeptType, FS_Subset
<1>4. Count(f) \in 0..MaxSlots /\ Count(f) <= NumDevices
  BY <1>3, Counted DEF Count, Full
<1> QED
  BY <1>1, <1>2, <1>4 DEF Slots

LEMMA Ranked ==
  ASSUME kind \in Kinds, kind \in ByPosition, NEW f \in Files, NEW i \in 1..Count(f),
         NEW table, NEW t, Placed(table, f, t)
  PROVE  \E d \in Kept(f) : Slot(f, d) = i /\ table[i] = Reading(d, t)
<1>1. PICK d \in Kept(f) : Slot(f, d) = i /\ i <= MaxSlots
  BY Counted
<1> QED
  BY <1>1 DEF Placed

(* A read by position puts the devices of the file in their slots. *)
LEMMA ReadPlaced ==
  ASSUME kind \in Kinds, kind \in ByPosition, NEW f \in Files, NEW table, NEW t
  PROVE  Placed(Filled(table, f, t), f, t)
<1>1. IsFiniteSet(f) /\ f \subseteq Nat
  BY FileType
<1>2. Filled(table, f, t) = ReadPositions(table, f, t)
  BY DEF Filled, ByPosition
<1>3. ASSUME NEW d \in Kept(f), Slot(f, d) <= MaxSlots
      PROVE  ReadPositions(table, f, t)[Slot(f, d)] = Reading(d, t)
  <2>1. Slot(f, d) \in Slots
    <3>1. Slot(f, d) \in Nat \ {0}
      BY <1>1, KeptType, RankType, SlotIsRank
    <3> QED
      BY <1>3, <3>1 DEF Slots
  <2>2. LinesOf(f, Slot(f, d)) # {} /\ Max(LinesOf(f, Slot(f, d))) = d
    BY <1>1, OwnLine
  <2> QED
    BY <2>1, <2>2 DEF ReadPositions
<1> QED
  BY <1>2, <1>3 DEF Placed

(* The lines of /proc/net/snmp with and without IcmpMsg, and where each    *)
(* group is looked for: without, one line too late from the fourth on.     *)
LEMMA GroupLines ==
  /\ LineFor(Groups, 1) = 1 /\ LineFor(Groups, 2) = 3
  /\ LineFor(Groups, 4) = 7 /\ LineFor(Groups, 5) = 9
<1> DEFINE f == Groups
<1>1. /\ Tag(f, 1) = 1 /\ Tag(f, 3) = 2 /\ Tag(f, 5) = 3 /\ Tag(f, 7) = 4
  BY DEF Tag, Groups, IcmpMsg
<1>2. /\ LineAfter(f, 1, 1) = 3 /\ LineAfter(f, 2, 3) = 5
      /\ LineAfter(f, 3, 5) = 7 /\ LineAfter(f, 4, 7) = 9
  BY <1>1 DEF LineAfter
<1> HIDE DEF f
<1>3. /\ LineFor(f, 1) = 1 /\ LineFor(f, 2) = 3
      /\ LineFor(f, 4) = 7 /\ LineFor(f, 5) = 9
  BY <1>2 DEF LineFor
<1> QED
  BY <1>3 DEF f

LEMMA ShiftedLines ==
  ASSUME NEW f, f = Groups \ {IcmpMsg}
  PROVE  /\ LineFor(f, 1) = 1 /\ LineFor(f, 2) = 3
         /\ LineFor(f, 4) = 6 /\ LineFor(f, 5) = 8
<1>1. /\ Tag(f, 1) = 1 /\ Tag(f, 3) = 2 /\ Tag(f, 5) = 4 /\ Tag(f, 6) = 4
  BY DEF Tag, Groups, IcmpMsg
<1>2. /\ LineAfter(f, 1, 1) = 3 /\ LineAfter(f, 2, 3) = 5
      /\ LineAfter(f, 3, 5) = 6 /\ LineAfter(f, 4, 6) = 8
  BY <1>1 DEF LineAfter
<1> QED
  BY <1>2 DEF LineFor

LEMMA ReadGrouped ==
  ASSUME kind = "netsnmp", NEW f \in Files, NEW table, NEW t
  PROVE  Grouped(Filled(table, f, t), f, t)
<1>1. f = Groups \/ f = Groups \ {IcmpMsg}
  BY DEF Files
<1>2. ASSUME NEW g \in SentGroups
      PROVE  /\ Filled(table, f, t)[g] = ReadProperties(table[g], g, f, LineFor(f, g), t)
  BY <1>2 DEF Filled, ByPosition, ReadGroups, Groups, SentGroups
<1>3. CASE f = Groups
  <2>1. /\ Tag(f, 1) = 1 /\ Tag(f, 2) = 1 /\ Tag(f, 3) = 2 /\ Tag(f, 4) = 2
        /\ Tag(f, 7) = 4 /\ Tag(f, 8) = 4 /\ Tag(f, 9) = 5 /\ Tag(f, 10) = 5
    BY <1>3 DEF Tag, Groups, IcmpMsg
  <2>2. /\ LineFor(f, 1) = 1 /\ LineFor(f, 2) = 3
        /\ LineFor(f, 4) = 7 /\ LineFor(f, 5) = 9
    BY <1>3, GroupLines
  <2>3. ASSUME NEW g \in SentGroups
        PROVE  ReadProperties(table[g], g, f, LineFor(f, g), t) = Reading(g, t)
    BY <2>1, <2>2 DEF ReadProperties, Reading, IsNames, SentGroups
  <2>4. Found(f) = SentGroups
    BY <1>3 DEF Found, Groups, IcmpMsg
  <2> QED
    BY <1>2, <2>3, <2>4 DEF Grouped
<1>4. CASE f = Groups \ {IcmpMsg}
  <2>1. /\ Tag(f, 1) = 1 /\ Tag(f, 2) = 1 /\ Tag(f, 3) = 2 /\ Tag(f, 4) = 2
    BY <1>4 DEF Tag, Groups, IcmpMsg
  <2>2. /\ LineFor(f, 1) = 1 /\ LineFor(f, 2) = 3
        /\ LineFor(f, 4) = 6 /\ LineFor(f, 5) = 8
    BY <1>4, ShiftedLines
  <2>3. Found(f) = {1, 2}
    BY <1>4 DEF Found, Groups, IcmpMsg, SentGroups
  <2>4. ASSUME NEW g \in {1, 2}
        PROVE  ReadProperties(table[g], g, f, LineFor(f, g), t) = Reading(g, t)
    BY <2>1, <2>2 DEF ReadProperties, Reading, IsNames
  <2>5. ASSUME NEW g \in {4, 5}
        PROVE  ReadProperties(table[g], g, f, LineFor(f, g), t).name = None
    BY <2>2 DEF ReadProperties, IsNames
  <2>6. SentGroups = {1, 2} \cup {4, 5} /\ 4 # None /\ 5 # None
    BY DEF SentGroups, None
  <2>7. ASSUME NEW g \in SentGroups
        PROVE  IF g \in {1, 2} THEN Filled(table, f, t)[g] = Reading(g, t)
               ELSE Filled(table, f, t)[g].name # g
    BY <1>2, <2>4, <2>5, <2>6
  <2> QED
    BY <2>3, <2>7 DEF Grouped
<1> QED
  BY <1>1, <1>3, <1>4

(* A read by name gets the variables of the answer. *)
LEMMA ReadNamed ==
  ASSUME kind = "mysql", NEW f \in Files, NEW table, NEW t
  PROVE  /\ \A i \in f : i \in Slots /\ Filled(table, f, t)[i] = Reading(i, t)
         /\ \A i \in Slots : OfName(table, i) => OfName(Filled(table, f, t), i)
<1>1. f \subseteq Slots
  BY FileType DEF Slots, Kinds, ByPosition
<1>2. Filled(table, f, t) = ReadNames(table, f, t)
  BY DEF Filled, ByPosition
<1>3. ASSUME NEW i \in Slots
      PROVE  ReadNames(table, f, t)[i] = IF i \in f THEN Reading(i, t) ELSE table[i]
  BY DEF ReadNames
<1>4. ASSUME NEW i \in Slots, OfName(table, i)
      PROVE  OfName(ReadNames(table, f, t), i)
  <2>1. CASE i \in f
    <3>1. ReadNames(table, f, t)[i] = Reading(i, t)
      BY <1>3, <2>1
    <3> QED
      BY <3>1 DEF OfName, Reading
  <2>2. CASE i \notin f
    <3>1. ReadNames(table, f, t)[i] = table[i]
      BY <1>3, <2>2
    <3> QED
      BY <1>4, <3>1 DEF OfName
  <2> QED
    BY <2>1, <2>2
<1> QED
  BY <1>1, <1>2, <1>3, <1>4

(* A read leaves a table. *)
LEMMA ReadType ==
  ASSUME kind \in Kinds, NEW f \in Files, NEW table \in [Slots -> Entry],
         NEW t \in 0..MaxRounds
  PROVE  Filled(table, f, t) \in [Slots -> Entry]
<1>1. f \subseteq Names /\ IsFiniteSet(f) /\ f \subseteq Nat
  BY FileType
<1>2. ASSUME NEW d \in Names
      PROVE  Reading(d, t) \in Entry
  BY DEF Reading, Entry
<1>3. CASE kind \in ByPosition
  <2>1. ASSUME NEW i \in Slots, LinesOf(f, i) # {}
        PROVE  Max(LinesOf(f, i)) \in Names
    <3> DEFINE L == LinesOf(f, i)
    <3>1. L \subseteq f /\ L # {}
      BY <2>1 DEF LinesOf
    <3>2. IsFiniteSet(L) /\ L \subseteq Nat
      BY <1>1, <3>1, FS_Subset
    <3> HIDE DEF L
    <3>3. Max(L) \in L
      BY <3>1, <3>2, MaxIsMember
    <3> QED
      BY <1>1, <3>1, <3>3 DEF L
  <2>2. Filled(table, f, t) = ReadPositions(table, f, t)
    BY <1>3 DEF Filled, ByPosition
  <2> QED
    BY <1>2, <2>1, <2>2 DEF ReadPositions
<1>4. CASE kind = "mysql"
  <2>1. Filled(table, f, t) = ReadNames(table, f, t) /\ Slots = Names
    BY <1>4 DEF Filled, ByPosition, Slots
  <2> QED
    BY <1>2, <2>1 DEF ReadNames
<1>5. CASE kind = "netsnmp"
  <2>1. Filled(table, f, t) = ReadGroups(table, f, t) /\ Slots = Groups /\ Names = Groups
    BY <1>5 DEF Filled, ByPosition, Slots, Names
  <2>2. ASSUME NEW g \in Groups, NEW l
        PROVE  ReadProperties(table[g], g, f, l, t) \in Entry
    <3>1. Tag(f, l) \in Names \cup {None}
      BY <1>1 DEF Tag
    <3>2. table[g] \in Entry
      BY <2>1
    <3> QED
      BY <2>1, <3>1, <3>2 DEF ReadProperties, Entry
  <2> QED
    BY <2>1, <2>2 DEF ReadGroups
<1> QED
  BY <1>3, <1>4, <1>5 DEF Kinds, ByPosition
-----------------------------------------------------------------------------
(* What a round reports, from the tables before and after the read of f.   *)

Reports(table, f) ==
  {Rate(SentName(table, i), old[i], table[i]) : i \in Compared(table, Count(f))}

Under(R, name) == {r \in R : r.name = name}

(* The rate of d between rounds t and t + 1. *)
Growth(name, d, t) == Rate(name, Reading(d, t), Reading(d, t + 1))

LEMMA ShownIsKept ==
  ASSUME NEW f
  PROVE  Shown(f) = Kept(f) /\ \A d : Place(f, d) = Slot(f, d)
BY DEF Shown, Kept, KeepsSlot, Place, Slot

(* The device that a report of a collector by position is about. *)
LEMMA Reported ==
  ASSUME kind \in Kinds, kind \in ByPosition, NEW f \in Files, NEW g \in Files,
         NEW t, NEW table, count = Count(g), Placed(old, g, t), Placed(table, f, t + 1),
         NEW r \in Reports(table, f)
  PROVE  \E i \in 1..MaxSlots :
           /\ r = Rate(SentName(table, i), old[i], table[i])
           /\ kind = "cpu" => SentName(table, i) = i
           /\ kind = "disk" =>
                \E d \in Kept(f) : Slot(f, d) = i /\ SentName(table, i) = d
           /\ kind = "netdev" =>
                \E d \in Kept(g) : Slot(g, d) = i /\ SentName(table, i) = d
<1>1. PICK i \in Compared(table, Count(f)) :
        r = Rate(SentName(table, i), old[i], table[i])
  BY DEF Reports
<1>2. CASE kind = "cpu"
  <2>1. i \in 1..Count(g) /\ SentName(table, i) = i
    BY <1>2 DEF Compared, SentName
  <2>2. i \in 1..MaxSlots
    BY <2>1, Counted
  <2> QED
    BY <1>1, <1>2, <2>1, <2>2
<1>3. CASE kind = "disk"
  <2>1. i \in 1..Count(f) /\ SentName(table, i) = table[i].name
    BY <1>3 DEF Compared, SentName
  <2>2. i \in 1..MaxSlots
    BY <2>1, Counted
  <2>3. \E d \in Kept(f) : Slot(f, d) = i /\ table[i] = Reading(d, t + 1)
    BY <2>1, Ranked
  <2> QED
    BY <1>1, <1>3, <2>1, <2>2, <2>3 DEF Reading
<1>4. CASE kind = "netdev"
  <2>1. i \in 1..Count(g) /\ SentName(table, i) = old[i].name
    BY <1>4 DEF Compared, SentName
  <2>2. i \in 1..MaxSlots
    BY <2>1, Counted
  <2>3. \E d \in Kept(g) : Slot(g, d) = i /\ old[i] = Reading(d, t)
    BY <2>1, Ranked
  <2> QED
    BY <1>1, <1>4, <2>1, <2>2, <2>3 DEF Reading
<1> QED
  BY <1>2, <1>3, <1>4 DEF ByPosition

(* The name a device is reported under. *)
NameOf(f, d) == IF kind = "cpu" THEN Slot(f, d) ELSE d

(* A device that kept its place has one report, of its own growth. *)
LEMMA UnmovedReport ==
  ASSUME kind \in Kinds, kind \in ByPosition, NEW f \in Files, NEW g \in Files,
         NEW t, NEW table, count = Count(g), Placed(old, g, t), Placed(table, f, t + 1),
         NEW d \in Kept(f), d \in Kept(g), Slot(f, d) = Slot(g, d), Slot(f, d) <= MaxSlots
  PROVE  Under(Reports(table, f), NameOf(f, d)) = {Growth(NameOf(f, d), d, t)}
<1> DEFINE p == Slot(f, d)
<1> SUFFICES ASSUME NEW name, name = IF kind = "cpu" THEN Slot(f, d) ELSE d
             PROVE  Under(Reports(table, f), name) = {Growth(name, d, t)}
  BY DEF NameOf
<1>1. p \in 1..Count(f) /\ p \in 1..Count(g)
  BY Counted
<1>2. old[p] = Reading(d, t) /\ table[p] = Reading(d, t + 1)
  BY DEF Placed
<1>3. SentName(table, p) = name /\ p \in Compared(table, Count(f))
  BY <1>1, <1>2 DEF SentName, Compared, ByPosition, Reading
<1>4. Growth(name, d, t) \in Reports(table, f) /\ Growth(name, d, t).name = name
  BY <1>2, <1>3 DEF Growth, Reports, Rate
<1>5. ASSUME NEW r \in Reports(table, f), r.name = name
      PROVE  r = Growth(name, d, t)
  <2>1. PICK i \in 1..MaxSlots :
           /\ r = Rate(SentName(table, i), old[i], table[i])
           /\ kind = "cpu" => SentName(table, i) = i
           /\ kind = "disk" =>
                \E e \in Kept(f) : Slot(f, e) = i /\ SentName(table, i) = e
           /\ kind = "netdev" =>
                \E e \in Kept(g) : Slot(g, e) = i /\ SentName(table, i) = e
    BY Reported
  <2>2. SentName(table, i) = name
    BY <1>5, <2>1 DEF Rate
  <2>3. i = p
    BY <2>1, <2>2 DEF ByPosition
  <2> QED
    BY <1>2, <2>1, <2>2, <2>3 DEF Growth
<1> QED
  BY <1>4, <1>5 DEF Under

(* A CPU whose counters did not change is one that the last read missed. *)
LEMMA CpuReport ==
  ASSUME kind = "cpu", NEW f \in Files, NEW g \in Files, NEW t \in Nat, NEW table,
         count = Count(g), Placed(old, g, t), Placed(table, f, t + 1),
         NEW r \in Reports(table, f), r.from = r.to
  PROVE  Cardinality(f) < Cardinality(g)
<1>0. kind \in Kinds /\ kind \in ByPosition
  BY DEF Kinds, ByPosition
<1>1. PICK i \in 1..Count(g) : r = Rate(i, old[i], table[i])
  BY DEF Reports, Compared, SentName
<1>2. ASSUME NEW h \in Files
      PROVE  Count(h) = Cardinality(h) /\ Cardinality(h) \in Nat
  <2>1. Kept(h) = h /\ Cardinality(h) <= MaxSlots
    BY DEF Kept, KeepsSlot, Files
  <2>2. Cardinality(h) \in Nat
    BY <1>0, FileType, FS_CardinalityType
  <2> QED
    BY <1>0, <2>1, <2>2 DEF Count, Full
<1>3. SUFFICES ASSUME Cardinality(g) <= Cardinality(f)
               PROVE  FALSE
  BY <1>2
<1>4. i \in 1..Count(f)
  BY <1>2, <1>3
<1>5. PICK d \in Kept(f) : table[i] = Reading(d, t + 1)
  BY <1>0, <1>4, Ranked
<1>6. PICK e \in Kept(g) : old[i] = Reading(e, t)
  BY <1>0, Ranked
<1>7. r.from.at = t /\ r.to.at = t + 1
  BY <1>1, <1>5, <1>6 DEF Rate, Reading
<1> QED
  BY <1>7

(* A variable of MySQL that both reads found has one report.               *)
LEMMA NamedReport ==
  ASSUME kind = "mysql", NEW f \in Files, NEW t, NEW table,
         NEW d \in Slots, table[d] = Reading(d, t + 1), old[d] = Reading(d, t), d # None
  PROVE  Under(Reports(table, f), d) = {Growth(d, d, t)}
<1>1. Reports(table, f) = {Rate(i, old[i], table[i]) : i \in {j \in Slots : table[j].name # None}}
  BY DEF Reports, Compared, SentName
<1>2. Growth(d, d, t) \in Reports(table, f) /\ Growth(d, d, t).name = d
  BY <1>1 DEF Growth, Rate, Reading
<1>3. ASSUME NEW r \in Reports(table, f), r.name = d
      PROVE  r = Growth(d, d, t)
  <2>1. PICK i \in Slots : r = Rate(i, old[i], table[i])
    BY <1>1
  <2>2. i = d
    BY <1>3, <2>1 DEF Rate
  <2> QED
    BY <2>1, <2>2 DEF Growth
<1> QED
  BY <1>2, <1>3 DEF Under

(* So has a group; and no other group is reported. *)
LEMMA GroupReport ==
  ASSUME kind = "netsnmp", NEW f \in Files, NEW g \in Files, g \subseteq f, NEW t, NEW table,
         Grouped(old, g, t), Grouped(table, f, t + 1)
  PROVE  /\ Reports(table, f) = {Growth(d, d, t) : d \in Found(g)}
         /\ Found(g) \subseteq Found(f)
<1>1. Reports(table, f) = {Rate(d, old[d], table[d]) : d \in {h \in SentGroups : old[h].name = h}}
  BY DEF Reports, Compared, SentName
<1>2. {h \in SentGroups : old[h].name = h} = Found(g)
  <2>1. Found(g) \subseteq SentGroups
    BY DEF Found
  <2>2. ASSUME NEW h \in SentGroups
        PROVE  old[h].name = h <=> h \in Found(g)
    <3>1. ASSUME h \in Found(g)
          PROVE  old[h].name = h
      <4>1. old[h] = Reading(h, t)
        BY <3>1 DEF Grouped
      <4>2. Reading(h, t).name = h
        BY DEF Reading
      <4> QED
        BY <4>1, <4>2
    <3> QED
      BY <3>1 DEF Grouped
  <2> QED
    BY <2>1, <2>2
<1>3. Found(g) \subseteq Found(f) /\ Found(g) \subseteq SentGroups
  BY DEF Found
<1>4. ASSUME NEW d \in Found(g)
      PROVE  Rate(d, old[d], table[d]) = Growth(d, d, t)
  BY <1>3 DEF Grouped, Growth
<1> QED
  BY <1>1, <1>2, <1>3, <1>4
-----------------------------------------------------------------------------
(* The steps.                                                              *)

(* Which collector runs does not change, nor do the names it knows. *)
LEMMA SameKind ==
  ASSUME kind' = kind
  PROVE  /\ Names' = Names /\ Slots' = Slots /\ Files' = Files
         /\ Value' = Value /\ Entry' = Entry
         /\ \A f : Kept(f)' = Kept(f) /\ Shown(f)' = Shown(f) /\ Count(f)' = Count(f)
         /\ \A f : Found(f)' = Found(f)
<1>1. Names' = Names
  BY DEF Names
<1>2. Slots' = Slots
  BY <1>1 DEF Slots
<1>3. Files' = Files
  BY <1>1 DEF Files
<1>4. Value' = Value /\ Entry' = Entry
  BY <1>1 DEF Value, Entry
<1>5. ASSUME NEW f
      PROVE  Kept(f)' = Kept(f) /\ Shown(f)' = Shown(f)
  BY DEF Kept, KeepsSlot, Shown
<1>6. ASSUME NEW f
      PROVE  Count(f)' = Count(f)
  BY <1>5 DEF Count, Full
<1>7. ASSUME NEW f
      PROVE  Found(f)' = Found(f)
  BY DEF Found
<1> QED
  BY <1>1, <1>2, <1>3, <1>4, <1>5, <1>6, <1>7

LEMMA SameSlots ==
  ASSUME kind' = kind, NEW f, NEW d
  PROVE  Slot(f, d)' = Slot(f, d) /\ Place(f, d)' = Slot(f, d)
<1>1. Kept(f)' = Kept(f) /\ Shown(f)' = Kept(f)
  BY SameKind, ShownIsKept
<1> QED
  BY <1>1 DEF Slot, Place

LEMMA SamePlaced ==
  ASSUME kind' = kind, NEW table, NEW f, NEW t, Placed(table, f, t)
  PROVE  Placed(table, f, t)'
BY SameKind, SameSlots DEF Placed

(* The first read. *)
LEMMA InitIInv ==
  ASSUME Init
  PROVE  IInv
<1>1. PICK f \in Files : old = Filled(new, f, 1) /\ count = Count(f) /\ lists = <<f, f>>
  BY DEF Init
<1>2. kind \in Kinds /\ running = TRUE /\ round = 1 /\ reports = {} /\ new = [i \in Slots |-> Blank]
  BY DEF Init
<1>3. TypeOK
  <2>1. new \in [Slots -> Entry]
    BY <1>2 DEF Blank, Entry
  <2>2. old \in [Slots -> Entry]
    BY <1>1, <1>2, <2>1, ReadType
  <2>3. count \in 0..MaxSlots
    BY <1>1, <1>2, Counted DEF Count
  <2> QED
    BY <1>1, <1>2, <2>1, <2>2, <2>3 DEF TypeOK
<1>4. PlacesInv
  BY <1>1, <1>2, ReadPlaced DEF PlacesInv
<1>5. MapsInv
  <2> SUFFICES ASSUME kind = "mysql"
               PROVE  /\ \A i \in Slots : OfName(old, i) /\ OfName(new, i)
                      /\ \A i \in f : old[i] = Reading(i, 1)
    BY <1>1, <1>2 DEF MapsInv
  <2>1. \A i \in Slots : OfName(new, i)
    BY <1>2 DEF OfName, Blank
  <2> QED
    BY <1>1, <2>1, ReadNamed
<1>6. GroupsInv
  BY <1>1, <1>2, ReadGrouped DEF GroupsInv
<1>7. UnmovedRight /\ DividesByZeroOnlyOnLoss /\ NamedRight /\ NoMixture
  BY <1>2 DEF UnmovedRight, DividesByZeroOnlyOnLoss, NamedRight, NoMixture, Compares
<1> QED
  BY <1>3, <1>4, <1>5, <1>6, <1>7 DEF IInv

(* An error leaves everything but the reports. *)
LEMMA FailsIInv ==
  ASSUME IInv, ReadFails
  PROVE  IInv'
<1>1. /\ kind' = kind /\ round' = round /\ old' = old /\ new' = new
      /\ count' = count /\ lists' = lists /\ running' = FALSE /\ reports' = {}
  BY DEF ReadFails
<1>2. TypeOK'
  BY <1>1, SameKind DEF IInv, TypeOK
<1>3. PlacesInv'
  <2> SUFFICES ASSUME kind \in ByPosition, NEW f, f = lists[1]
               PROVE  (count = Count(f) /\ Placed(old, f, round))'
    BY <1>1 DEF PlacesInv, ByPosition
  <2>1. count = Count(f) /\ Placed(old, f, round)
    BY DEF IInv, PlacesInv
  <2> QED
    BY <1>1, <2>1, SameKind, SamePlaced
<1>4. MapsInv'
  BY <1>1, SameKind DEF IInv, MapsInv, OfName
<1>5. GroupsInv'
  BY <1>1, SameKind DEF IInv, GroupsInv, Grouped
<1>6. (UnmovedRight /\ DividesByZeroOnlyOnLoss /\ NamedRight /\ NoMixture)'
  BY <1>1 DEF UnmovedRight, DividesByZeroOnlyOnLoss, NamedRight, NoMixture, Compares
<1> QED
  BY <1>2, <1>3, <1>4, <1>5, <1>6 DEF IInv

(* What a round does to the variables, with names for its parts. *)
Stepped(f, g, t, table) ==
  /\ f \in Files /\ g \in Files /\ t \in Nat \ {0} /\ t + 1 \in 1..MaxRounds
  /\ MayFollow(g, f)
  /\ lists[1] = g /\ round = t
  /\ table = Filled(new, f, t + 1)
  /\ running' = running /\ kind' = kind /\ round' = t + 1
  /\ old' = table /\ new' = IF kind = "mysql" THEN old ELSE table
  /\ count' = Count(f)
  /\ lists' = <<f, g>>
  /\ reports' = Reports(table, f)

LEMMA RoundSteps ==
  ASSUME IInv, NEW f \in Files, Round(f)
  PROVE  \E g, t, table : Stepped(f, g, t, table)
<1>1. lists[1] \in Files /\ round \in 1..MaxRounds /\ round < MaxRounds
  BY DEF IInv, TypeOK, Round
<1>2. round \in Nat \ {0} /\ round + 1 \in 1..MaxRounds
  BY <1>1
<1>3. Stepped(f, lists[1], round, Filled(new, f, round + 1))
  BY <1>1, <1>2 DEF Round, MoveTables, Reports, Stepped
<1> QED
  BY <1>3

LEMMA RoundTables ==
  ASSUME IInv, NEW f, NEW g, NEW t, NEW table, Stepped(f, g, t, table)
  PROVE  /\ kind \in Kinds
         /\ kind \in ByPosition =>
              count = Count(g) /\ Placed(old, g, t) /\ Placed(table, f, t + 1)
         /\ kind = "mysql" =>
              /\ \A i \in Slots : OfName(old, i) /\ OfName(new, i) /\ OfName(table, i)
              /\ \A i \in f : i \in Slots /\ table[i] = Reading(i, t + 1)
              /\ \A i \in g : i \in Slots /\ old[i] = Reading(i, t)
         /\ kind = "netsnmp" => Grouped(old, g, t) /\ Grouped(table, f, t + 1)
<1>1. kind \in Kinds
  BY DEF IInv, TypeOK
<1>2. kind \in ByPosition =>
        count = Count(g) /\ Placed(old, g, t) /\ Placed(table, f, t + 1)
  BY <1>1, ReadPlaced DEF IInv, PlacesInv, Stepped
<1>3. ASSUME kind = "mysql"
      PROVE  /\ \A i \in Slots : OfName(old, i) /\ OfName(new, i) /\ OfName(table, i)
             /\ \A i \in f : i \in Slots /\ table[i] = Reading(i, t + 1)
             /\ \A i \in g : i \in Slots /\ old[i] = Reading(i, t)
  <2>1. \A i \in Slots : OfName(old, i) /\ OfName(new, i)
    BY <1>3 DEF IInv, MapsInv
  <2>2. g \subseteq Slots
    BY <1>3, ReadNamed DEF Stepped
  <2> QED
    BY <1>3, <2>1, <2>2, ReadNamed DEF IInv, MapsInv, Stepped
<1>4. kind = "netsnmp" => Grouped(old, g, t) /\ Grouped(table, f, t + 1)
  BY ReadGrouped DEF IInv, GroupsInv, Stepped
<1> QED
  BY <1>1, <1>2, <1>3, <1>4

LEMMA RoundIInv ==
  ASSUME IInv, NEW f \in Files, Round(f)
  PROVE  IInv'
<1>0. PICK g, t, table : Stepped(f, g, t, table)
  BY RoundSteps
<1>1. /\ kind \in Kinds
      /\ kind \in ByPosition =>
           count = Count(g) /\ Placed(old, g, t) /\ Placed(table, f, t + 1)
      /\ kind = "mysql" =>
           /\ \A i \in Slots : OfName(old, i) /\ OfName(new, i) /\ OfName(table, i)
           /\ \A i \in f : i \in Slots /\ table[i] = Reading(i, t + 1)
           /\ \A i \in g : i \in Slots /\ old[i] = Reading(i, t)
      /\ kind = "netsnmp" => Grouped(old, g, t) /\ Grouped(table, f, t + 1)
  BY <1>0, RoundTables
<1>2. /\ f \in Files /\ g \in Files /\ t \in Nat \ {0} /\ t + 1 \in 1..MaxRounds
      /\ g \in Files /\ MayFollow(g, f) /\ kind' = kind /\ round' = t + 1
      /\ old' = table /\ count' = Count(f) /\ lists' = <<f, g>>
      /\ reports' = Reports(table, f)
      /\ new' = IF kind = "mysql" THEN old ELSE table
      /\ table = Filled(new, f, t + 1) /\ running' = running
  BY <1>0 DEF Stepped
<1>3. TypeOK'
  <2>1. old \in [Slots -> Entry] /\ new \in [Slots -> Entry] /\ running \in BOOLEAN
    BY DEF IInv, TypeOK
  <2>2. table \in [Slots -> Entry]
    BY <1>1, <1>2, <2>1, ReadType
  <2>3. Count(f) \in 0..MaxSlots
    BY <1>1, <1>2, Counted DEF Count
  <2>4. ASSUME NEW i \in Slots, NEW name \in Names
        PROVE  Rate(name, old[i], table[i]) \in [name: Names, from: Value, to: Value]
    <3>1. old[i] \in Entry /\ table[i] \in Entry
      BY <2>1, <2>2
    <3> QED
      BY <3>1 DEF Rate, Entry, Value
  <2>5. Reports(table, f) \subseteq [name: Names, from: Value, to: Value]
    <3> SUFFICES ASSUME NEW i \in Compared(table, Count(f))
                 PROVE  i \in Slots /\ SentName(table, i) \in Names
      BY <2>4 DEF Reports
    <3>1. CASE kind = "cpu"
      <4>1. i \in 1..Count(g) /\ SentName(table, i) = i
        BY <1>1, <3>1 DEF Compared, SentName, ByPosition
      <4> QED
        BY <1>1, <1>2, <3>1, <4>1, CountedType DEF ByPosition
    <3>2. CASE kind = "disk"
      <4>1. i \in 1..Count(f) /\ SentName(table, i) = table[i].name
        BY <3>2 DEF Compared, SentName
      <4>2. PICK d \in Kept(f) : table[i] = Reading(d, t + 1)
        BY <1>1, <1>2, <3>2, <4>1, Ranked DEF ByPosition
      <4> QED
        BY <1>1, <1>2, <3>2, <4>1, <4>2, CountedType DEF ByPosition, Reading
    <3>3. CASE kind = "netdev"
      <4>1. i \in 1..Count(g) /\ SentName(table, i) = old[i].name
        BY <1>1, <3>3 DEF Compared, SentName, ByPosition
      <4>2. PICK d \in Kept(g) : old[i] = Reading(d, t)
        BY <1>1, <1>2, <3>3, <4>1, Ranked DEF ByPosition
      <4> QED
        BY <1>1, <1>2, <3>3, <4>1, <4>2, CountedType DEF ByPosition, Reading
    <3>4. CASE kind = "mysql"
      BY <3>4 DEF Compared, SentName, Slots, ByPosition
    <3>5. CASE kind = "netsnmp"
      BY <3>5 DEF Compared, SentName, Slots, ByPosition, Names, SentGroups, Groups
    <3> QED
      BY <1>1, <3>1, <3>2, <3>3, <3>4, <3>5 DEF Kinds
  <2> QED
    BY <1>1, <1>2, <2>1, <2>2, <2>3, <2>5, SameKind DEF TypeOK
<1>4. PlacesInv'
  <2> SUFFICES ASSUME kind \in ByPosition, NEW r, r = t + 1
               PROVE  Count(f) = Count(f)' /\ Placed(table, f, r)'
    BY <1>2 DEF PlacesInv, ByPosition
  <2> QED
    BY <1>1, <1>2, SameKind, SamePlaced
<1>5. MapsInv'
  <2> SUFFICES ASSUME kind = "mysql"
               PROVE  /\ \A i \in Slots : OfName(table, i) /\ OfName(old, i)
                      /\ \A i \in f : table[i] = Reading(i, t + 1)
    BY <1>2, SameKind DEF MapsInv, OfName
  <2> QED
    BY <1>1
<1>6. GroupsInv'
  BY <1>1, <1>2, SameKind DEF GroupsInv, Grouped
<1>7. UnmovedRight'
  <2> SUFFICES ASSUME kind \in ByPosition, NEW d \in Kept(f), d \in Kept(g),
                      Slot(f, d) = Slot(g, d), Slot(f, d) <= MaxSlots
               PROVE  Under(Reports(table, f), NameOf(f, d)) = {Growth(NameOf(f, d), d, t)}
    <3>1. (t + 1) - 1 = t
      BY <1>2
    <3>2. /\ Shown(f)' = Kept(f) /\ Shown(g)' = Kept(g)
          /\ \A d : Place(f, d)' = Slot(f, d) /\ Place(g, d)' = Slot(g, d)
      BY <1>2, SameKind, SameSlots, ShownIsKept
    <3> QED
      BY <1>2, <3>1, <3>2 DEF UnmovedRight, Under, NameOf, Growth, Rate, Reading
  <2> QED
    <3>1. count = Count(g) /\ Placed(old, g, t) /\ Placed(table, f, t + 1)
      BY <1>1
    <3> QED
      BY <1>1, <1>2, <3>1, UnmovedReport
<1>8. DividesByZeroOnlyOnLoss'
  <2> SUFFICES ASSUME kind = "cpu", NEW r \in Reports(table, f), r.from = r.to
               PROVE  Cardinality(f) < Cardinality(g)
    BY <1>2 DEF DividesByZeroOnlyOnLoss
  <2> QED
    BY <1>1, <1>2, CpuReport DEF ByPosition
<1>9. NamedRight'
  <2>1. (t + 1) - 1 = t
    BY <1>2
  <2> SUFFICES ASSUME kind \in {"mysql", "netsnmp"}, NEW d \in Found(f) \cap Found(g)
               PROVE  Under(Reports(table, f), d) = {Growth(d, d, t)}
    BY <1>2, <2>1, SameKind DEF NamedRight, Under, Growth, Rate, Reading
  <2>2. CASE kind = "mysql"
    <3>1. d \in f /\ d \in g
      BY <2>2 DEF Found
    <3>2. d # None
      BY <1>1, <1>2, <3>1, FileType DEF None
    <3> QED
      BY <1>1, <1>2, <2>2, <3>1, <3>2, NamedReport
  <2>3. CASE kind = "netsnmp"
    <3>1. Reports(table, f) = {Growth(e, e, t) : e \in Found(g)}
      BY <1>1, <1>2, <2>3, GroupReport DEF MayFollow
    <3>2. \A e : Growth(e, e, t).name = e
      BY DEF Growth, Rate
    <3> QED
      BY <3>1, <3>2 DEF Under
  <2> QED
    BY <2>2, <2>3
<1>10. NoMixture'
  <2>1. (t + 1) - 1 = t
    BY <1>2
  <2> SUFFICES ASSUME kind \in {"mysql", "netsnmp"}, NEW r \in Reports(table, f)
               PROVE  /\ r.to.of = r.name /\ r.from.of \in {r.name, None}
                      /\ kind = "netsnmp" => r.from = [of |-> r.name, at |-> t]
    BY <1>2, <2>1 DEF NoMixture
  <2>2. CASE kind = "mysql"
    <3>1. PICK i \in Slots : r = Rate(i, old[i], table[i]) /\ table[i].name # None
      BY <2>2 DEF Reports, Compared, SentName
    <3> QED
      BY <1>1, <2>2, <3>1 DEF OfName, Rate
  <2>3. CASE kind = "netsnmp"
    <3>1. PICK d \in Found(g) : r = Growth(d, d, t)
      BY <1>1, <1>2, <2>3, GroupReport DEF MayFollow
    <3> QED
      BY <3>1 DEF Growth, Rate, Reading
  <2> QED
    BY <2>2, <2>3
<1> QED
  BY <1>3, <1>4, <1>5, <1>6, <1>7, <1>8, <1>9, <1>10 DEF IInv

LEMMA IInvStep ==
  ASSUME IInv, [Next]_vars
  PROVE  IInv'
<1>1. CASE \E f \in Files : Round(f)
  BY <1>1, RoundIInv
<1>2. CASE ReadFails
  BY <1>2, FailsIInv
<1>3. CASE UNCHANGED vars
  <2>1. /\ kind' = kind /\ running' = running /\ round' = round /\ old' = old
        /\ new' = new /\ count' = count /\ lists' = lists /\ reports' = reports
    BY <1>3 DEF vars
  <2>2. TypeOK'
    BY <2>1, SameKind DEF IInv, TypeOK
  <2>3. PlacesInv' /\ MapsInv' /\ GroupsInv'
    <3>1. PlacesInv'
      <4> SUFFICES ASSUME kind \in ByPosition, NEW f, f = lists[1]
                   PROVE  (count = Count(f) /\ Placed(old, f, round))'
        BY <2>1 DEF PlacesInv, ByPosition
      <4>1. count = Count(f) /\ Placed(old, f, round)
        BY DEF IInv, PlacesInv
      <4> QED
        BY <2>1, <4>1, SameKind, SamePlaced
    <3>2. MapsInv'
      BY <2>1, SameKind DEF IInv, MapsInv, OfName
    <3>3. GroupsInv'
      BY <2>1, SameKind DEF IInv, GroupsInv, Grouped
    <3> QED
      BY <3>1, <3>2, <3>3
  <2>4. UnmovedRight'
    <3> SUFFICES ASSUME NEW f, f = lists[1], NEW g, g = lists[2]
                 PROVE  UnmovedRight'
      OBVIOUS
    <3>1. /\ Shown(f)' = Shown(f) /\ Shown(g)' = Shown(g)
          /\ \A d : Place(f, d)' = Place(f, d) /\ Place(g, d)' = Place(g, d)
      BY <2>1, SameKind, SameSlots, ShownIsKept
    <3>2. UnmovedRight
      BY DEF IInv
    <3> QED
      BY <2>1, <3>1, <3>2 DEF UnmovedRight, Compares
  <2>5. (DividesByZeroOnlyOnLoss /\ NamedRight /\ NoMixture)'
    BY <2>1, SameKind DEF IInv, DividesByZeroOnlyOnLoss, NamedRight, NoMixture, Compares
  <2> QED
    BY <2>2, <2>3, <2>4, <2>5 DEF IInv
<1> QED
  BY <1>1, <1>2, <1>3 DEF Next
-----------------------------------------------------------------------------
(* The inductive invariant of the tables.                                  *)
THEOREM Invariance == Spec => []IInv
BY InitIInv, IInvStep, PTL DEF Spec

(* Every table keeps its names and values, and every report is under a     *)
(* name that there is.                                                     *)
THEOREM TypeCorrect == Spec => []TypeOK
<1>1. IInv => TypeOK
  BY DEF IInv
<1> QED
  BY <1>1, Invariance, PTL

(* However many devices, blacklisted or not, come and go behind it, and    *)
(* however short the table is, a CPU, disk or device that keeps its place  *)
(* is reported once, with its growth in the interval.                      *)
THEOREM UnmovedRightHolds == Spec => []UnmovedRight
<1>1. IInv => UnmovedRight
  BY DEF IInv
<1> QED
  BY <1>1, Invariance, PTL

(* The percentages of CPUs are not NaN but when a CPU went off line.       *)
THEOREM DividesByZeroHolds == Spec => []DividesByZeroOnlyOnLoss
<1>1. IInv => DividesByZeroOnlyOnLoss
  BY DEF IInv
<1> QED
  BY <1>1, Invariance, PTL

(* A variable of MySQL, or a group of /proc/net/snmp, that two reads in a  *)
(* row found is reported once, with its growth between them.               *)
THEOREM NamedRightHolds == Spec => []NamedRight
<1>1. IInv => NamedRight
  BY DEF IInv
<1> QED
  BY <1>1, Invariance, PTL

(* No value is compared with one of another metric.                        *)
THEOREM NoMixtureHolds == Spec => []NoMixture
<1>1. IInv => NoMixture
  BY DEF IInv
<1> QED
  BY <1>1, Invariance, PTL
=============================================================================
