-------------------------- MODULE SnmpPollerProofs --------------------------
(***************************************************************************)
(* Proofs about SnmpPoller: whatever is decoded over it, a target is       *)
(* polled for its own OIDs under its own names except where a later file   *)
(* has an OID in the same place, and a rate is right up to one.            *)
(***************************************************************************)
EXTENDS SnmpPoller, FiniteSetTheorems, SequenceTheorems, TLAPS

Decodable == {"mistyped", "good"}

(* How many OIDs the file gives the target. *)
Count(t) == Content[t[1]].oids[t[2]]

(* Every array can grow, and no two elements share one. *)
ArraysInv ==
  /\ \A a \in DOMAIN arrays : Len(arrays[a]) >= MinCap
  /\ \A i \in DOMAIN elems : elems[i].array # 0
  /\ \A i, j \in DOMAIN elems : elems[i].array = elems[j].array => i = j

(* Where the decoder is in a file, and that it has room for what it does.  *)
LoaderInv ==
  /\ loader.step \in {"begin", "end", "start"} =>
       loader.file <= Len(list) /\ Content[File].outcome \in Decodable
  /\ loader.step \in {"begin", "end"} =>
       /\ loader.elem \in DOMAIN Oids
       /\ loader.entry \in 1..Oids[loader.elem]
       /\ loader.elem <= Len(elems) + 1
  /\ loader.step = "begin" => loader.entry - 1 <= Cap(Element)
  /\ loader.step = "end" =>
       loader.elem \in DOMAIN elems /\ loader.entry <= elems[loader.elem].len
  /\ loader.step = "start" => Len(Oids) <= Len(elems)

(* The elements that are decoded from the file, and the entries.           *)
Finished(i) ==
  /\ i \in DOMAIN Oids
  /\ \/ loader.step = "start"
     \/ loader.step \in {"begin", "end"} /\ i < loader.elem

Written(i, k) ==
  \/ Finished(i) /\ k <= Oids[i]
  \/ loader.step \in {"begin", "end"} /\ i = loader.elem /\ k < loader.entry

(* What is decoded is in the memory of the elements. *)
DecodedInv ==
  \A i \in DOMAIN elems :
    /\ Finished(i) => elems[i].len = Oids[i]
    /\ \A k \in 1..Cap(elems[i]) :
         Written(i, k) => arrays[elems[i].array][k] = <<File, i, k>>

(* A goroutine's array is its own or that of the element in its place, and *)
(* it has the OIDs of its file but for those a later file wrote over.      *)
SliceInv ==
  \A t \in Targets :
    pc[t] # "none" =>
      /\ slice[t].array # 0
      /\ slice[t].len = Count(t)
      /\ Count(t) <= Len(arrays[slice[t].array])
      /\ \A j \in DOMAIN elems : elems[j].array = slice[t].array => j = t[2]
      /\ \A k \in 1..Count(t) :
           arrays[slice[t].array][k] = t \o <<k>> \/ Overwritten(t, k)

(* How far it has copied them, and that the copies are the same. *)
OidsInv ==
  \A t \in Targets :
    /\ pc[t] \in {"none", "connect"} => oids[t] = <<>>
    /\ pc[t] = "oids" => Len(oids[t]) < Count(t)
    /\ pc[t] \in {"baseline", "wait"} => Len(oids[t]) = Count(t)
    /\ \A k \in DOMAIN oids[t] : oids[t][k] = t \o <<k>> \/ Overwritten(t, k)

(* Which goroutines exist, and which files are behind the loader. *)
StartedInv ==
  /\ \A t \in Targets :
       pc[t] # "none" <=>
         Content[t[1]].outcome = "good" /\ Position(t[1]) < loader.file
  /\ \A n \in 1..(loader.file - 1) : Content[list[n]].outcome \in {"good", "unreadable"}
  /\ loader.step = "done" =>
       loader.file > Len(list) \/ Content[File].outcome \in {"malformed", "mistyped"}

IInv ==
  /\ TypeOK
  /\ ArraysInv
  /\ LoaderInv
  /\ DecodedInv
  /\ SliceInv
  /\ OidsInv
  /\ StartedInv
  /\ OwnEntries
  /\ RateWithinOne
-----------------------------------------------------------------------------
(* The data: targets, entries, the order of the files.                     *)

LEMMA TargetType ==
  ASSUME NEW t \in Targets
  PROVE  /\ t[1] \in Files
         /\ Content[t[1]].oids \in Seq(Nat \ {0})
         /\ t[2] \in DOMAIN Content[t[1]].oids
         /\ t[2] \in Nat \ {0}
         /\ t[2] <= Len(Content[t[1]].oids)
         /\ Count(t) \in Nat \ {0}
         /\ t = <<t[1], t[2]>>
<1>1. PICK f \in Files : t \in {f} \X DOMAIN Content[f].oids
  BY DEF Targets
<1>2. t[1] = f /\ t[2] \in DOMAIN Content[f].oids /\ t = <<t[1], t[2]>>
  BY <1>1
<1>3. Content[f].oids \in Seq(Nat \ {0})
  BY FilesAssumption
<1>4. DOMAIN Content[f].oids = 1..Len(Content[f].oids) /\ Len(Content[f].oids) \in Nat
  BY <1>3
<1>5. Content[f].oids[t[2]] \in Nat \ {0}
  BY <1>2, <1>3, <1>4, ElementOfSeq
<1> QED
  BY <1>2, <1>3, <1>4, <1>5 DEF Count

LEMMA PairAndOne ==
  ASSUME NEW a, NEW b, NEW c
  PROVE  <<a, b>> \o <<c>> = <<a, b, c>>
<1> DEFINE S == {a, b, c}
           r == <<a, b>> \o <<c>>
<1>1. <<a, b>> \in Seq(S) /\ <<c>> \in Seq(S) /\ <<a, b, c>> \in Seq(S)
  OBVIOUS
<1>2. /\ r \in Seq(S) /\ Len(r) = 3
      /\ \A i \in 1..3 : r[i] = IF i <= 2 THEN <<a, b>>[i] ELSE <<c>>[i - 2]
  BY <1>1, ConcatProperties
<1>3. r[1] = a /\ r[2] = b /\ r[3] = c
  BY <1>2
<1>4. \A i \in 1..Len(r) : r[i] = <<a, b, c>>[i]
  BY <1>2, <1>3
<1> QED
  BY <1>1, <1>2, <1>4, SeqEqual

LEMMA EntryType ==
  ASSUME NEW f \in Files, NEW i \in DOMAIN Content[f].oids,
         NEW k \in 1..Content[f].oids[i]
  PROVE  /\ <<f, i>> \in Targets
         /\ <<f, i>> \o <<k>> = <<f, i, k>>
         /\ <<f, i, k>> \in Entries
<1>1. <<f, i>> \in Targets
  BY DEF Targets
<1>2. <<f, i>> \o <<k>> = <<f, i, k>>
  BY PairAndOne
<1>3. <<f, i>> \o <<k>> \in Entries
  <2> SUFFICES ASSUME NEW t \in Targets, t = <<f, i>>
               PROVE  t \o <<k>> \in Entries
    BY <1>1
  <2>1. k \in 1..Content[t[1]].oids[t[2]]
    OBVIOUS
  <2> DEFINE E(u) == {u \o <<j>> : j \in 1..Content[u[1]].oids[u[2]]}
  <2>2. t \o <<k>> \in E(t)
    BY <2>1
  <2>3. Entries = UNION {E(u) : u \in Targets}
    BY DEF Entries
  <2> HIDE DEF E
  <2> QED
    BY <2>2, <2>3
<1> QED
  BY <1>1, <1>2, <1>3

LEMMA TargetEntry ==
  ASSUME NEW t \in Targets, NEW k \in 1..Count(t)
  PROVE  t \o <<k>> = <<t[1], t[2], k>> /\ t \o <<k>> \in Entries
<1>1. /\ t[1] \in Files /\ t[2] \in DOMAIN Content[t[1]].oids
      /\ t = <<t[1], t[2]>> /\ k \in 1..Content[t[1]].oids[t[2]]
  BY TargetType DEF Count
<1>2. <<t[1], t[2]>> \o <<k>> = <<t[1], t[2], k>> /\ <<t[1], t[2], k>> \in Entries
  BY <1>1, EntryType
<1> QED
  BY <1>1, <1>2

(* Every file is in the list, once. *)
LEMMA Positions ==
  ASSUME list \in SetToSeqs(Files)
  PROVE  /\ list \in Seq(Files) /\ Len(list) \in Nat /\ DOMAIN list = 1..Len(list)
         /\ \A n \in 1..Len(list) : list[n] \in Files /\ Position(list[n]) = n
         /\ \A f \in Files : Position(f) \in 1..Len(list) /\ list[Position(f)] = f
<1> DEFINE D == 1..Cardinality(Files)
<1>1. Cardinality(Files) \in Nat
  BY FilesAssumption, FS_CardinalityType
<1>2. /\ list \in [D -> Files]
      /\ \A i, j \in D : i # j => list[i] # list[j]
  BY DEF SetToSeqs
<1>3. list \in Injection(D, Files)
  BY <1>2 DEF Injection, IsInjective
<1>4. IsFiniteSet(D) /\ Cardinality(D) = Cardinality(Files)
  BY <1>1, FS_Interval
<1>5. list \in Surjection(D, Files)
  BY <1>3, <1>4, FS_Injection, FilesAssumption
<1>6. \A f \in Files : \E n \in D : list[n] = f
  BY <1>5 DEF Surjection
<1>7. list \in Seq(Files) /\ Len(list) = Cardinality(Files) /\ DOMAIN list = D
  BY <1>1, <1>2
<1>8. \A f \in Files : Position(f) \in D /\ list[Position(f)] = f
  BY <1>6, <1>7 DEF Position
<1>9. \A n \in D : list[n] \in Files /\ Position(list[n]) = n
  BY <1>2, <1>8
<1> QED
  BY <1>1, <1>7, <1>8, <1>9
-----------------------------------------------------------------------------
(* The arithmetic of the rates. *)

LEMMA RemainderBelow ==
  ASSUME NEW g \in 0..(Modulus - 1)
  PROVE  g % Modulus = g /\ (g - Modulus) % Modulus = g /\ (g + Modulus) % Modulus = g
BY FilesAssumption

LEMMA Remainder ==
  ASSUME NEW v \in 0..(Modulus - 1), NEW g \in 0..(Modulus - 1)
  PROVE  /\ v + g < Modulus => (v + g) % Modulus = v + g
         /\ ~(v + g < Modulus) => (v + g) % Modulus = v + g - Modulus
<1>1. CASE v + g < Modulus
  <2>1. v + g \in 0..(Modulus - 1)
    BY <1>1, FilesAssumption
  <2> QED
    BY <1>1, <2>1, RemainderBelow
<1>2. CASE ~(v + g < Modulus)
  <2>1. v + g - Modulus \in 0..(Modulus - 1) /\ v + g = (v + g - Modulus) + Modulus
    BY <1>2, FilesAssumption
  <2> QED
    BY <1>2, <2>1, RemainderBelow
<1> QED
  BY <1>1, <1>2

(* A counter of 64 bits that counted less than half its range. *)
LEMMA Half == Modulus \div 2 \in Nat /\ Modulus \div 2 <= Modulus
BY FilesAssumption

LEMMA RateOf32 ==
  ASSUME NEW v \in 0..(Modulus - 1), NEW g \in 0..(Modulus - 1),
         NEW w, w = (v + g) % Modulus
  PROVE  /\ w \in 0..(Modulus - 1)
         /\ w < v => Difference32(v, w) = g - 1 /\ g >= 1
         /\ ~(w < v) => Difference32(v, w) = g
<1>1. Modulus \in Nat /\ Modulus > 2
  BY FilesAssumption
<1>2. \/ v + g < Modulus /\ w = v + g
      \/ ~(v + g < Modulus) /\ w = v + g - Modulus
  BY Remainder
<1>3. w \in 0..(Modulus - 1) /\ (w < v => w = v + g - Modulus) /\ (~(w < v) => w = v + g)
  BY <1>1, <1>2
<1>4. w < v => Difference32(v, w) = g - 1 /\ g >= 1
  BY <1>1, <1>3 DEF Difference32
<1>5. ~(w < v) => Difference32(v, w) = g
  BY <1>1, <1>3 DEF Difference32
<1> QED
  BY <1>3, <1>4, <1>5

LEMMA RateOf64 ==
  ASSUME NEW v \in 0..(Modulus - 1), NEW g \in 0..(Modulus \div 2 - 1),
         NEW w, w = (v + g) % Modulus
  PROVE  w \in 0..(Modulus - 1) /\ Difference64(v, w) = g
<1>1. Modulus \in Nat /\ Modulus > 2
  BY FilesAssumption
<1>2. g \in 0..(Modulus - 1) /\ g < Modulus \div 2
  BY <1>1, Half
<1>3. w = v + g \/ w = v + g - Modulus
  BY <1>2, Remainder
<1>4. w \in 0..(Modulus - 1)
  BY <1>1, <1>2, Remainder
<1>5. w - v = g \/ w - v = g - Modulus
  BY <1>1, <1>2, <1>3
<1>6. (w - v) % Modulus = g
  BY <1>2, <1>5, RemainderBelow
<1> QED
  BY <1>2, <1>4, <1>6 DEF Difference64
-----------------------------------------------------------------------------
(* What the invariant says of the types of what the steps work on.         *)

Decoding == loader.step \in {"begin", "end"}

LEMMA Facts ==
  ASSUME TypeOK
  PROVE  /\ Len(list) \in Nat /\ loader.file \in Nat \ {0} /\ loader.file <= Len(list) + 1
         /\ loader.elem \in Nat \ {0} /\ loader.entry \in Nat \ {0}
         /\ Len(arrays) \in Nat /\ DOMAIN arrays = 1..Len(arrays)
         /\ Len(elems) \in Nat /\ DOMAIN elems = 1..Len(elems)
         /\ \A t \in Targets : slice[t].array \in 0..Len(arrays) /\ slice[t].len \in Nat
         /\ \A t \in Targets : /\ oids[t] \in Seq(Place) /\ Len(oids[t]) \in Nat
                                /\ DOMAIN oids[t] = 1..Len(oids[t])
<1>1. Len(list) \in Nat
  BY Positions DEF TypeOK
<1>2. /\ Len(arrays) \in Nat /\ DOMAIN arrays = 1..Len(arrays)
      /\ Len(elems) \in Nat /\ DOMAIN elems = 1..Len(elems)
  BY DEF TypeOK
<1>3. loader.file \in 1..(Len(list) + 1) /\ loader.elem \in Nat \ {0} /\ loader.entry \in Nat \ {0}
  BY DEF TypeOK
<1>4. \A t \in Targets : slice[t].array \in 0..Len(arrays) /\ slice[t].len \in Nat
  BY DEF TypeOK, Slices
<1>5. \A t \in Targets : oids[t] \in Seq(Place)
  BY DEF TypeOK
<1>6. \A t \in Targets : Len(oids[t]) \in Nat /\ DOMAIN oids[t] = 1..Len(oids[t])
  BY <1>5
<1> QED
  BY <1>1, <1>2, <1>3, <1>4, <1>5, <1>6

LEMMA ArrayType ==
  ASSUME TypeOK, NEW a \in 1..Len(arrays)
  PROVE  /\ arrays[a] \in Seq(Place) /\ Len(arrays[a]) \in Nat
         /\ DOMAIN arrays[a] = 1..Len(arrays[a])
         /\ \A k \in 1..Len(arrays[a]) : arrays[a][k] \in Place
<1>1. arrays \in Seq(Seq(Place))
  BY DEF TypeOK
<1>2. arrays[a] \in Seq(Place)
  BY <1>1, ElementOfSeq
<1> QED
  BY <1>2, ElementOfSeq

LEMMA ElementType ==
  ASSUME TypeOK, ArraysInv, NEW i \in DOMAIN elems
  PROVE  /\ elems[i] \in Slices /\ elems[i].array \in 1..Len(arrays)
         /\ elems[i].len \in Nat /\ elems[i].len <= Len(arrays[elems[i].array])
         /\ Cap(elems[i]) = Len(arrays[elems[i].array])
<1>1. elems \in Seq(Slices) /\ i \in 1..Len(elems)
  BY Facts DEF TypeOK
<1>2. elems[i] \in Slices
  BY <1>1, ElementOfSeq
<1>3. elems[i].array \in 0..Len(arrays) /\ elems[i].array # 0 /\ elems[i].len \in Nat
  BY <1>2 DEF Slices, ArraysInv
<1>4. Cap(elems[i]) = Len(arrays[elems[i].array]) /\ elems[i].len <= Cap(elems[i])
  BY <1>3 DEF Cap, TypeOK
<1> QED
  BY <1>2, <1>3, <1>4, Facts

(* The file that is decoded. *)
LEMMA FileFacts ==
  ASSUME TypeOK, LoaderInv, loader.step \in {"begin", "end", "start"}
  PROVE  /\ loader.file \in 1..Len(list)
         /\ File \in Files /\ Content[File].outcome \in Decodable
         /\ Position(File) = loader.file
         /\ Oids \in Seq(Nat \ {0}) /\ Len(Oids) \in Nat /\ DOMAIN Oids = 1..Len(Oids)
         /\ \A i \in DOMAIN Oids : Oids[i] \in Nat \ {0}
<1>1. loader.file \in 1..Len(list) /\ Content[File].outcome \in Decodable
  BY Facts DEF LoaderInv
<1>2. File \in Files /\ Position(File) = loader.file
  BY <1>1, Positions DEF File, TypeOK
<1>3. Oids \in Seq(Nat \ {0})
  BY <1>2, FilesAssumption DEF Oids
<1>4. Len(Oids) \in Nat /\ DOMAIN Oids = 1..Len(Oids)
  BY <1>3
<1>5. \A i \in DOMAIN Oids : Oids[i] \in Nat \ {0}
  BY <1>3, <1>4, ElementOfSeq
<1> QED
  BY <1>1, <1>2, <1>3, <1>4, <1>5

(* What was written over stays so. *)
LEMMA OverwrittenKept ==
  ASSUME list' = list, loader.file \in Nat, loader'.file \in Nat,
         loader.file <= loader'.file, NEW t, NEW k, Overwritten(t, k)
  PROVE  Overwritten(t, k)'
<1>1. Position(t[1])' = Position(t[1])
  BY DEF Position
<1>2. PICK n \in (Position(t[1]) + 1)..Len(list) :
        LET later == Content[list[n]] IN
          /\ n <= loader.file
          /\ later.outcome \in {"mistyped", "good"}
          /\ t[2] <= Len(later.oids) /\ k <= later.oids[t[2]]
  BY DEF Overwritten
<1>3. n \in ((Position(t[1]) + 1)..Len(list))' /\ n <= loader'.file
  BY <1>1, <1>2
<1> QED
  BY <1>2, <1>3 DEF Overwritten

(* The entry that is decoded is written over those in the same place.      *)
LEMMA NowOverwritten ==
  ASSUME TypeOK, LoaderInv, StartedInv, Decoding,
         NEW t \in Targets, pc[t] # "none", t[2] = loader.elem
  PROVE  Overwritten(t, loader.entry)
<1>1. /\ loader.file \in 1..Len(list) /\ Content[File].outcome \in {"mistyped", "good"}
      /\ loader.elem <= Len(Oids) /\ loader.entry <= Oids[loader.elem]
  BY FileFacts DEF LoaderInv, Decoding, Decodable
<1>2. Position(t[1]) < loader.file /\ Position(t[1]) \in Nat
  BY Positions, TargetType DEF StartedInv, TypeOK
<1>3. loader.file \in (Position(t[1]) + 1)..Len(list)
  BY <1>1, <1>2
<1>4. loader.file <= loader.file
  BY <1>1
<1> QED
  BY <1>1, <1>3, <1>4 DEF Overwritten, File, Oids

(* One place of one array is written. *)
LEMMA WriteArray ==
  ASSUME NEW S, NEW A \in Seq(Seq(S)), NEW a \in 1..Len(A), NEW k \in 1..Len(A[a]), NEW v \in S,
         NEW B, B = [A EXCEPT ![a] = [@ EXCEPT ![k] = v]]
  PROVE  /\ B \in Seq(Seq(S)) /\ Len(B) = Len(A)
         /\ \A b \in 1..Len(A) :
              /\ Len(B[b]) = Len(A[b])
              /\ \A j \in 1..Len(A[b]) : B[b][j] = A[b][j] \/ (b = a /\ j = k)
         /\ B[a][k] = v
<1> DEFINE c == [A[a] EXCEPT ![k] = v]
<1>1. A[a] \in Seq(S)
  BY ElementOfSeq
<1>2. c \in Seq(S) /\ Len(c) = Len(A[a])
      /\ \A j \in 1..Len(A[a]) : c[j] = IF j = k THEN v ELSE A[a][j]
  BY <1>1, ExceptSeq
<1> HIDE DEF c
<1>3. B = [A EXCEPT ![a] = c]
  BY DEF c
<1>4. B \in Seq(Seq(S)) /\ Len(B) = Len(A)
      /\ \A b \in 1..Len(A) : B[b] = IF b = a THEN c ELSE A[b]
  <2>1. A \in Seq(Seq(S)) /\ c \in Seq(S)
    BY <1>2
  <2>2. \A T : A \in Seq(T) /\ c \in T =>
          /\ [A EXCEPT ![a] = c] \in Seq(T) /\ Len([A EXCEPT ![a] = c]) = Len(A)
          /\ \A b \in 1..Len(A) : [A EXCEPT ![a] = c][b] = IF b = a THEN c ELSE A[b]
    <3> SUFFICES ASSUME NEW T, A \in Seq(T), c \in T
                 PROVE  /\ [A EXCEPT ![a] = c] \in Seq(T)
                        /\ Len([A EXCEPT ![a] = c]) = Len(A)
                        /\ \A b \in 1..Len(A) :
                             [A EXCEPT ![a] = c][b] = IF b = a THEN c ELSE A[b]
      OBVIOUS
    <3> QED
      BY ExceptSeq
  <2> QED
    BY <1>3, <2>1, <2>2, Zenon
<1> QED
  BY <1>2, <1>4

LEMMA NewCapType ==
  ASSUME TypeOK, ArraysInv, NEW s, s.array \in 0..Len(arrays)
  PROVE  /\ Cap(s) \in Nat /\ NewCap(s) \in Nat
         /\ NewCap(s) > Cap(s) /\ NewCap(s) >= MinCap
<1>1. MinCap \in Nat /\ MinCap >= 2
  BY FilesAssumption
<1>2. CASE s.array = 0
  <2>1. Cap(s) = 0
    BY <1>2 DEF Cap
  <2> QED
    BY <1>1, <2>1 DEF NewCap
<1>3. CASE s.array # 0
  <2>1. s.array \in 1..Len(arrays)
    BY <1>3, Facts
  <2>2. Cap(s) = Len(arrays[s.array])
    BY <1>3 DEF Cap
  <2>3. Cap(s) \in Nat /\ Cap(s) >= 2
    BY <1>1, <2>1, <2>2, ArrayType, Facts DEF ArraysInv
  <2>4. Cap(s) \div 2 \in Nat /\ Cap(s) \div 2 >= 1
    BY <2>3
  <2> QED
    BY <1>1, <2>3, <2>4 DEF NewCap
<1> QED
  BY <1>2, <1>3
-----------------------------------------------------------------------------
(* The two steps of an entry write in its place in the array a: that of    *)
(* the element, or a new one with a copy of what was decoded.              *)
Wrote(a) ==
  /\ arrays' \in Seq(Seq(Place)) /\ Len(arrays) <= Len(arrays')
  /\ a \in 1..Len(arrays') /\ loader.entry <= Len(arrays'[a])
  /\ \A b \in 1..Len(arrays') : Len(arrays'[b]) >= MinCap
  /\ \A b \in 1..Len(arrays) :
       /\ Len(arrays'[b]) = Len(arrays[b])
       /\ \A j \in 1..Len(arrays[b]) :
            arrays'[b][j] = arrays[b][j] \/ (b = a /\ j = loader.entry)
  /\ a \in 1..Len(arrays) => loader.elem \in DOMAIN elems /\ elems[loader.elem].array = a
  /\ \A j \in 1..(loader.entry - 1) :
       /\ loader.elem \in DOMAIN elems /\ j <= Cap(elems[loader.elem])
       /\ arrays'[a][j] = arrays[elems[loader.elem].array][j]
  /\ elems' \in Seq([array: 1..Len(arrays'), len: Nat])
  /\ DOMAIN elems' = DOMAIN elems \cup {loader.elem}
  /\ elems'[loader.elem].array = a /\ loader.entry <= elems'[loader.elem].len
  /\ elems'[loader.elem].len <= Len(arrays'[a])
  /\ \A i \in DOMAIN elems : i # loader.elem => elems'[i] = elems[i]
  /\ UNCHANGED <<list, goroutines>> /\ loader'.file = loader.file
  /\ report' = NoReport

LEMMA SetElement ==
  ASSUME NEW T, NEW s \in Seq(T), NEW i \in DOMAIN s, NEW e \in T,
         NEW r, r = [s EXCEPT ![i] = e]
  PROVE  /\ r \in Seq(T) /\ DOMAIN r = DOMAIN s \cup {i} /\ r[i] = e
         /\ \A j \in DOMAIN s : j # i => r[j] = s[j]
<1>1. i \in 1..Len(s) /\ DOMAIN s = 1..Len(s)
  OBVIOUS
<1> QED
  BY <1>1, ExceptSeq

LEMMA AddElement ==
  ASSUME NEW T, NEW s \in Seq(T), NEW e \in T, NEW i, i = Len(s) + 1
  PROVE  /\ Append(s, e) \in Seq(T)
         /\ DOMAIN Append(s, e) = DOMAIN s \cup {i}
         /\ Append(s, e)[i] = e
         /\ \A j \in DOMAIN s : j # i => Append(s, e)[j] = s[j]
<1>1. Len(s) \in Nat /\ DOMAIN s = 1..Len(s)
  OBVIOUS
<1>2. /\ Append(s, e) \in Seq(T) /\ Len(Append(s, e)) = Len(s) + 1
      /\ Append(s, e)[i] = e /\ \A j \in 1..Len(s) : Append(s, e)[j] = s[j]
  BY AppendProperties
<1>3. DOMAIN Append(s, e) = 1..(Len(s) + 1)
  BY <1>2
<1>4. 1..(Len(s) + 1) = 1..Len(s) \cup {Len(s) + 1}
  BY <1>1
<1> QED
  BY <1>1, <1>2, <1>3, <1>4

LEMMA SeqOver ==
  ASSUME NEW S, NEW T, NEW s \in Seq(S), \A i \in 1..Len(s) : s[i] \in T
  PROVE  s \in Seq(T)
<1>1. s \in [1..Len(s) -> S] /\ Len(s) \in Nat
  BY LenProperties
<1>2. s \in [1..Len(s) -> T]
  BY <1>1
<1> QED
  BY <1>1, <1>2, SeqDef

LEMMA ElementsType ==
  ASSUME TypeOK, ArraysInv
  PROVE  elems \in Seq([array: 1..Len(arrays), len: Nat])
<1>1. \A i \in 1..Len(elems) : elems[i] \in [array: 1..Len(arrays), len: Nat]
  BY ElementType, Facts DEF Slices
<1>2. elems \in Seq(Slices)
  BY DEF TypeOK
<1> QED
  BY <1>1, <1>2, SeqOver

LEMMA GrownType ==
  ASSUME TypeOK, ArraysInv, NEW s, s.array \in 0..Len(arrays)
  PROVE  /\ Grown(s) \in Seq(Place) /\ Len(Grown(s)) = NewCap(s)
         /\ \A j \in 1..Cap(s) : s.array # 0 /\ Grown(s)[j] = arrays[s.array][j]
<1>1. Cap(s) \in Nat /\ NewCap(s) \in Nat /\ Cap(s) < NewCap(s)
  BY NewCapType
<1>2. \A j \in 1..Cap(s) : s.array \in 1..Len(arrays) /\ j \in 1..Len(arrays[s.array])
  BY Facts DEF Cap
<1>3. \A j \in 1..Cap(s) : arrays[s.array][j] \in Place
  BY <1>2, ArrayType
<1>4. \A j \in 1..NewCap(s) : (IF j <= Cap(s) THEN arrays[s.array][j] ELSE NoEntry) \in Place
  BY <1>1, <1>3 DEF Place
<1>5. Grown(s) \in [1..NewCap(s) -> Place]
  BY <1>4 DEF Grown
<1>6. Grown(s) \in Seq(Place) /\ Len(Grown(s)) = NewCap(s)
  BY <1>1, <1>5
<1>7. \A j \in 1..Cap(s) : j \in 1..NewCap(s)
  BY <1>1
<1> QED
  BY <1>1, <1>2, <1>6, <1>7 DEF Grown

(* The write itself, in the array a of all there are after the growing.    *)
Placed(a, all) ==
  /\ all \in Seq(Seq(Place)) /\ Len(arrays) <= Len(all) /\ Len(all) \in Nat
  /\ a \in 1..Len(all) /\ loader.entry <= Len(all[a]) /\ Len(all[a]) \in Nat
  /\ \A b \in 1..Len(all) : Len(all[b]) >= MinCap
  /\ \A b \in 1..Len(arrays) : all[b] = arrays[b]
  /\ a \in 1..Len(arrays) => loader.elem \in DOMAIN elems /\ elems[loader.elem].array = a
  /\ \A j \in 1..(loader.entry - 1) :
       /\ loader.elem \in DOMAIN elems /\ j <= Cap(elems[loader.elem]) /\ j <= Len(all[a])
       /\ all[a][j] = arrays[elems[loader.elem].array][j]

EntryWritten(a, all, e) ==
  /\ loader.entry \in Nat \ {0} /\ loader.elem \in 1..(Len(elems) + 1)
  /\ arrays' = [all EXCEPT ![a] = [@ EXCEPT ![loader.entry] = Torn]]
  /\ elems' = IF loader.elem \in DOMAIN elems
              THEN [elems EXCEPT ![loader.elem] = e] ELSE Append(elems, e)
  /\ UNCHANGED <<list, goroutines>> /\ report' = NoReport /\ loader'.file = loader.file
  /\ e \in [array: 1..Len(all), len: Nat] /\ e.array = a
  /\ loader.entry <= e.len /\ e.len <= Len(all[a])

LEMMA WriteEntry ==
  ASSUME TypeOK, ArraysInv, NEW a, NEW all, NEW e, Placed(a, all), EntryWritten(a, all, e)
  PROVE  Wrote(a)
<1>0. /\ loader.entry \in Nat \ {0} /\ loader.elem \in 1..(Len(elems) + 1)
      /\ all \in Seq(Seq(Place)) /\ Len(arrays) <= Len(all) /\ Len(all) \in Nat
      /\ a \in 1..Len(all) /\ loader.entry <= Len(all[a]) /\ Len(all[a]) \in Nat
      /\ e \in [array: 1..Len(all), len: Nat] /\ e.array = a
      /\ loader.entry <= e.len /\ e.len <= Len(all[a])
  BY DEF Placed, EntryWritten
<1>1. Torn \in Place /\ Len(arrays) \in Nat
  BY Facts DEF Place
<1>2. /\ arrays' \in Seq(Seq(Place)) /\ Len(arrays') = Len(all)
      /\ \A b \in 1..Len(all) :
           /\ Len(arrays'[b]) = Len(all[b])
           /\ \A j \in 1..Len(all[b]) : arrays'[b][j] = all[b][j] \/ (b = a /\ j = loader.entry)
  <2>1. loader.entry \in 1..Len(all[a])
    BY <1>0
  <2>2. arrays' = [all EXCEPT ![a] = [@ EXCEPT ![loader.entry] = Torn]]
    BY DEF EntryWritten
  <2> QED
    BY <1>0, <1>1, <2>1, <2>2, WriteArray
<1>3. /\ elems' \in Seq([array: 1..Len(arrays'), len: Nat])
      /\ DOMAIN elems' = DOMAIN elems \cup {loader.elem} /\ elems'[loader.elem] = e
      /\ \A j \in DOMAIN elems : j # loader.elem => elems'[j] = elems[j]
  <2> SUFFICES ASSUME NEW T, T = [array: 1..Len(arrays'), len: Nat]
               PROVE  /\ elems' \in Seq(T)
                      /\ DOMAIN elems' = DOMAIN elems \cup {loader.elem} /\ elems'[loader.elem] = e
                      /\ \A j \in DOMAIN elems : j # loader.elem => elems'[j] = elems[j]
    OBVIOUS
  <2>1. [array: 1..Len(arrays), len: Nat] \subseteq T
    BY <1>0, <1>1, <1>2
  <2>2. elems \in Seq(T)
    BY <2>1, ElementsType, SeqMonotonic
  <2>3. e \in T
    BY <1>0, <1>2
  <2>4. elems' = IF loader.elem \in DOMAIN elems
                 THEN [elems EXCEPT ![loader.elem] = e] ELSE Append(elems, e)
    BY DEF EntryWritten
  <2>5. CASE loader.elem \in DOMAIN elems
    <3>1. elems' = [elems EXCEPT ![loader.elem] = e]
      BY <2>4, <2>5
    <3>2. ASSUME NEW R, NEW i \in DOMAIN elems, NEW r, r = [elems EXCEPT ![i] = e],
                 elems \in Seq(R), e \in R
          PROVE  /\ r \in Seq(R) /\ DOMAIN r = DOMAIN elems \cup {i} /\ r[i] = e
                 /\ \A j \in DOMAIN elems : j # i => r[j] = elems[j]
      BY <3>2, SetElement
    <3> QED
      <4>1. elems' \in Seq(T)
        BY <2>2, <2>3, <2>5, <3>1, <3>2
      <4>2. elems'[loader.elem] = e
        BY <2>2, <2>3, <2>5, <3>1, <3>2
      <4>3. DOMAIN elems' = DOMAIN elems \cup {loader.elem}
        BY <2>5, <3>1
      <4>4. \A j \in DOMAIN elems : j # loader.elem => elems'[j] = elems[j]
        BY <2>2, <2>3, <2>5, <3>1, <3>2
      <4> QED
        BY <4>1, <4>2, <4>3, <4>4
  <2>6. CASE loader.elem \notin DOMAIN elems
    <3>1. elems' = Append(elems, e)
      BY <2>4, <2>6
    <3>2. loader.elem = Len(elems) + 1
      BY <1>0, <2>6, Facts
    <3> QED
      BY <2>2, <2>3, <3>1, <3>2, AddElement
  <2> QED
    BY <2>5, <2>6
<1>4. \A j \in 1..(loader.entry - 1) :
        /\ loader.elem \in DOMAIN elems /\ j <= Cap(elems[loader.elem])
        /\ arrays'[a][j] = arrays[elems[loader.elem].array][j]
  <2>1. \A j \in 1..(loader.entry - 1) : j \in 1..Len(all[a]) /\ j # loader.entry
    BY <1>0
  <2>2. \A j \in 1..(loader.entry - 1) : arrays'[a][j] = all[a][j]
    BY <1>0, <1>2, <2>1
  <2> QED
    BY <2>2 DEF Placed
<1>5. \A b \in 1..Len(arrays') : Len(arrays'[b]) >= MinCap
  BY <1>2 DEF Placed
<1>6. \A b \in 1..Len(arrays) :
         /\ Len(arrays'[b]) = Len(arrays[b])
         /\ \A j \in 1..Len(arrays[b]) :
              arrays'[b][j] = arrays[b][j] \/ (b = a /\ j = loader.entry)
  <2>1. \A b \in 1..Len(arrays) : b \in 1..Len(all) /\ all[b] = arrays[b]
    BY <1>0, <1>1 DEF Placed
  <2> QED
    BY <1>2, <2>1
<1>7. /\ a \in 1..Len(arrays') /\ loader.entry <= Len(arrays'[a])
      /\ Len(arrays) <= Len(arrays') /\ e.len <= Len(arrays'[a])
  BY <1>0, <1>2
<1>8. a \in 1..Len(arrays) => loader.elem \in DOMAIN elems /\ elems[loader.elem].array = a
  BY DEF Placed
<1>9. /\ UNCHANGED <<list, goroutines>> /\ report' = NoReport /\ loader'.file = loader.file
      /\ loader.entry <= e.len /\ e.array = a
  BY DEF EntryWritten
<1> QED
  BY <1>2, <1>3, <1>4, <1>5, <1>6, <1>7, <1>8, <1>9 DEF Wrote

LEMMA BeginWrites ==
  ASSUME TypeOK, ArraysInv, LoaderInv, BeginEntry
  PROVE  \E a : Wrote(a)
<1> SUFFICES ASSUME NEW s, s = Element, NEW k, k = loader.entry,
                    NEW a, a = IF k > Cap(s) THEN Len(arrays) + 1 ELSE s.array,
                    NEW all, all = IF k > Cap(s) THEN Append(arrays, Grown(s)) ELSE arrays,
                    NEW len, len = IF k > s.len THEN k ELSE s.len,
                    NEW e, e = [array |-> a, len |-> len]
             PROVE  Wrote(a)
  OBVIOUS
<1>1. /\ arrays' = [all EXCEPT ![a] = [@ EXCEPT ![k] = Torn]]
      /\ elems' = IF loader.elem \in DOMAIN elems
                  THEN [elems EXCEPT ![loader.elem] = e] ELSE Append(elems, e)
      /\ UNCHANGED <<list, goroutines>> /\ report' = NoReport
      /\ loader' = [loader EXCEPT !.step = "end"] /\ loader.step = "begin"
  BY DEF BeginEntry, Silent
<1>2. loader'.file = loader.file
  BY <1>1 DEF TypeOK
<1>3. /\ s.array \in 0..Len(arrays) /\ s.len \in Nat /\ s.len <= Cap(s) /\ Cap(s) \in Nat
      /\ s.array # 0 => loader.elem \in DOMAIN elems
      /\ loader.elem \in DOMAIN elems => s = elems[loader.elem]
  <2>1. CASE loader.elem \in DOMAIN elems
    <3>1. s = elems[loader.elem]
      BY <2>1 DEF Element
    <3> QED
      BY <2>1, <3>1, ElementType, ArrayType, Facts
  <2>2. CASE loader.elem \notin DOMAIN elems
    <3>1. s = NoSlice
      BY <2>2 DEF Element
    <3>2. s.array = 0 /\ s.len = 0 /\ Cap(s) = 0
      BY <3>1 DEF NoSlice, Cap
    <3> QED
      BY <2>2, <3>2, Facts
  <2> QED
    BY <2>1, <2>2
<1>4. k \in Nat /\ k >= 1 /\ k - 1 <= Cap(s) /\ loader.elem \in 1..(Len(elems) + 1)
  BY <1>1, Facts DEF LoaderInv
<1>6. arrays \in Seq(Seq(Place)) /\ Len(arrays) \in Nat
  BY Facts DEF TypeOK
<1>7. /\ all \in Seq(Seq(Place)) /\ Len(arrays) <= Len(all) /\ Len(all) \in Nat
      /\ a \in 1..Len(all) /\ k <= Len(all[a]) /\ Cap(s) <= Len(all[a]) /\ Len(all[a]) \in Nat
      /\ \A b \in 1..Len(all) : Len(all[b]) >= MinCap
      /\ \A b \in 1..Len(arrays) : all[b] = arrays[b]
      /\ a \in 1..Len(arrays) => loader.elem \in DOMAIN elems /\ s.array = a
      /\ \A j \in 1..(k - 1) : s.array # 0 /\ j <= Cap(s) /\ all[a][j] = arrays[s.array][j]
  <2>1. CASE k > Cap(s)
    <3>1. all = Append(arrays, Grown(s)) /\ a = Len(arrays) + 1
      BY <2>1
    <3>2. /\ Grown(s) \in Seq(Place) /\ Len(Grown(s)) = NewCap(s)
          /\ \A j \in 1..Cap(s) : s.array # 0 /\ Grown(s)[j] = arrays[s.array][j]
      BY <1>3, GrownType
    <3>3. /\ all \in Seq(Seq(Place)) /\ Len(all) = Len(arrays) + 1 /\ all[a] = Grown(s)
          /\ \A b \in 1..Len(arrays) : all[b] = arrays[b]
      BY <1>6, <3>1, <3>2, AppendProperties
    <3>4. NewCap(s) \in Nat /\ NewCap(s) > Cap(s) /\ NewCap(s) >= MinCap /\ k - 1 = Cap(s)
      <4>1. NewCap(s) \in Nat /\ NewCap(s) > Cap(s) /\ NewCap(s) >= MinCap
        BY <1>3, NewCapType
      <4>2. k - 1 = Cap(s)
        <5>1. k > Cap(s) /\ k - 1 <= Cap(s) /\ k \in Nat /\ Cap(s) \in Nat
          BY <1>3, <1>4, <2>1
        <5> QED
          BY <5>1
      <4> QED
        BY <4>1, <4>2
    <3>5. \A b \in 1..Len(all) : b \in 1..Len(arrays) \/ b = a
      BY <1>6, <3>1, <3>3
    <3>6. \A b \in 1..Len(arrays) : Len(arrays[b]) >= MinCap
      BY Facts DEF ArraysInv
    <3>7. \A b \in 1..Len(all) : Len(all[b]) >= MinCap
      BY <3>2, <3>3, <3>4, <3>5, <3>6
    <3>8. a \notin 1..Len(arrays) /\ a \in 1..Len(all) /\ Len(arrays) <= Len(all) /\ Len(all) \in Nat
      BY <1>6, <3>1, <3>3
    <3>9. k <= Len(all[a]) /\ Cap(s) <= Len(all[a]) /\ Len(all[a]) \in Nat
      BY <1>3, <1>4, <3>2, <3>3, <3>4
    <3>10. \A j \in 1..(k - 1) : s.array # 0 /\ j <= Cap(s) /\ all[a][j] = arrays[s.array][j]
      BY <1>3, <1>4, <3>2, <3>3, <3>4
    <3> QED
      BY <3>3, <3>7, <3>8, <3>9, <3>10
  <2>2. CASE ~(k > Cap(s))
    <3>1. all = arrays /\ a = s.array
      BY <2>2
    <3>2. k <= Cap(s)
      BY <1>3, <1>4, <2>2
    <3>3. a # 0 /\ Cap(s) = Len(arrays[a])
      BY <1>3, <1>4, <3>1, <3>2 DEF Cap
    <3>4. a \in 1..Len(arrays) /\ loader.elem \in DOMAIN elems
      BY <1>3, <1>6, <3>1, <3>3
    <3>5. \A b \in 1..Len(arrays) : Len(arrays[b]) >= MinCap
      BY Facts DEF ArraysInv
    <3>6. \A j \in 1..(k - 1) : j <= Cap(s)
      BY <1>3, <1>4, <3>2
    <3> QED
      BY <1>3, <1>6, <3>1, <3>2, <3>3, <3>4, <3>5, <3>6
  <2> QED
    BY <2>1, <2>2
<1>8. len \in Nat /\ k <= len /\ len <= Len(all[a])
  <2>1. CASE k > s.len
    BY <1>4, <1>7, <2>1
  <2>2. CASE ~(k > s.len)
    BY <1>3, <1>4, <1>7, <2>2
  <2> QED
    BY <2>1, <2>2
<1>9. e \in [array: 1..Len(all), len: Nat] /\ e.array = a /\ e.len = len
  BY <1>7, <1>8
<1>10. \A j \in 1..(k - 1) :
         /\ loader.elem \in DOMAIN elems /\ j <= Cap(elems[loader.elem]) /\ j <= Len(all[a])
         /\ all[a][j] = arrays[elems[loader.elem].array][j]
  <2> SUFFICES ASSUME NEW j \in 1..(k - 1)
               PROVE  /\ loader.elem \in DOMAIN elems /\ j <= Cap(elems[loader.elem])
                      /\ j <= Len(all[a])
                      /\ all[a][j] = arrays[elems[loader.elem].array][j]
    OBVIOUS
  <2>1. loader.elem \in DOMAIN elems /\ s = elems[loader.elem]
    BY <1>3, <1>7
  <2>2. j <= Cap(s) /\ all[a][j] = arrays[s.array][j]
    BY <1>7
  <2>3. j <= Len(all[a])
    BY <1>3, <1>4, <1>7, <2>2
  <2> QED
    BY <2>1, <2>2, <2>3
<1>11. a \in 1..Len(arrays) => loader.elem \in DOMAIN elems /\ elems[loader.elem].array = a
  BY <1>3, <1>7
<1>12. Placed(a, all)
  BY <1>7, <1>10, <1>11 DEF Placed
<1>13. EntryWritten(a, all, e)
  BY <1>1, <1>2, <1>4, <1>8, <1>9 DEF EntryWritten
<1> QED
  BY <1>12, <1>13, WriteEntry

LEMMA EndWrites ==
  ASSUME TypeOK, ArraysInv, LoaderInv, EndEntry
  PROVE  /\ Wrote(elems[loader.elem].array)
         /\ arrays'[elems[loader.elem].array][loader.entry] = <<File, loader.elem, loader.entry>>
<1> DEFINE i == loader.elem
           k == loader.entry
           a == elems[i].array
<1>1. /\ i \in DOMAIN elems /\ k \in Nat /\ k >= 1 /\ k <= elems[i].len /\ Element = elems[i]
      /\ i \in DOMAIN Oids /\ k \in 1..Oids[i]
  BY Facts DEF LoaderInv, EndEntry, Element
<1>2. /\ a \in 1..Len(arrays) /\ elems[i].len \in Nat /\ elems[i].len <= Len(arrays[a])
      /\ Len(arrays[a]) \in Nat /\ Cap(elems[i]) = Len(arrays[a])
  BY <1>1, ElementType, ArrayType
<1>3. /\ arrays' = [arrays EXCEPT ![a] = [@ EXCEPT ![k] = <<File, i, k>>]]
      /\ elems' = elems \/ elems' = [elems EXCEPT ![i] = [@ EXCEPT !.len = k]]
      /\ UNCHANGED <<list, goroutines>> /\ report' = NoReport
  BY <1>1 DEF EndEntry, Silent
<1>4. loader'.file = loader.file
  BY DEF EndEntry, TypeOK
<1>5. <<File, i, k>> \in Place
  BY <1>1, FileFacts, EntryType DEF Place, EndEntry, Oids
<1>6. arrays \in Seq(Seq(Place)) /\ Len(arrays) \in Nat
  BY Facts DEF TypeOK
<1>7. /\ arrays' \in Seq(Seq(Place)) /\ Len(arrays') = Len(arrays)
      /\ \A b \in 1..Len(arrays) :
           /\ Len(arrays'[b]) = Len(arrays[b])
           /\ \A j \in 1..Len(arrays[b]) : arrays'[b][j] = arrays[b][j] \/ (b = a /\ j = k)
      /\ arrays'[a][k] = <<File, i, k>>
  <2>1. k \in 1..Len(arrays[a])
    BY <1>1, <1>2
  <2>2. arrays' = [arrays EXCEPT ![a] = [@ EXCEPT ![k] = <<File, i, k>>]]
    BY <1>3
  <2> HIDE DEF i, k, a
  <2> QED
    BY <1>2, <1>5, <1>6, <2>1, <2>2, WriteArray
<1>8. elems \in Seq([array: 1..Len(arrays), len: Nat]) /\ DOMAIN elems = 1..Len(elems)
  BY ElementsType, Facts
<1>9. /\ elems' \in Seq([array: 1..Len(arrays'), len: Nat])
      /\ DOMAIN elems' = DOMAIN elems
      /\ elems'[i].array = a /\ k <= elems'[i].len /\ elems'[i].len <= Len(arrays'[a])
      /\ \A j \in DOMAIN elems : j # i => elems'[j] = elems[j]
  <2>1. CASE elems' = elems
    BY <1>1, <1>2, <1>7, <1>8, <2>1
  <2>2. CASE elems' = [elems EXCEPT ![i] = [@ EXCEPT !.len = k]]
    <3> DEFINE S == [array: 1..Len(arrays), len: Nat]
               e == [elems[i] EXCEPT !.len = k]
    <3>1. elems[i] \in S
      BY <1>1, <1>8, ElementOfSeq
    <3>2. e \in S /\ e.array = a /\ e.len = k
      BY <1>1, <3>1
    <3>3. elems' = [elems EXCEPT ![i] = e]
      BY <2>2
    <3> HIDE DEF S, e
    <3>4. elems' \in Seq(S) /\ Len(elems') = Len(elems)
          /\ \A j \in 1..Len(elems) : elems'[j] = IF j = i THEN e ELSE elems[j]
      BY <1>1, <1>8, <3>2, <3>3, ExceptSeq DEF S
    <3>5. DOMAIN elems' = 1..Len(elems')
      BY <3>4
    <3>6. elems'[i] = e /\ \A j \in DOMAIN elems : j # i => elems'[j] = elems[j]
      BY <1>1, <1>8, <3>4
    <3>7. e.len <= Len(arrays'[a]) /\ k <= e.len
      <4>1. Len(arrays'[a]) = Len(arrays[a])
        BY <1>2, <1>7
      <4> QED
        BY <1>1, <1>2, <3>2, <4>1
    <3>8. elems' \in Seq([array: 1..Len(arrays'), len: Nat])
      BY <1>7, <3>4 DEF S
    <3>9. DOMAIN elems' = DOMAIN elems
      BY <1>8, <3>4, <3>5
    <3> QED
      BY <3>2, <3>6, <3>7, <3>8, <3>9
  <2> QED
    BY <1>3, <2>1, <2>2
<1>10. \A j \in 1..(k - 1) :
         j <= Cap(elems[i]) /\ arrays'[a][j] = arrays[a][j]
  <2>1. \A j \in 1..(k - 1) : j \in 1..Len(arrays[a]) /\ j # k
    BY <1>1, <1>2
  <2> HIDE DEF i, k, a
  <2> QED
    BY <1>2, <1>7, <2>1
<1>11. \A b \in 1..Len(arrays') : Len(arrays'[b]) >= MinCap
  BY <1>7, Facts DEF ArraysInv
<1>12. a \in 1..Len(arrays') /\ k <= Len(arrays'[a]) /\ Len(arrays) <= Len(arrays')
  <2>1. Len(arrays'[a]) = Len(arrays[a]) /\ Len(arrays') = Len(arrays)
    BY <1>2, <1>7
  <2>2. k \in Nat /\ k <= elems[i].len
    BY <1>1
  <2> HIDE DEF i, k, a
  <2> QED
    BY <1>2, <1>6, <2>1, <2>2
<1>13. DOMAIN elems' = DOMAIN elems \cup {i}
  BY <1>1, <1>9
<1> HIDE DEF a
<1>14. Wrote(a)
  BY <1>1, <1>3, <1>4, <1>7, <1>9, <1>10, <1>11, <1>12, <1>13, Zenon DEF Wrote, a
<1> QED
  BY <1>7, <1>14 DEF a
-----------------------------------------------------------------------------
(* What a write keeps. *)

LEMMA WroteFacts ==
  ASSUME TypeOK, ArraysInv, NEW a, Wrote(a)
  PROVE  /\ Len(arrays') \in Nat /\ DOMAIN arrays' = 1..Len(arrays')
         /\ 1..Len(arrays) \subseteq 1..Len(arrays')
         /\ \A b \in 1..Len(arrays') : Len(arrays'[b]) \in Nat
         /\ \A i \in DOMAIN elems' :
              /\ elems'[i].array \in 1..Len(arrays') /\ elems'[i].len \in Nat
              /\ elems'[i].len <= Len(arrays'[elems'[i].array])
              /\ Cap(elems[i])' = Len(arrays'[elems'[i].array])
         /\ \A i \in DOMAIN elems' : i # loader.elem => i \in DOMAIN elems /\ elems'[i] = elems[i]
<1>1. /\ arrays' \in Seq(Seq(Place)) /\ Len(arrays) <= Len(arrays') /\ Len(arrays) \in Nat
      /\ elems' \in Seq([array: 1..Len(arrays'), len: Nat])
      /\ DOMAIN elems' = DOMAIN elems \cup {loader.elem}
      /\ elems'[loader.elem].array = a /\ elems'[loader.elem].len <= Len(arrays'[a])
      /\ \A i \in DOMAIN elems : i # loader.elem => elems'[i] = elems[i]
      /\ \A b \in 1..Len(arrays) : Len(arrays'[b]) = Len(arrays[b])
  BY Facts DEF Wrote
<1>2. Len(arrays') \in Nat /\ DOMAIN arrays' = 1..Len(arrays')
      /\ 1..Len(arrays) \subseteq 1..Len(arrays')
  BY <1>1
<1>3. \A b \in 1..Len(arrays') : Len(arrays'[b]) \in Nat
  <2>1. \A b \in 1..Len(arrays') : arrays'[b] \in Seq(Place)
    BY <1>1, ElementOfSeq
  <2> QED
    BY <2>1
<1>4. \A i \in DOMAIN elems' : i # loader.elem => i \in DOMAIN elems /\ elems'[i] = elems[i]
  BY <1>1
<1>5. ASSUME NEW i \in DOMAIN elems'
      PROVE  /\ elems'[i].array \in 1..Len(arrays') /\ elems'[i].len \in Nat
             /\ elems'[i].len <= Len(arrays'[elems'[i].array])
             /\ Cap(elems[i])' = Len(arrays'[elems'[i].array])
  <2>1. elems'[i] \in [array: 1..Len(arrays'), len: Nat]
    <3> DEFINE S == [array: 1..Len(arrays'), len: Nat]
    <3>1. elems' \in Seq(S)
      BY <1>1
    <3> HIDE DEF S
    <3>2. i \in 1..Len(elems')
      BY <1>5, <3>1
    <3>3. elems'[i] \in S
      BY <3>1, <3>2, ElementOfSeq
    <3> QED
      BY <3>3 DEF S
  <2>2. elems'[i].array \in 1..Len(arrays') /\ elems'[i].array # 0 /\ elems'[i].len \in Nat
    BY <2>1
  <2>3. Cap(elems[i])' = Len(arrays'[elems'[i].array])
    BY <2>2 DEF Cap
  <2>4. CASE i = loader.elem
    BY <1>1, <2>2, <2>3, <2>4
  <2>5. CASE i # loader.elem
    <3>1. i \in DOMAIN elems /\ elems'[i] = elems[i]
      BY <1>4, <1>5, <2>5
    <3>2. elems[i].array \in 1..Len(arrays) /\ elems[i].len <= Len(arrays[elems[i].array])
      BY <3>1, ElementType
    <3> QED
      BY <1>1, <2>2, <2>3, <3>1, <3>2
  <2> QED
    BY <2>4, <2>5
<1> QED
  BY <1>2, <1>3, <1>4, <1>5

(* The types, but for those of the loader. *)
LEMMA WroteTypes ==
  ASSUME TypeOK, ArraysInv, NEW a, Wrote(a)
  PROVE  /\ list' \in SetToSeqs(Files)
         /\ arrays' \in Seq(Seq(Place))
         /\ elems' \in Seq(Slices') /\ \A i \in DOMAIN elems' : elems'[i].len <= Cap(elems[i])'
         /\ pc' \in [Targets -> {"none", "connect", "oids", "baseline", "wait", "ended"}]
         /\ slice' \in [Targets -> Slices']
         /\ oids' \in [Targets -> Seq(Place)]
         /\ counter' \in [Targets -> [value: 0..(Modulus - 1), type: 0..2]]
         /\ report'.entries \in Seq(Place \X Place)
<1>1. /\ UNCHANGED <<list, pc, slice, oids, counter>> /\ report' = NoReport
      /\ arrays' \in Seq(Seq(Place)) /\ elems' \in Seq([array: 1..Len(arrays'), len: Nat])
      /\ Len(arrays) <= Len(arrays') /\ Len(arrays) \in Nat /\ Len(arrays') \in Nat
  BY Facts, WroteFacts DEF Wrote, goroutines
<1>2. Slices \subseteq Slices' /\ [array: 1..Len(arrays'), len: Nat] \subseteq Slices'
  BY <1>1 DEF Slices
<1>3. elems' \in Seq(Slices')
  BY <1>1, <1>2, SeqMonotonic
<1>4. slice' \in [Targets -> Slices']
  BY <1>1, <1>2 DEF TypeOK
<1>5. report'.entries \in Seq(Place \X Place)
  BY <1>1 DEF NoReport
<1> QED
  <2>1. \A i \in DOMAIN elems' : elems'[i].len <= Cap(elems[i])'
    BY WroteFacts
  <2>2. /\ list' \in SetToSeqs(Files)
        /\ pc' \in [Targets -> {"none", "connect", "oids", "baseline", "wait", "ended"}]
        /\ oids' \in [Targets -> Seq(Place)]
        /\ counter' \in [Targets -> [value: 0..(Modulus - 1), type: 0..2]]
    BY <1>1 DEF TypeOK
  <2> QED
    BY <1>1, <1>3, <1>4, <1>5, <2>1, <2>2

LEMMA WroteArrays ==
  ASSUME TypeOK, ArraysInv, NEW a, Wrote(a)
  PROVE  ArraysInv'
<1>1. \A b \in DOMAIN arrays' : Len(arrays'[b]) >= MinCap
  BY WroteFacts DEF Wrote
<1>2. \A i \in DOMAIN elems' : elems'[i].array # 0
  BY WroteFacts
<1>3. ASSUME NEW i \in DOMAIN elems', NEW j \in DOMAIN elems',
             elems'[i].array = elems'[j].array
      PROVE  i = j
  <2>1. ASSUME NEW m \in DOMAIN elems', m # loader.elem
        PROVE  m \in DOMAIN elems /\ elems'[m] = elems[m] /\ elems'[m].array # a
    <3>1. m \in DOMAIN elems /\ elems'[m] = elems[m]
      BY <2>1, WroteFacts
    <3>2. elems[m].array \in 1..Len(arrays)
      BY <3>1, ElementType
    <3>3. a \in 1..Len(arrays) => loader.elem \in DOMAIN elems /\ elems[loader.elem].array = a
      BY DEF Wrote
    <3> QED
      BY <2>1, <3>1, <3>2, <3>3 DEF ArraysInv
  <2>2. elems'[loader.elem].array = a
    BY DEF Wrote
  <2> QED
    BY <1>3, <2>1, <2>2 DEF ArraysInv
<1> QED
  BY <1>1, <1>2, <1>3 DEF ArraysInv

LEMMA WroteSlices ==
  ASSUME TypeOK, ArraysInv, LoaderInv, SliceInv, StartedInv, Decoding, NEW a, Wrote(a)
  PROVE  SliceInv'
<1> SUFFICES ASSUME NEW t \in Targets, pc'[t] # "none"
             PROVE  /\ slice'[t].array # 0
                    /\ slice'[t].len = Count(t)
                    /\ Count(t) <= Len(arrays'[slice'[t].array])
                    /\ \A j \in DOMAIN elems' : elems'[j].array = slice'[t].array => j = t[2]
                    /\ \A k \in 1..Count(t) :
                         arrays'[slice'[t].array][k] = t \o <<k>> \/ Overwritten(t, k)'
  BY DEF SliceInv, Count
<1> DEFINE b == slice[t].array
<1>1. pc' = pc /\ slice' = slice /\ list' = list /\ loader'.file = loader.file
  BY DEF Wrote, goroutines
<1>2. /\ b # 0 /\ slice[t].len = Count(t) /\ Count(t) <= Len(arrays[b])
      /\ \A j \in DOMAIN elems : elems[j].array = b => j = t[2]
      /\ \A k \in 1..Count(t) : arrays[b][k] = t \o <<k>> \/ Overwritten(t, k)
  BY <1>1 DEF SliceInv
<1>3. b \in 1..Len(arrays)
  BY <1>2, Facts
<1>4. /\ Len(arrays'[b]) = Len(arrays[b])
      /\ \A j \in 1..Len(arrays[b]) :
           arrays'[b][j] = arrays[b][j] \/ (b = a /\ j = loader.entry)
      /\ b = a => loader.elem \in DOMAIN elems /\ elems[loader.elem].array = b
      /\ elems'[loader.elem].array = a
  BY <1>3 DEF Wrote
<1>5. ASSUME NEW j \in DOMAIN elems', elems'[j].array = b
      PROVE  j = t[2]
  <2>1. CASE j = loader.elem
    BY <1>2, <1>4, <1>5, <2>1
  <2>2. CASE j # loader.elem
    BY <1>2, <1>5, <2>2, WroteFacts
  <2> QED
    BY <2>1, <2>2
<1>6. ASSUME NEW k \in 1..Count(t)
      PROVE  arrays'[b][k] = t \o <<k>> \/ Overwritten(t, k)'
  <2>1. Overwritten(t, k) => Overwritten(t, k)'
    BY <1>1, Facts, OverwrittenKept
  <2>2. CASE b = a /\ k = loader.entry
    <3>1. t[2] = loader.elem
      BY <1>2, <1>4, <2>2
    <3> QED
      BY <1>1, <2>1, <2>2, <3>1, NowOverwritten
  <2>3. CASE ~(b = a /\ k = loader.entry)
    <3>1. k \in 1..Len(arrays[b])
      BY <1>2, <1>3, TargetType, ArrayType
    <3> QED
      BY <1>2, <1>4, <2>1, <2>3, <3>1
  <2> QED
    BY <2>2, <2>3
<1> QED
  BY <1>1, <1>2, <1>4, <1>5, <1>6

(* The copies of the OIDs are not touched, whatever the loader does.       *)
LEMMA OidsKept ==
  ASSUME TypeOK, OidsInv, list' = list, loader'.file \in Nat, loader.file <= loader'.file,
         oids' = oids,
         \A t \in Targets : pc'[t] = pc[t] \/ (pc[t] = "none" /\ pc'[t] = "connect")
  PROVE  OidsInv'
<1> SUFFICES ASSUME NEW t \in Targets
             PROVE  /\ pc'[t] \in {"none", "connect"} => oids[t] = <<>>
                    /\ pc'[t] = "oids" => Len(oids[t]) < Count(t)
                    /\ pc'[t] \in {"baseline", "wait"} => Len(oids[t]) = Count(t)
                    /\ \A k \in DOMAIN oids[t] :
                         oids[t][k] = t \o <<k>> \/ Overwritten(t, k)'
  BY DEF OidsInv, Count
<1>1. \A k : Overwritten(t, k) => Overwritten(t, k)'
  BY Facts, OverwrittenKept
<1> QED
  BY <1>1 DEF OidsInv

LEMMA WroteDecoded ==
  ASSUME TypeOK, ArraysInv, LoaderInv, DecodedInv, Decoding, NEW a, Wrote(a),
         NEW i \in DOMAIN elems'
  PROVE  /\ Finished(i) => elems'[i].len = Oids[i]
         /\ \A k \in 1..Cap(elems[i])' :
              Written(i, k) => arrays'[elems'[i].array][k] = <<File, i, k>>
<1>1. CASE i = loader.elem
  <2>1. ~Finished(i)
    BY <1>1, Facts DEF Finished, Decoding
  <2>2. ASSUME NEW k \in 1..Cap(elems[i])', Written(i, k)
        PROVE  arrays'[elems'[i].array][k] = <<File, i, k>>
    <3>1. k \in 1..(loader.entry - 1)
      BY <1>1, <2>1, <2>2, Facts, WroteFacts DEF Written
    <3>2. /\ i \in DOMAIN elems /\ k <= Cap(elems[i]) /\ elems'[i].array = a
          /\ arrays'[a][k] = arrays[elems[i].array][k]
      BY <1>1, <3>1 DEF Wrote
    <3>3. k \in 1..Cap(elems[i])
      BY <3>1, <3>2, ElementType, ArrayType, Facts
    <3> QED
      BY <2>2, <3>2, <3>3 DEF DecodedInv
  <2> QED
    BY <2>1, <2>2
<1>2. CASE i # loader.elem
  <2>1. i \in DOMAIN elems /\ elems'[i] = elems[i]
    BY <1>2, WroteFacts
  <2> DEFINE b == elems[i].array
  <2>2. b \in 1..Len(arrays) /\ Cap(elems[i]) = Len(arrays[b])
    BY <2>1, ElementType
  <2>3. b # a
    BY <1>2, <2>1, <2>2 DEF Wrote, ArraysInv
  <2>4. Len(arrays'[b]) = Len(arrays[b]) /\ \A k \in 1..Len(arrays[b]) : arrays'[b][k] = arrays[b][k]
    BY <2>2, <2>3 DEF Wrote
  <2>5. Cap(elems[i])' = Cap(elems[i])
    BY <2>1, <2>2, <2>4, WroteFacts
  <2> QED
    BY <2>1, <2>2, <2>4, <2>5 DEF DecodedInv
<1> QED
  BY <1>1, <1>2

(* No goroutine is started, and no file left, by a step inside a file.     *)
LEMMA StartedKept ==
  ASSUME StartedInv, UNCHANGED <<list, pc>>, loader'.file = loader.file, loader'.step # "done"
  PROVE  StartedInv'
<1>1. \A t : Position(t[1])' = Position(t[1])
  BY DEF Position
<1> QED
  BY <1>1 DEF StartedInv
-----------------------------------------------------------------------------
(* The steps of CollectSnmp. *)

LEMMA NothingReported ==
  ASSUME report' = NoReport
  PROVE  OwnEntries' /\ RateWithinOne'
BY DEF OwnEntries, RateWithinOne

LEMMA CapOfElement ==
  ASSUME TypeOK, ArraysInv
  PROVE  Cap(Element) \in Nat
<1>1. CASE loader.elem \in DOMAIN elems
  BY <1>1, ElementType, ArrayType DEF Element
<1>2. CASE loader.elem \notin DOMAIN elems
  BY <1>2 DEF Element, NoSlice, Cap
<1> QED
  BY <1>1, <1>2

(* What reading a file may come to. *)
AfterRead ==
  /\ loader'.step \in {"file", "done", "start", "begin"}
  /\ loader.file <= loader'.file /\ loader'.file \in Nat
  /\ loader' \in [step: {"file", "begin", "end", "start", "done"},
                  file: 1..(Len(list) + 1), elem: Nat \ {0}, entry: Nat \ {0}]
  /\ elems' = elems \/ elems' = <<>>
  /\ loader'.step \in {"start", "begin"} =>
       /\ loader.file <= Len(list) /\ Content[File].outcome \in Decodable
       /\ loader'.file = loader.file /\ loader'.elem = 1 /\ loader'.entry = 1
  /\ loader'.step = "start" => Oids = <<>> /\ elems' = <<>>
  /\ loader'.step = "begin" => Oids # <<>> /\ elems' = elems
  /\ \/ loader'.file = loader.file
     \/ /\ loader'.file = loader.file + 1 /\ loader'.step = "file"
        /\ loader.file <= Len(list) /\ Content[File].outcome = "unreadable"
  /\ loader'.step = "done" =>
       /\ loader'.file = loader.file
       /\ loader.file > Len(list) \/ Content[File].outcome = "malformed"

LEMMA ReadFileStep ==
  ASSUME IInv, ReadFile
  PROVE  IInv'
<1>1. /\ TypeOK /\ ArraysInv /\ LoaderInv /\ DecodedInv /\ SliceInv /\ OidsInv /\ StartedInv
      /\ loader.step = "file" /\ UNCHANGED <<list, arrays, pc, slice, oids, counter>>
      /\ report' = NoReport
  BY DEF IInv, ReadFile, Silent, goroutines
<1>2. \/ /\ loader.file > Len(list)
         /\ loader' = [loader EXCEPT !.step = "done"] /\ elems' = elems
      \/ /\ loader.file <= Len(list) /\ Content[File].outcome = "unreadable"
         /\ loader' = [loader EXCEPT !.step = "file", !.file = @ + 1] /\ elems' = elems
      \/ /\ loader.file <= Len(list) /\ Content[File].outcome = "malformed"
         /\ loader' = [loader EXCEPT !.step = "done"] /\ elems' = elems
      \/ /\ loader.file <= Len(list) /\ Content[File].outcome \in Decodable /\ Oids = <<>>
         /\ loader' = [loader EXCEPT !.step = "start", !.elem = 1, !.entry = 1] /\ elems' = <<>>
      \/ /\ loader.file <= Len(list) /\ Content[File].outcome \in Decodable /\ Oids # <<>>
         /\ loader' = [loader EXCEPT !.step = "begin", !.elem = 1, !.entry = 1] /\ elems' = elems
  <2>1. CASE loader.file > Len(list)
    <3>1. loader' = [loader EXCEPT !.step = "done"]
      BY <2>1 DEF ReadFile
    <3>2. loader'.step = "done"
      BY <1>1, <3>1 DEF TypeOK
    <3> QED
      BY <2>1, <3>1, <3>2 DEF ReadFile
  <2>2. CASE loader.file <= Len(list)
    <3>1. ~(loader.file > Len(list)) /\ File \in Files
      BY <1>1, <2>2, Facts, Positions DEF File, TypeOK
    <3>2. Content[File].outcome \in Outcomes
      BY <3>1, FilesAssumption
    <3>3. loader' = CASE Content[File].outcome = "unreadable" ->
                           [loader EXCEPT !.step = "file", !.file = @ + 1]
                      [] Content[File].outcome = "malformed" -> [loader EXCEPT !.step = "done"]
                      [] OTHER -> [loader EXCEPT !.step = IF Oids = <<>> THEN "start" ELSE "begin",
                                                 !.elem = 1, !.entry = 1]
      BY <3>1, Zenon DEF ReadFile, SkipUnreadable
    <3>4. elems' = IF loader'.step = "start" THEN <<>> ELSE elems
      BY DEF ReadFile
    <3>5. CASE Content[File].outcome = "unreadable"
      <4>1. loader' = [loader EXCEPT !.step = "file", !.file = @ + 1]
        BY <3>3, <3>5
      <4>2. loader'.step = "file"
        BY <1>1, <4>1 DEF TypeOK
      <4> QED
        BY <2>2, <3>4, <3>5, <4>1, <4>2
    <3>6. CASE Content[File].outcome = "malformed"
      <4>1. loader' = [loader EXCEPT !.step = "done"]
        BY <3>3, <3>6
      <4>2. loader'.step = "done"
        BY <1>1, <4>1 DEF TypeOK
      <4> QED
        BY <2>2, <3>4, <3>6, <4>1, <4>2
    <3>7. CASE Content[File].outcome \in Decodable
      <4>1. loader' = [loader EXCEPT !.step = IF Oids = <<>> THEN "start" ELSE "begin",
                                     !.elem = 1, !.entry = 1]
        BY <3>3, <3>7 DEF Decodable
      <4>2. CASE Oids = <<>>
        <5>1. loader' = [loader EXCEPT !.step = "start", !.elem = 1, !.entry = 1]
          BY <4>1, <4>2
        <5>2. loader'.step = "start"
          BY <1>1, <5>1 DEF TypeOK
        <5> QED
          BY <2>2, <3>4, <3>7, <4>2, <5>1, <5>2
      <4>3. CASE Oids # <<>>
        <5>1. loader' = [loader EXCEPT !.step = "begin", !.elem = 1, !.entry = 1]
          BY <4>1, <4>3
        <5>2. loader'.step = "begin"
          BY <1>1, <5>1 DEF TypeOK
        <5> QED
          BY <2>2, <3>4, <3>7, <4>3, <5>1, <5>2
      <4> QED
        BY <4>2, <4>3
    <3> QED
      BY <3>2, <3>5, <3>6, <3>7 DEF Outcomes, Decodable
  <2> QED
    BY <1>1, <2>1, <2>2, Facts
<1>3. AfterRead
  <2>0. /\ loader.file \in Nat \ {0} /\ loader.file <= Len(list) + 1 /\ Len(list) \in Nat
        /\ loader \in [step: {"file", "begin", "end", "start", "done"},
                       file: 1..(Len(list) + 1), elem: Nat \ {0}, entry: Nat \ {0}]
    BY <1>1, Facts DEF TypeOK
  <2>1. CASE /\ loader.file > Len(list)
              /\ loader' = [loader EXCEPT !.step = "done"] /\ elems' = elems
    <3>1. /\ loader'.step = "done" /\ loader'.file = loader.file
          /\ elems' = elems
          /\ loader' \in [step: {"file", "begin", "end", "start", "done"},
                         file: 1..(Len(list) + 1), elem: Nat \ {0}, entry: Nat \ {0}]
      BY <2>0, <2>1
    <3> QED
      BY <1>1, <2>0, <2>1, <3>1 DEF AfterRead, Decodable
  <2>2. CASE /\ loader.file <= Len(list) /\ Content[File].outcome = "unreadable"
              /\ loader' = [loader EXCEPT !.step = "file", !.file = @ + 1] /\ elems' = elems
    <3>0. loader' = [step |-> "file", file |-> loader.file + 1, elem |-> loader.elem, entry |-> loader.entry]
      BY <2>0, <2>2
    <3>1. /\ loader'.step = "file" /\ loader'.file = loader.file + 1
          /\ elems' = elems
          /\ loader' \in [step: {"file", "begin", "end", "start", "done"},
                         file: 1..(Len(list) + 1), elem: Nat \ {0}, entry: Nat \ {0}]
      BY <2>0, <2>2, <3>0
    <3> QED
      BY <1>1, <2>0, <2>2, <3>1 DEF AfterRead, Decodable
  <2>3. CASE /\ loader.file <= Len(list) /\ Content[File].outcome = "malformed"
              /\ loader' = [loader EXCEPT !.step = "done"] /\ elems' = elems
    <3>1. /\ loader'.step = "done" /\ loader'.file = loader.file
          /\ elems' = elems
          /\ loader' \in [step: {"file", "begin", "end", "start", "done"},
                         file: 1..(Len(list) + 1), elem: Nat \ {0}, entry: Nat \ {0}]
      BY <2>0, <2>3
    <3> QED
      BY <1>1, <2>0, <2>3, <3>1 DEF AfterRead, Decodable
  <2>4. CASE /\ loader.file <= Len(list) /\ Content[File].outcome \in Decodable /\ Oids = <<>>
              /\ loader' = [loader EXCEPT !.step = "start", !.elem = 1, !.entry = 1] /\ elems' = <<>>
    <3>0. loader' = [step |-> "start", file |-> loader.file, elem |-> 1, entry |-> 1]
      BY <2>0, <2>4
    <3>1. /\ loader'.step = "start" /\ loader'.file = loader.file
          /\ elems' = <<>> /\ loader'.elem = 1 /\ loader'.entry = 1
          /\ loader' \in [step: {"file", "begin", "end", "start", "done"},
                         file: 1..(Len(list) + 1), elem: Nat \ {0}, entry: Nat \ {0}]
      BY <2>0, <2>4, <3>0
    <3> QED
      BY <1>1, <2>0, <2>4, <3>1 DEF AfterRead, Decodable
  <2>5. CASE /\ loader.file <= Len(list) /\ Content[File].outcome \in Decodable /\ Oids # <<>>
              /\ loader' = [loader EXCEPT !.step = "begin", !.elem = 1, !.entry = 1] /\ elems' = elems
    <3>0. loader' = [step |-> "begin", file |-> loader.file, elem |-> 1, entry |-> 1]
      BY <2>0, <2>5
    <3>1. /\ loader'.step = "begin" /\ loader'.file = loader.file
          /\ elems' = elems /\ loader'.elem = 1 /\ loader'.entry = 1
          /\ loader' \in [step: {"file", "begin", "end", "start", "done"},
                         file: 1..(Len(list) + 1), elem: Nat \ {0}, entry: Nat \ {0}]
      BY <2>0, <2>5, <3>0
    <3> QED
      BY <1>1, <2>0, <2>5, <3>1 DEF AfterRead, Decodable
  <2> QED
    BY <1>2, <2>1, <2>2, <2>3, <2>4, <2>5
<1>4. TypeOK'
  <2>1. Slices' = Slices /\ \A s : Cap(s)' = Cap(s)
    BY <1>1 DEF Slices, Cap
  <2>2. elems' \in Seq(Slices) /\ \A i \in DOMAIN elems' : elems'[i].len <= Cap(elems[i])'
    <3>1. CASE elems' = elems
      BY <1>1, <2>1, <3>1 DEF TypeOK, Cap
    <3>2. CASE elems' = <<>>
      BY <3>2
    <3> QED
      BY <1>3, <3>1, <3>2 DEF AfterRead
  <2>3. report'.entries \in Seq(Place \X Place)
    BY <1>1 DEF NoReport
  <2> QED
    BY <1>1, <1>3, <2>1, <2>2, <2>3 DEF TypeOK, AfterRead
<1>5. ArraysInv'
  BY <1>1, <1>3 DEF ArraysInv, AfterRead
<1>6. LoaderInv'
  <2>1. CASE loader'.step \in {"file", "done"}
    BY <2>1 DEF LoaderInv
  <2>2. CASE loader'.step = "start"
    <3>1. File' = File /\ Oids' = Oids
      BY <1>1, <1>3, <2>2 DEF File, Oids, AfterRead
    <3> QED
      BY <1>1, <1>3, <2>2, <3>1 DEF LoaderInv, AfterRead
  <2>3. CASE loader'.step = "begin"
    <3>1. File' = File /\ Oids' = Oids
      BY <1>1, <1>3, <2>3 DEF File, Oids, AfterRead
    <3>2. File \in Files
      BY <1>1, <1>3, <2>3, Facts, Positions DEF File, TypeOK, AfterRead
    <3>3. Oids \in Seq(Nat \ {0}) /\ Oids # <<>>
      BY <1>3, <2>3, <3>2, FilesAssumption DEF Oids, AfterRead
    <3>4. Len(Oids) \in Nat \ {0} /\ DOMAIN Oids = 1..Len(Oids)
      BY <3>3, EmptySeq
    <3>5. 1 \in DOMAIN Oids /\ Oids[1] \in Nat \ {0}
      BY <3>3, <3>4, ElementOfSeq
    <3>6. Cap(Element)' \in Nat
      <4>1. \A c : Cap(c)' = Cap(c)
        BY <1>1 DEF Cap
      <4>2. CASE 1 \in DOMAIN elems
        <5>1. Element' = elems[1]
          BY <1>3, <2>3, <4>2 DEF Element, AfterRead
        <5> QED
          BY <1>1, <4>1, <4>2, <5>1, ElementType, ArrayType DEF Cap
      <4>3. CASE 1 \notin DOMAIN elems
        <5>1. Element' = NoSlice
          BY <1>3, <2>3, <4>3 DEF Element, AfterRead
        <5> QED
          BY <5>1 DEF Cap, NoSlice
      <4> QED
        BY <4>2, <4>3
    <3> QED
      BY <1>1, <1>3, <2>3, <3>1, <3>5, <3>6, Facts DEF LoaderInv, AfterRead
  <2> QED
    BY <1>3, <2>1, <2>2, <2>3 DEF AfterRead
<1>7. DecodedInv'
  <2> SUFFICES ASSUME NEW i \in DOMAIN elems'
               PROVE  ~Finished(i)' /\ \A k \in 1..Cap(elems[i])' : ~Written(i, k)'
    BY DEF DecodedInv
  <2>1. elems' # <<>> /\ elems' = elems /\ loader'.step # "start" /\ i \in Nat \ {0}
    BY <1>1, <1>3, Facts DEF AfterRead
  <2>2. ~(i < loader'.elem) \/ loader'.step # "begin"
    BY <1>3, <2>1 DEF AfterRead
  <2>3. ~Finished(i)'
    BY <1>3, <2>1, <2>2 DEF Finished, AfterRead
  <2>4. \A k \in 1..Cap(elems[i])' : loader'.step # "begin" \/ ~(k < loader'.entry)
    BY <1>3 DEF AfterRead
  <2> QED
    BY <1>3, <2>3, <2>4 DEF Written, AfterRead
<1>8. \A t, k : Overwritten(t, k) => Overwritten(t, k)'
  BY <1>1, <1>3, Facts, OverwrittenKept DEF AfterRead
<1>9. SliceInv'
  <2>1. \A j \in DOMAIN elems' : j \in DOMAIN elems /\ elems'[j] = elems[j]
    BY <1>3 DEF AfterRead
  <2> QED
    BY <1>1, <1>8, <2>1 DEF SliceInv, Count
<1>10. OidsInv'
  BY <1>1, <1>3, OidsKept DEF AfterRead
<1>11. StartedInv'
  <2>1. \A t : Position(t[1])' = Position(t[1])
    BY <1>1 DEF Position
  <2>2. CASE loader'.file = loader.file
    BY <1>1, <1>3, <2>1, <2>2 DEF StartedInv, File, AfterRead
  <2>3. CASE /\ loader'.file = loader.file + 1 /\ loader'.step = "file"
             /\ loader.file <= Len(list) /\ Content[File].outcome = "unreadable"
    <3>1. \A n \in 1..(loader'.file - 1) : n \in 1..(loader.file - 1) \/ n = loader.file
      BY <1>1, <2>3, Facts
    <3>2. \A n \in 1..(loader'.file - 1) : Content[list[n]].outcome \in {"good", "unreadable"}
      BY <1>1, <2>3, <3>1 DEF StartedInv, File
    <3>3. ASSUME NEW t \in Targets, Content[t[1]].outcome = "good"
          PROVE  Position(t[1]) < loader.file <=> Position(t[1]) < loader'.file
      <4>1. Position(t[1]) \in Nat /\ list[Position(t[1])] = t[1]
        BY <1>1, TargetType, Positions DEF TypeOK
      <4>2. Position(t[1]) # loader.file
        BY <2>3, <3>3, <4>1 DEF File
      <4> QED
        BY <1>1, <2>3, <4>1, <4>2, Facts
    <3> QED
      BY <1>1, <2>1, <2>3, <3>2, <3>3 DEF StartedInv
  <2> QED
    BY <1>3, <2>2, <2>3 DEF AfterRead
<1> QED
  BY <1>1, <1>4, <1>5, <1>6, <1>7, <1>9, <1>10, <1>11, NothingReported DEF IInv

(* The parts that any write keeps. *)
LEMMA WroteKeeps ==
  ASSUME IInv, Decoding, NEW a, Wrote(a), loader'.step # "done",
         loader' \in [step: {"file", "begin", "end", "start", "done"},
                     file: 1..(Len(list) + 1), elem: Nat \ {0}, entry: Nat \ {0}]
  PROVE  /\ TypeOK' /\ ArraysInv' /\ SliceInv' /\ OidsInv' /\ StartedInv'
         /\ OwnEntries' /\ RateWithinOne'
         /\ File' = File /\ Oids' = Oids
         /\ Len(elems') \in Nat /\ DOMAIN elems' = 1..Len(elems')
         /\ loader.elem \in DOMAIN elems'
<1>1. /\ TypeOK /\ ArraysInv /\ LoaderInv /\ SliceInv /\ OidsInv /\ StartedInv
      /\ UNCHANGED <<list, pc, slice, oids, counter>> /\ report' = NoReport
      /\ loader'.file = loader.file
  BY DEF IInv, Wrote, goroutines
<1>2. TypeOK'
  BY <1>1, WroteTypes DEF TypeOK
<1>3. ArraysInv'
  BY <1>1, WroteArrays
<1>4. SliceInv'
  BY <1>1, WroteSlices
<1>5. OidsInv'
  BY <1>1, Facts, OidsKept
<1>6. StartedInv'
  BY <1>1, StartedKept
<1>7. File' = File /\ Oids' = Oids
  BY <1>1 DEF File, Oids
<1>8. elems' \in Seq([array: 1..Len(arrays'), len: Nat]) /\ loader.elem \in DOMAIN elems'
  BY DEF Wrote
<1> QED
  BY <1>1, <1>2, <1>3, <1>4, <1>5, <1>6, <1>7, <1>8, NothingReported

LEMMA BeginEntryStep ==
  ASSUME IInv, BeginEntry
  PROVE  IInv'
<1>1. /\ TypeOK /\ ArraysInv /\ LoaderInv /\ DecodedInv /\ Decoding
      /\ loader.step = "begin" /\ loader' = [loader EXCEPT !.step = "end"]
  BY DEF IInv, BeginEntry, Decoding
<1>2. /\ loader'.step = "end" /\ loader'.step # "done" /\ loader'.file = loader.file
      /\ loader'.elem = loader.elem /\ loader'.entry = loader.entry
      /\ loader' \in [step: {"file", "begin", "end", "start", "done"},
                      file: 1..(Len(list) + 1), elem: Nat \ {0}, entry: Nat \ {0}]
  BY <1>1 DEF TypeOK
<1>3. PICK a : Wrote(a)
  BY <1>1, BeginWrites
<1>4. /\ TypeOK' /\ ArraysInv' /\ SliceInv' /\ OidsInv' /\ StartedInv'
      /\ OwnEntries' /\ RateWithinOne'
      /\ File' = File /\ Oids' = Oids /\ list' = list
      /\ Len(elems') \in Nat /\ DOMAIN elems' = 1..Len(elems')
      /\ loader.elem \in DOMAIN elems' /\ loader.entry <= elems'[loader.elem].len
  <2>1. /\ TypeOK' /\ ArraysInv' /\ SliceInv' /\ OidsInv' /\ StartedInv'
        /\ OwnEntries' /\ RateWithinOne'
        /\ File' = File /\ Oids' = Oids
        /\ Len(elems') \in Nat /\ DOMAIN elems' = 1..Len(elems')
        /\ loader.elem \in DOMAIN elems'
    BY <1>1, <1>2, <1>3, WroteKeeps, Zenon
  <2>2. list' = list /\ loader.entry <= elems'[loader.elem].len
    BY <1>3 DEF Wrote
  <2> QED
    BY <2>1, <2>2
<1>5. LoaderInv'
  <2>1. loader.elem <= Len(elems') + 1
    BY <1>4
  <2> QED
    BY <1>1, <1>2, <1>4, <2>1 DEF LoaderInv
<1>6. DecodedInv'
  <2> SUFFICES ASSUME NEW i \in DOMAIN elems'
               PROVE  /\ Finished(i)' => elems'[i].len = Oids[i]
                      /\ \A k \in 1..Cap(elems[i])' :
                           Written(i, k)' => arrays'[elems'[i].array][k] = <<File, i, k>>
    BY <1>4 DEF DecodedInv
  <2>1. Finished(i)' => elems'[i].len = Oids[i]
    <3>1. Finished(i)' => Finished(i)
      BY <1>1, <1>2, <1>4 DEF Finished
    <3> QED
      BY <1>1, <1>3, <3>1, WroteDecoded
  <2>2. ASSUME NEW k \in 1..Cap(elems[i])', Written(i, k)'
        PROVE  arrays'[elems'[i].array][k] = <<File, i, k>>
    <3>1. Written(i, k)
      BY <1>1, <1>2, <1>4, <2>2 DEF Finished, Written
    <3> QED
      BY <1>1, <1>3, <3>1, WroteDecoded
  <2> QED
    BY <2>1, <2>2
<1> QED
  BY <1>4, <1>5, <1>6 DEF IInv

LEMMA EndEntryStep ==
  ASSUME IInv, EndEntry
  PROVE  IInv'
<1> SUFFICES ASSUME NEW i, i = loader.elem, NEW k, k = loader.entry, NEW a, a = elems[i].array
             PROVE  IInv'
  OBVIOUS
<1>1. /\ TypeOK /\ ArraysInv /\ LoaderInv /\ DecodedInv /\ Decoding /\ loader.step = "end"
  BY DEF IInv, EndEntry, Decoding
<1>2. Wrote(a) /\ arrays'[a][k] = <<File, i, k>>
  BY <1>1, EndWrites
<1>3. /\ i \in DOMAIN Oids /\ k \in 1..Oids[i] /\ i \in DOMAIN elems /\ i \in Nat \ {0}
      /\ Oids[i] \in Nat /\ Len(Oids) \in Nat /\ DOMAIN Oids = 1..Len(Oids)
      /\ loader.file \in 1..(Len(list) + 1)
      /\ \A j \in DOMAIN Oids : Oids[j] \in Nat \ {0}
      /\ loader.file <= Len(list) /\ Content[File].outcome \in Decodable
  BY <1>1, FileFacts, Facts DEF LoaderInv
<1>4. \/ /\ k < Oids[i] /\ loader'.step = "begin" /\ loader'.elem = i /\ loader'.entry = k + 1
      \/ /\ k = Oids[i] /\ elems'[i].len = k
         /\ i < Len(Oids) /\ loader'.step = "begin" /\ loader'.elem = i + 1 /\ loader'.entry = 1
      \/ /\ k = Oids[i] /\ elems'[i].len = k
         /\ i = Len(Oids) /\ loader'.step = "start"
  <2>1. CASE k < Oids[i]
    <3>1. loader' = [loader EXCEPT !.step = "begin", !.entry = k + 1]
      BY <2>1 DEF EndEntry
    <3>2. loader' = [step |-> "begin", file |-> loader.file, elem |-> i, entry |-> k + 1]
      BY <1>1, <3>1 DEF TypeOK
    <3> QED
      BY <2>1, <3>2
  <2>2. CASE ~(k < Oids[i])
    <3>1. k = Oids[i]
      BY <1>3, <2>2
    <3>2. /\ loader' = IF i < Len(Oids)
                       THEN [loader EXCEPT !.step = "begin", !.elem = i + 1, !.entry = 1]
                       ELSE [loader EXCEPT !.step = "start"]
          /\ elems' = [elems EXCEPT ![i] = [@ EXCEPT !.len = k]]
      BY <2>2 DEF EndEntry
    <3>3. elems'[i].len = k
      <4>1. elems[i] \in Slices
        BY <1>1, <1>3, ElementType
      <4>2. elems'[i] = [elems[i] EXCEPT !.len = k]
        BY <1>3, <3>2
      <4> QED
        BY <4>1, <4>2 DEF Slices
    <3>4. CASE i < Len(Oids)
      <4>1. loader' = [loader EXCEPT !.step = "begin", !.elem = i + 1, !.entry = 1]
        BY <3>2, <3>4
      <4>2. loader' = [step |-> "begin", file |-> loader.file, elem |-> i + 1, entry |-> 1]
        BY <1>1, <4>1 DEF TypeOK
      <4> QED
        BY <3>1, <3>3, <3>4, <4>2
    <3>5. CASE ~(i < Len(Oids))
      <4>1. loader' = [loader EXCEPT !.step = "start"]
        BY <3>2, <3>5
      <4>2. loader'.step = "start"
        BY <1>1, <4>1 DEF TypeOK
      <4>3. i = Len(Oids)
        BY <1>3, <3>5
      <4> QED
        BY <3>1, <3>3, <4>2, <4>3
    <3> QED
      BY <3>4, <3>5
  <2> QED
    BY <2>1, <2>2
<1>5. loader' \in [step: {"file", "begin", "end", "start", "done"},
                  file: 1..(Len(list) + 1), elem: Nat \ {0}, entry: Nat \ {0}]
  <2>1. \/ loader' = [loader EXCEPT !.step = "begin", !.entry = k + 1]
        \/ loader' = [loader EXCEPT !.step = "begin", !.elem = i + 1, !.entry = 1]
        \/ loader' = [loader EXCEPT !.step = "start"]
    BY DEF EndEntry
  <2>2. i + 1 \in Nat \ {0} /\ k + 1 \in Nat \ {0} /\ 1 \in Nat \ {0}
    BY <1>3
  <2>3. CASE loader' = [loader EXCEPT !.step = "begin", !.entry = k + 1]
    BY <1>1, <2>2, <2>3 DEF TypeOK
  <2>4. CASE loader' = [loader EXCEPT !.step = "begin", !.elem = i + 1, !.entry = 1]
    BY <1>1, <2>2, <2>4 DEF TypeOK
  <2>5. CASE loader' = [loader EXCEPT !.step = "start"]
    BY <1>1, <2>5 DEF TypeOK
  <2> QED
    BY <2>1, <2>3, <2>4, <2>5
<1>6. /\ TypeOK' /\ ArraysInv' /\ SliceInv' /\ OidsInv' /\ StartedInv'
      /\ OwnEntries' /\ RateWithinOne'
      /\ File' = File /\ Oids' = Oids /\ list' = list /\ loader'.file = loader.file
      /\ Len(elems') \in Nat /\ DOMAIN elems' = 1..Len(elems')
      /\ i \in DOMAIN elems' /\ k <= elems'[i].len /\ elems'[i].array = a
      /\ k <= Len(arrays'[a])
  <2>1. loader'.step # "done"
    BY <1>4
  <2> QED
    <3>1. /\ TypeOK' /\ ArraysInv' /\ SliceInv' /\ OidsInv' /\ StartedInv'
          /\ OwnEntries' /\ RateWithinOne'
          /\ File' = File /\ Oids' = Oids
          /\ Len(elems') \in Nat /\ DOMAIN elems' = 1..Len(elems')
          /\ loader.elem \in DOMAIN elems'
      BY <1>1, <1>2, <1>5, <2>1, WroteKeeps, Zenon
    <3>2. /\ list' = list /\ loader'.file = loader.file /\ k <= Len(arrays'[a])
          /\ k <= elems'[i].len /\ elems'[i].array = a
      BY <1>2 DEF Wrote
    <3> QED
      BY <3>1, <3>2
<1>7. Cap(elems[i])' = Len(arrays'[a])
  BY <1>1, <1>2, <1>6, WroteFacts
<1>8. \A j \in DOMAIN elems' :
        /\ Finished(j) => elems'[j].len = Oids[j]
        /\ \A m \in 1..Cap(elems[j])' :
             Written(j, m) => arrays'[elems'[j].array][m] = <<File, j, m>>
  BY <1>1, <1>2, WroteDecoded
<1>9. LoaderInv'
  <2>1. CASE /\ k < Oids[i] /\ loader'.step = "begin" /\ loader'.elem = i /\ loader'.entry = k + 1
    <3>1. k + 1 \in 1..Oids[i] /\ k + 1 - 1 = k /\ i <= Len(elems') + 1
      BY <1>3, <1>6, <2>1
    <3>2. Cap(Element)' = Len(arrays'[a])
      <4>1. Element' = elems'[i]
        <5>1. loader'.elem = i /\ i \in DOMAIN elems'
          BY <1>6, <2>1
        <5> QED
          BY <5>1 DEF Element
      <4> QED
        BY <1>7, <4>1 DEF Cap
    <3> QED
      BY <1>3, <1>6, <2>1, <3>1, <3>2 DEF LoaderInv
  <2>2. CASE /\ i < Len(Oids) /\ loader'.step = "begin" /\ loader'.elem = i + 1 /\ loader'.entry = 1
    <3>1. i + 1 \in DOMAIN Oids /\ 1 \in 1..Oids[i + 1] /\ i + 1 <= Len(elems') + 1
      BY <1>3, <1>6, <2>2
    <3>2. Cap(Element)' \in Nat
      <4>1. CASE i + 1 \in DOMAIN elems'
        <5>1. Element' = elems'[i + 1]
          BY <2>2, <4>1 DEF Element
        <5>2. /\ Cap(elems[i + 1])' = Len(arrays'[elems'[i + 1].array])
              /\ Len(arrays'[elems'[i + 1].array]) \in Nat
          BY <1>1, <1>2, <4>1, WroteFacts
        <5> QED
          BY <5>1, <5>2 DEF Cap
      <4>2. CASE i + 1 \notin DOMAIN elems'
        <5>1. Element' = NoSlice
          BY <2>2, <4>2 DEF Element
        <5> QED
          BY <5>1 DEF Cap, NoSlice
      <4> QED
        BY <4>1, <4>2
    <3> QED
      BY <1>3, <1>6, <2>2, <3>1, <3>2 DEF LoaderInv
  <2>3. CASE i = Len(Oids) /\ loader'.step = "start"
    BY <1>3, <1>6, <2>3 DEF LoaderInv
  <2> QED
    BY <1>4, <2>1, <2>2, <2>3
<1>10. DecodedInv'
  <2> SUFFICES ASSUME NEW j \in DOMAIN elems'
               PROVE  /\ Finished(j)' => elems'[j].len = Oids[j]
                      /\ \A m \in 1..Cap(elems[j])' :
                           Written(j, m)' => arrays'[elems'[j].array][m] = <<File, j, m>>
    BY <1>6 DEF DecodedInv
  <2>1. j \in Nat \ {0} /\ \A m \in 1..Cap(elems[j])' : m \in Nat \ {0}
    <3>1. Cap(elems[j])' \in Nat
      BY <1>1, <1>2, WroteFacts
    <3> QED
      BY <1>6, <3>1
  <2>2. Finished(j)' => Finished(j) \/ (j = i /\ k = Oids[i] /\ elems'[i].len = k)
    BY <1>1, <1>3, <1>4, <1>6, <2>1 DEF Finished
  <2>3. ASSUME NEW m \in 1..Cap(elems[j])', Written(j, m)'
        PROVE  Written(j, m) \/ (j = i /\ m = k)
    <3>1. CASE Finished(j)' /\ m <= Oids[j]
      BY <1>1, <1>3, <2>1, <2>2, <3>1 DEF Written
    <3>2. CASE loader'.step \in {"begin", "end"} /\ j = loader'.elem /\ m < loader'.entry
      BY <1>1, <1>3, <1>4, <2>1, <3>2 DEF Written
    <3> QED
      BY <1>6, <2>3, <3>1, <3>2 DEF Written
  <2> QED
    BY <1>2, <1>6, <1>8, <2>2, <2>3
<1> QED
  BY <1>6, <1>9, <1>10 DEF IInv

LEMMA StartTargetsStep ==
  ASSUME IInv, StartTargets
  PROVE  IInv'
<1>1. /\ TypeOK /\ ArraysInv /\ LoaderInv /\ DecodedInv /\ SliceInv /\ OidsInv /\ StartedInv
      /\ loader.step = "start" /\ UNCHANGED <<list, arrays, elems, oids, counter>>
      /\ report' = NoReport
  BY DEF IInv, StartTargets, Silent
<1>2. /\ loader.file \in 1..Len(list) /\ Content[File].outcome \in Decodable
      /\ File \in Files /\ Position(File) = loader.file /\ Len(Oids) <= Len(elems)
      /\ DOMAIN Oids \subseteq DOMAIN elems /\ Len(list) \in Nat
  BY <1>1, FileFacts, Facts DEF LoaderInv
<1>3. ArraysInv'
  BY <1>1 DEF ArraysInv
<1>4. \A t : Position(t[1])' = Position(t[1])
  BY <1>1 DEF Position
<1>5. Slices' = Slices /\ \A c : Cap(c)' = Cap(c)
  BY <1>1 DEF Slices, Cap
<1>6. CASE Content[File].outcome = "mistyped"
  <2>1. loader' = [loader EXCEPT !.step = "done"] /\ UNCHANGED <<pc, slice>>
    BY <1>6 DEF StartTargets
  <2>2. loader'.step = "done" /\ loader'.file = loader.file
        /\ loader' \in [step: {"file", "begin", "end", "start", "done"},
                        file: 1..(Len(list) + 1), elem: Nat \ {0}, entry: Nat \ {0}]
    BY <1>1, <2>1 DEF TypeOK
  <2>3. TypeOK'
    BY <1>1, <1>5, <2>1, <2>2 DEF TypeOK, NoReport, Cap
  <2>4. LoaderInv' /\ DecodedInv'
    BY <2>2 DEF LoaderInv, DecodedInv, Finished, Written
  <2>5. \A t, k : Overwritten(t, k) => Overwritten(t, k)'
    BY <1>1, <1>2, <2>2, OverwrittenKept
  <2>6. SliceInv'
    BY <1>1, <2>1, <2>5 DEF SliceInv, Count
  <2>7. OidsInv'
    BY <1>1, <1>2, <2>1, <2>2, OidsKept
  <2>8. StartedInv'
    BY <1>1, <1>4, <1>6, <2>1, <2>2 DEF StartedInv, File
  <2> QED
    BY <1>1, <1>3, <2>3, <2>4, <2>6, <2>7, <2>8, NothingReported DEF IInv
<1>7. CASE Content[File].outcome = "good"
  <2>1. /\ loader' = [loader EXCEPT !.step = "file", !.file = @ + 1]
        /\ pc' = [t \in Targets |-> IF t[1] = File THEN "connect" ELSE pc[t]]
        /\ slice' = [t \in Targets |-> IF t[1] = File THEN elems[t[2]] ELSE slice[t]]
    BY <1>7 DEF StartTargets
  <2>2. loader' = [step |-> "file", file |-> loader.file + 1, elem |-> loader.elem, entry |-> loader.entry]
    BY <1>1, <2>1 DEF TypeOK
  <2>3. /\ loader'.step = "file" /\ loader'.file = loader.file + 1
        /\ loader' \in [step: {"file", "begin", "end", "start", "done"},
                        file: 1..(Len(list) + 1), elem: Nat \ {0}, entry: Nat \ {0}]
    BY <1>1, <1>2, <2>2, Facts
  <2>4. \A t \in Targets : t[1] = File <=> Position(t[1]) = loader.file
    BY <1>1, <1>2, TargetType, Positions DEF TypeOK, File
  <2>5. \A t \in Targets : t[1] = File => pc[t] = "none"
    BY <1>1, <1>2, <2>4 DEF StartedInv
  <2>6. ASSUME NEW t \in Targets, t[1] = File
        PROVE  /\ t[2] \in DOMAIN elems /\ t[2] \in DOMAIN Oids /\ Oids[t[2]] = Count(t)
               /\ Finished(t[2])
    BY <1>1, <1>2, <2>6, TargetType DEF Oids, Count, Finished
  <2>7. TypeOK'
    <3>1. slice' \in [Targets -> Slices]
      <4>1. \A t \in Targets : (IF t[1] = File THEN elems[t[2]] ELSE slice[t]) \in Slices
        BY <1>1, <2>6, ElementType DEF TypeOK
      <4> QED
        BY <2>1, <4>1
    <3>2. pc' \in [Targets -> {"none", "connect", "oids", "baseline", "wait", "ended"}]
      BY <1>1, <2>1 DEF TypeOK
    <3> QED
      BY <1>1, <1>5, <2>3, <3>1, <3>2 DEF TypeOK, NoReport, Cap
  <2>8. LoaderInv' /\ DecodedInv'
    BY <2>3 DEF LoaderInv, DecodedInv, Finished, Written
  <2>9. \A t, k : Overwritten(t, k) => Overwritten(t, k)'
    BY <1>1, <1>2, <2>3, OverwrittenKept
  <2>10. SliceInv'
    <3> SUFFICES ASSUME NEW t \in Targets, pc'[t] # "none"
                 PROVE  /\ slice'[t].array # 0
                        /\ slice'[t].len = Count(t)
                        /\ Count(t) <= Len(arrays[slice'[t].array])
                        /\ \A j \in DOMAIN elems : elems[j].array = slice'[t].array => j = t[2]
                        /\ \A k \in 1..Count(t) :
                             arrays[slice'[t].array][k] = t \o <<k>> \/ Overwritten(t, k)'
      BY <1>1 DEF SliceInv, Count
    <3>1. CASE t[1] = File
      <4> DEFINE e == elems[t[2]]
      <4>1. slice'[t] = e
        BY <2>1, <3>1
      <4>2. /\ e.array # 0 /\ e.len = Count(t) /\ e.len <= Len(arrays[e.array])
            /\ Cap(e) = Len(arrays[e.array]) /\ Len(arrays[e.array]) \in Nat
        BY <1>1, <2>6, <3>1, ElementType, ArrayType DEF ArraysInv, DecodedInv
      <4>3. \A j \in DOMAIN elems : elems[j].array = e.array => j = t[2]
        BY <1>1, <2>6, <3>1 DEF ArraysInv
      <4>4. ASSUME NEW k \in 1..Count(t)
            PROVE  arrays[e.array][k] = t \o <<k>>
        <5>1. k \in 1..Cap(e) /\ Count(t) \in Nat
          BY <4>2, TargetType
        <5>2. Written(t[2], k)
          BY <2>6, <3>1, <5>1 DEF Written
        <5>3. arrays[e.array][k] = <<File, t[2], k>>
          BY <1>1, <2>6, <3>1, <5>1, <5>2 DEF DecodedInv
        <5> QED
          BY <3>1, <5>3, TargetEntry
      <4> QED
        BY <4>1, <4>2, <4>3, <4>4
    <3>2. CASE t[1] # File
      <4>1. slice'[t] = slice[t] /\ pc[t] # "none"
        BY <2>1, <3>2
      <4> QED
        BY <1>1, <2>9, <4>1 DEF SliceInv
    <3> QED
      BY <3>1, <3>2
  <2>11. OidsInv'
    <3>1. \A t \in Targets : pc'[t] = pc[t] \/ (pc[t] = "none" /\ pc'[t] = "connect")
      BY <2>1, <2>5
    <3> QED
      BY <1>1, <1>2, <2>3, <3>1, OidsKept
  <2>12. StartedInv'
    <3>1. \A n \in 1..(loader'.file - 1) : n \in 1..(loader.file - 1) \/ n = loader.file
      BY <1>2, <2>3
    <3>2. \A n \in 1..(loader'.file - 1) : Content[list[n]].outcome \in {"good", "unreadable"}
      BY <1>1, <1>7, <3>1 DEF StartedInv, File
    <3>3. ASSUME NEW t \in Targets
          PROVE  pc'[t] # "none" <=>
                   Content[t[1]].outcome = "good" /\ Position(t[1]) < loader'.file
      <4>1. Position(t[1]) \in Nat
        BY <1>1, <1>2, TargetType, Positions DEF TypeOK
      <4>2. CASE t[1] = File
        BY <1>2, <1>7, <2>1, <2>3, <2>4, <4>2
      <4>3. CASE t[1] # File
        <5>1. pc'[t] = pc[t] /\ Position(t[1]) # loader.file
          BY <2>1, <2>4, <4>3
        <5>2. Position(t[1]) < loader'.file <=> Position(t[1]) < loader.file
          BY <1>2, <2>3, <4>1, <5>1
        <5> QED
          BY <1>1, <5>1, <5>2 DEF StartedInv
      <4> QED
        BY <4>2, <4>3
    <3> QED
      BY <1>1, <1>4, <2>3, <3>2, <3>3 DEF StartedInv
  <2> QED
    BY <1>1, <1>3, <2>7, <2>8, <2>10, <2>11, <2>12, NothingReported DEF IInv
<1> QED
  BY <1>2, <1>6, <1>7 DEF Decodable
-----------------------------------------------------------------------------
(* The steps of a goroutine.  They leave the memory and the loader alone.  *)

LEMMA MemoryKept ==
  ASSUME IInv, UNCHANGED <<list, loader, arrays, elems, slice>>,
         \A t \in Targets : pc'[t] = "none" <=> pc[t] = "none"
  PROVE  /\ ArraysInv' /\ LoaderInv' /\ DecodedInv' /\ SliceInv' /\ StartedInv'
         /\ Slices' = Slices /\ \A t, k : Overwritten(t, k)' <=> Overwritten(t, k)
<1>1. /\ ArraysInv /\ LoaderInv /\ DecodedInv /\ SliceInv /\ StartedInv
  BY DEF IInv
<1>2. \A c : Cap(c)' = Cap(c)
  BY DEF Cap
<1>3. File' = File /\ Oids' = Oids /\ Slices' = Slices
  BY DEF File, Oids, Slices
<1>4. \A t : Position(t[1])' = Position(t[1])
  BY DEF Position
<1>5. \A t, k : Overwritten(t, k)' <=> Overwritten(t, k)
  BY DEF Overwritten, Position
<1>6. ArraysInv'
  BY <1>1 DEF ArraysInv
<1>7. LoaderInv'
  BY <1>1 DEF LoaderInv, Element, Cap, File, Oids
<1>8. DecodedInv'
  BY <1>1 DEF DecodedInv, Finished, Written, Cap, File, Oids
<1>9. SliceInv'
  BY <1>1, <1>5 DEF SliceInv, Count
<1>10. StartedInv'
  BY <1>1, <1>4 DEF StartedInv, File
<1> QED
  BY <1>3, <1>5, <1>6, <1>7, <1>8, <1>9, <1>10

(* One goroutine moves: its place, its copies and its counters.            *)
LEMMA OneMoves ==
  ASSUME IInv, NEW t \in Targets, UNCHANGED <<list, loader, arrays, elems, slice>>,
         report' = NoReport,
         NEW p \in {"oids", "baseline", "wait", "ended"}, pc' = [pc EXCEPT ![t] = p], pc[t] # "none",
         NEW o \in Seq(Place), oids' = [oids EXCEPT ![t] = o],
         counter' \in [Targets -> [value: 0..(Modulus - 1), type: 0..2]],
         p = "oids" => Len(o) < Count(t),
         p \in {"baseline", "wait"} => Len(o) = Count(t),
         \A k \in DOMAIN o : o[k] = t \o <<k>> \/ Overwritten(t, k)
  PROVE  IInv'
<1>1. TypeOK /\ OidsInv
  BY DEF IInv
<1>2. /\ \A u \in Targets : pc'[u] = IF u = t THEN p ELSE pc[u]
      /\ \A u \in Targets : oids'[u] = IF u = t THEN o ELSE oids[u]
      /\ pc' \in [Targets -> {"none", "connect", "oids", "baseline", "wait", "ended"}]
      /\ oids' \in [Targets -> Seq(Place)]
  BY <1>1 DEF TypeOK
<1>3. \A u \in Targets : pc'[u] = "none" <=> pc[u] = "none"
  BY <1>2
<1>4. /\ ArraysInv' /\ LoaderInv' /\ DecodedInv' /\ SliceInv' /\ StartedInv'
      /\ Slices' = Slices /\ \A u, k : Overwritten(u, k)' <=> Overwritten(u, k)
  BY <1>3, MemoryKept
<1>5. TypeOK'
  BY <1>1, <1>2, <1>4 DEF TypeOK, NoReport, Cap
<1>6. OidsInv'
  <2> SUFFICES ASSUME NEW u \in Targets
               PROVE  /\ pc'[u] \in {"none", "connect"} => oids'[u] = <<>>
                      /\ pc'[u] = "oids" => Len(oids'[u]) < Count(u)
                      /\ pc'[u] \in {"baseline", "wait"} => Len(oids'[u]) = Count(u)
                      /\ \A k \in DOMAIN oids'[u] :
                           oids'[u][k] = u \o <<k>> \/ Overwritten(u, k)'
    BY DEF OidsInv, Count
  <2>1. CASE u = t
    BY <1>2, <1>4, <2>1
  <2>2. CASE u # t
    BY <1>1, <1>2, <1>4, <2>2 DEF OidsInv
  <2> QED
    BY <2>1, <2>2
<1> QED
  BY <1>4, <1>5, <1>6, NothingReported DEF IInv

LEMMA ConnectStep ==
  ASSUME IInv, NEW t \in Targets, Connect(t)
  PROVE  IInv'
<1>1. TypeOK /\ OidsInv /\ pc[t] = "connect"
  BY DEF IInv, Connect
<1>2. PICK p \in {"oids", "ended"} : pc' = [pc EXCEPT ![t] = p]
  BY DEF Connect, Goto
<1>3. /\ UNCHANGED <<list, loader, arrays, elems, slice>> /\ report' = NoReport
      /\ counter' \in [Targets -> [value: 0..(Modulus - 1), type: 0..2]]
      /\ oids' = [oids EXCEPT ![t] = oids[t]]
  BY <1>1 DEF Connect, Silent, TypeOK
<1>4. oids[t] = <<>> /\ oids[t] \in Seq(Place) /\ Len(oids[t]) = 0 /\ DOMAIN oids[t] = {}
  BY <1>1 DEF OidsInv, TypeOK
<1>5. Len(oids[t]) < Count(t)
  BY <1>4, TargetType
<1> QED
  BY <1>1, <1>2, <1>3, <1>4, <1>5, OneMoves

LEMMA CopyOidStep ==
  ASSUME IInv, NEW t \in Targets, CopyOid(t)
  PROVE  IInv'
<1> SUFFICES ASSUME NEW k, k = Len(oids[t]) + 1,
                    NEW x, x = arrays[slice[t].array][k],
                    NEW o, o = Append(oids[t], x)
             PROVE  IInv'
  OBVIOUS
<1>1. TypeOK /\ ArraysInv /\ SliceInv /\ OidsInv /\ pc[t] = "oids"
  BY DEF IInv, CopyOid
<1>2. /\ UNCHANGED <<list, loader, arrays, elems, slice>> /\ report' = NoReport
      /\ counter' \in [Targets -> [value: 0..(Modulus - 1), type: 0..2]]
      /\ oids' = [oids EXCEPT ![t] = o]
      /\ IF k >= slice[t].len THEN pc' = [pc EXCEPT ![t] = "baseline"] ELSE pc' = pc
  BY <1>1 DEF CopyOid, Slice, Goto, Silent, TypeOK
<1>3. /\ slice[t].array # 0 /\ slice[t].len = Count(t) /\ Count(t) <= Len(arrays[slice[t].array])
      /\ \A j \in 1..Count(t) :
           arrays[slice[t].array][j] = t \o <<j>> \/ Overwritten(t, j)
  BY <1>1 DEF SliceInv
<1>4. /\ Count(t) \in Nat /\ oids[t] \in Seq(Place) /\ Len(oids[t]) \in Nat
      /\ Len(oids[t]) < Count(t) /\ slice[t].array \in 1..Len(arrays)
  <2>1. Count(t) \in Nat
    BY TargetType
  <2>2. /\ oids[t] \in Seq(Place) /\ Len(oids[t]) \in Nat
        /\ slice[t].array \in 0..Len(arrays) /\ Len(arrays) \in Nat
    BY <1>1, Facts
  <2>3. Len(oids[t]) < Count(t)
    BY <1>1 DEF OidsInv
  <2> QED
    BY <1>3, <2>1, <2>2, <2>3
<1>5. k \in 1..Count(t) /\ x \in Place /\ (x = t \o <<k>> \/ Overwritten(t, k))
  <2>1. k \in 1..Count(t)
    BY <1>4
  <2>2. k \in 1..Len(arrays[slice[t].array])
    BY <1>1, <1>3, <1>4, <2>1, ArrayType
  <2> QED
    BY <1>1, <1>3, <1>4, <2>1, <2>2, ArrayType
<1>6. /\ o \in Seq(Place) /\ Len(o) = k /\ o[k] = x
      /\ \A j \in 1..Len(oids[t]) : o[j] = oids[t][j]
  <2> DEFINE copied == oids[t]
  <2>1. copied \in Seq(Place) /\ Len(copied) \in Nat
    BY <1>4
  <2>2. o = Append(copied, x) /\ k = Len(copied) + 1
    OBVIOUS
  <2> HIDE DEF copied
  <2>3. /\ o \in Seq(Place) /\ Len(o) = k /\ o[k] = x
        /\ \A j \in 1..Len(copied) : o[j] = copied[j]
    <3>1. /\ Append(copied, x) \in Seq(Place) /\ Len(Append(copied, x)) = Len(copied) + 1
          /\ Append(copied, x)[Len(copied) + 1] = x
          /\ \A j \in 1..Len(copied) : Append(copied, x)[j] = copied[j]
      BY <1>5, <2>1, AppendProperties
    <3> QED
      BY <2>2, <3>1
  <2> QED
    BY <2>3 DEF copied
<1>7. \A j \in DOMAIN o : o[j] = t \o <<j>> \/ Overwritten(t, j)
  <2>1. DOMAIN o = 1..k /\ DOMAIN oids[t] = 1..Len(oids[t])
    BY <1>4, <1>6
  <2>2. \A j \in 1..k : j \in 1..Len(oids[t]) \/ j = k
    BY <1>4
  <2>3. \A j \in DOMAIN oids[t] : oids[t][j] = t \o <<j>> \/ Overwritten(t, j)
    BY <1>1 DEF OidsInv
  <2> QED
    BY <1>5, <1>6, <2>1, <2>2, <2>3
<1>8. CASE k >= slice[t].len
  <2>1. pc' = [pc EXCEPT ![t] = "baseline"] /\ Len(o) = Count(t)
    <3>1. pc' = [pc EXCEPT ![t] = "baseline"]
      BY <1>2, <1>8
    <3>2. k >= Count(t) /\ k \in 1..Count(t) /\ Count(t) \in Nat
      BY <1>3, <1>4, <1>5, <1>8
    <3>3. k = Count(t)
      BY <3>2
    <3> QED
      BY <1>6, <3>1, <3>3
  <2> QED
    BY <1>1, <1>2, <1>6, <1>7, <2>1, OneMoves
<1>9. CASE ~(k >= slice[t].len)
  <2>1. pc' = [pc EXCEPT ![t] = "oids"] /\ Len(o) < Count(t)
    <3>1. pc' = pc /\ pc[t] = "oids"
      BY <1>1, <1>2, <1>9
    <3>2. pc' = [pc EXCEPT ![t] = "oids"]
      BY <1>1, <3>1 DEF TypeOK
    <3>3. k \in 1..Count(t) /\ Count(t) \in Nat /\ ~(k >= Count(t))
      BY <1>3, <1>4, <1>5, <1>9
    <3>4. k < Count(t)
      BY <3>3
    <3> QED
      BY <1>6, <3>2, <3>4
  <2> QED
    BY <1>1, <1>2, <1>6, <1>7, <2>1, OneMoves
<1> QED
  BY <1>8, <1>9

LEMMA BaselineStep ==
  ASSUME IInv, NEW t \in Targets, Baseline(t) \/ ReadFails(t)
  PROVE  IInv'
<1>1. TypeOK /\ OidsInv /\ pc[t] \in {"baseline", "wait"}
  BY DEF IInv, Baseline, ReadFails
<1>2. PICK p \in {"baseline", "wait"} : pc' = [pc EXCEPT ![t] = p]
  BY DEF Baseline, ReadFails, Goto
<1>3. /\ UNCHANGED <<list, loader, arrays, elems, slice>> /\ report' = NoReport
      /\ oids' = [oids EXCEPT ![t] = oids[t]]
  BY <1>1 DEF Baseline, ReadFails, Silent, TypeOK
<1>4. counter' \in [Targets -> [value: 0..(Modulus - 1), type: 0..2]]
  <2>1. CASE Baseline(t)
    <3>1. Content[t[1]].types \subseteq 0..2
      BY TargetType, FilesAssumption
    <3> QED
      BY <1>1, <2>1, <3>1 DEF Baseline, TypeOK
  <2>2. CASE ReadFails(t)
    BY <1>1, <2>2 DEF ReadFails, TypeOK
  <2> QED
    BY <2>1, <2>2
<1>5. /\ oids[t] \in Seq(Place) /\ Len(oids[t]) = Count(t)
      /\ \A k \in DOMAIN oids[t] : oids[t][k] = t \o <<k>> \/ Overwritten(t, k)
  BY <1>1 DEF OidsInv, TypeOK
<1> QED
  BY <1>1, <1>2, <1>3, <1>4, <1>5, OneMoves

LEMMA PollStep ==
  ASSUME IInv, NEW t \in Targets, Poll(t)
  PROVE  IInv'
<1>1. TypeOK /\ ArraysInv /\ SliceInv /\ OidsInv /\ pc[t] = "wait"
      /\ UNCHANGED <<list, loader, arrays, elems, pc, slice, oids>>
  BY DEF IInv, Poll
<1>2. PICK growth \in Growths(counter[t].type) :
        LET old == counter[t].value
            new == (old + growth) % Modulus
        IN /\ report' =
                [target |-> t,
                 entries |-> [k \in DOMAIN oids[t] |->
                                <<oids[t][k], arrays[Slice(t).array][k]>>],
                 rate |-> Rate(counter[t].type, old, new),
                 growth |-> IF counter[t].type = 2 THEN new ELSE growth,
                 wrapped |-> counter[t].type = 0 /\ new < old]
           /\ counter' = [counter EXCEPT ![t].value = new]
  BY DEF Poll
<1> SUFFICES ASSUME NEW old, old = counter[t].value, NEW new, new = (old + growth) % Modulus,
                    NEW type, type = counter[t].type
             PROVE  IInv'
  OBVIOUS
<1>3. old \in 0..(Modulus - 1) /\ type \in 0..2 /\ growth \in Growths(type)
  BY <1>1, <1>2 DEF TypeOK
<1>4. /\ new \in 0..(Modulus - 1)
      /\ Rate(type, old, new) =
           (IF type = 0 /\ new < old THEN (IF type = 2 THEN new ELSE growth) - 1
            ELSE IF type = 2 THEN new ELSE growth)
      /\ Rate(type, old, new) >= 0
  <2>1. CASE type = 0
    <3>1. growth \in 0..(Modulus - 1) /\ Rate(type, old, new) = Difference32(old, new)
      BY <1>3, <2>1 DEF Growths, Rate
    <3>2. /\ new \in 0..(Modulus - 1)
          /\ new < old => Difference32(old, new) = growth - 1 /\ growth >= 1
          /\ ~(new < old) => Difference32(old, new) = growth
      BY <1>3, <3>1, RateOf32
    <3>3. CASE new < old
      BY <2>1, <3>1, <3>2, <3>3
    <3>4. CASE ~(new < old)
      BY <2>1, <3>1, <3>2, <3>4
    <3> QED
      BY <3>3, <3>4
  <2>2. CASE type = 1
    <3>1. growth \in 0..(Modulus \div 2 - 1) /\ Rate(type, old, new) = Difference64(old, new)
      BY <1>3, <2>2 DEF Growths, Rate
    <3>2. new \in 0..(Modulus - 1) /\ Difference64(old, new) = growth
      BY <1>3, <3>1, RateOf64
    <3> QED
      BY <2>2, <3>1, <3>2
  <2>3. CASE type = 2
    <3>1. growth \in 0..(Modulus - 1) /\ Rate(type, old, new) = new
      BY <1>3, <2>3 DEF Growths, Rate
    <3>2. new \in 0..(Modulus - 1)
      BY <1>3, <3>1, RateOf32
    <3> QED
      BY <2>3, <3>1, <3>2
  <2> QED
    BY <1>3, <2>1, <2>2, <2>3
<1>5. /\ slice[t].array # 0 /\ Count(t) <= Len(arrays[slice[t].array])
      /\ \A k \in 1..Count(t) :
           arrays[slice[t].array][k] = t \o <<k>> \/ Overwritten(t, k)
      /\ Count(t) \in Nat /\ slice[t].array \in 1..Len(arrays)
  <2>1. Count(t) \in Nat /\ slice[t].array \in 0..Len(arrays) /\ Len(arrays) \in Nat
    BY <1>1, Facts, TargetType
  <2>2. /\ slice[t].array # 0 /\ Count(t) <= Len(arrays[slice[t].array])
        /\ \A k \in 1..Count(t) :
             arrays[slice[t].array][k] = t \o <<k>> \/ Overwritten(t, k)
    BY <1>1 DEF SliceInv
  <2> QED
    BY <2>1, <2>2
<1>6. /\ oids[t] \in Seq(Place) /\ Len(oids[t]) = Count(t) /\ DOMAIN oids[t] = 1..Count(t)
      /\ \A k \in 1..Count(t) : oids[t][k] = t \o <<k>> \/ Overwritten(t, k)
  BY <1>1, Facts DEF OidsInv
<1>7. \A k \in 1..Count(t) : oids[t][k] \in Place /\ arrays[slice[t].array][k] \in Place
  <2>1. \A k \in 1..Count(t) : k \in 1..Len(arrays[slice[t].array])
    BY <1>1, <1>5, ArrayType
  <2> QED
    BY <1>1, <1>5, <1>6, <2>1, ArrayType, ElementOfSeq
<1>8. /\ report'.target = t
      /\ report'.entries = [k \in 1..Count(t) |-> <<oids[t][k], arrays[slice[t].array][k]>>]
      /\ report'.rate = Rate(type, old, new)
      /\ report'.growth = IF type = 2 THEN new ELSE growth
      /\ report'.wrapped <=> (type = 0 /\ new < old)
  BY <1>2, <1>6 DEF Slice
<1>9. /\ report'.entries \in Seq(Place \X Place) /\ Len(report'.entries) = Count(t)
      /\ DOMAIN report'.entries = 1..Count(t)
  <2>1. report'.entries \in [1..Count(t) -> Place \X Place]
    BY <1>7, <1>8
  <2> QED
    BY <1>5, <2>1
<1>10. counter' \in [Targets -> [value: 0..(Modulus - 1), type: 0..2]]
  BY <1>1, <1>2, <1>4 DEF TypeOK
<1>11. /\ ArraysInv' /\ LoaderInv' /\ DecodedInv' /\ SliceInv' /\ StartedInv'
       /\ Slices' = Slices /\ \A u, k : Overwritten(u, k)' <=> Overwritten(u, k)
  BY <1>1, MemoryKept
<1>12. TypeOK'
  BY <1>1, <1>9, <1>10, <1>11 DEF TypeOK, Cap
<1>13. OidsInv'
  BY <1>1, Facts, OidsKept
<1>14. OwnEntries'
  <2>1. \A k \in 1..Count(t) :
          Overwritten(t, k)' \/ report'.entries[k] = <<t \o <<k>>, t \o <<k>>>>
    <3> SUFFICES ASSUME NEW k \in 1..Count(t)
                 PROVE  Overwritten(t, k)' \/ report'.entries[k] = <<t \o <<k>>, t \o <<k>>>>
      OBVIOUS
    <3>1. Overwritten(t, k) => Overwritten(t, k)'
      BY <1>1, Facts, OverwrittenKept
    <3>2. report'.entries[k] = <<oids[t][k], arrays[slice[t].array][k]>>
      BY <1>8
    <3> QED
      BY <1>5, <1>6, <3>1, <3>2
  <2> QED
    BY <1>8, <1>9, <2>1 DEF OwnEntries, Count
<1>15. RateWithinOne'
  BY <1>4, <1>8 DEF RateWithinOne
<1> QED
  BY <1>11, <1>12, <1>13, <1>14, <1>15 DEF IInv
-----------------------------------------------------------------------------
(* The theorems. *)

LEMMA InitIInv == Init => IInv
<1> SUFFICES ASSUME Init
             PROVE  IInv
  OBVIOUS
<1>1. /\ list \in SetToSeqs(Files) /\ arrays = <<>> /\ elems = <<>> /\ report = NoReport
      /\ loader = [step |-> "file", file |-> 1, elem |-> 1, entry |-> 1]
      /\ pc = [t \in Targets |-> "none"] /\ slice = [t \in Targets |-> NoSlice]
      /\ oids = [t \in Targets |-> <<>>]
      /\ counter = [t \in Targets |-> [value |-> 0, type |-> 0]]
  BY DEF Init
<1>2. /\ Len(list) \in Nat /\ Len(arrays) = 0 /\ DOMAIN arrays = {} /\ DOMAIN elems = {}
      /\ \A t \in Targets : Position(t[1]) \in 1..Len(list)
  BY <1>1, Positions, TargetType
<1>3. TypeOK
  <2>1. loader \in [step: {"file", "begin", "end", "start", "done"},
                   file: 1..(Len(list) + 1), elem: Nat \ {0}, entry: Nat \ {0}]
    BY <1>1, <1>2
  <2>2. slice \in [Targets -> Slices]
    BY <1>1, <1>2 DEF NoSlice, Slices
  <2>3. counter \in [Targets -> [value: 0..(Modulus - 1), type: 0..2]]
    BY <1>1, FilesAssumption
  <2>4. arrays \in Seq(Seq(Place)) /\ elems \in Seq(Slices) /\ report.entries \in Seq(Place \X Place)
    BY <1>1 DEF NoReport
  <2> QED
    BY <1>1, <1>2, <2>1, <2>2, <2>3, <2>4 DEF TypeOK
<1>4. ArraysInv /\ DecodedInv
  BY <1>2 DEF ArraysInv, DecodedInv
<1>5. LoaderInv
  BY <1>1 DEF LoaderInv
<1>6. SliceInv /\ OidsInv
  BY <1>1 DEF SliceInv, OidsInv
<1>7. StartedInv
  BY <1>1, <1>2 DEF StartedInv
<1>8. OwnEntries /\ RateWithinOne
  BY <1>1 DEF OwnEntries, RateWithinOne
<1> QED
  BY <1>3, <1>4, <1>5, <1>6, <1>7, <1>8 DEF IInv

(* A step that changes nothing keeps what was just reported right.         *)
LEMMA StutterStep ==
  ASSUME IInv, UNCHANGED vars
  PROVE  IInv'
<1>1. UNCHANGED <<list, loader, arrays, elems, pc, slice, oids, counter, report>>
  BY DEF vars, goroutines
<1>2. TypeOK /\ OidsInv /\ OwnEntries /\ RateWithinOne
  BY DEF IInv
<1>3. /\ ArraysInv' /\ LoaderInv' /\ DecodedInv' /\ SliceInv' /\ StartedInv' /\ Slices' = Slices
  BY <1>1, MemoryKept
<1>4. TypeOK'
  BY <1>1, <1>2, <1>3 DEF TypeOK, Cap
<1>5. OidsInv'
  BY <1>1, <1>2, Facts, OidsKept
<1>6. OwnEntries' /\ RateWithinOne'
  BY <1>1, <1>2 DEF OwnEntries, RateWithinOne, Overwritten, Position
<1> QED
  BY <1>3, <1>4, <1>5, <1>6 DEF IInv

LEMMA NextIInv == IInv /\ [Next]_vars => IInv'
<1> SUFFICES ASSUME IInv, [Next]_vars
             PROVE  IInv'
  OBVIOUS
<1>1. CASE CollectSnmp
  BY <1>1, ReadFileStep, BeginEntryStep, EndEntryStep, StartTargetsStep DEF CollectSnmp
<1>2. ASSUME NEW t \in Targets, CollectSnmpTarget(t)
      PROVE  IInv'
  BY <1>2, ConnectStep, CopyOidStep, BaselineStep, PollStep DEF CollectSnmpTarget
<1>3. CASE UNCHANGED vars
  BY <1>3, StutterStep
<1> QED
  BY <1>1, <1>2, <1>3 DEF Next

(* The inductive invariant: the memory of the decoder, the goroutines and  *)
(* what they share.                                                        *)
THEOREM Invariance == Spec => []IInv
BY InitIInv, NextIInv, PTL DEF Spec

(* Every variable has its type; no element is longer than its array.       *)
THEOREM TypeCorrect == Spec => []TypeOK
<1>1. IInv => TypeOK
  BY DEF IInv
<1> QED
  BY <1>1, Invariance, PTL

(* However many files there are, in whatever order they are decoded into   *)
(* the memory that running goroutines read, a target is polled for its own *)
(* OIDs, each under its own name, except where a later file has an OID in  *)
(* the same place (CollectSnmpTarget, json.Unmarshal in CollectSnmp).      *)
THEOREM OwnEntriesHolds == Spec => []OwnEntries
<1>1. IInv => OwnEntries
  BY DEF IInv
<1> QED
  BY <1>1, Invariance, PTL

(* For counters of any even modulus, the rate that is sent is the growth   *)
(* of the interval, less one when a counter of 32 bits went round.         *)
THEOREM RateHolds == Spec => []RateWithinOne
<1>1. IInv => RateWithinOne
  BY DEF IInv
<1> QED
  BY <1>1, Invariance, PTL

(* When CollectSnmp ends, exactly the targets of the good files before the *)
(* first one that could not be decoded have a goroutine.                   *)
THEOREM GoodFilesHolds == Spec => []GoodFilesStarted
<1>1. IInv => GoodFilesStarted
  <2> SUFFICES ASSUME IInv, loader.step = "done", NEW t \in Targets
               PROVE  pc[t] # "none" <=>
                        /\ Content[t[1]].outcome = "good"
                        /\ \A n \in 1..Position(t[1]) :
                             Content[list[n]].outcome \in {"good", "unreadable"}
    BY DEF GoodFilesStarted
  <2>1. /\ TypeOK
        /\ pc[t] # "none" <=> Content[t[1]].outcome = "good" /\ Position(t[1]) < loader.file
        /\ \A n \in 1..(loader.file - 1) : Content[list[n]].outcome \in {"good", "unreadable"}
        /\ loader.file > Len(list) \/ Content[list[loader.file]].outcome \in {"malformed", "mistyped"}
    BY DEF IInv, StartedInv, File
  <2>2. Position(t[1]) \in 1..Len(list) /\ Len(list) \in Nat /\ loader.file \in Nat \ {0}
    BY <2>1, Facts, Positions, TargetType DEF TypeOK
  <2>3. CASE Position(t[1]) < loader.file
    <3>1. \A n \in 1..Position(t[1]) : n \in 1..(loader.file - 1)
      BY <2>2, <2>3
    <3> QED
      BY <2>1, <2>3, <3>1
  <2>4. CASE ~(Position(t[1]) < loader.file)
    <3>1. loader.file \in 1..Position(t[1]) /\ ~(loader.file > Len(list))
      BY <2>2, <2>4
    <3> QED
      BY <2>1, <2>4, <3>1
  <2> QED
    BY <2>3, <2>4
<1> QED
  BY <1>1, Invariance, PTL
=============================================================================
