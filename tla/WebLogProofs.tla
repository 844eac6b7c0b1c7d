--------------------------- MODULE WebLogProofs ---------------------------
(***************************************************************************)
(* Proofs about WebLog for every set of routes, classes, time stamps and   *)
(* window length.                                                          *)
(***************************************************************************)
EXTENDS WebLog, FiniteSetTheorems, FunctionTheorems, SequenceTheorems, TLAPS

USE ConstantsAssumption DEF ConstantsAssumption

(* Any selection of positions is finite. *)
LEMMA SelectionFinite ==
  ASSUME NEW a \in Nat, NEW b \in Nat, NEW T \in SUBSET (a..b)
  PROVE  IsFiniteSet(T) /\ Cardinality(T) \in Nat
<1>1. IsFiniteSet(a..b)
  BY FS_Interval
<1>2. IsFiniteSet(T)
  BY <1>1, FS_Subset
<1> QED
  BY <1>2, FS_CardinalityType

(* A position beyond a selection adds one to it. *)
LEMMA OneMore ==
  ASSUME NEW a \in Nat, NEW b \in Nat, NEW T \in SUBSET (a..b)
  PROVE  Cardinality(T \cup {b + 1}) = Cardinality(T) + 1
<1>1. IsFiniteSet(T)
  BY SelectionFinite
<1>2. b + 1 \notin T
  OBVIOUS
<1> QED
  BY <1>1, <1>2, FS_AddElement

(* Appending a record adds one to the counts of its prefix and its route.  *)
LEMMA CountsGrow ==
  ASSUME NEW q \in Seq(ReqStat), NEW w \in ReqStat,
         NEW a \in Nat \ {0}, a <= Len(q) + 1
  PROVE  /\ \A p : Cardinality(OfPrefix(Append(q, w), p, a, Len(q) + 1)) =
                     Cardinality(OfPrefix(q, p, a, Len(q))) + (IF Prefix(w) = p THEN 1 ELSE 0)
         /\ \A r : Cardinality(OfRoute(Append(q, w), r, a, Len(q) + 1)) =
                     Cardinality(OfRoute(q, r, a, Len(q))) + (IF Shortprefix(w) = r THEN 1 ELSE 0)
<1> DEFINE n == Len(q)
<1>1. n \in Nat
  BY LenProperties
<1>2. /\ Append(q, w)[n + 1] = w
      /\ \A i \in a..n : Append(q, w)[i] = q[i]
  BY AppendProperties, LenProperties
<1>3. a..(n + 1) = (a..n) \cup {n + 1}
  BY <1>1
<1>4. ASSUME NEW p
      PROVE  Cardinality(OfPrefix(Append(q, w), p, a, n + 1)) =
               Cardinality(OfPrefix(q, p, a, n)) + (IF Prefix(w) = p THEN 1 ELSE 0)
  <2>1. OfPrefix(Append(q, w), p, a, n + 1) =
          OfPrefix(q, p, a, n) \cup (IF Prefix(w) = p THEN {n + 1} ELSE {})
    BY <1>2, <1>3 DEF OfPrefix
  <2>2. OfPrefix(q, p, a, n) \in SUBSET (a..n)
    BY DEF OfPrefix
  <2> HIDE DEF n
  <2>3. CASE Prefix(w) = p
    BY <1>1, <2>1, <2>2, <2>3, OneMore
  <2>4. CASE Prefix(w) # p
    <3>1. OfPrefix(Append(q, w), p, a, n + 1) = OfPrefix(q, p, a, n)
      BY <2>1, <2>4
    <3>2. Cardinality(OfPrefix(q, p, a, n)) \in Nat
      BY <1>1, <2>2, SelectionFinite
    <3> QED
      BY <2>4, <3>1, <3>2
  <2> QED
    BY <2>3, <2>4
<1>5. ASSUME NEW r
      PROVE  Cardinality(OfRoute(Append(q, w), r, a, n + 1)) =
               Cardinality(OfRoute(q, r, a, n)) + (IF Shortprefix(w) = r THEN 1 ELSE 0)
  <2>1. OfRoute(Append(q, w), r, a, n + 1) =
          OfRoute(q, r, a, n) \cup (IF Shortprefix(w) = r THEN {n + 1} ELSE {})
    BY <1>2, <1>3 DEF OfRoute
  <2>2. OfRoute(q, r, a, n) \in SUBSET (a..n)
    BY DEF OfRoute
  <2> HIDE DEF n
  <2>3. CASE Shortprefix(w) = r
    BY <1>1, <2>1, <2>2, <2>3, OneMore
  <2>4. CASE Shortprefix(w) # r
    <3>1. OfRoute(Append(q, w), r, a, n + 1) = OfRoute(q, r, a, n)
      BY <2>1, <2>4
    <3>2. Cardinality(OfRoute(q, r, a, n)) \in Nat
      BY <1>1, <2>2, SelectionFinite
    <3> QED
      BY <2>4, <3>1, <3>2
  <2> QED
    BY <2>3, <2>4
<1> QED
  BY <1>4, <1>5

(* A window opened by w counts w. *)
LEMMA OpenedExact ==
  ASSUME NEW q \in Seq(ReqStat), NEW w \in ReqStat
  PROVE  Exact(Append(q, w), [NoMetrics EXCEPT ![Prefix(w)] = Stat(w)],
               [NoRequests EXCEPT ![Shortprefix(w)] = 1], Len(q) + 1, Len(q) + 1)
<1> DEFINE n == Len(q)
<1>0. n \in Nat
  BY LenProperties
<1>1. /\ \A p : OfPrefix(q, p, n + 1, n) = {}
      /\ \A r : OfRoute(q, r, n + 1, n) = {}
  BY <1>0 DEF OfPrefix, OfRoute
<1>2. /\ \A p : Cardinality(OfPrefix(Append(q, w), p, n + 1, n + 1)) = IF Prefix(w) = p THEN 1 ELSE 0
      /\ \A r : Cardinality(OfRoute(Append(q, w), r, n + 1, n + 1)) = IF Shortprefix(w) = r THEN 1 ELSE 0
  <2>1. /\ \A p : Cardinality(OfPrefix(Append(q, w), p, n + 1, n + 1)) =
                    Cardinality(OfPrefix(q, p, n + 1, n)) + (IF Prefix(w) = p THEN 1 ELSE 0)
        /\ \A r : Cardinality(OfRoute(Append(q, w), r, n + 1, n + 1)) =
                    Cardinality(OfRoute(q, r, n + 1, n)) + (IF Shortprefix(w) = r THEN 1 ELSE 0)
    BY <1>0, CountsGrow
  <2>2. Cardinality({}) = 0
    BY FS_EmptySet
  <2> QED
    <3> HIDE DEF n
    <3>1. /\ \A p : Cardinality(OfPrefix(Append(q, w), p, n + 1, n + 1)) =
                      0 + (IF Prefix(w) = p THEN 1 ELSE 0)
          /\ \A r : Cardinality(OfRoute(Append(q, w), r, n + 1, n + 1)) =
                      0 + (IF Shortprefix(w) = r THEN 1 ELSE 0)
      BY <1>1, <2>1, <2>2
    <3> QED
      BY <3>1
<1>3. Prefix(w) \in Prefixes /\ Shortprefix(w) \in Routes
  BY DEF ReqStat, Prefix, Shortprefix, Prefixes
<1> QED
  BY <1>2, <1>3 DEF Exact, NoMetrics, NoStat, NoRequests, Stat

(* The first n numbers are n. *)
LEMMA FirstNumbers ==
  ASSUME NEW n \in Nat
  PROVE  IsFiniteSet(1..n) /\ Cardinality(1..n) = n
<1>1. IsFiniteSet(1..n) /\ Cardinality(1..n) = IF 1 > n THEN 0 ELSE n - 1 + 1
  BY FS_Interval
<1> QED
  BY <1>1

(* What finitely many records carried is finitely many bytes. *)
LEMMA OctetsFinite ==
  ASSUME NEW q, NEW p, NEW a \in Nat, NEW b \in Nat, \A i \in a..b : q[i].bytes \in Nat
  PROVE  IsFiniteSet(Octets(q, p, a, b)) /\ Cardinality(Octets(q, p, a, b)) \in Nat
<1> DEFINE T == OfPrefix(q, p, a, b)
           f == [i \in T |-> {i} \X (1..q[i].bytes)]
           D == {{i} \X (1..q[i].bytes) : i \in T}
<1>1. T \in SUBSET (a..b)
  BY DEF OfPrefix
<1> HIDE DEF T
<1>2. IsFiniteSet(T)
  BY <1>1, SelectionFinite
<1>3. f \in Surjection(T, D)
  BY DEF Surjection
<1>4. IsFiniteSet(D)
  BY <1>2, <1>3, FS_Surjection
<1>5. ASSUME NEW d \in D PROVE IsFiniteSet(d)
  <2>1. PICK i \in T : d = {i} \X (1..q[i].bytes)
    OBVIOUS
  <2>2. q[i].bytes \in Nat
    BY <1>1
  <2>3. IsFiniteSet({i})
    BY FS_Singleton
  <2>4. IsFiniteSet(1..q[i].bytes)
    BY <2>2, FirstNumbers
  <2> QED
    BY <2>1, <2>3, <2>4, FS_Product
<1>6. IsFiniteSet(UNION D)
  BY <1>4, <1>5, FS_UNION
<1>7. Octets(q, p, a, b) = UNION D
  BY DEF Octets, T
<1> QED
  BY <1>6, <1>7, FS_CardinalityType

(* Appending a record adds what it carried to its prefix.                  *)
LEMMA OctetsGrow ==
  ASSUME NEW q \in Seq(ReqStat), NEW w \in ReqStat, NEW p,
         NEW a \in Nat \ {0}, a <= Len(q) + 1
  PROVE  Cardinality(Octets(Append(q, w), p, a, Len(q) + 1)) =
           Cardinality(Octets(q, p, a, Len(q))) + (IF Prefix(w) = p THEN w.bytes ELSE 0)
<1> DEFINE n == Len(q)
           more == Append(q, w)
           old == Octets(q, p, a, n)
           added == {n + 1} \X (1..w.bytes)
<1>1. n \in Nat /\ w.bytes \in Nat
  BY LenProperties DEF ReqStat
<1>2. /\ more[n + 1] = w
      /\ \A i \in 1..n : more[i] = q[i] /\ q[i] \in ReqStat
  BY AppendProperties, ElementOfSeq
<1>3. a..(n + 1) = (a..n) \cup {n + 1} /\ n + 1 \notin a..n /\ a..n \subseteq 1..n
  BY <1>1
<1> HIDE DEF n, more
<1>4. IsFiniteSet(old) /\ Cardinality(old) \in Nat
  <2>1. \A i \in a..n : q[i].bytes \in Nat
    BY <1>2, <1>3 DEF ReqStat
  <2> QED
    BY <1>1, <2>1, OctetsFinite
<1>5. IsFiniteSet(added) /\ Cardinality(added) = w.bytes
  <2>1. IsFiniteSet({n + 1}) /\ Cardinality({n + 1}) = 1
    BY FS_Singleton
  <2>2. IsFiniteSet(1..w.bytes) /\ Cardinality(1..w.bytes) = w.bytes
    BY <1>1, FirstNumbers
  <2>4. IsFiniteSet(added) /\ Cardinality(added) = Cardinality({n + 1}) * Cardinality(1..w.bytes)
    BY <2>1, <2>2, FS_Product
  <2> QED
    BY <1>1, <2>1, <2>2, <2>4
<1>6. old \cap added = {}
  <2>1. ASSUME NEW x \in old PROVE x[1] \in a..n
    BY <2>1 DEF Octets, OfPrefix
  <2> QED
    BY <1>3, <2>1
<1>7. OfPrefix(more, p, a, n + 1) = OfPrefix(q, p, a, n) \cup (IF Prefix(w) = p THEN {n + 1} ELSE {})
  BY <1>2, <1>3 DEF OfPrefix
<1>8. \A i \in OfPrefix(q, p, a, n) : more[i] = q[i]
  BY <1>2, <1>3 DEF OfPrefix
<1>9. CASE Prefix(w) = p
  <2>1. Octets(more, p, a, n + 1) = old \cup added
    BY <1>2, <1>7, <1>8, <1>9 DEF Octets
  <2>2. Cardinality(old \cup added) = Cardinality(old) + Cardinality(added) - Cardinality(old \cap added)
    BY <1>4, <1>5, FS_Union
  <2>3. Cardinality(old \cap added) = 0
    BY <1>6, FS_EmptySet
  <2> HIDE DEF old, added
  <2>4. Cardinality(old \cup added) = Cardinality(old) + w.bytes
    BY <1>1, <1>4, <1>5, <2>2, <2>3
  <2> QED
    BY <1>9, <2>1, <2>4 DEF n, more, old
<1>10. CASE Prefix(w) # p
  <2>1. Octets(more, p, a, n + 1) = old
    BY <1>7, <1>8, <1>10 DEF Octets
  <2> HIDE DEF old
  <2>2. Cardinality(old) + 0 = Cardinality(old)
    BY <1>4
  <2> QED
    BY <1>10, <2>1, <2>2 DEF n, more, old
<1> QED
  BY <1>9, <1>10

(* A window opened by w sums up w. *)
LEMMA OpenedSumsUp ==
  ASSUME NEW q \in Seq(ReqStat), NEW w \in ReqStat
  PROVE  SumsUp(Append(q, w), [NoMetrics EXCEPT ![Prefix(w)] = Stat(w)], Len(q) + 1, Len(q) + 1)
<1> DEFINE n == Len(q)
<1>1. n \in Nat /\ Prefix(w) \in Prefixes /\ w.bytes \in Nat
  BY LenProperties DEF ReqStat, Prefix
<1>2. ASSUME NEW p \in Prefixes
      PROVE  Cardinality(Octets(Append(q, w), p, n + 1, n + 1)) = IF Prefix(w) = p THEN w.bytes ELSE 0
  <2>1. Cardinality(Octets(Append(q, w), p, n + 1, n + 1)) =
          Cardinality(Octets(q, p, n + 1, n)) + (IF Prefix(w) = p THEN w.bytes ELSE 0)
    BY <1>1, OctetsGrow
  <2>2. OfPrefix(q, p, n + 1, n) = {}
    BY <1>1 DEF OfPrefix
  <2>3. Octets(q, p, n + 1, n) = {}
    BY <2>2 DEF Octets
  <2>4. Cardinality(Octets(q, p, n + 1, n)) = 0
    BY <2>3, FS_EmptySet
  <2> HIDE DEF n
  <2> QED
    BY <1>1, <2>1, <2>4
<1> HIDE DEF n
<1>3. SumsUp(Append(q, w), [NoMetrics EXCEPT ![Prefix(w)] = Stat(w)], n + 1, n + 1)
  BY <1>1, <1>2 DEF SumsUp, NoMetrics, NoStat, Stat
<1> QED
  BY <1>3 DEF n

(* The sums of records that stay in their places stay right. *)
LEMMA SumsUpKept ==
  ASSUME NEW q, NEW more, NEW stats, NEW a \in Nat, NEW b \in Nat,
         \A i \in a..b : more[i] = q[i], SumsUp(q, stats, a, b)
  PROVE  SumsUp(more, stats, a, b)
<1>1. \A p : OfPrefix(more, p, a, b) = OfPrefix(q, p, a, b)
  BY DEF OfPrefix
<1>2. \A p : Octets(more, p, a, b) = Octets(q, p, a, b)
  <2> TAKE p
  <2>1. \A i \in OfPrefix(q, p, a, b) : more[i] = q[i]
    BY DEF OfPrefix
  <2> QED
    BY <1>1, <2>1 DEF Octets
<1> QED
  BY <1>2 DEF SumsUp

(* The records of a route are those of its classes, each of one class.     *)
LEMMA RouteOfClasses ==
  ASSUME NEW q \in Seq(ReqStat), NEW a \in Nat, NEW b \in Nat, a..b \subseteq 1..Len(q),
         NEW stats, NEW totals, Exact(q, stats, totals, a, b), NEW r \in Routes
  PROVE  totals[r] = Cardinality(Requests(stats, r))
<1> DEFINE P(c) == OfPrefix(q, <<r, c>>, a, b)
           N(c) == 1..stats[<<r, c>>].req
           R == OfRoute(q, r, a, b)
           S == Requests(stats, r)
<1>1. /\ R \in SUBSET (a..b) /\ IsFiniteSet(R)
      /\ \A c : P(c) \in SUBSET (a..b) /\ IsFiniteSet(P(c))
  <2>1. R \in SUBSET (a..b) /\ \A c : P(c) \in SUBSET (a..b)
    BY DEF OfRoute, OfPrefix
  <2> QED
    BY <2>1, SelectionFinite
<1>2. \A i \in a..b : q[i].prefix \in Routes \X Classes
  <2> TAKE i \in a..b
  <2>1. q[i] \in ReqStat
    BY ElementOfSeq
  <2> QED
    BY <2>1 DEF ReqStat, Prefixes
<1>3. ASSUME NEW c \in Classes PROVE ExistsBijection(N(c), P(c))
  <2>1. stats[<<r, c>>].req = Cardinality(P(c))
    BY DEF Exact, Prefixes
  <2> QED
    BY <1>1, <2>1, FS_CardinalityType
<1> DEFINE F == [c \in Classes |-> CHOOSE g : g \in Bijection(N(c), P(c))]
           h == [x \in S |-> F[x[1]][x[2]]]
<1>4. ASSUME NEW c \in Classes
      PROVE  /\ F[c] \in [N(c) -> P(c)]
             /\ \A m, n \in N(c) : F[c][m] = F[c][n] => m = n
             /\ \A i \in P(c) : \E m \in N(c) : F[c][m] = i
  <2> HIDE DEF N, P
  <2>1. \E g : g \in Bijection(N(c), P(c))
    BY <1>3 DEF ExistsBijection
  <2>2. F[c] \in Bijection(N(c), P(c))
    BY <2>1
  <2> HIDE DEF F
  <2> QED
    BY <2>2, Fun_BijectionProperties
<1> HIDE DEF F
<1>5. \A x \in S : x[1] \in Classes /\ x[2] \in N(x[1]) /\ x = <<x[1], x[2]>>
  <2> TAKE x \in S
  <2>1. PICK c \in Classes : x \in {c} \X N(c)
    BY DEF Requests
  <2>2. x[1] = c /\ x[2] \in N(c) /\ x = <<x[1], x[2]>>
    BY <2>1
  <2> QED
    BY <2>1, <2>2
<1>6. \A c \in Classes : \A m \in N(c) : <<c, m>> \in S
  BY DEF Requests
<1>7. \A c \in Classes : \A i \in P(c) : i \in R /\ q[i].prefix[2] = c
  BY DEF OfPrefix, OfRoute, Prefix, Shortprefix
<1>8. \A i \in R : q[i].prefix[2] \in Classes /\ i \in P(q[i].prefix[2])
  <2> TAKE i \in R
  <2>1. i \in a..b /\ q[i].prefix[1] = r
    BY DEF OfRoute, Shortprefix
  <2>2. q[i].prefix[2] \in Classes /\ q[i].prefix = <<r, q[i].prefix[2]>>
    BY <1>2, <2>1
  <2> QED
    BY <2>1, <2>2 DEF OfPrefix, Prefix
<1> HIDE DEF P, N, R, S
<1>9. \A x \in S : h[x] = F[x[1]][x[2]] /\ h[x] \in P(x[1])
  BY <1>4, <1>5
<1>10. h \in [S -> R]
  BY <1>5, <1>7, <1>9
<1>11. \A x, y \in S : h[x] = h[y] => x = y
  <2> SUFFICES ASSUME NEW x \in S, NEW y \in S, h[x] = h[y] PROVE x = y
    OBVIOUS
  <2>1. x[1] = y[1]
    BY <1>5, <1>7, <1>9
  <2>2. x[2] = y[2]
    BY <1>4, <1>5, <1>9, <2>1
  <2> QED
    BY <1>5, <2>1, <2>2
<1>12. \A i \in R : \E x \in S : h[x] = i
  <2> TAKE i \in R
  <2> DEFINE c == q[i].prefix[2]
  <2>1. c \in Classes /\ i \in P(c)
    BY <1>8
  <2> HIDE DEF c
  <2>2. PICK m \in N(c) : F[c][m] = i
    BY <1>4, <2>1
  <2>3. <<c, m>> \in S /\ h[<<c, m>>] = i
    BY <1>6, <1>9, <2>1, <2>2
  <2> QED
    BY <2>3
<1> HIDE DEF h
<1>13. h \in Bijection(S, R)
  BY <1>10, <1>11, <1>12 DEF Bijection, Injection, IsInjective, Surjection
<1>14. ExistsBijection(R, S)
  BY <1>13, Fun_ExistsBijSymmetric DEF ExistsBijection
<1>15. Cardinality(S) = Cardinality(R)
  BY <1>1, <1>14, FS_Bijection
<1> QED
  BY <1>15 DEF R, S, Exact
-----------------------------------------------------------------------------
(* A record appended leaves the earlier ones in their places. *)
LEMMA Appended ==
  ASSUME NEW q \in Seq(ReqStat), NEW w \in ReqStat
  PROVE  /\ Append(q, w) \in Seq(ReqStat)
         /\ Len(q) \in Nat /\ Len(Append(q, w)) = Len(q) + 1
         /\ Append(q, w)[Len(q) + 1] = w
         /\ \A i \in 1..Len(q) : Append(q, w)[i] = q[i] /\ q[i] \in ReqStat
BY AppendProperties, LenProperties, ElementOfSeq

(* A window opened by a record of the log is of the right type. *)
LEMMA OpenType ==
  ASSUME NEW w \in ReqStat, OpenWindow(w)
  PROVE  /\ last_ts' = w.ts /\ last_ts' \in Nat \ {0}
         /\ webmetrics' \in WebMetrics /\ reqmetrics' \in ReqMetrics
<1>1. w.ts \in Stamps /\ w.bytes \in Nat /\ w.prefix \in Prefixes
  BY DEF ReqStat
<1>2. Stat(w) \in Stats /\ NoStat \in Stats
  BY <1>1 DEF Stat, Stats, NoStat
<1>3. webmetrics' \in WebMetrics
  BY <1>1, <1>2 DEF OpenWindow, WebMetrics, NoMetrics, Prefix
<1>4. reqmetrics' \in ReqMetrics
  BY <1>1 DEF OpenWindow, ReqMetrics, NoRequests, Shortprefix, Prefixes
<1> QED
  BY <1>1, <1>3, <1>4 DEF OpenWindow

(* Reading one more record changes nothing of the windows sent before. *)
LEMMA SentKept ==
  ASSUME IInv, NEW w \in ReqStat, last_ts # 0, log' = Append(log, w),
         sent' = sent, first' = first
  PROVE  /\ SentExact' /\ WindowSpan'
         /\ \A k \in DOMAIN sent' : SumsUp(log', sent'[k].stats, sent'[k].from, sent'[k].to)
         /\ \A k \in DOMAIN sent' :
              1 <= sent'[k].from /\ sent'[k].from <= sent'[k].to /\ sent'[k].to < first'
<1>1. /\ log \in Seq(ReqStat) /\ first \in Nat /\ first <= Len(log)
      /\ \A k \in DOMAIN sent : sent[k].from \in Nat /\ sent[k].to \in Nat
  <2>1. /\ log \in Seq(ReqStat) /\ first \in Nat /\ first <= Len(log)
        /\ sent \in Seq([stats: WebMetrics, totals: ReqMetrics, from: Nat, to: Nat])
    BY DEF IInv, TypeOK
  <2>2. \A k \in DOMAIN sent :
          sent[k] \in [stats: WebMetrics, totals: ReqMetrics, from: Nat, to: Nat]
    <3> TAKE k \in DOMAIN sent
    <3>1. DOMAIN sent = 1..Len(sent)
      BY <2>1, LenProperties
    <3> QED
      BY <2>1, <3>1, ElementOfSeq
  <2> QED
    BY <2>1, <2>2
<1>2. \A k \in DOMAIN sent :
        /\ sent[k].from \in Nat \ {0} /\ sent[k].to \in Nat /\ sent[k].to + 1 <= Len(log)
        /\ sent[k].to + 1 \in 1..Len(log) /\ sent[k].from \in 1..Len(log)
        /\ sent[k].from..sent[k].to \subseteq 1..Len(log)
  <2> TAKE k \in DOMAIN sent
  <2>1. 1 <= sent[k].from /\ sent[k].from <= sent[k].to /\ sent[k].to < first
    BY DEF IInv
  <2>2. Len(log) \in Nat
    BY <1>1, LenProperties
  <2> QED
    BY <1>1, <2>1, <2>2
<1>3. \A i \in 1..Len(log) : log'[i] = log[i]
  BY <1>1, Appended
<1>4. \A k \in DOMAIN sent :
        Exact(log', sent[k].stats, sent[k].totals, sent[k].from, sent[k].to)
  <2> TAKE k \in DOMAIN sent
  <2>1. Exact(log, sent[k].stats, sent[k].totals, sent[k].from, sent[k].to)
    BY DEF IInv, SentExact
  <2>2. /\ \A p : OfPrefix(log', p, sent[k].from, sent[k].to) =
                     OfPrefix(log, p, sent[k].from, sent[k].to)
        /\ \A r : OfRoute(log', r, sent[k].from, sent[k].to) =
                     OfRoute(log, r, sent[k].from, sent[k].to)
    BY <1>2, <1>3 DEF OfPrefix, OfRoute
  <2> QED
    BY <2>1, <2>2 DEF Exact
<1>5. SentExact'
  BY <1>4 DEF IInv, SentExact
<1>6. WindowSpan'
  BY <1>2, <1>3 DEF IInv, WindowSpan
<1>7. ASSUME NEW k \in DOMAIN sent
      PROVE  SumsUp(log', sent[k].stats, sent[k].from, sent[k].to)
  <2>1. SumsUp(log, sent[k].stats, sent[k].from, sent[k].to)
    BY DEF IInv, BytesExact
  <2>2. /\ sent[k].from \in Nat /\ sent[k].to \in Nat
        /\ \A i \in sent[k].from..sent[k].to : log'[i] = log[i]
    BY <1>2, <1>3
  <2> QED
    BY <2>1, <2>2, SumsUpKept
<1> QED
  BY <1>5, <1>6, <1>7 DEF IInv

(* The invariant is kept by each action, one lemma each. *)
LEMMA FirstRecordStep ==
  ASSUME IInv, NEW w \in ReqStat, FirstRecord(w) PROVE IInv'
<1>1. /\ pc' = "reading" /\ last_ts = 0 /\ OpenWindow(w) /\ log' = Append(log, w)
      /\ pending' = pending /\ first' = first /\ sent' = sent
      /\ log = <<>> /\ first = 1 /\ sent = <<>>
  BY DEF FirstRecord, IInv
<1>2. /\ log \in Seq(ReqStat) /\ Len(log) = 0
      /\ log' \in Seq(ReqStat) /\ Len(log') = 1 /\ log'[1] = w
  BY <1>1, Appended, EmptySeq DEF IInv, TypeOK
<1>3. /\ last_ts' = w.ts /\ last_ts' \in Nat \ {0}
      /\ webmetrics' \in WebMetrics /\ reqmetrics' \in ReqMetrics
  BY <1>1, OpenType
<1>4. TypeOK'
  BY <1>1, <1>2, <1>3 DEF IInv, TypeOK
<1>5. WindowExact'
  <2>1. Exact(log', webmetrics', reqmetrics', Len(log) + 1, Len(log) + 1)
    BY <1>1, <1>2, OpenedExact DEF OpenWindow
  <2> QED
    BY <1>1, <1>2, <2>1 DEF WindowExact
<1>6. SentExact' /\ WindowSpan'
  BY <1>1 DEF SentExact, WindowSpan
<1>8. BytesExact'
  <2>1. SumsUp(log', webmetrics', Len(log) + 1, Len(log) + 1)
    BY <1>1, <1>2, OpenedSumsUp DEF OpenWindow
  <2> QED
    BY <1>1, <1>2, <2>1 DEF BytesExact
<1>7. \A i \in first'..Len(log') : log'[i].ts <= last_ts' + Delta
  BY <1>1, <1>2, <1>3
<1> QED
  BY <1>1, <1>2, <1>3, <1>4, <1>5, <1>6, <1>7, <1>8 DEF IInv

(* Nothing of the window changes while it waits for the channel. *)
LEMMA CloseWindowStep ==
  ASSUME IInv, NEW w \in ReqStat, CloseWindow(w) PROVE IInv'
<1>1. /\ pc' = "sending" /\ pending' = w /\ last_ts # 0 /\ w.ts > last_ts + Delta
      /\ UNCHANGED <<last_ts, webmetrics, reqmetrics, log, first, sent>>
  BY DEF CloseWindow, Closes
<1>2. TypeOK'
  BY <1>1 DEF IInv, TypeOK
<1> QED
  BY <1>1, <1>2 DEF IInv, WindowExact, SentExact, WindowSpan, BytesExact, Closes

(* The record is counted once in each map, under its prefix and its route. *)
LEMMA AccumulateStep ==
  ASSUME IInv, NEW w \in ReqStat, Accumulate(w) PROVE IInv'
<1>1. /\ pc' = "reading" /\ last_ts # 0 /\ ~(w.ts > last_ts + Delta)
      /\ webmetrics' = [webmetrics EXCEPT ![Prefix(w)] = Accumulated(w)]
      /\ reqmetrics' = [reqmetrics EXCEPT ![Shortprefix(w)] = Counted(w)]
      /\ log' = Append(log, w)
      /\ last_ts' = last_ts /\ pending' = pending /\ first' = first /\ sent' = sent
  BY DEF Accumulate, Closes
<1>2. /\ log \in Seq(ReqStat) /\ log' \in Seq(ReqStat)
      /\ Len(log) \in Nat /\ Len(log') = Len(log) + 1 /\ log'[Len(log) + 1] = w
      /\ \A i \in 1..Len(log) : log'[i] = log[i]
  BY <1>1, Appended DEF IInv, TypeOK
<1>3. /\ Prefix(w) \in Prefixes /\ Shortprefix(w) \in Routes
      /\ w.ts \in Stamps /\ w.ts \in Nat /\ w.bytes \in Nat
  BY DEF ReqStat, Prefix, Shortprefix, Prefixes
<1>4. /\ webmetrics \in WebMetrics /\ reqmetrics \in ReqMetrics
      /\ last_ts \in Nat /\ first \in Nat \ {0} /\ first <= Len(log)
  BY <1>1 DEF IInv, TypeOK
<1>5. /\ Accumulated(w) \in Stats
      /\ Accumulated(w).req = webmetrics[Prefix(w)].req + 1
      /\ Accumulated(w).bytes =
           (IF webmetrics[Prefix(w)].req > 0 THEN webmetrics[Prefix(w)].bytes ELSE 0) + w.bytes
  <2>1. webmetrics[Prefix(w)] \in Stats
    BY <1>3, <1>4 DEF WebMetrics
  <2>2. CASE webmetrics[Prefix(w)].req > 0
    <3> DEFINE o == webmetrics[Prefix(w)]
    <3>1. Accumulated(w) = [o EXCEPT !.req = @ + 1, !.bytes = @ + w.bytes]
      BY <2>2 DEF Accumulated
    <3>2. o \in [ts: Stamps \cup {0}, req: Nat, bytes: Nat]
      BY <2>1 DEF Stats
    <3> HIDE DEF o
    <3>3. /\ Accumulated(w) = [ts |-> o.ts, req |-> o.req + 1, bytes |-> o.bytes + w.bytes]
      BY <3>1, <3>2
    <3>4. /\ Accumulated(w) \in Stats /\ Accumulated(w).req = o.req + 1
          /\ Accumulated(w).bytes = o.bytes + w.bytes
      BY <1>3, <3>2, <3>3 DEF Stats
    <3> QED
      BY <2>2, <3>4 DEF o
  <2>3. CASE ~(webmetrics[Prefix(w)].req > 0)
    <3>1. webmetrics[Prefix(w)].req = 0
      BY <2>1, <2>3 DEF Stats
    <3> QED
      BY <1>3, <2>3, <3>1 DEF Accumulated, Stats, Stat
  <2> QED
    BY <2>2, <2>3
<1>6. Counted(w) \in Nat /\ Counted(w) = reqmetrics[Shortprefix(w)] + 1
  BY <1>3, <1>4 DEF Counted, ReqMetrics
<1>7. TypeOK'
  <2>1. webmetrics' \in WebMetrics
    BY <1>1, <1>4, <1>5 DEF WebMetrics
  <2>2. reqmetrics' \in ReqMetrics
    BY <1>1, <1>4, <1>6 DEF ReqMetrics
  <2> QED
    BY <1>1, <1>2, <2>1, <2>2 DEF IInv, TypeOK
<1>8. WindowExact'
  <2>1. Exact(log, webmetrics, reqmetrics, first, Len(log))
    BY DEF IInv, WindowExact
  <2>2. ASSUME NEW p \in Prefixes
        PROVE  webmetrics'[p].req = Cardinality(OfPrefix(log', p, first, Len(log) + 1))
    <3>1. Cardinality(OfPrefix(log', p, first, Len(log) + 1)) =
            Cardinality(OfPrefix(log, p, first, Len(log))) + (IF Prefix(w) = p THEN 1 ELSE 0)
      BY <1>1, <1>2, <1>4, CountsGrow
    <3>2. webmetrics[p].req = Cardinality(OfPrefix(log, p, first, Len(log)))
      BY <2>1 DEF Exact
    <3>3. webmetrics[p].req \in Nat
      BY <1>4 DEF WebMetrics, Stats
    <3>4. CASE Prefix(w) = p
      <4>1. webmetrics'[p].req = webmetrics[p].req + 1
        BY <1>1, <1>4, <1>5, <3>4 DEF WebMetrics
      <4> QED
        BY <3>1, <3>2, <3>3, <3>4, <4>1
    <3>5. CASE Prefix(w) # p
      <4>1. webmetrics'[p] = webmetrics[p]
        BY <1>1, <1>4, <3>5 DEF WebMetrics
      <4> QED
        BY <3>1, <3>2, <3>3, <3>5, <4>1
    <3> QED
      BY <3>4, <3>5
  <2>3. ASSUME NEW r \in Routes
        PROVE  reqmetrics'[r] = Cardinality(OfRoute(log', r, first, Len(log) + 1))
    <3>1. Cardinality(OfRoute(log', r, first, Len(log) + 1)) =
            Cardinality(OfRoute(log, r, first, Len(log))) + (IF Shortprefix(w) = r THEN 1 ELSE 0)
      BY <1>1, <1>2, <1>4, CountsGrow
    <3>2. reqmetrics[r] = Cardinality(OfRoute(log, r, first, Len(log)))
      BY <2>1 DEF Exact
    <3>3. reqmetrics[r] \in Nat
      BY <1>4 DEF ReqMetrics
    <3>4. CASE Shortprefix(w) = r
      BY <1>1, <1>4, <1>6, <3>1, <3>2, <3>3, <3>4 DEF ReqMetrics
    <3>5. CASE Shortprefix(w) # r
      BY <1>1, <1>4, <3>1, <3>2, <3>3, <3>5 DEF ReqMetrics
    <3> QED
      BY <3>4, <3>5
  <2> QED
    BY <1>1, <1>2, <2>2, <2>3 DEF WindowExact, Exact
<1>9. /\ SentExact' /\ WindowSpan'
      /\ \A k \in DOMAIN sent' :
           1 <= sent'[k].from /\ sent'[k].from <= sent'[k].to /\ sent'[k].to < first'
  BY <1>1, SentKept
<1>11. BytesExact'
  <2>1. /\ Exact(log, webmetrics, reqmetrics, first, Len(log))
        /\ SumsUp(log, webmetrics, first, Len(log))
    BY DEF IInv, WindowExact, BytesExact
  <2>2. webmetrics[Prefix(w)].req > 0 \/ webmetrics[Prefix(w)].bytes = 0
    <3> DEFINE T == OfPrefix(log, Prefix(w), first, Len(log))
    <3>1. T \in SUBSET (first..Len(log)) /\ first \in Nat
      BY <1>4 DEF OfPrefix
    <3>2. IsFiniteSet(T) /\ webmetrics[Prefix(w)].req = Cardinality(T)
      BY <1>2, <1>3, <2>1, <3>1, SelectionFinite DEF Exact
    <3>3. Cardinality(T) \in Nat
      BY <1>2, <3>1, SelectionFinite
    <3>4. CASE Cardinality(T) = 0
      <4>1. T = {}
        BY <3>2, <3>4, FS_EmptySet
      <4>2. Octets(log, Prefix(w), first, Len(log)) = {}
        BY <4>1 DEF Octets
      <4> QED
        BY <1>3, <2>1, <4>2, FS_EmptySet DEF SumsUp
    <3>5. CASE Cardinality(T) # 0
      <4> HIDE DEF T
      <4> QED
        BY <3>2, <3>3, <3>5
    <3> QED
      BY <3>4, <3>5
  <2>3. /\ webmetrics'[Prefix(w)].bytes = webmetrics[Prefix(w)].bytes + w.bytes
        /\ \A p \in Prefixes : p # Prefix(w) => webmetrics'[p] = webmetrics[p]
    <3>1. /\ webmetrics'[Prefix(w)] = Accumulated(w)
          /\ \A p \in Prefixes : p # Prefix(w) => webmetrics'[p] = webmetrics[p]
      BY <1>1, <1>3, <1>4 DEF WebMetrics
    <3> QED
      BY <1>5, <2>2, <3>1
  <2>4. ASSUME NEW p \in Prefixes
        PROVE  webmetrics'[p].bytes = Cardinality(Octets(log', p, first, Len(log) + 1))
    <3>1. Cardinality(Octets(log', p, first, Len(log) + 1)) =
            Cardinality(Octets(log, p, first, Len(log))) + (IF Prefix(w) = p THEN w.bytes ELSE 0)
      BY <1>1, <1>2, <1>4, OctetsGrow
    <3>2. webmetrics[p].bytes = Cardinality(Octets(log, p, first, Len(log)))
      BY <2>1 DEF SumsUp
    <3>3. webmetrics[p].bytes \in Nat
      BY <1>4 DEF WebMetrics, Stats
    <3>4. CASE Prefix(w) = p
      BY <2>3, <3>1, <3>2, <3>4
    <3>5. CASE Prefix(w) # p
      BY <2>3, <3>1, <3>2, <3>3, <3>5
    <3> QED
      BY <3>4, <3>5
  <2>5. SumsUp(log', webmetrics', first', Len(log'))
    BY <1>1, <1>2, <2>4 DEF SumsUp
  <2>6. \A k \in DOMAIN sent' : SumsUp(log', sent'[k].stats, sent'[k].from, sent'[k].to)
    BY <1>1, SentKept
  <2> QED
    BY <2>5, <2>6 DEF BytesExact
<1>10. /\ first' <= Len(log') /\ log'[first'].ts = last_ts'
       /\ \A i \in first'..Len(log') : log'[i].ts <= last_ts' + Delta
  <2>1. /\ log[first].ts = last_ts
        /\ \A i \in first..Len(log) : log[i].ts <= last_ts + Delta
    BY <1>1 DEF IInv
  <2>2. \A i \in first..(Len(log) + 1) : i \in first..Len(log) \/ i = Len(log) + 1
    BY <1>2, <1>4
  <2>3. first..Len(log) \subseteq 1..Len(log) /\ first \in 1..Len(log)
    BY <1>2, <1>4
  <2>4. w.ts <= last_ts + Delta
    BY <1>1, <1>3, <1>4
  <2> QED
    BY <1>1, <1>2, <1>4, <2>1, <2>2, <2>3, <2>4
<1> QED
  BY <1>1, <1>7, <1>8, <1>9, <1>10, <1>11 DEF IInv

(* Every record read belongs to the window that closes, so the next one    *)
(* begins just behind it.                                                  *)
LEMMA SendStep ==
  ASSUME IInv, Send PROVE IInv'
<1> DEFINE window == [stats |-> webmetrics, totals |-> reqmetrics, from |-> first, to |-> Len(log)]
<1>1. /\ pc = "sending" /\ sent' = Append(sent, window) /\ OpenWindow(pending)
      /\ log' = Append(log, pending) /\ first' = Len(log) + 1
      /\ pending' = None /\ pc' = "reading"
  BY DEF Send
<1>2. pending \in ReqStat /\ last_ts # 0 /\ pending.ts > last_ts + Delta
  BY <1>1 DEF IInv, Closes
<1>3. /\ log \in Seq(ReqStat) /\ log' \in Seq(ReqStat)
      /\ Len(log) \in Nat /\ Len(log') = Len(log) + 1 /\ log'[Len(log) + 1] = pending
      /\ \A i \in 1..Len(log) : log'[i] = log[i] /\ log[i] \in ReqStat
  BY <1>1, <1>2, Appended DEF IInv, TypeOK
<1>4. /\ last_ts' = pending.ts /\ last_ts' \in Nat \ {0}
      /\ webmetrics' \in WebMetrics /\ reqmetrics' \in ReqMetrics
  BY <1>1, <1>2, OpenType
<1>5. /\ first \in Nat \ {0} /\ first <= Len(log) /\ last_ts \in Nat
      /\ log[first].ts = last_ts
      /\ \A i \in first..Len(log) : log[i].ts <= last_ts + Delta
  BY <1>2 DEF IInv, TypeOK
<1> DEFINE Window == [stats: WebMetrics, totals: ReqMetrics, from: Nat, to: Nat]
<1>6. sent \in Seq(Window) /\ window \in Window
  BY <1>3, <1>5 DEF IInv, TypeOK
<1>7. /\ sent' \in Seq(Window) /\ Len(sent) \in Nat
      /\ DOMAIN sent' = 1..(Len(sent) + 1) /\ DOMAIN sent = 1..Len(sent)
      /\ Len(sent') = Len(sent) + 1 /\ sent'[Len(sent) + 1] = window
      /\ \A k \in 1..Len(sent) : sent'[k] = sent[k] /\ sent[k] \in Window
  <2> HIDE DEF window, Window
  <2> QED
    BY <1>1, <1>6, AppendProperties, LenProperties, ElementOfSeq
<1>8. /\ window.stats = webmetrics /\ window.totals = reqmetrics
      /\ window.from = first /\ window.to = Len(log)
  OBVIOUS
<1>9. TypeOK'
  BY <1>1, <1>3, <1>4, <1>7 DEF TypeOK
<1> HIDE DEF window
<1>10. WindowExact'
  <2>1. Exact(log', webmetrics', reqmetrics', Len(log) + 1, Len(log) + 1)
    BY <1>1, <1>2, <1>3, OpenedExact DEF OpenWindow
  <2> QED
    BY <1>1, <1>3, <2>1 DEF WindowExact
<1>11. \A k \in 1..Len(sent) :
         /\ 1 <= sent[k].from /\ sent[k].from <= sent[k].to /\ sent[k].to < first
         /\ sent[k].from \in Nat /\ sent[k].to \in Nat /\ sent[k].to + 1 <= Len(log)
         /\ sent[k].to + 1 \in 1..Len(log) /\ sent[k].from \in 1..Len(log)
         /\ sent[k].from..sent[k].to \subseteq 1..Len(log)
  <2> TAKE k \in 1..Len(sent)
  <2>1. sent[k].from \in Nat /\ sent[k].to \in Nat
    BY <1>7
  <2>2. 1 <= sent[k].from /\ sent[k].from <= sent[k].to /\ sent[k].to < first
    BY <1>7 DEF IInv
  <2>3. sent[k].to + 1 <= Len(log) /\ sent[k].to + 1 \in 1..Len(log)
    BY <1>3, <1>5, <2>1, <2>2
  <2>4. sent[k].from \in 1..Len(log) /\ sent[k].from..sent[k].to \subseteq 1..Len(log)
    BY <1>3, <2>1, <2>2, <2>3
  <2> QED
    BY <2>1, <2>2, <2>3, <2>4
<1>12. ASSUME NEW stats, NEW totals, NEW a \in Nat, NEW b \in Nat,
              a..b \subseteq 1..Len(log), Exact(log, stats, totals, a, b)
       PROVE  Exact(log', stats, totals, a, b)
  <2>1. /\ \A p : OfPrefix(log', p, a, b) = OfPrefix(log, p, a, b)
        /\ \A r : OfRoute(log', r, a, b) = OfRoute(log, r, a, b)
    BY <1>3, <1>12 DEF OfPrefix, OfRoute
  <2> QED
    BY <1>12, <2>1 DEF Exact
<1>13. SentExact'
  <2> SUFFICES ASSUME NEW k \in 1..(Len(sent) + 1)
               PROVE  /\ Exact(log', sent'[k].stats, sent'[k].totals, sent'[k].from, sent'[k].to)
                      /\ sent'[k].from = IF k = 1 THEN 1 ELSE sent'[k - 1].to + 1
                      /\ k = Len(sent) + 1 => Len(log) + 1 = sent'[k].to + 1
    BY <1>1, <1>7 DEF SentExact
  <2>1. CASE k \in 1..Len(sent)
    <3>1. /\ Exact(log, sent[k].stats, sent[k].totals, sent[k].from, sent[k].to)
          /\ sent[k].from = IF k = 1 THEN 1 ELSE sent[k - 1].to + 1
      BY <1>7, <2>1 DEF IInv, SentExact
    <3>2. Exact(log', sent[k].stats, sent[k].totals, sent[k].from, sent[k].to)
      BY <1>11, <1>12, <2>1, <3>1
    <3>3. k # 1 => k - 1 \in 1..Len(sent)
      BY <1>7, <2>1
    <3>4. k # Len(sent) + 1
      BY <1>7, <2>1
    <3> QED
      BY <1>7, <2>1, <3>1, <3>2, <3>3, <3>4
  <2>2. CASE k = Len(sent) + 1
    <3>1. Exact(log', webmetrics, reqmetrics, first, Len(log))
      <4>1. Exact(log, webmetrics, reqmetrics, first, Len(log))
        BY DEF IInv, WindowExact
      <4>2. first..Len(log) \subseteq 1..Len(log) /\ first \in Nat
        BY <1>3, <1>5
      <4> QED
        BY <1>3, <1>12, <4>1, <4>2
    <3>2. first = IF k = 1 THEN 1 ELSE sent'[k - 1].to + 1
      <4>1. CASE Len(sent) = 0
        <5>1. k = 1
          BY <1>7, <2>2, <4>1
        <5>2. first = 1
          <6>1. sent = <<>> => first = 1
            BY DEF IInv
          <6> QED
            BY <1>6, <4>1, <6>1, EmptySeq
        <5> QED
          BY <5>1, <5>2
      <4>2. CASE Len(sent) # 0
        <5>1. /\ Len(sent) \in 1..Len(sent) /\ k # 1 /\ k - 1 = Len(sent)
          BY <1>7, <2>2, <4>2
        <5>2. first = sent[Len(sent)].to + 1
          BY <1>7, <5>1 DEF IInv, SentExact
        <5> QED
          BY <1>7, <5>1, <5>2
      <4> QED
        BY <4>1, <4>2
    <3> QED
      BY <1>7, <1>8, <2>2, <3>1, <3>2
  <2> QED
    BY <1>7, <2>1, <2>2
<1>14. WindowSpan'
  <2> SUFFICES ASSUME NEW k \in 1..(Len(sent) + 1)
               PROVE  /\ \A i \in sent'[k].from .. sent'[k].to :
                           log'[i].ts <= log'[sent'[k].from].ts + Delta
                      /\ log'[sent'[k].to + 1].ts > log'[sent'[k].from].ts + Delta
    BY <1>7 DEF WindowSpan
  <2>1. CASE k \in 1..Len(sent)
    <3>1. /\ \A i \in sent[k].from .. sent[k].to : log[i].ts <= log[sent[k].from].ts + Delta
          /\ log[sent[k].to + 1].ts > log[sent[k].from].ts + Delta
      BY <1>7, <2>1 DEF IInv, WindowSpan
    <3> QED
      BY <1>3, <1>7, <1>11, <2>1, <3>1
  <2>2. CASE k = Len(sent) + 1
    <3>1. first \in 1..Len(log) /\ first..Len(log) \subseteq 1..Len(log)
      BY <1>3, <1>5
    <3>2. log'[first].ts = last_ts
      BY <1>3, <1>5, <3>1
    <3>3. \A i \in first..Len(log) : log'[i].ts <= last_ts + Delta
      BY <1>3, <1>5, <3>1
    <3> QED
      BY <1>2, <1>3, <1>7, <1>8, <2>2, <3>2, <3>3
  <2> QED
    BY <1>7, <2>1, <2>2
<1>17. BytesExact'
  <2>1. SumsUp(log', webmetrics', first', Len(log'))
    BY <1>1, <1>2, <1>3, OpenedSumsUp DEF OpenWindow
  <2>2. ASSUME NEW k \in 1..(Len(sent) + 1)
        PROVE  SumsUp(log', sent'[k].stats, sent'[k].from, sent'[k].to)
    <3>1. CASE k \in 1..Len(sent)
      <4>1. SumsUp(log, sent[k].stats, sent[k].from, sent[k].to)
        BY <1>7, <3>1 DEF IInv, BytesExact
      <4>2. /\ sent[k].from \in Nat /\ sent[k].to \in Nat
            /\ \A i \in sent[k].from..sent[k].to : log'[i] = log[i]
        BY <1>3, <1>11, <3>1
      <4>3. SumsUp(log', sent[k].stats, sent[k].from, sent[k].to)
        BY <4>1, <4>2, SumsUpKept
      <4> QED
        BY <1>7, <3>1, <4>3
    <3>2. CASE k = Len(sent) + 1
      <4>1. SumsUp(log, webmetrics, first, Len(log))
        BY DEF IInv, BytesExact
      <4>2. first \in Nat /\ \A i \in first..Len(log) : log'[i] = log[i]
        BY <1>3, <1>5
      <4>3. SumsUp(log', webmetrics, first, Len(log))
        BY <1>3, <4>1, <4>2, SumsUpKept
      <4> QED
        BY <1>7, <1>8, <3>2, <4>3
    <3> QED
      BY <1>7, <3>1, <3>2
  <2> QED
    BY <1>7, <2>1, <2>2 DEF BytesExact
<1>15. \A k \in DOMAIN sent' :
         1 <= sent'[k].from /\ sent'[k].from <= sent'[k].to /\ sent'[k].to < first'
  <2> SUFFICES ASSUME NEW k \in 1..(Len(sent) + 1)
               PROVE  /\ 1 <= sent'[k].from /\ sent'[k].from <= sent'[k].to
                      /\ sent'[k].to < Len(log) + 1
    BY <1>1, <1>7
  <2>1. CASE k \in 1..Len(sent)
    <3>1. /\ 1 <= sent[k].from /\ sent[k].from <= sent[k].to
          /\ sent[k].to \in Nat /\ sent[k].to + 1 <= Len(log)
      BY <1>11, <2>1
    <3>2. sent[k].to < Len(log) + 1
      BY <1>3, <3>1
    <3> QED
      BY <1>7, <2>1, <3>1, <3>2
  <2>2. CASE k = Len(sent) + 1
    BY <1>3, <1>5, <1>7, <1>8, <2>2
  <2> QED
    BY <1>7, <2>1, <2>2
<1>16. /\ first' <= Len(log') /\ log'[first'].ts = last_ts'
       /\ \A i \in first'..Len(log') : log'[i].ts <= last_ts' + Delta
  <2>1. first'..Len(log') = {Len(log) + 1}
    BY <1>1, <1>3
  <2> QED
    BY <1>1, <1>3, <1>4, <2>1
<1> QED
  BY <1>1, <1>4, <1>9, <1>10, <1>13, <1>14, <1>15, <1>16, <1>17 DEF IInv
-----------------------------------------------------------------------------
(* The empty log is counted by empty maps. *)
LEMMA Initially == Init => IInv
<1> SUFFICES ASSUME Init PROVE IInv
  OBVIOUS
<1>1. /\ pc = "reading" /\ last_ts = 0 /\ webmetrics = NoMetrics /\ reqmetrics = NoRequests
      /\ pending = None /\ log = <<>> /\ first = 1 /\ sent = <<>>
  BY DEF Init
<1>2. NoMetrics \in WebMetrics /\ NoRequests \in ReqMetrics
  BY DEF NoMetrics, WebMetrics, NoStat, Stats, NoRequests, ReqMetrics
<1>3. TypeOK
  BY <1>1, <1>2, EmptySeq DEF TypeOK
<1>4. WindowExact
  <2>1. /\ \A p : OfPrefix(log, p, 1, 0) = {}
        /\ \A r : OfRoute(log, r, 1, 0) = {}
    BY DEF OfPrefix, OfRoute
  <2>2. Len(log) = 0
    BY <1>1, EmptySeq
  <2>3. Cardinality({}) = 0
    BY FS_EmptySet
  <2> QED
    BY <1>1, <2>1, <2>2, <2>3 DEF WindowExact, Exact, NoMetrics, NoStat, NoRequests
<1>5. BytesExact
  <2>1. \A p : OfPrefix(log, p, 1, 0) = {}
    BY DEF OfPrefix
  <2>2. \A p : Octets(log, p, 1, 0) = {}
    BY <2>1 DEF Octets
  <2>3. Len(log) = 0 /\ Cardinality({}) = 0
    BY <1>1, EmptySeq, FS_EmptySet
  <2>4. \A p \in Prefixes : webmetrics[p].bytes = 0
    BY <1>1 DEF NoMetrics, NoStat
  <2>5. SumsUp(log, webmetrics, first, Len(log))
    BY <1>1, <2>2, <2>3, <2>4 DEF SumsUp
  <2>6. DOMAIN sent = {}
    BY <1>1
  <2> QED
    BY <2>5, <2>6 DEF BytesExact
<1> QED
  BY <1>1, <1>3, <1>4, <1>5 DEF IInv, SentExact, WindowSpan

(* Every step keeps the invariant. *)
LEMMA Step == IInv /\ [Next]_vars => IInv'
<1> SUFFICES ASSUME IInv, [Next]_vars PROVE IInv'
  OBVIOUS
<1>1. ASSUME NEW w \in ReqStat, FirstRecord(w) PROVE IInv'
  BY <1>1, FirstRecordStep
<1>2. ASSUME NEW w \in ReqStat, CloseWindow(w) PROVE IInv'
  BY <1>2, CloseWindowStep
<1>3. ASSUME NEW w \in ReqStat, Accumulate(w) PROVE IInv'
  BY <1>3, AccumulateStep
<1>4. CASE Send
  BY <1>4, SendStep
<1>5. CASE UNCHANGED vars
  <2>1. /\ pc' = pc /\ last_ts' = last_ts /\ webmetrics' = webmetrics
        /\ reqmetrics' = reqmetrics /\ pending' = pending /\ log' = log
        /\ first' = first /\ sent' = sent
    BY <1>5 DEF vars
  <2>2. TypeOK'
    BY <2>1 DEF IInv, TypeOK
  <2> QED
    BY <2>1, <2>2 DEF IInv, WindowExact, SentExact, WindowSpan, BytesExact, Closes
<1> QED
  BY <1>1, <1>2, <1>3, <1>4, <1>5 DEF Next, ReadLine, Silence

(* The counts, the positions and the span of windows: the invariant that   *)
(* the properties below follow from.                                       *)
THEOREM Invariance == Spec => []IInv
BY Initially, Step, PTL DEF Spec

(* The loop keeps its variables in their types: no statistic of webmetrics *)
(* and no window sent is stamped with anything but the time of a record.   *)
THEOREM TypeCorrect == Spec => []TypeOK
<1>1. IInv => TypeOK
  BY DEF IInv
<1> QED
  BY <1>1, Invariance, PTL

(* The counts of the open window are those of the records read since its   *)
(* first one, whatever the order of the time stamps and however long a     *)
(* send blocks.                                                            *)
THEOREM WindowExactHolds == Spec => []WindowExact
<1>1. IInv => WindowExact
  BY DEF IInv
<1> QED
  BY <1>1, Invariance, PTL

(* Every record is counted in exactly one window. *)
THEOREM SentExactHolds == Spec => []SentExact
<1>1. IInv => SentExact
  BY DEF IInv
<1> QED
  BY <1>1, Invariance, PTL

(* The sums of each window are those of its records, prefix by prefix.     *)
THEOREM BytesExactHolds == Spec => []BytesExact
<1>1. IInv => BytesExact
  BY DEF IInv
<1> QED
  BY <1>1, Invariance, PTL

(* A window that was sent counts for a route what it counts for its        *)
(* response classes.                                                       *)
LEMMA SentAddsUp == IInv => RatiosAddUp
<1> SUFFICES ASSUME IInv, NEW k \in DOMAIN sent, NEW r \in Routes
             PROVE  sent[k].totals[r] = Cardinality(Requests(sent[k].stats, r))
  BY DEF RatiosAddUp
<1>1. Exact(log, sent[k].stats, sent[k].totals, sent[k].from, sent[k].to)
  BY DEF IInv, SentExact
<1> DEFINE Window == [stats: WebMetrics, totals: ReqMetrics, from: Nat, to: Nat]
<1>2. log \in Seq(ReqStat) /\ sent \in Seq(Window) /\ last_ts # 0
  BY DEF IInv, TypeOK
<1>3. Len(log) \in Nat /\ DOMAIN sent = 1..Len(sent) /\ first <= Len(log) /\ first \in Nat
  BY <1>2, LenProperties DEF IInv, TypeOK
<1>4. sent[k] \in Window
  BY <1>2, <1>3, ElementOfSeq
<1>5. sent[k].from \in Nat /\ sent[k].to \in Nat
  BY <1>4
<1>6. sent[k].from..sent[k].to \subseteq 1..Len(log)
  <2>1. 1 <= sent[k].from /\ sent[k].to < first
    BY DEF IInv
  <2> QED
    BY <1>3, <1>5, <2>1
<1> DEFINE a == sent[k].from
           b == sent[k].to
           stats == sent[k].stats
           totals == sent[k].totals
<1>7. a \in Nat /\ b \in Nat /\ a..b \subseteq 1..Len(log) /\ Exact(log, stats, totals, a, b)
  BY <1>1, <1>5, <1>6
<1> HIDE DEF a, b, stats, totals
<1>8. totals[r] = Cardinality(Requests(stats, r))
  <2>1. log \in Seq(ReqStat)
    BY <1>2
  <2>2. \A s, t : Exact(log, s, t, a, b) => \A x \in Routes : t[x] = Cardinality(Requests(s, x))
    BY <1>7, <2>1, RouteOfClasses
  <2> QED
    BY <1>7, <2>2
<1> QED
  BY <1>8 DEF stats, totals

(* The .ratio metrics of a route's response classes add up to 1. *)
THEOREM RatiosAddUpHolds == Spec => []RatiosAddUp
BY SentAddsUp, Invariance, PTL

(* A window closes at the first record more than DELTA after its start. *)
THEOREM WindowSpanHolds == Spec => []WindowSpan
<1>1. IInv => WindowSpan
  BY DEF IInv
<1> QED
  BY <1>1, Invariance, PTL
=============================================================================
