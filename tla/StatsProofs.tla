---------------------------- MODULE StatsProofs ----------------------------
(***************************************************************************)
(* What the status page says is what the responses say, for all hosts,     *)
(* days, verdicts and lengths of the charts and windows.                   *)
(***************************************************************************)
EXTENDS Stats, AggregationProofs, FiniteSetTheorems

-----------------------------------------------------------------------------
(* Finite sets.                                                             *)

(* Instead of an induction over finite sets: a smallest counterexample.     *)
LEMMA SmallestSubset ==
  ASSUME NEW S, IsFiniteSet(S), NEW B, B \subseteq SUBSET S, B # {}
  PROVE  \E m \in B : \A x \in B : x \subseteq m => x = m
<1>1. IsWellFoundedOn(StrictSubsetOrdering(S), SUBSET S)
  BY FS_StrictSubsetOrderingWellFounded, FS_FiniteSubsetsOfFinite
<1>2. PICK m \in B : \A y \in B : ~(<<y, m>> \in StrictSubsetOrdering(S))
  BY <1>1, WFMin
<1> QED
  BY <1>2 DEF StrictSubsetOrdering

LEMMA SmallestPart ==
  ASSUME NEW S, IsFiniteSet(S), S # {}, NEW part, \A d \in S : part[d] \subseteq S
  PROVE  \E m \in S : \A e \in S : part[e] \subseteq part[m] => part[e] = part[m]
<1> DEFINE B == {part[d] : d \in S}
<1>1. B \subseteq SUBSET S /\ B # {}
  OBVIOUS
<1>2. PICK x \in B : \A y \in B : y \subseteq x => y = x
  <2> HIDE DEF B
  <2> QED
    BY <1>1, SmallestSubset
<1> QED
  BY <1>2

LEMMA SmallestNumber ==
  ASSUME NEW S, IsFiniteSet(S), S # {}, \A d \in S : d \in Nat
  PROVE  \E m \in S : \A e \in S : m <= e
<1> DEFINE upTo == [d \in S |-> {e \in S : e <= d}]
<1>1. \A d \in S : upTo[d] \subseteq S
  OBVIOUS
<1>2. PICK m \in S : \A e \in S : upTo[e] \subseteq upTo[m] => upTo[e] = upTo[m]
  <2> HIDE DEF upTo
  <2> QED
    BY <1>1, SmallestPart
<1>3. ASSUME NEW e \in S, e < m PROVE FALSE
  <2>1. \A x \in S : x <= e => x <= m
    <3>1. \A x \in S : x \in Int
      OBVIOUS
    <3> QED
      BY <1>3, <3>1
  <2>2. upTo[e] \subseteq upTo[m]
    BY <2>1
  <2>3. m \in upTo[m] /\ m \notin upTo[e]
    BY <1>3
  <2> HIDE DEF upTo
  <2> QED
    BY <1>2, <2>2, <2>3
<1> QED
  BY <1>3

LEMMA DaysBetween ==
  ASSUME NEW a \in Int, NEW b \in Int, a <= b
  PROVE  IsFiniteSet(a .. b - 1) /\ Cardinality(a .. b - 1) = b - a
<1>1. b - 1 \in Int
  OBVIOUS
<1>2. /\ IsFiniteSet(a .. b - 1)
      /\ Cardinality(a .. b - 1) = IF a > b - 1 THEN 0 ELSE (b - 1) - a + 1
  BY <1>1, FS_Interval
<1>3. (IF a > b - 1 THEN 0 ELSE (b - 1) - a + 1) = b - a
  OBVIOUS
<1> QED
  BY <1>2, <1>3

LEMMA SameSize ==
  ASSUME NEW S, NEW T, IsFiniteSet(S), NEW f \in [S -> T],
         \A x, y \in S : f[x] = f[y] => x = y,
         \A z \in T : \E x \in S : f[x] = z
  PROVE  IsFiniteSet(T) /\ Cardinality(T) = Cardinality(S)
<1>1. f \in Bijection(S, T)
  BY DEF Bijection, Injection, Surjection, IsInjective
<1> QED
  BY <1>1, FS_Bijection DEF ExistsBijection

(* The parts of a set, each with as many elements as its weight says.       *)
Weighs(S, part, weight) ==
  /\ \A r \in S : IsFiniteSet(part[r]) /\ weight[r] = Cardinality(part[r])
  /\ \A r, s \in S : r # s => part[r] \cap part[s] = {}

Union(part, s) == UNION {part[r] : r \in s}

LEMMA UnionOfNone == \A part : Cardinality(Union(part, {})) = 0
<1> SUFFICES ASSUME NEW part PROVE Cardinality(Union(part, {})) = 0
  OBVIOUS
<1>1. Union(part, {}) = {}
  BY DEF Union
<1> QED
  BY <1>1, FS_EmptySet, Zenon

LEMMA UnionOfOneMore ==
  ASSUME NEW S, IsFiniteSet(S), NEW part, NEW weight, Weighs(S, part, weight),
         NEW s \in SUBSET S, NEW x \in s
  PROVE  /\ IsFiniteSet(Union(part, s))
         /\ Cardinality(Union(part, s)) = weight[x] + Cardinality(Union(part, s \ {x}))
<1>1. \A t \in SUBSET S : IsFiniteSet(Union(part, t))
  <2> SUFFICES ASSUME NEW t \in SUBSET S PROVE IsFiniteSet(Union(part, t))
    OBVIOUS
  <2>1. IsFiniteSet(t)
    BY FS_Subset
  <2> DEFINE f == [r \in t |-> part[r]]
  <2>2. f \in Surjection(t, {part[r] : r \in t})
    BY DEF Surjection
  <2>3. IsFiniteSet({part[r] : r \in t})
    BY <2>1, <2>2, FS_Surjection
  <2> QED
    BY <2>3, FS_UNION DEF Union, Weighs
<1>2. /\ Union(part, s) = part[x] \cup Union(part, s \ {x})
      /\ part[x] \cap Union(part, s \ {x}) = {}
  BY DEF Union, Weighs
<1>3. /\ IsFiniteSet(part[x]) /\ weight[x] = Cardinality(part[x])
      /\ IsFiniteSet(Union(part, s \ {x})) /\ IsFiniteSet(Union(part, s))
  BY <1>1 DEF Weighs
<1> HIDE DEF Weighs
<1> DEFINE a == part[x]  b == Union(part, s \ {x})
<1>4. /\ Cardinality(a) \in Nat /\ Cardinality(b) \in Nat
      /\ Cardinality(a \cup b) = Cardinality(a) + Cardinality(b) - Cardinality(a \cap b)
      /\ Cardinality({}) = 0
  BY <1>3, FS_Union, FS_CardinalityType, FS_EmptySet
<1>5. a \cap b = {} /\ Union(part, s) = a \cup b /\ weight[x] = Cardinality(a)
  BY <1>2, <1>3
<1> HIDE DEF a, b
<1>6. Cardinality(a \cup b) = Cardinality(a) + Cardinality(b)
  <2>1. Cardinality(a \cap b) = 0
    BY <1>4, <1>5, Zenon
  <2> QED
    BY <1>4, <2>1
<1>7. Cardinality(Union(part, s)) = weight[x] + Cardinality(b)
  BY <1>5, <1>6
<1> QED
  BY <1>3, <1>7 DEF b

(* A sum over a set, as MapThenSumSet defines it.                           *)
IsSum(iter, S, weight) ==
  iter = [s \in SUBSET S |->
            IF s = {} THEN 0
            ELSE LET x == CHOOSE x \in s : TRUE IN weight[x] + iter[s \ {x}]]

LEMMA SumExists ==
  ASSUME NEW S, IsFiniteSet(S), NEW part, NEW weight, Weighs(S, part, weight)
  PROVE  \E iter : IsSum(iter, S, weight)
<1> DEFINE iter == [s \in SUBSET S |-> Cardinality(Union(part, s))]
           other == [s \in SUBSET S |->
            IF s = {} THEN 0
            ELSE LET x == CHOOSE x \in s : TRUE IN weight[x] + iter[s \ {x}]]
<1>1. ASSUME NEW s \in SUBSET S PROVE iter[s] = other[s]
  <2>1. CASE s = {}
    BY <2>1, UnionOfNone
  <2>2. CASE s # {}
    <3> DEFINE x == CHOOSE x \in s : TRUE
    <3>1. x \in s
      BY <2>2
    <3> HIDE DEF x
    <3>2. Cardinality(Union(part, s)) = weight[x] + Cardinality(Union(part, s \ {x}))
      BY <3>1, UnionOfOneMore
    <3>3. s \ {x} \in SUBSET S
      OBVIOUS
    <3>4. iter[s] = weight[x] + iter[s \ {x}]
      BY <3>2, <3>3
    <3> QED
      BY <2>2, <3>4 DEF x
  <2> QED
    BY <2>1, <2>2
<1>2. iter = other
  BY <1>1
<1> QED
  BY <1>2 DEF IsSum

LEMMA SumIsSize ==
  ASSUME NEW S, IsFiniteSet(S), NEW part, NEW weight, Weighs(S, part, weight),
         NEW iter, IsSum(iter, S, weight)
  PROVE  iter[S] = Cardinality(Union(part, S))
<1> DEFINE Bad == {s \in SUBSET S : iter[s] # Cardinality(Union(part, s))}
<1> SUFFICES ASSUME Bad # {} PROVE FALSE
  OBVIOUS
<1>1. PICK m \in Bad : \A x \in Bad : x \subseteq m => x = m
  <2>1. Bad \subseteq SUBSET S
    OBVIOUS
  <2> HIDE DEF Bad
  <2> QED
    BY <2>1, SmallestSubset
<1>2. iter[m] = IF m = {} THEN 0
                ELSE LET x == CHOOSE x \in m : TRUE IN weight[x] + iter[m \ {x}]
  BY DEF IsSum
<1>3. CASE m = {}
  <2>1. iter[m] = 0
    BY <1>2, <1>3
  <2> QED
    BY <1>1, <1>3, <2>1, UnionOfNone
<1>4. CASE m # {}
  <2> DEFINE x == CHOOSE x \in m : TRUE
  <2>1. x \in m
    BY <1>4
  <2>2. iter[m] = weight[x] + iter[m \ {x}]
    BY <1>2, <1>4
  <2> HIDE DEF x
  <2>3. m \ {x} \in SUBSET S /\ m \ {x} \notin Bad
    BY <1>1, <2>1
  <2>4. Cardinality(Union(part, m)) = weight[x] + Cardinality(Union(part, m \ {x}))
    BY <2>1, UnionOfOneMore
  <2> QED
    BY <2>2, <2>3, <2>4
<1> QED
  BY <1>3, <1>4

LEMMA SumOfSizes ==
  ASSUME NEW S, IsFiniteSet(S), \A r \in S : IsFiniteSet(r.of),
         \A r, s \in S : r # s => r.of \cap s.of = {}
  PROVE  MapThenSumSet(LAMBDA r : Cardinality(r.of), S) = Cardinality(UNION {r.of : r \in S})
<1> DEFINE part == [r \in S |-> r.of]
           weight == [r \in S |-> Cardinality(r.of)]
           Is(iter) == iter = [s \in SUBSET S |->
             IF s = {} THEN 0
             ELSE LET x == CHOOSE x \in s : TRUE IN Cardinality(x.of) + iter[s \ {x}]]
<1>1. Weighs(S, part, weight)
  BY DEF Weighs
<1>2. ASSUME NEW iter PROVE Is(iter) <=> IsSum(iter, S, weight)
  BY DEF IsSum
<1>3. MapThenSumSet(LAMBDA r : Cardinality(r.of), S) = (CHOOSE iter : Is(iter))[S]
  BY DEF MapThenSumSet, MapThenFoldSet
<1> HIDE DEF Is
<1>4. Is(CHOOSE iter : Is(iter))
  BY <1>1, <1>2, SumExists
<1> DEFINE sum == CHOOSE iter : Is(iter)
<1>5. IsSum(sum, S, weight)
  BY <1>2, <1>4
<1> HIDE DEF sum
<1>6. sum[S] = Cardinality(Union(part, S))
  BY <1>1, <1>5, SumIsSize
<1>7. Union(part, S) = UNION {r.of : r \in S}
  BY DEF Union
<1> QED
  BY <1>3, <1>6, <1>7 DEF sum

LEMMA SumOfUps ==
  ASSUME NEW S, IsFiniteSet(S), \A r \in S : IsFiniteSet(r.of),
         \A r, s \in S : r # s => r.of \cap s.of = {}
  PROVE  MapThenSumSet(LAMBDA r : Ups(r.of), S) = Ups(UNION {r.of : r \in S})
<1> DEFINE part == [r \in S |-> {ts \in r.of : Verdict[ts] = "up"}]
           weight == [r \in S |-> Ups(r.of)]
           Is(iter) == iter = [s \in SUBSET S |->
             IF s = {} THEN 0
             ELSE LET x == CHOOSE x \in s : TRUE IN Ups(x.of) + iter[s \ {x}]]
<1>1. Weighs(S, part, weight)
  <2>1. \A r \in S : IsFiniteSet(part[r])
    BY FS_Subset
  <2>2. \A r \in S : weight[r] = Cardinality(part[r])
    BY DEF Ups
  <2>3. \A r, s \in S : r # s => part[r] \cap part[s] = {}
    OBVIOUS
  <2> QED
    BY <2>1, <2>2, <2>3 DEF Weighs
<1>2. ASSUME NEW iter PROVE Is(iter) <=> IsSum(iter, S, weight)
  BY DEF IsSum
<1>3. MapThenSumSet(LAMBDA r : Ups(r.of), S) = (CHOOSE iter : Is(iter))[S]
  BY DEF MapThenSumSet, MapThenFoldSet
<1> HIDE DEF Is
<1>4. Is(CHOOSE iter : Is(iter))
  BY <1>1, <1>2, SumExists
<1> DEFINE sum == CHOOSE iter : Is(iter)
<1>5. IsSum(sum, S, weight)
  BY <1>2, <1>4
<1> HIDE DEF sum
<1>6. sum[S] = Cardinality(Union(part, S))
  BY <1>1, <1>5, SumIsSize
<1>7. Union(part, S) = {ts \in UNION {r.of : r \in S} : Verdict[ts] = "up"}
  BY DEF Union
<1> QED
  BY <1>3, <1>6, <1>7 DEF sum, Ups

-----------------------------------------------------------------------------
(* The history of a host.                                                   *)

LEMMA FiniteStamps == IsFiniteSet(Stamps)
<1>1. IsFiniteSet(0 .. MaxDay) /\ IsFiniteSet(0 .. MaxTick)
  BY ConstantsOK, FS_Interval DEF ConstantsOK
<1> QED
  BY <1>1, FS_Product DEF Stamps, Days

LEMMA FiniteHistory ==
  ASSUME TypeOK, NEW h \in Hosts
  PROVE  IsFiniteSet(history[h]) /\ \A r \in history[h] : IsFiniteSet(r.of)
<1> DEFINE f == [r \in history[h] |-> r.ts]
<1>1. \A r \in history[h] : r.ts \in Stamps /\ r.of \in SUBSET Stamps
  BY DEF TypeOK, Records
<1>2. \A r, s \in history[h] : r.ts = s.ts => r = s
  BY DEF TypeOK, Key
<1>3. f \in Injection(history[h], Stamps)
  BY <1>1, <1>2 DEF Injection, IsInjective
<1>4. IsFiniteSet(history[h])
  BY <1>3, FiniteStamps, FS_Injection
<1> QED
  BY <1>1, <1>4, FiniteStamps, FS_Subset

(* A record counts responses of its own day.                                *)
LEMMA SameDay ==
  ASSUME TypeOK, RecordsOK, NEW h \in Hosts, NEW r \in history[h], NEW i \in r.of
  PROVE  i[1] = r.ts[1] /\ i \in recorded[h] /\ i \in Stamps
  BY DEF RecordsOK, WellFormed, TypeOK, Records

-----------------------------------------------------------------------------
(* The details.                                                             *)

LEMMA DetailsByInvariant == IInv => DetailsExact
<1> SUFFICES ASSUME IInv, NEW h \in Hosts, Stored(h) = recorded[h]
             PROVE  LET days    == {ts \in recorded[h] : ts[1] > day - Window}
                        unknown == {ts \in days : /\ Verdict[ts] = "unknown"
                                                  /\ Response(ts) \in history[h]}
                    IN  Details(h) = [checks |-> Cardinality(days \ unknown),
                                      ups |-> Ups(days)]
  BY DEF DetailsExact
<1> DEFINE days    == {ts \in recorded[h] : ts[1] > day - Window}
           unknown == {ts \in days : /\ Verdict[ts] = "unknown"
                                     /\ Response(ts) \in history[h]}
           counted == {r \in InWindow(h) : r.agg \/ Verdict[r.ts] # "unknown"}
           all     == UNION {r.of : r \in counted}
<1>0. TypeOK /\ RecordsOK /\ CountedOnce
  BY DEF IInv
<1>1. InWindow(h) = {r \in history[h] : r.ts[1] > day - Window}
  <2>1. \A r \in history[h] : r.ts[1] \in Nat /\ r.ts[2] \in 0 .. MaxTick
    BY <1>0, ConstantsOK DEF TypeOK, Records, Stamps, Days
  <2>2. day \in Nat /\ Window \in Nat /\ MaxTick \in Nat
    BY <1>0, ConstantsOK, StatsConstantsOK DEF TypeOK, Days, ConstantsOK, StatsConstantsOK
  <2>3. \A r \in history[h] : Before(<<day - Window, MaxTick + 1>>, r.ts)
                               <=> r.ts[1] > day - Window
    BY <2>1, <2>2 DEF Before
  <2> QED
    BY <2>3 DEF InWindow
<1>2. counted \subseteq history[h] /\ IsFiniteSet(counted)
  BY <1>0, <1>1, FiniteHistory, FS_Subset
<1>3. /\ \A r \in counted : IsFiniteSet(r.of)
      /\ \A r, s \in counted : r # s => r.of \cap s.of = {}
  BY <1>0, <1>2, FiniteHistory DEF CountedOnce
<1>4. all \subseteq days \ unknown
  <2> SUFFICES ASSUME NEW r \in counted, NEW i \in r.of PROVE i \in days \ unknown
    OBVIOUS
  <2>1. i \in days
    BY <1>0, <1>1, SameDay
  <2>2. ASSUME i \in unknown PROVE FALSE
    <3>1. Response(i).of = {i} /\ Response(i).ts = i /\ ~Response(i).agg
      BY DEF Response
    <3>2. Response(i) = r
      BY <1>0, <1>2, <2>2, <3>1 DEF CountedOnce
    <3> QED
      BY <2>2, <3>1, <3>2
  <2> QED
    BY <2>1, <2>2
<1>5. days \ unknown \subseteq all
  <2> SUFFICES ASSUME NEW i \in days \ unknown PROVE i \in all
    OBVIOUS
  <2>1. PICK r \in history[h] : i \in r.of
    BY DEF Stored
  <2>2. r.ts[1] > day - Window
    BY <1>0, <2>1, SameDay
  <2>3. CASE r.agg
    BY <1>1, <2>1, <2>2, <2>3
  <2>4. CASE ~r.agg
    <3>1. r.ts = i /\ r.of = {i} /\ r \in Records
      BY <1>0, <2>1, <2>4 DEF RecordsOK, WellFormed, TypeOK
    <3>2. r = Response(i)
      BY <2>4, <3>1 DEF Records, Response
    <3>3. Verdict[r.ts] # "unknown"
      BY <2>1, <3>1, <3>2
    <3> QED
      BY <1>1, <2>1, <2>2, <3>3
  <2> QED
    BY <2>3, <2>4
<1>6. all = days \ unknown
  BY <1>4, <1>5
<1>7. MapThenSumSet(LAMBDA r : Cardinality(r.of), counted) = Cardinality(days \ unknown)
  <2> HIDE DEF counted, days, unknown
  <2> QED
    BY <1>2, <1>3, <1>6, SumOfSizes
<1>8. MapThenSumSet(LAMBDA r : Ups(r.of), counted) = Ups(days)
  <2>1. {ts \in days \ unknown : Verdict[ts] = "up"} = {ts \in days : Verdict[ts] = "up"}
    OBVIOUS
  <2>2. Ups(days \ unknown) = Ups(days)
    BY <2>1 DEF Ups
  <2> HIDE DEF counted, days, unknown
  <2> QED
    BY <1>2, <1>3, <1>6, <2>2, SumOfUps
<1> QED
  BY <1>7, <1>8 DEF Details

(* The details count every recorded response of their days, whichever days  *)
(* are aggregated already, but those of unknown status (stats.go:431-452).  *)
THEOREM DetailsOfWindow == Spec => []DetailsExact
  BY DetailsByInvariant, Invariance, PTL

-----------------------------------------------------------------------------
(* The chart of a host whose history is complete.                           *)

PastDays(h) == {ts[1] : ts \in recorded[h]} \ {day}
LastDays(h) ==
  {d \in PastDays(h) : Cardinality({e \in PastDays(h) : e > d}) < HistoryPoints}
Charted(h) == LastDays(h) \cup {day}
DayRecord(h, d) == [ts |-> <<d, 0>>, agg |-> TRUE, of |-> Responses(h, d)]
DayPoint(h, d) == [ts |-> <<d, 0>>, status |-> DayStatus(Responses(h, d))]

LEMMA DaysAreNumbers ==
  ASSUME IInv, NEW h \in Hosts
  PROVE  /\ day \in Nat
         /\ PastDays(h) \subseteq Nat /\ IsFiniteSet(PastDays(h))
         /\ \A d \in PastDays(h) : d < day /\ Responses(h, d) # {}
<1>1. TypeOK /\ Dated
  BY DEF IInv
<1>2. day \in Nat /\ \A ts \in recorded[h] : ts[1] \in 0 .. MaxDay /\ ts[1] <= day
  BY <1>1 DEF TypeOK, Dated, Stamps, Days
<1>3. IsFiniteSet(PastDays(h))
  <2>1. PastDays(h) \in SUBSET (0 .. MaxDay)
    BY <1>2 DEF PastDays
  <2>2. IsFiniteSet(0 .. MaxDay)
    BY ConstantsOK, FS_Interval DEF ConstantsOK
  <2> QED
    BY <2>1, <2>2, FS_Subset
<1> QED
  BY <1>2, <1>3 DEF PastDays, Responses

LEMMA ChartedFinite ==
  ASSUME IInv, NEW h \in Hosts
  PROVE  IsFiniteSet(Charted(h)) /\ Charted(h) \in SUBSET Nat
<1>1. LastDays(h) \in SUBSET PastDays(h)
  BY DEF LastDays
<1>2. IsFiniteSet(LastDays(h))
  BY <1>1, DaysAreNumbers, FS_Subset
<1> QED
  BY <1>1, <1>2, DaysAreNumbers, FS_AddElement DEF Charted

(* The plain records are those of today; the aggregations are of past days, *)
(* one of each that has responses, and count all responses of their day.    *)
LEMMA CompleteHistory ==
  ASSUME IInv, NEW h \in Hosts, Complete(h)
  PROVE  /\ \A r \in history[h] : AfterMidnight(r.ts) <=> ~r.agg
         /\ \A r \in history[h] :
              r.agg => r.ts[1] \in PastDays(h) /\ r = DayRecord(h, r.ts[1])
         /\ \A d \in PastDays(h) : DayRecord(h, d) \in history[h]
         /\ UNION {r.of : r \in {x \in history[h] : ~x.agg}} = Responses(h, day)
<1>0. TypeOK /\ RecordsOK /\ CountedOnce /\ PastAggregated /\ Dated
  BY DEF IInv
<1>1. /\ Stored(h) = recorded[h] /\ settled = day /\ late[h] = {}
      /\ \A ts \in recorded[h] : ts[2] # 0
  BY DEF Complete
<1>2. day \in Nat /\ \A ts \in Stamps : ts[1] \in Nat /\ ts[2] \in Nat
  BY <1>0, ConstantsOK DEF TypeOK, Stamps, Days
<1>3. \A r \in history[h] : r.ts \in Stamps /\ r \in Records
  BY <1>0 DEF TypeOK, Records
<1>4. ASSUME NEW r \in history[h], r.agg
      PROVE  r.ts[1] < day /\ r.ts[2] = 0 /\ r.ts[1] \in PastDays(h)
  <2>1. PICK i \in r.of : TRUE
    BY <1>0 DEF Dated
  <2>2. i[1] = r.ts[1] /\ i \in recorded[h] /\ i[2] # 0 /\ i[1] < day /\ r.ts[2] = 0
    BY <1>0, <1>1, <1>4, <2>1 DEF RecordsOK, WellFormed
  <2> QED
    BY <1>2, <1>3, <2>2 DEF PastDays
<1>5. ASSUME NEW r \in history[h], ~r.agg
      PROVE  r.ts[1] = day /\ r.ts[2] > 0 /\ r.of = {r.ts} /\ r.ts \in recorded[h]
  <2>1. r.of = {r.ts} /\ r.ts \in recorded[h]
    BY <1>0, <1>5 DEF RecordsOK, WellFormed
  <2>2. r.ts[1] <= day /\ ~(r.ts[1] < day) /\ r.ts[2] # 0
    BY <1>0, <1>1, <1>5, <2>1 DEF Dated, PastAggregated
  <2> QED
    BY <1>2, <1>3, <2>1, <2>2
<1>6. ASSUME NEW r \in history[h] PROVE AfterMidnight(r.ts) <=> ~r.agg
  <2>1. CASE r.agg
    <3>1. r.ts[1] < day /\ r.ts[1] \in Nat
      BY <1>2, <1>3, <1>4, <2>1
    <3> QED
      BY <1>2, <2>1, <3>1 DEF AfterMidnight, Before
  <2>2. CASE ~r.agg
    <3>1. r.ts[1] = day /\ r.ts[2] > 0
      BY <1>5, <2>2
    <3> QED
      BY <2>2, <3>1 DEF AfterMidnight, Before
  <2> QED
    BY <2>1, <2>2
<1>7. ASSUME NEW r \in history[h], NEW s \in history[h], r.agg, s.agg, r.ts[1] = s.ts[1]
      PROVE  r = s
  <2>1. Key(r.ts) = Key(s.ts)
    BY <1>4, <1>7 DEF Key
  <2> QED
    BY <1>0, <2>1 DEF TypeOK
<1>8. ASSUME NEW ts \in recorded[h]
      PROVE  \E r \in history[h] : ts \in r.of /\ r.ts[1] = ts[1] /\ (r.agg <=> ts[1] # day)
  <2>1. PICK r \in history[h] : ts \in r.of
    BY <1>1 DEF Stored
  <2>2. ts[1] = r.ts[1]
    BY <1>0, <2>1, SameDay
  <2>3. r.agg <=> ts[1] # day
    <3>1. CASE r.agg
      BY <1>2, <1>3, <1>4, <2>2, <3>1
    <3>2. CASE ~r.agg
      BY <1>5, <2>2, <3>2
    <3> QED
      BY <3>1, <3>2
  <2> QED
    BY <2>1, <2>2, <2>3
<1>9. ASSUME NEW r \in history[h], r.agg PROVE r = DayRecord(h, r.ts[1])
  <2>1. r.of = Responses(h, r.ts[1])
    <3>1. r.of \subseteq Responses(h, r.ts[1])
      BY <1>0, SameDay DEF Responses
    <3>2. ASSUME NEW ts \in Responses(h, r.ts[1]) PROVE ts \in r.of
      <4>1. ts \in recorded[h] /\ ts[1] = r.ts[1] /\ ts[1] # day
        BY <1>2, <1>3, <1>4, <1>9 DEF Responses
      <4>2. PICK s \in history[h] : ts \in s.of /\ s.ts[1] = ts[1] /\ s.agg
        BY <1>8, <4>1
      <4> QED
        BY <1>7, <1>9, <4>1, <4>2
    <3> QED
      BY <3>1, <3>2
  <2>2. r.ts = <<r.ts[1], 0>>
    BY <1>3, <1>4, <1>9, StampParts
  <2> QED
    BY <1>3, <1>9, <2>1, <2>2 DEF Records, DayRecord
<1>10. ASSUME NEW d \in PastDays(h) PROVE DayRecord(h, d) \in history[h]
  <2>1. PICK ts \in recorded[h] : ts[1] = d /\ d # day
    BY DEF PastDays
  <2>2. PICK r \in history[h] : r.ts[1] = d /\ r.agg
    BY <1>8, <2>1
  <2> QED
    BY <1>9, <2>2
<1>11. UNION {r.of : r \in {x \in history[h] : ~x.agg}} = Responses(h, day)
  <2>1. ASSUME NEW r \in history[h], ~r.agg PROVE r.of \subseteq Responses(h, day)
    BY <1>5, <2>1 DEF Responses
  <2>2. ASSUME NEW ts \in Responses(h, day)
        PROVE  \E r \in history[h] : ~r.agg /\ ts \in r.of
    BY <1>8 DEF Responses
  <2> QED
    BY <2>1, <2>2
<1> QED
  BY <1>4, <1>6, <1>9, <1>10, <1>11

LEMMA ShownDays ==
  ASSUME IInv, NEW h \in Hosts, Complete(h)
  PROVE  Shown(h) = {DayRecord(h, d) : d \in Charted(h)}
<1> DEFINE past == {r \in history[h] : ~AfterMidnight(r.ts)}
<1>1. past = {DayRecord(h, d) : d \in PastDays(h)}
  <2>1. \A d : DayRecord(h, d).agg
    BY DEF DayRecord
  <2> QED
    BY <2>1, CompleteHistory
<1>2. UNION {r.of : r \in history[h] \ past} = Responses(h, day)
  <2>1. history[h] \ past = {x \in history[h] : ~x.agg}
    BY CompleteHistory
  <2> QED
    BY <2>1, CompleteHistory
<1>3. ASSUME NEW d \in PastDays(h)
      PROVE  Cardinality({x \in past : Before(DayRecord(h, d).ts, x.ts)})
               = Cardinality({e \in PastDays(h) : e > d})
  <2> DEFINE later == {e \in PastDays(h) : e > d}
             after == {x \in past : Before(DayRecord(h, d).ts, x.ts)}
             f == [e \in later |-> DayRecord(h, e)]
  <2>1. IsFiniteSet(later) /\ PastDays(h) \subseteq Nat
    BY DaysAreNumbers, FS_Subset
  <2>2. \A e : DayRecord(h, e).ts = <<e, 0>>
    BY DEF DayRecord
  <2>3. \A e \in PastDays(h) : Before(DayRecord(h, d).ts, DayRecord(h, e).ts) <=> e > d
    BY <2>1, <2>2 DEF Before
  <2>4. f \in [later -> after] /\ \A z \in after : \E e \in later : f[e] = z
    BY <1>1, <2>3
  <2>5. \A e, x \in later : f[e] = f[x] => e = x
    BY <2>2
  <2> HIDE DEF later, after, f
  <2>6. Cardinality(after) = Cardinality(later)
    BY <2>1, <2>4, <2>5, SameSize
  <2> QED
    BY <2>6 DEF later, after
<1>4. Newest(past, HistoryPoints) = {DayRecord(h, d) : d \in LastDays(h)}
  <2> DEFINE rank(r) == Cardinality({x \in past : Before(r.ts, x.ts)})
  <2>1. \A d \in PastDays(h) :
          rank(DayRecord(h, d)) < HistoryPoints <=> d \in LastDays(h)
    BY <1>3 DEF LastDays
  <2>2. Newest(past, HistoryPoints) = {r \in past : rank(r) < HistoryPoints}
    BY DEF Newest
  <2>3. LastDays(h) \subseteq PastDays(h)
    BY DEF LastDays
  <2> HIDE DEF past, rank
  <2> QED
    BY <1>1, <2>1, <2>2, <2>3
<1>5. Shown(h) = Newest(past, HistoryPoints) \cup {DayRecord(h, day)}
  BY <1>2 DEF Shown, DayRecord
<1> QED
  BY <1>4, <1>5 DEF Charted

(* The slots without a record. *)
Fillers(h) ==
  {[ts |-> <<day - HistoryPoints + i, MaxTick + 1>>, status |-> "unknown"] :
     i \in 0 .. HistoryPoints - Cardinality(Charted(h))}

LEMMA ChartPoints ==
  ASSUME IInv, NEW h \in Hosts, Complete(h)
  PROVE  Points(h) = Fillers(h) \cup {DayPoint(h, d) : d \in Charted(h)}
<1>1. Cardinality(Shown(h)) = Cardinality(Charted(h)) /\ Cardinality(Charted(h)) \in Nat
  <2> DEFINE f == [d \in Charted(h) |-> DayRecord(h, d)]
  <2>1. IsFiniteSet(Charted(h))
    BY ChartedFinite
  <2>2. /\ f \in [Charted(h) -> Shown(h)]
        /\ \A z \in Shown(h) : \E d \in Charted(h) : f[d] = z
    BY ShownDays
  <2>3. \A d, e \in Charted(h) : f[d] = f[e] => d = e
    <3>1. \A d : DayRecord(h, d).ts[1] = d
      BY DEF DayRecord
    <3> QED
      BY <3>1
  <2> HIDE DEF f
  <2> QED
    BY <2>1, <2>2, <2>3, SameSize, FS_CardinalityType
<1>2. {[ts |-> r.ts, status |-> StatusOf(r)] : r \in Shown(h)}
        = {DayPoint(h, d) : d \in Charted(h)}
  <2>1. \A d : [ts |-> DayRecord(h, d).ts, status |-> StatusOf(DayRecord(h, d))]
                 = DayPoint(h, d)
    BY DEF DayRecord, DayPoint, StatusOf
  <2> QED
    BY <2>1, ShownDays
<1>3. HistoryPoints \in Nat
  BY StatsConstantsOK DEF StatsConstantsOK
<1> QED
  <2> DEFINE filler(i) == [ts |-> <<day - HistoryPoints + i, MaxTick + 1>>,
                           status |-> "unknown"]
             slots == 0 .. (HistoryPoints + 1 - Cardinality(Shown(h))) - 1
             points == {[ts |-> r.ts, status |-> StatusOf(r)] : r \in Shown(h)}
  <2>1. slots = 0 .. HistoryPoints - Cardinality(Charted(h))
    BY <1>1, <1>3
  <2>2. Points(h) = {filler(i) : i \in slots} \cup points
    BY DEF Points
  <2>3. Fillers(h) = {filler(i) : i \in 0 .. HistoryPoints - Cardinality(Charted(h))}
    BY DEF Fillers
  <2> HIDE DEF filler, slots, points
  <2>4. Fillers(h) = {filler(i) : i \in slots}
    BY <2>1, <2>3, Zenon
  <2> QED
    BY <1>2, <2>2, <2>4, Zenon DEF points

(* The n newest of some records are not more than n: the oldest of them has *)
(* all the others after it.                                                 *)
LEMMA NewestFew ==
  ASSUME NEW R, IsFiniteSet(R), NEW n \in Nat,
         \A r \in R : r.ts[1] \in Int /\ r.ts[2] \in Int,
         \A r, s \in R : r.ts[1] = s.ts[1] /\ r.ts[2] = s.ts[2] => r = s
  PROVE  IsFiniteSet(Newest(R, n)) /\ Cardinality(Newest(R, n)) <= n
<1> DEFINE N == Newest(R, n)
           after(r) == {x \in R : Before(r.ts, x.ts)}
           part == [r \in N |-> {x \in N : x = r \/ Before(x.ts, r.ts)}]
<1>1. N \in SUBSET R /\ \A r \in N : Cardinality(after(r)) < n
  BY DEF Newest
<1>2. IsFiniteSet(N) /\ Cardinality(N) \in Nat
  <2> HIDE DEF N
  <2> QED
    BY <1>1, FS_Subset, FS_CardinalityType
<1> HIDE DEF N
<1>3. ASSUME N # {} PROVE Cardinality(N) <= n
  <2>1. \A r \in N : part[r] \subseteq N
    OBVIOUS
  <2>2. PICK m \in N : \A r \in N : part[r] \subseteq part[m] => part[r] = part[m]
    <3> HIDE DEF part
    <3> QED
      BY <1>2, <1>3, <2>1, SmallestPart
  <2>3. ASSUME NEW r \in N, r # m PROVE Before(m.ts, r.ts)
    <3>1. Before(m.ts, r.ts) \/ Before(r.ts, m.ts)
      BY <1>1, <2>3 DEF Before
    <3>2. ASSUME Before(r.ts, m.ts) PROVE FALSE
      <4>1. \A x \in N : Before(x.ts, r.ts) => Before(x.ts, m.ts)
        BY <1>1, <3>2 DEF Before
      <4>2. ~Before(m.ts, r.ts)
        BY <1>1, <3>2 DEF Before
      <4>3. part[r] \subseteq part[m] /\ m \in part[m] /\ m \notin part[r]
        BY <2>3, <3>2, <4>1, <4>2
      <4> HIDE DEF part
      <4> QED
        BY <2>2, <4>3
    <3> QED
      BY <3>1, <3>2
  <2>4. N \ {m} \in SUBSET after(m)
    BY <1>1, <2>3
  <2>5. IsFiniteSet(after(m)) /\ Cardinality(after(m)) < n
    BY <1>1, FS_Subset
  <2> HIDE DEF after
  <2>6. /\ Cardinality(N \ {m}) <= Cardinality(after(m))
        /\ Cardinality(after(m)) \in Nat
        /\ Cardinality(N \ {m}) = Cardinality(N) - 1
    BY <1>2, <2>4, <2>5, FS_Subset, FS_RemoveElement, FS_CardinalityType
  <2> QED
    BY <1>2, <2>5, <2>6
<1>4. N = {} => Cardinality(N) <= n
  BY FS_EmptySet
<1> QED
  BY <1>2, <1>3, <1>4 DEF N

(* A day report never has more records than its chart has slots, whatever   *)
(* the history: genChart does not index its points out of their range, and  *)
(* neither does generateGroupStatus (stats.go:297-349, 86, 509).            *)
THEOREM ChartFits ==
  Spec => [](\A h \in Hosts : Cardinality(Shown(h)) <= HistoryPoints + 1)
<1>1. ASSUME TypeOK, NEW h \in Hosts
      PROVE  Cardinality(Shown(h)) <= HistoryPoints + 1
  <2> DEFINE past == {r \in history[h] : ~AfterMidnight(r.ts)}
             today_ == [ts |-> <<day, 0>>, agg |-> TRUE,
                        of |-> UNION {r.of : r \in history[h] \ past}]
  <2>1. past \in SUBSET history[h]
    OBVIOUS
  <2>2. HistoryPoints \in Nat
    BY StatsConstantsOK DEF StatsConstantsOK
  <2>3. Shown(h) = Newest(past, HistoryPoints) \cup {today_}
    BY DEF Shown
  <2> HIDE DEF past, today_
  <2>4. IsFiniteSet(past)
    BY <1>1, <2>1, FiniteHistory, FS_Subset
  <2>5. \A r \in past : r.ts \in Stamps
    BY <1>1, <2>1 DEF TypeOK, Records
  <2>6. \A r \in past : r.ts[1] \in Int /\ r.ts[2] \in Int
    BY <2>5, ConstantsOK DEF Stamps, Days
  <2>7. \A r, s \in past : r.ts[1] = s.ts[1] /\ r.ts[2] = s.ts[2] => r = s
    BY <1>1, <2>1 DEF TypeOK, Key
  <2>8. /\ IsFiniteSet(Newest(past, HistoryPoints))
        /\ Cardinality(Newest(past, HistoryPoints)) <= HistoryPoints
    BY <2>2, <2>4, <2>6, <2>7, NewestFew
  <2>9. Cardinality(Newest(past, HistoryPoints)) \in Nat
    BY <2>8, FS_CardinalityType
  <2>10. \/ Cardinality(Shown(h)) = Cardinality(Newest(past, HistoryPoints))
         \/ Cardinality(Shown(h)) = Cardinality(Newest(past, HistoryPoints)) + 1
    BY <2>3, <2>8, FS_AddElement
  <2> QED
    BY <2>2, <2>8, <2>9, <2>10
<1>2. TypeOK => \A h \in Hosts : Cardinality(Shown(h)) <= HistoryPoints + 1
  BY <1>1
<1> QED
  BY <1>2, AggregationTypes, PTL

LEMMA KnownStatus ==
  \A stamps : /\ DayStatus(stamps) \in Status
              /\ DayStatus(stamps) = "unknown" <=> stamps = {}
<1> TAKE stamps
<1> DEFINE good == 100 * Ups(stamps) > Good * Cardinality(stamps)
           fair == 100 * Ups(stamps) > Fair * Cardinality(stamps)
<1>1. DayStatus(stamps) = CASE stamps = {} -> "unknown"
                            [] good -> "up"
                            [] fair -> "degraded"
                            [] OTHER -> "down"
  BY DEF DayStatus
<1>0. stamps = {} => ~good /\ ~fair
  <2> SUFFICES ASSUME stamps = {} PROVE ~good /\ ~fair
    OBVIOUS
  <2>1. Ups(stamps) = 0 /\ Cardinality(stamps) = 0
    <3>1. {ts \in stamps : Verdict[ts] = "up"} = {}
      OBVIOUS
    <3> QED
      BY <3>1, FS_EmptySet, Zenon DEF Ups
  <2>2. Good \in Int /\ Fair \in Int
    BY StatsConstantsOK DEF StatsConstantsOK
  <2> QED
    BY <2>1, <2>2
<1> HIDE DEF good, fair
<1>2. DayStatus(stamps) = "unknown" <=> stamps = {}
  <2>1. CASE stamps = {}
    BY <1>0, <1>1, <2>1
  <2>2. CASE stamps # {}
    BY <1>1, <2>2
  <2> QED
    BY <2>1, <2>2
<1>3. DayStatus(stamps) \in Status
  BY <1>1 DEF Status
<1> QED
  BY <1>2, <1>3

(* What the code does of every host: the uptime is the share of the days    *)
(* that were up, of the last 90 days before today that have responses,      *)
(* however far back those are, and today (stats.go:285-306, 351-360).       *)
UptimeOfRecords ==
  \A h \in Hosts : Complete(h) =>
    LET known == LastDays(h) \cup (IF Responses(h, day) # {} THEN {day} ELSE {})
        ups   == {d \in known : DayStatus(Responses(h, d)) = "up"}
    IN  Uptime(Points(h)) =
          IF known = {} THEN 0
          ELSE (100 * Cardinality(ups)) \div Cardinality(known)

LEMMA UptimeByInvariant == IInv => UptimeOfRecords
<1> SUFFICES ASSUME IInv, NEW h \in Hosts, Complete(h)
             PROVE  LET known == LastDays(h) \cup
                                   (IF Responses(h, day) # {} THEN {day} ELSE {})
                        ups   == {d \in known : DayStatus(Responses(h, d)) = "up"}
                    IN  Uptime(Points(h)) =
                          IF known = {} THEN 0
                          ELSE (100 * Cardinality(ups)) \div Cardinality(known)
  BY DEF UptimeOfRecords
<1> DEFINE status(d) == DayStatus(Responses(h, d))
           days == LastDays(h) \cup (IF Responses(h, day) # {} THEN {day} ELSE {})
           upDays == {d \in days : status(d) = "up"}
           known == {p \in Points(h) : p.status # "unknown"}
           ups == {p \in known : p.status = "up"}
<1>1. days = {d \in Charted(h) : status(d) # "unknown"}
  BY KnownStatus, DaysAreNumbers DEF Charted, LastDays
<1>2. \A d : DayPoint(h, d).status = status(d) /\ DayPoint(h, d).ts[1] = d
  BY DEF DayPoint
<1>3. known = {DayPoint(h, d) : d \in days}
  <2>1. \A p \in Fillers(h) : p.status = "unknown"
    BY DEF Fillers
  <2> HIDE DEF status, days
  <2> QED
    BY <1>1, <1>2, <2>1, ChartPoints
<1>4. ups = {DayPoint(h, d) : d \in upDays}
  <2> HIDE DEF known, days, status
  <2> QED
    BY <1>2, <1>3
<1>5. IsFiniteSet(days) /\ IsFiniteSet(upDays)
  <2>1. IsFiniteSet(Charted(h))
    BY ChartedFinite
  <2>2. days \in SUBSET Charted(h) /\ upDays \in SUBSET Charted(h)
    BY <1>1
  <2> HIDE DEF days, upDays
  <2> QED
    BY <2>1, <2>2, FS_Subset
<1>6. ASSUME NEW S, IsFiniteSet(S)
      PROVE  Cardinality({DayPoint(h, d) : d \in S}) = Cardinality(S)
  <2> DEFINE T == {DayPoint(h, d) : d \in S}
             g == [d \in S |-> DayPoint(h, d)]
  <2>1. g \in [S -> T] /\ \A z \in T : \E d \in S : g[d] = z
    OBVIOUS
  <2>2. \A d, e \in S : g[d] = g[e] => d = e
    BY <1>2
  <2> HIDE DEF T, g
  <2>3. Cardinality(T) = Cardinality(S)
    BY <1>6, <2>1, <2>2, SameSize
  <2> QED
    BY <2>3 DEF T
<1>7. Cardinality(known) = Cardinality(days) /\ Cardinality(ups) = Cardinality(upDays)
  <2> HIDE DEF known, ups, days, upDays
  <2> QED
    BY <1>3, <1>4, <1>5, <1>6, Zenon
<1>8. known = {} <=> days = {}
  BY <1>3
<1>9. Uptime(Points(h)) = IF known = {} THEN 0
                          ELSE (100 * Cardinality(ups)) \div Cardinality(known)
  BY DEF Uptime
<1>10. Uptime(Points(h)) = IF days = {} THEN 0
                           ELSE (100 * Cardinality(upDays)) \div Cardinality(days)
  <2> HIDE DEF known, ups, days, upDays
  <2> QED
    BY <1>7, <1>8, <1>9, Zenon
<1> QED
  BY <1>10

(* When the history is complete, the uptime is the share of the days that   *)
(* were up of those with responses, last ones and today, whatever gaps the  *)
(* history has (stats.go:285-306, 351-360).                                 *)
THEOREM UptimeOfLastRecords == Spec => []UptimeOfRecords
  BY UptimeByInvariant, Invariance, PTL

(* A chart with no missing day to fill is one of the last days. *)
LEMMA LastDaysAreRecent ==
  ASSUME IInv, NEW h \in Hosts, NothingToReachFor(h)
  PROVE  LastDays(h) = {d \in PastDays(h) : day - HistoryPoints <= d}
<1> DEFINE after(d) == {e \in PastDays(h) : e > d}
<1>0. /\ day \in Nat /\ HistoryPoints \in Nat
      /\ PastDays(h) \subseteq Nat /\ IsFiniteSet(PastDays(h))
      /\ \A d \in PastDays(h) : d \in Nat /\ d < day
  BY DaysAreNumbers, StatsConstantsOK DEF StatsConstantsOK
<1>1. \A d : IsFiniteSet(after(d)) /\ Cardinality(after(d)) \in Nat
  <2>1. \A d : after(d) \in SUBSET PastDays(h)
    OBVIOUS
  <2> HIDE DEF after
  <2> QED
    BY <1>0, <2>1, FS_Subset, FS_CardinalityType
<1>2. \A d \in PastDays(h) : d \in LastDays(h) <=> Cardinality(after(d)) < HistoryPoints
  BY DEF LastDays
<1>3. ASSUME NEW d \in PastDays(h), d < day - HistoryPoints
      PROVE  d \notin LastDays(h)
  <2>1. \A e \in day - HistoryPoints .. day - 1 : Responses(h, e) # {}
    BY <1>0, <1>3 DEF NothingToReachFor, PastDays
  <2>2. day - HistoryPoints .. day - 1 \in SUBSET after(d)
    BY <1>0, <1>3, <2>1 DEF PastDays, Responses
  <2>3. /\ IsFiniteSet(day - HistoryPoints .. day - 1)
        /\ Cardinality(day - HistoryPoints .. day - 1) = HistoryPoints
    <3>1. /\ day - HistoryPoints \in Int /\ day - HistoryPoints <= day
          /\ day - (day - HistoryPoints) = HistoryPoints
      BY <1>0
    <3> QED
      BY <1>0, <3>1, DaysBetween
  <2> HIDE DEF after
  <2>4. HistoryPoints <= Cardinality(after(d))
    BY <1>1, <2>2, <2>3, FS_Subset
  <2> QED
    BY <1>0, <1>1, <1>2, <1>3, <2>4
<1>4. ASSUME NEW d \in PastDays(h), day - HistoryPoints <= d
      PROVE  d \in LastDays(h)
  <2>1. after(d) \in SUBSET (d + 1 .. day - 1)
    BY <1>0
  <2>2. IsFiniteSet(d + 1 .. day - 1) /\ Cardinality(d + 1 .. day - 1) = day - (d + 1)
    <3>1. d + 1 \in Int /\ d + 1 <= day
      BY <1>0, <1>4
    <3> QED
      BY <1>0, <3>1, DaysBetween
  <2> HIDE DEF after
  <2>3. Cardinality(after(d)) <= day - (d + 1)
    BY <2>1, <2>2, FS_Subset
  <2> QED
    BY <1>0, <1>1, <1>2, <1>4, <2>3
<1> QED
  BY <1>0, <1>3, <1>4 DEF LastDays

LEMMA UptimeInWindow == IInv => UptimeOfDays
<1> SUFFICES ASSUME IInv, NEW h \in Hosts, Complete(h), NothingToReachFor(h)
             PROVE  Uptime(Points(h)) = UpShare(h, day - HistoryPoints .. day)
  BY DEF UptimeOfDays
<1> DEFINE known == LastDays(h) \cup (IF Responses(h, day) # {} THEN {day} ELSE {})
           recent == {d \in day - HistoryPoints .. day : Responses(h, d) # {}}
<1>1. known = recent
  <2>0. /\ day \in Nat /\ HistoryPoints \in Nat
        /\ \A d \in PastDays(h) : d \in Nat /\ d < day /\ Responses(h, d) # {}
    BY DaysAreNumbers, StatsConstantsOK DEF StatsConstantsOK
  <2>1. \A d \in recent : d = day \/ d \in PastDays(h)
    BY DEF PastDays, Responses
  <2> QED
    BY <2>0, <2>1, LastDaysAreRecent
<1>2. LET ups == {d \in known : DayStatus(Responses(h, d)) = "up"}
      IN  Uptime(Points(h)) =
            IF known = {} THEN 0
            ELSE (100 * Cardinality(ups)) \div Cardinality(known)
  BY UptimeByInvariant DEF UptimeOfRecords
<1> HIDE DEF known
<1> QED
  BY <1>1, <1>2 DEF UpShare

(* With a complete history the uptime is that of the last days and today,   *)
(* as documented, when none of them is missing or none is older             *)
(* (stats.go:285-306, 351-360).                                             *)
THEOREM UptimeOfLastDays == Spec => []UptimeOfDays
  BY UptimeInWindow, Invariance, PTL

-----------------------------------------------------------------------------
(* The points of the hosts of a group.                                      *)

(* The charted days of a host that misses no day are the last ones.         *)
LEMMA NoGap ==
  ASSUME IInv, NEW h \in Hosts, Complete(h), Gapless(h)
  PROVE  \E m \in Int : /\ day - HistoryPoints <= m /\ m <= day
                        /\ Charted(h) = m .. day
                        /\ \A d \in Int : day - HistoryPoints <= d /\ d < m
                             => Responses(h, d) = {}
<1> DEFINE after(d) == {e \in PastDays(h) : e > d}
<1>0. /\ day \in Nat /\ HistoryPoints \in Nat
      /\ PastDays(h) \subseteq Nat /\ IsFiniteSet(PastDays(h))
      /\ \A d \in PastDays(h) : d < day
  BY DaysAreNumbers, StatsConstantsOK DEF StatsConstantsOK
<1>1. \A d : IsFiniteSet(after(d))
  BY <1>0, FS_Subset
<1>2. \A d \in PastDays(h) : d \in LastDays(h) <=> Cardinality(after(d)) < HistoryPoints
  BY DEF LastDays
<1>3. PICK m \in Charted(h) : \A e \in Charted(h) : m <= e
  <2>1. Charted(h) # {}
    BY DEF Charted
  <2> QED
    BY <2>1, ChartedFinite, SmallestNumber
<1>4. m \in Nat /\ m <= day /\ (m < day => m \in LastDays(h) /\ m \in PastDays(h))
  BY <1>0, <1>3 DEF Charted, LastDays
<1>5. ASSUME m < day, NEW d \in m .. day - 1 PROVE d \in PastDays(h)
  <2>1. PICK ts \in recorded[h] : ts[1] = m
    BY <1>4, <1>5 DEF PastDays
  <2>2. Responses(h, d) # {}
    BY <1>5, <2>1 DEF Gapless
  <2>3. d # day
    BY <1>0, <1>4, <1>5
  <2> QED
    BY <2>2, <2>3 DEF PastDays, Responses
<1>6. ASSUME NEW d \in m .. day PROVE d \in Charted(h)
  <2>1. CASE d = day
    BY <2>1 DEF Charted
  <2>2. CASE d # day
    <3>1. m < day /\ d \in m .. day - 1 /\ m <= d /\ d \in Int
      BY <1>0, <1>4, <2>2
    <3>2. d \in PastDays(h)
      BY <1>5, <3>1
    <3>3. after(d) \in SUBSET after(m)
      BY <1>0, <1>4, <3>1
    <3> HIDE DEF after
    <3>4. Cardinality(after(d)) <= Cardinality(after(m)) /\ Cardinality(after(m)) < HistoryPoints
      BY <1>1, <1>2, <1>4, <3>1, <3>3, FS_Subset
    <3>5. Cardinality(after(d)) \in Nat /\ Cardinality(after(m)) \in Nat
      BY <1>1, FS_CardinalityType
    <3>6. d \in LastDays(h)
      BY <1>0, <1>2, <3>2, <3>4, <3>5
    <3> QED
      BY <3>6 DEF Charted
  <2> QED
    BY <2>1, <2>2
<1>7. Charted(h) = m .. day
  <2>1. Charted(h) \subseteq m .. day
    BY <1>0, <1>3, <1>4 DEF Charted, LastDays
  <2> QED
    BY <1>6, <2>1
<1>8. day - HistoryPoints <= m
  <2>1. CASE m = day
    BY <1>0, <2>1
  <2>2. CASE m < day
    <3>1. after(m) = m + 1 .. day - 1
      BY <1>0, <1>4, <1>5, <2>2
    <3>2. Cardinality(m + 1 .. day - 1) = day - (m + 1)
      BY <1>0, <1>4, <2>2, DaysBetween
    <3>3. Cardinality(after(m)) < HistoryPoints
      BY <1>2, <1>4, <2>2
    <3> HIDE DEF after
    <3>4. day - (m + 1) < HistoryPoints
      BY <3>1, <3>2, <3>3, Zenon
    <3> QED
      BY <1>0, <1>4, <3>4
  <2> QED
    BY <1>0, <1>4, <2>1, <2>2
<1>9. ASSUME NEW d \in Int, day - HistoryPoints <= d, d < m, Responses(h, d) # {}
      PROVE  FALSE
  <2>1. d \in PastDays(h)
    BY <1>0, <1>4, <1>9 DEF PastDays, Responses
  <2>2. after(d) \in SUBSET (d + 1 .. day - 1)
    BY <1>0, <1>9
  <2>3. IsFiniteSet(d + 1 .. day - 1) /\ Cardinality(d + 1 .. day - 1) = day - (d + 1)
    <3>1. d + 1 \in Int /\ d + 1 <= day
      BY <1>0, <1>4, <1>9
    <3> QED
      BY <1>0, <3>1, DaysBetween
  <2>4. Cardinality(after(d)) <= Cardinality(d + 1 .. day - 1)
    <3> HIDE DEF after
    <3> QED
      BY <2>2, <2>3, FS_Subset
  <2>5. Cardinality(after(d)) \in Nat
    BY <1>1, FS_CardinalityType
  <2> HIDE DEF after
  <2>6. Cardinality(after(d)) < HistoryPoints
    BY <1>0, <1>9, <2>3, <2>4, <2>5
  <2>7. d \in Charted(h)
    BY <1>2, <2>1, <2>6 DEF Charted
  <2> QED
    BY <1>3, <1>4, <1>9, <2>7
<1> QED
  BY <1>4, <1>7, <1>8, <1>9

(* The i-th point of such a host is that of the day it should be of.        *)
LEMMA PointOfDay ==
  ASSUME IInv, NEW h \in Hosts, Complete(h), Gapless(h), NEW i \in 0 .. HistoryPoints
  PROVE  /\ Point(h, i).ts[1] = day - HistoryPoints + i
         /\ Point(h, i).status = DayStatus(Responses(h, day - HistoryPoints + i))
<1>0. day \in Nat /\ HistoryPoints \in Nat /\ MaxTick \in Nat /\ i \in Nat /\ i <= HistoryPoints
  BY DaysAreNumbers, ConstantsOK, StatsConstantsOK DEF ConstantsOK, StatsConstantsOK
<1> DEFINE first == day - HistoryPoints
<1>1. PICK m \in Int : /\ first <= m /\ m <= day /\ Charted(h) = m .. day
                       /\ \A d \in Int : first <= d /\ d < m => Responses(h, d) = {}
  BY NoGap
<1> DEFINE filler(d) == [ts |-> <<d, MaxTick + 1>>, status |-> "unknown"]
           P(d) == IF d < m THEN filler(d) ELSE DayPoint(h, d)
<1>2. first \in Int
  BY <1>0
<1> HIDE DEF first
<1>3. Fillers(h) = {filler(d) : d \in first .. m - 1}
  <2>1. Cardinality(Charted(h)) = day - m + 1
    BY <1>0, <1>1, FS_Interval
  <2>2. HistoryPoints - Cardinality(Charted(h)) = m - 1 - first
    BY <1>0, <1>1, <2>1 DEF first
  <2>3. Fillers(h) = {filler(first + j) : j \in 0 .. m - 1 - first}
    BY <2>2 DEF Fillers, first
  <2>4. \A j \in 0 .. m - 1 - first : first + j \in first .. m - 1
    BY <1>1, <1>2
  <2>5. \A d \in first .. m - 1 : d - first \in 0 .. m - 1 - first /\ first + (d - first) = d
    BY <1>1, <1>2
  <2> HIDE DEF filler
  <2> QED
    BY <2>3, <2>4, <2>5
<1>4. Points(h) = {P(d) : d \in first .. day}
  <2>1. \A d \in first .. m - 1 : P(d) = filler(d) /\ d \in first .. day
    BY <1>0, <1>1, <1>2
  <2>2. \A d \in m .. day : P(d) = DayPoint(h, d) /\ d \in first .. day
    BY <1>0, <1>1, <1>2
  <2>3. \A d \in first .. day : d \in first .. m - 1 \/ d \in m .. day
    BY <1>0, <1>1, <1>2
  <2>4. Points(h) = {filler(d) : d \in first .. m - 1} \cup {DayPoint(h, d) : d \in m .. day}
    BY <1>1, <1>3, ChartPoints
  <2> HIDE DEF filler, P
  <2> QED
    BY <2>1, <2>2, <2>3, <2>4
<1>5. \A d : P(d).ts[1] = d /\ P(d).ts[2] \in Nat
  BY <1>0 DEF DayPoint
<1>6. \A d, e \in Int : Before(P(e).ts, P(d).ts) <=> e < d
  <2> HIDE DEF P
  <2> QED
    BY <1>5 DEF Before
<1> DEFINE rank(p) == Cardinality({q \in Points(h) : Before(q.ts, p.ts)})
<1>7. ASSUME NEW d \in first .. day PROVE rank(P(d)) = d - first
  <2> DEFINE S == first .. d - 1
             T == {q \in Points(h) : Before(q.ts, P(d).ts)}
             g == [e \in S |-> P(e)]
  <2>0. d \in Int /\ first <= d /\ d <= day
    BY <1>0, <1>2
  <2>1. T = {P(e) : e \in first .. d - 1}
    <3>1. \A e \in first .. d - 1 : e \in first .. day /\ e < d /\ e \in Int
      BY <1>0, <1>2, <2>0
    <3>2. \A e \in first .. day : e < d => e \in first .. d - 1
      BY <1>0, <1>2, <2>0
    <3>3. \A e \in first .. day : e \in Int
      BY <1>0, <1>2
    <3> HIDE DEF P
    <3> QED
      BY <1>4, <1>6, <2>0, <3>1, <3>2, <3>3
  <2>2. g \in [S -> T] /\ \A z \in T : \E e \in S : g[e] = z
    BY <2>1
  <2>3. \A e, x \in S : g[e] = g[x] => e = x
    <3> HIDE DEF P
    <3> QED
      BY <1>5
  <2>4. IsFiniteSet(S) /\ Cardinality(S) = d - first
    BY <1>2, <2>0, DaysBetween
  <2> HIDE DEF S, T, g, P
  <2>5. Cardinality(T) = Cardinality(S)
    BY <2>2, <2>3, <2>4, SameSize
  <2> QED
    BY <2>4, <2>5, Zenon DEF T
<1> DEFINE d0 == first + i
<1>8. d0 \in first .. day /\ d0 - first = i /\ d0 \in Int
  BY <1>0, <1>2 DEF first
<1>9. Point(h, i) = P(d0)
  <2>1. Point(h, i) = CHOOSE p \in Points(h) : rank(p) = i
    BY DEF Point
  <2> HIDE DEF rank, P, d0
  <2>2. P(d0) \in Points(h) /\ rank(P(d0)) = i
    BY <1>4, <1>7, <1>8
  <2>3. ASSUME NEW p \in Points(h), rank(p) = i PROVE p = P(d0)
    <3>1. PICK d \in first .. day : p = P(d)
      BY <1>4
    <3>2. d - first = i /\ d \in Int
      BY <1>0, <1>2, <1>7, <2>3, <3>1
    <3>3. d = d0
      BY <1>2, <1>8, <3>2
    <3> QED
      BY <3>1, <3>3
  <2> QED
    BY <2>1, <2>2, <2>3
<1>10. P(d0).status = DayStatus(Responses(h, d0))
  <2>1. CASE d0 < m
    <3>1. Responses(h, d0) = {}
      BY <1>1, <1>2, <1>8, <2>1
    <3>2. DayStatus(Responses(h, d0)) = "unknown"
      BY <3>1, KnownStatus
    <3> QED
      BY <2>1, <3>2
  <2>2. CASE ~(d0 < m)
    BY <2>2 DEF DayPoint
  <2> QED
    BY <2>1, <2>2
<1> QED
  BY <1>5, <1>9, <1>10 DEF first

LEMMA GroupByInvariant == IInv => GroupByDay
<1> SUFFICES ASSUME IInv, \A h \in Hosts : Complete(h) /\ Gapless(h),
                    NEW i \in 0 .. HistoryPoints
             PROVE  LET d == day - HistoryPoints + i
                        Of(s) == {h \in Hosts : DayStatus(Responses(h, d)) = s}
                    IN  /\ \A h \in Hosts : Point(h, i).ts[1] = d
                        /\ GroupPoint(i) = "up"
                             => Of("up") # {} /\ Of("up") \cup Of("unknown") = Hosts
                        /\ GroupPoint(i) = "down"    => Of("down") = Hosts
                        /\ GroupPoint(i) = "unknown" => Of("unknown") = Hosts
  BY DEF GroupByDay
<1> DEFINE d == day - HistoryPoints + i
           Of(s) == {h \in Hosts : DayStatus(Responses(h, d)) = s}
           statuses == [h \in Hosts |-> Point(h, i).status]
           Is(s) == {h \in Hosts : statuses[h] = s}
<1>1. \A h \in Hosts : Point(h, i).ts[1] = d
  BY PointOfDay
<1>2. ASSUME NEW s PROVE Is(s) = Of(s)
  BY PointOfDay
<1>3. \A h \in Hosts : h \in Of("up") \cup Of("degraded") \cup Of("down") \cup Of("unknown")
  BY KnownStatus DEF Status
<1>4. \A s, t : s # t => Of(s) \cap Of(t) = {}
  OBVIOUS
<1>5. GroupPoint(i) =
        CASE \/ Is("up") = Hosts
             \/ Is("unknown") # {} /\ Is("up") # {} /\ Is("down") \cup Is("degraded") = {}
               -> "up"
          [] Is("down") = Hosts -> "down"
          [] Is("down") \cup Is("degraded") # {} -> "degraded"
          [] OTHER -> "unknown"
  BY DEF GroupPoint, GroupStatus
<1>6. Hosts # {}
  BY StatsConstantsOK DEF StatsConstantsOK
<1> DEFINE up == Of("up")  down == Of("down")  degraded == Of("degraded")
           unknown == Of("unknown")
<1>7. /\ up \subseteq Hosts /\ down \subseteq Hosts /\ up \cap down = {}
      /\ up \cap degraded = {} /\ up \cap unknown = {} /\ down \cap unknown = {}
      /\ Hosts = up \cup degraded \cup down \cup unknown
  BY <1>3, <1>4
<1>8. GroupPoint(i) =
        CASE \/ up = Hosts
             \/ unknown # {} /\ up # {} /\ down \cup degraded = {}
               -> "up"
          [] down = Hosts -> "down"
          [] down \cup degraded # {} -> "degraded"
          [] OTHER -> "unknown"
  <2>1. Is("up") = up /\ Is("down") = down /\ Is("degraded") = degraded /\ Is("unknown") = unknown
    BY <1>2
  <2> HIDE DEF up, down, degraded, unknown, Is
  <2> QED
    BY <1>5, <2>1, Zenon
<1> HIDE DEF up, down, degraded, unknown
<1>9. /\ GroupPoint(i) = "up"      => up # {} /\ up \cup unknown = Hosts
      /\ GroupPoint(i) = "down"    => down = Hosts
      /\ GroupPoint(i) = "unknown" => unknown = Hosts
  BY <1>6, <1>7, <1>8
<1> QED
  BY <1>1, <1>9 DEF up, down, unknown

(* When no host of a group misses a day, the i-th points of the group are   *)
(* of the same day, and the group is up, down or unknown that day only when *)
(* its hosts' responses say so (stats.go:81-84, 311-349, 499-530).          *)
THEOREM GroupOfDay == Spec => []GroupByDay
  BY GroupByInvariant, Invariance, PTL

=============================================================================
