-------------------------- MODULE AggregationProofs -------------------------
(***************************************************************************)
(* Theorems about Aggregation for all hosts, days and bounds, for the      *)
(* resolution of any store, persistent or not.                             *)
(***************************************************************************)
EXTENDS Aggregation, TLAPS

-----------------------------------------------------------------------------
(* The invariants.                                                          *)

(* The clock never runs ahead of the day, and a dial is not recorded yet.   *)
Timely ==
  /\ today <= day /\ settled <= day
  /\ \A h \in Hosts : dial[h] # None => /\ dial[h] \notin recorded[h]
                                        /\ dial[h][1] <= day

(* Between two calls of the store Aggregate holds nothing; the host it does *)
(* is no longer to be done.                                                 *)
Tidy ==
  /\ pc # "add" => held = NoGroup
  /\ pc = "idle" => groups = {} /\ host = None
  /\ pc = "add" \/ groups # {} => host \in Hosts
  /\ host \notin todo

(* A plain record counts itself; an aggregation has the time of its day's   *)
(* midnight and counts responses of that day, which is over unless they     *)
(* came at midnight.                                                        *)
WellFormed(h, r) ==
  /\ r.of \subseteq recorded[h]
  /\ ~r.agg => r.of = {r.ts}
  /\ r.agg => /\ r.ts[2] = 0
              /\ \A i \in r.of : i[1] = r.ts[1] /\ (i[1] < day \/ i[2] = 0)

RecordsOK == \A h \in Hosts : \A r \in history[h] : WellFormed(h, r)

(* The days Aggregate has still to add: different ones, none of them empty. *)
Pending == groups \cup (IF pc = "add" THEN {held} ELSE {})

PendingOK ==
  /\ pc = "add" => held \notin groups
  /\ \A g \in Pending :
       /\ g.of # {} /\ g.of \subseteq recorded[host]
       /\ \A t \in g.of : t[1] = g.day /\ (t[1] < today \/ (t[1] = today /\ t[2] = 0))
  /\ \A g, k \in Pending : g.day = k.day => g = k

(* What is to be aggregated is not aggregated yet. *)
NotYet ==
  \A g \in groups : \A r \in history[host] : r.of \cap g.of # {} => ~r.agg

(* A host that is done has no plain record of a past day, but for late ones *)
(* and those of the days still to be done.                                  *)
DoneOrLate ==
  pc # "idle" =>
    \A h \in Hosts \ todo : \A r \in history[h] :
      r.ts[1] < today => \/ r.agg \/ r.ts \in late[h]
                         \/ (h = host /\ \E g \in groups : r.ts \in g.of)

(* Next to the aggregation of a day there are only late plain records. *)
Midnights(x) == \A i \in x.of : i[2] = 0
LateOnly ==
  /\ \A h \in Hosts : \A x, r \in history[h] :
       x.agg /\ ~r.agg /\ x.ts[1] = r.ts[1] => r.ts \in late[h] \/ Midnights(x)
  /\ \A g \in Pending : \A t \in g.of : \A x \in history[host] :
       x.agg /\ x.ts[1] = g.day => t \in late[host] \/ Midnights(x)

-----------------------------------------------------------------------------
LEMMA NextCases ==
  ASSUME [Next]_vars
  PROVE  \/ Midnight \/ Launch \/ Shutdown \/ Exit
         \/ \E h \in Hosts, tick \in 0 .. MaxTick : Begin(h, tick)
         \/ \E h \in Hosts : Record(h)
         \/ \E h \in Hosts : Abandon(h)
         \/ \E h \in Hosts : Find(h)
         \/ \E g \in groups : Delete(g)
         \/ Start \/ Add \/ Fail \/ Finish
         \/ UNCHANGED vars
  BY DEF Next

LEMMA KeyEqual ==
  ASSUME NEW a \in Stamps, NEW b \in Stamps
  PROVE  Key(a) = Key(b) <=> a[1] = b[1] /\ Second[a[2]] = Second[b[2]]
  BY DEF Key

LEMMA StampParts ==
  ASSUME NEW ts \in Stamps
  PROVE  ts = <<ts[1], ts[2]>> /\ ts[1] \in Days /\ ts[2] \in 0 .. MaxTick
  BY DEF Stamps

LEMMA NoGroupType == NoGroup \in [day : Days, of : SUBSET Stamps]
  BY ConstantsOK DEF NoGroup, Days

(* What Find takes from the history. *)
LEMMA GroupFacts ==
  ASSUME NEW H \in SUBSET Records, NEW g \in Groups(H)
  PROVE  /\ g \in [day : Days, of : SUBSET Stamps]
         /\ g.of # {}
         /\ g.of = {r.ts : r \in {x \in H : Old(x) /\ x.ts[1] = g.day}}
<1>1. PICK d \in {r.ts[1] : r \in {x \in H : Old(x)}} :
        g = [day |-> d, of |-> {r.ts : r \in {x \in H : Old(x) /\ x.ts[1] = d}}]
  BY DEF Groups
<1>2. PICK y \in H : Old(y) /\ d = y.ts[1]
  BY <1>1
<1>3. y.ts \in Stamps
  BY DEF Records
<1>4. y.ts \in g.of
  BY <1>1, <1>2
<1>5. g.of \subseteq Stamps
  BY <1>1 DEF Records
<1> QED
  BY <1>1, <1>2, <1>3, <1>4, <1>5, StampParts

LEMMA GroupOf ==
  ASSUME NEW H \in SUBSET Records, NEW r \in H, Old(r)
  PROVE  \E g \in Groups(H) : r.ts \in g.of
<1> DEFINE d == r.ts[1]
           g == [day |-> d, of |-> {x.ts : x \in {y \in H : Old(y) /\ y.ts[1] = d}}]
<1>1. d \in {x.ts[1] : x \in {y \in H : Old(y)}}
  OBVIOUS
<1>2. g \in Groups(H)
  BY <1>1 DEF Groups
<1>3. r.ts \in g.of
  OBVIOUS
<1> QED
  BY <1>2, <1>3

-----------------------------------------------------------------------------
(* Types. *)

LEMMA PutType ==
  ASSUME NEW H \in SUBSET Records, NEW r \in Records,
         \A x, y \in H : Key(x.ts) = Key(y.ts) => x = y
  PROVE  /\ Put(H, r) \in SUBSET Records
         /\ \A x, y \in Put(H, r) : Key(x.ts) = Key(y.ts) => x = y
  BY DEF Put

LEMMA InitType == Init => TypeOK
<1> SUFFICES ASSUME Init PROVE TypeOK
  OBVIOUS
<1>1. 0 \in Days
  BY ConstantsOK DEF Days
<1> QED
  BY <1>1, NoGroupType DEF Init, TypeOK

LEMMA NextType == TypeOK /\ [Next]_vars => TypeOK'
<1> SUFFICES ASSUME TypeOK, [Next]_vars PROVE TypeOK'
  OBVIOUS
<1> USE DEF job, ghosts
<1>1. CASE Midnight
  BY <1>1, ConstantsOK DEF Midnight, TypeOK, Days
<1>2. CASE Launch \/ Shutdown \/ Start
  BY <1>2 DEF Launch, Shutdown, Start, TypeOK
<1>3. CASE Exit
  <2>1. history' \in [Hosts -> SUBSET Records]
    BY <1>3 DEF Exit, TypeOK
  <2>2. \A h \in Hosts : \A r, s \in history'[h] : Key(r.ts) = Key(s.ts) => r = s
    BY <1>3 DEF Exit, TypeOK
  <2>3. cut' \in [Hosts -> SUBSET Stamps]
    BY <1>3 DEF Exit, TypeOK, Holding
  <2>4. 0 \in Days
    BY ConstantsOK DEF Days
  <2> QED
    BY <1>3, <2>1, <2>2, <2>3, <2>4, NoGroupType DEF Exit, Return, TypeOK
<1>4. ASSUME NEW h \in Hosts, NEW tick \in 0 .. MaxTick, Begin(h, tick) PROVE TypeOK'
  <2>1. <<day, tick>> \in Stamps
    BY DEF TypeOK, Stamps
  <2> QED
    BY <1>4, <2>1 DEF Begin, TypeOK
<1>5. ASSUME NEW h \in Hosts, Record(h) PROVE TypeOK'
  <2>1. dial[h] \in Stamps
    BY <1>5 DEF Record, TypeOK
  <2>2. Response(dial[h]) \in Records
    BY <2>1 DEF Response, Records
  <2>3. /\ history' \in [Hosts -> SUBSET Records]
        /\ \A k \in Hosts : \A r, s \in history'[k] : Key(r.ts) = Key(s.ts) => r = s
    BY <1>5, <2>2, PutType DEF Record, TypeOK
  <2> QED
    BY <1>5, <2>1, <2>3 DEF Record, TypeOK
<1>6. ASSUME NEW h \in Hosts, Abandon(h) PROVE TypeOK'
  BY <1>6 DEF Abandon, TypeOK
<1>7. ASSUME NEW h \in Hosts, Find(h) PROVE TypeOK'
  <2>1. Groups(history[h]) \subseteq [day : Days, of : SUBSET Stamps]
    BY GroupFacts DEF TypeOK
  <2> QED
    BY <1>7, <2>1 DEF Find, TypeOK
<1>8. ASSUME NEW g \in groups, Delete(g) PROVE TypeOK'
  BY <1>8 DEF Delete, Without, TypeOK
<1>9. CASE Add
  <2>1. <<held.day, 0>> \in Stamps
    BY ConstantsOK DEF TypeOK, Stamps
  <2>2. AggregateDay(held) \in Records
    BY <2>1 DEF AggregateDay, Records, TypeOK
  <2>3. /\ history' \in [Hosts -> SUBSET Records]
        /\ \A k \in Hosts : \A r, s \in history'[k] : Key(r.ts) = Key(s.ts) => r = s
    BY <1>9, <2>2, PutType DEF Add, TypeOK
  <2> QED
    BY <1>9, <2>3, NoGroupType DEF Add, TypeOK
<1>10. CASE Fail
  <2>1. cut' \in [Hosts -> SUBSET Stamps]
    BY <1>10 DEF Fail, TypeOK, Holding
  <2>2. 0 \in Days
    BY ConstantsOK DEF Days
  <2> QED
    BY <1>10, <2>1, <2>2, NoGroupType DEF Fail, Return, TypeOK
<1>11. CASE Finish
  <2>1. 0 \in Days
    BY ConstantsOK DEF Days
  <2> QED
    BY <1>11, <2>1, NoGroupType DEF Finish, Return, TypeOK
<1>12. CASE UNCHANGED vars
  BY <1>12 DEF vars, TypeOK
<1> QED
  BY <1>1, <1>2, <1>3, <1>4, <1>5, <1>6, <1>7, <1>8, <1>9, <1>10, <1>11,
     <1>12, NextCases

(* Every variable stays in its type; in particular the store never has two  *)
(* records with one key.                                                    *)
THEOREM AggregationTypes == Spec => []TypeOK
  BY InitType, NextType, PTL DEF Spec

-----------------------------------------------------------------------------
(* The clock and what Aggregate keeps between its calls. *)

LEMMA InitTimely == Init => Timely /\ Tidy
  BY ConstantsOK DEF Init, Timely, Tidy, Days

LEMMA NextTimely == TypeOK /\ Timely /\ [Next]_vars => Timely'
<1> SUFFICES ASSUME TypeOK, Timely, [Next]_vars PROVE Timely'
  OBVIOUS
<1> USE DEF Timely, job, ghosts
<1>0. day \in Nat /\ today \in Nat /\ settled \in Nat
  BY ConstantsOK DEF TypeOK, Days
<1>1. CASE Midnight
  <2>1. day' = day + 1 /\ UNCHANGED <<today, settled, dial, recorded>>
    BY <1>1 DEF Midnight
  <2>2. \A h \in Hosts : dial[h] # None => dial[h][1] <= day'
    BY <1>0, <2>1, StampParts, ConstantsOK DEF TypeOK, Days
  <2> QED
    BY <1>0, <2>1, <2>2
<1>2. CASE Launch
  BY <1>2 DEF Launch
<1>3. CASE Shutdown \/ Exit \/ Fail \/ Finish \/ Start
  BY <1>0, <1>3 DEF Shutdown, Exit, Fail, Finish, Start, Return, TypeOK
<1>4. ASSUME NEW h \in Hosts, NEW tick \in 0 .. MaxTick, Begin(h, tick) PROVE Timely'
  <2>1. <<day, tick>> \notin recorded[h]
    BY <1>4 DEF Begin
  <2> QED
    BY <1>0, <1>4, <2>1 DEF Begin, TypeOK
<1>5. ASSUME NEW h \in Hosts, Record(h) PROVE Timely'
  BY <1>5 DEF Record, TypeOK
<1>6. ASSUME NEW h \in Hosts, Abandon(h) PROVE Timely'
  BY <1>6 DEF Abandon, TypeOK
<1>7. ASSUME NEW h \in Hosts, Find(h) PROVE Timely'
  BY <1>7 DEF Find
<1>8. ASSUME NEW g \in groups, Delete(g) PROVE Timely'
  BY <1>8 DEF Delete
<1>9. CASE Add
  BY <1>9 DEF Add
<1>10. CASE UNCHANGED vars
  BY <1>10 DEF vars
<1> QED
  BY <1>1, <1>2, <1>3, <1>4, <1>5, <1>6, <1>7, <1>8, <1>9, <1>10, NextCases

LEMMA NextTidy == TypeOK /\ Tidy /\ [Next]_vars => Tidy'
<1> SUFFICES ASSUME TypeOK, Tidy, [Next]_vars PROVE Tidy'
  OBVIOUS
<1> USE DEF Tidy, job, ghosts
<1>0. None \notin Hosts /\ todo \subseteq Hosts
  BY ConstantsOK DEF TypeOK
<1>1. CASE Midnight \/ Launch \/ Shutdown
  BY <1>1 DEF Midnight, Launch, Shutdown
<1>2. CASE Exit \/ Fail \/ Finish
  BY <1>2 DEF Exit, Fail, Finish, Return
<1>3. ASSUME NEW h \in Hosts, NEW tick \in 0 .. MaxTick, Begin(h, tick) PROVE Tidy'
  BY <1>3 DEF Begin
<1>4. ASSUME NEW h \in Hosts, Record(h) \/ Abandon(h) PROVE Tidy'
  BY <1>4 DEF Record, Abandon
<1>5. ASSUME NEW h \in Hosts, Find(h) PROVE Tidy'
  BY <1>5 DEF Find
<1>6. ASSUME NEW g \in groups, Delete(g) PROVE Tidy'
  BY <1>6 DEF Delete
<1>7. CASE Add
  BY <1>7 DEF Add
<1>8. CASE Start
  BY <1>0, <1>8 DEF Start
<1>9. CASE UNCHANGED vars
  BY <1>9 DEF vars
<1> QED
  BY <1>1, <1>2, <1>3, <1>4, <1>5, <1>6, <1>7, <1>8, <1>9, NextCases

-----------------------------------------------------------------------------
(* The days that are pending. *)

LEMMA NextPending ==
  TypeOK /\ Timely /\ Tidy /\ RecordsOK /\ PendingOK /\ [Next]_vars => PendingOK'
<1> SUFFICES ASSUME TypeOK, Timely, Tidy, RecordsOK, PendingOK, [Next]_vars
             PROVE  PendingOK'
  OBVIOUS
<1> USE DEF PendingOK, Pending, job, ghosts
<1>1. CASE Midnight \/ Launch \/ Shutdown \/ UNCHANGED vars
  BY <1>1 DEF Midnight, Launch, Shutdown, vars
<1>2. CASE Exit \/ Fail \/ Finish
  BY <1>2 DEF Exit, Fail, Finish, Return
<1>3. ASSUME NEW h \in Hosts, NEW tick \in 0 .. MaxTick, Begin(h, tick)
      PROVE  PendingOK'
  BY <1>3 DEF Begin
<1>4. ASSUME NEW h \in Hosts, Abandon(h) PROVE PendingOK'
  BY <1>4 DEF Abandon
<1>5. ASSUME NEW h \in Hosts, Record(h) PROVE PendingOK'
  <2>1. \A k \in Hosts : recorded[k] \subseteq recorded'[k]
    BY <1>5 DEF Record, TypeOK
  <2>2. Pending # {} => host \in Hosts
    BY DEF Tidy
  <2>3. UNCHANGED job
    BY <1>5 DEF Record
  <2> QED
    BY <2>1, <2>2, <2>3
<1>6. ASSUME NEW h \in Hosts, Find(h) PROVE PendingOK'
  <2>1. /\ pc' = "run" /\ host' = h /\ today' = today /\ recorded' = recorded
        /\ groups' = Groups(history[h])
    BY <1>6 DEF Find
  <2>2. history[h] \in SUBSET Records
    BY DEF TypeOK
  <2>3. ASSUME NEW g \in groups'
        PROVE  /\ g.of # {} /\ g.of \subseteq recorded[h]
               /\ \A t \in g.of : /\ t[1] = g.day
                                  /\ t[1] < today \/ (t[1] = today /\ t[2] = 0)
    <3>1. g.of # {} /\ g.of = {r.ts : r \in {x \in history[h] : Old(x) /\ x.ts[1] = g.day}}
      BY <2>1, <2>2, <2>3, GroupFacts
    <3>2. ASSUME NEW r \in history[h], Old(r)
          PROVE  /\ r.ts \in recorded[h]
                 /\ r.ts[1] < today \/ (r.ts[1] = today /\ r.ts[2] = 0)
      <4>1. r.ts \in Stamps /\ WellFormed(h, r)
        BY <2>2 DEF Records, RecordsOK
      <4>2. r.ts[1] \in Nat /\ r.ts[2] \in Nat /\ today \in Nat
        BY <4>1, StampParts, ConstantsOK DEF Days, TypeOK
      <4> QED
        BY <3>2, <4>1, <4>2 DEF Old, Fresh, WellFormed
    <3> QED
      BY <3>1, <3>2
  <2>4. ASSUME NEW g \in groups', NEW k \in groups', g.day = k.day PROVE g = k
    <3>1. /\ g \in [day : Days, of : SUBSET Stamps]
          /\ k \in [day : Days, of : SUBSET Stamps]
      BY <2>1, <2>2, GroupFacts
    <3> DEFINE Of(d) == {r.ts : r \in {x \in history[h] : Old(x) /\ x.ts[1] = d}}
    <3>2. g.of = Of(g.day) /\ k.of = Of(k.day)
      BY <2>1, <2>2, GroupFacts
    <3>3. g.of = k.of
      <4> HIDE DEF Of
      <4> QED
        BY <2>4, <3>2
    <3> QED
      BY <2>4, <3>1, <3>3
  <2> QED
    BY <2>1, <2>3, <2>4
<1>7. ASSUME NEW g \in groups, Delete(g) PROVE PendingOK'
  <2>1. /\ Pending' = Pending /\ held' = g /\ groups' = groups \ {g}
        /\ UNCHANGED <<host, today, recorded>>
    BY <1>7 DEF Delete
  <2> QED
    BY <2>1
<1>8. CASE Add
  BY <1>8 DEF Add
<1>9. CASE Start
  BY <1>9 DEF Start, Tidy
<1> QED
  BY <1>1, <1>2, <1>3, <1>4, <1>5, <1>6, <1>7, <1>8, <1>9, NextCases

-----------------------------------------------------------------------------
(* The records are well formed, and nothing is counted twice. *)

LEMMA FewerRecords ==
  ASSUME TypeOK, RecordsOK, day' = day \/ day' = day + 1,
         \A h \in Hosts : history'[h] \subseteq history[h],
         \A h \in Hosts : recorded[h] \subseteq recorded'[h]
  PROVE  RecordsOK'
<1> SUFFICES ASSUME NEW h \in Hosts, NEW r \in history'[h] PROVE WellFormed(h, r)'
  BY DEF RecordsOK
<1>1. WellFormed(h, r) /\ r \in Records
  BY DEF RecordsOK, TypeOK
<1>2. \A i \in r.of : i[1] \in Nat /\ day \in Nat
  BY <1>1, StampParts, ConstantsOK DEF Records, Days, TypeOK
<1> QED
  BY <1>1, <1>2 DEF WellFormed

LEMMA NextRecords ==
  TypeOK /\ Timely /\ Tidy /\ PendingOK /\ RecordsOK /\ [Next]_vars => RecordsOK'
<1> SUFFICES ASSUME TypeOK, Timely, Tidy, PendingOK, RecordsOK, [Next]_vars
             PROVE  RecordsOK'
  OBVIOUS
<1> USE DEF job, ghosts
<1>1. CASE Midnight \/ Launch \/ Shutdown \/ Start \/ Fail \/ Finish \/ UNCHANGED vars
  BY <1>1, FewerRecords DEF Midnight, Launch, Shutdown, Start, Fail, Finish, vars
<1>2. CASE Exit
  BY <1>2, FewerRecords DEF Exit, TypeOK
<1>3. ASSUME NEW h \in Hosts, NEW tick \in 0 .. MaxTick, Begin(h, tick)
      PROVE  RecordsOK'
  BY <1>3, FewerRecords DEF Begin
<1>4. ASSUME NEW h \in Hosts, Abandon(h) \/ Find(h) PROVE RecordsOK'
  BY <1>4, FewerRecords DEF Abandon, Find
<1>5. ASSUME NEW h \in Hosts, Record(h) PROVE RecordsOK'
  <2>1. PICK new \in Records :
          /\ new.of = {new.ts} /\ ~new.agg /\ new.ts \in recorded'[h]
          /\ \A k \in Hosts : \A r \in history'[k] :
               r \in history[k] \/ (k = h /\ r = new)
    <3>1. Response(dial[h]) \in Records
      BY <1>5 DEF Record, TypeOK, Response, Records
    <3> QED
      BY <1>5, <3>1 DEF Record, Put, Response, TypeOK
  <2>2. /\ day' = day /\ \A k \in Hosts : recorded[k] \subseteq recorded'[k]
    BY <1>5 DEF Record, TypeOK
  <2>3. ASSUME NEW k \in Hosts, NEW r \in history'[k] PROVE WellFormed(k, r)'
    <3>1. CASE k = h /\ r = new
      BY <2>1, <3>1 DEF WellFormed
    <3>2. CASE r \in history[k]
      BY <2>2, <3>2 DEF RecordsOK, WellFormed
    <3> QED
      BY <2>1, <3>1, <3>2
  <2> QED
    BY <2>3 DEF RecordsOK
<1>6. ASSUME NEW g \in groups, Delete(g) PROVE RecordsOK'
  BY <1>6, FewerRecords DEF Delete, Without, TypeOK
<1>7. CASE Add
  <2>1. UNCHANGED <<day, recorded>> /\ host \in Hosts /\ held \in Pending
    BY <1>7 DEF Add, Tidy, Pending
  <2>2. \A k \in Hosts : \A r \in history'[k] :
          r \in history[k] \/ (k = host /\ r = AggregateDay(held))
    BY <1>7 DEF Add, Put, TypeOK
  <2>3. /\ held.of \subseteq recorded[host] /\ held.of \subseteq Stamps
        /\ \A t \in held.of : t[1] = held.day /\ (t[1] < today \/ (t[1] = today /\ t[2] = 0))
    BY <2>1 DEF PendingOK, TypeOK
  <2>4. \A t \in held.of : t[1] < day \/ t[2] = 0
    <3>1. \A t \in held.of : t[1] \in Nat
      BY <2>3, StampParts DEF Days
    <3>2. day \in Nat /\ today \in Nat /\ today <= day
      BY ConstantsOK DEF TypeOK, Days, Timely
    <3> QED
      BY <2>3, <3>1, <3>2
  <2>5. WellFormed(host, AggregateDay(held))
    BY <2>3, <2>4 DEF AggregateDay, WellFormed
  <2>6. ASSUME NEW k \in Hosts, NEW r \in history'[k] PROVE WellFormed(k, r)
    BY <2>2, <2>5 DEF RecordsOK
  <2>7. ASSUME NEW k \in Hosts, NEW r \in history'[k] PROVE WellFormed(k, r)'
    BY <2>1, <2>6, <2>7 DEF WellFormed
  <2> QED
    BY <2>7 DEF RecordsOK
<1> QED
  BY <1>1, <1>2, <1>3, <1>4, <1>5, <1>6, <1>7, NextCases

Disjoint(h, taken) ==
  /\ \A r, s \in history[h] : r # s => r.of \cap s.of = {}
  /\ \A r \in history[h] : r.of \cap taken = {}

LEMMA OnceByRecord == CountedOnce <=> \A h \in Hosts : Disjoint(h, Holding(h))
  BY DEF CountedOnce, Disjoint, Stored

LEMMA HoldingNothing ==
  ASSUME Tidy, pc # "add"
  PROVE  \A h : Holding(h) = {}
  BY DEF Tidy, Holding, NoGroup

LEMMA FewerCounted ==
  ASSUME CountedOnce, NotYet, Tidy',
         \A h \in Hosts : history'[h] \subseteq history[h],
         \/ UNCHANGED <<host, held, groups>>
         \/ pc' = "idle"
  PROVE  CountedOnce' /\ NotYet'
<1>1. \A h \in Hosts : Holding(h)' \subseteq Holding(h)
  BY DEF Holding, Tidy, NoGroup
<1>2. CountedOnce'
  BY <1>1 DEF CountedOnce, Stored
<1>3. NotYet'
  <2>1. CASE groups' = {}
    BY <2>1 DEF NotYet
  <2>2. CASE groups' # {}
    <3>1. UNCHANGED <<host, groups>> /\ host \in Hosts
      BY <2>2 DEF Tidy
    <3> QED
      BY <3>1 DEF NotYet
  <2> QED
    BY <2>1, <2>2
<1> QED
  BY <1>2, <1>3

LEMMA NextOnce ==
  ASSUME TypeOK, Timely, Tidy, RecordsOK, PendingOK, CountedOnce, NotYet,
         [Next]_vars, Tidy'
  PROVE  CountedOnce' /\ NotYet'
<1> USE DEF job, ghosts
<1>1. CASE Midnight \/ Launch \/ Shutdown \/ UNCHANGED vars
  BY <1>1, FewerCounted DEF Midnight, Launch, Shutdown, vars
<1>2. CASE Exit
  BY <1>2, FewerCounted DEF Exit, Return, TypeOK
<1>3. CASE Fail \/ Finish
  BY <1>3, FewerCounted DEF Fail, Finish, Return
<1>4. ASSUME NEW h \in Hosts, NEW tick \in 0 .. MaxTick, Begin(h, tick)
      PROVE  CountedOnce' /\ NotYet'
  BY <1>4, FewerCounted DEF Begin
<1>5. ASSUME NEW h \in Hosts, Abandon(h) PROVE CountedOnce' /\ NotYet'
  BY <1>5, FewerCounted DEF Abandon
<1>6. CASE Start
  BY <1>6, FewerCounted DEF Start
<1>7. ASSUME NEW h \in Hosts, Record(h) PROVE CountedOnce' /\ NotYet'
  <2> DEFINE new == Response(dial[h])
  <2>1. /\ UNCHANGED <<pc, host, held, groups>>
        /\ \A k \in Hosts : \A r \in history'[k] :
             r \in history[k] \/ (k = h /\ r = new)
    BY <1>7 DEF Record, Put, TypeOK
  <2>2. new.of = {dial[h]} /\ ~new.agg /\ dial[h] \notin recorded[h]
    BY <1>7 DEF Record, Response, Timely
  <2>3. \A r \in history[h] : r.of \subseteq recorded[h]
    BY DEF RecordsOK, WellFormed
  <2>4. Holding(h) \subseteq recorded[h]
    <3>1. CASE pc = "add"
      BY <3>1 DEF Holding, PendingOK, Pending
    <3>2. CASE pc # "add"
      BY <3>2, HoldingNothing
    <3> QED
      BY <3>1, <3>2
  <2>5. \A k : Holding(k)' = Holding(k)
    BY <2>1 DEF Holding
  <2>6. CountedOnce'
    <3> SUFFICES ASSUME NEW k \in Hosts PROVE Disjoint(k, Holding(k))'
      BY OnceByRecord DEF Disjoint, CountedOnce, Stored
    <3>1. Disjoint(k, Holding(k))
      BY OnceByRecord
    <3> HIDE DEF new
    <3> QED
      BY <2>1, <2>2, <2>3, <2>4, <2>5, <3>1 DEF Disjoint
  <2>7. NotYet'
    <3> HIDE DEF new
    <3> QED
      BY <2>1, <2>2 DEF NotYet, Tidy
  <2> QED
    BY <2>6, <2>7
<1>8. ASSUME NEW h \in Hosts, Find(h) PROVE CountedOnce' /\ NotYet'
  <2>1. /\ pc = "run" /\ pc' = "run" /\ history' = history /\ host' = h
        /\ groups' = Groups(history[h])
    BY <1>8 DEF Find
  <2>2. CountedOnce'
    <3>1. \A k \in Hosts : Holding(k)' = {}
      BY <2>1 DEF Holding, Tidy, NoGroup
    <3> QED
      BY <2>1, <3>1 DEF CountedOnce, Stored
  <2>3. NotYet'
    <3> SUFFICES ASSUME NEW g \in Groups(history[h]), NEW r \in history[h],
                        NEW t \in r.of \cap g.of
                 PROVE  ~r.agg
      BY <2>1 DEF NotYet
    <3>1. PICK x \in history[h] : Old(x) /\ x.ts = t
      BY GroupFacts DEF TypeOK
    <3>2. ~x.agg /\ x.of = {t}
      BY <3>1 DEF Old, RecordsOK, WellFormed
    <3>3. x = r
      BY <3>2 DEF CountedOnce
    <3> QED
      BY <3>2, <3>3
  <2> QED
    BY <2>2, <2>3
<1>9. ASSUME NEW g \in groups, Delete(g) PROVE CountedOnce' /\ NotYet'
  <2>1. /\ pc = "run" /\ held' = g /\ host' = host /\ groups' = groups \ {g}
        /\ host \in Hosts
        /\ history' = [history EXCEPT ![host] = Without(@, g.of)]
    BY <1>9 DEF Delete, Tidy
  <2>2. \A k \in Hosts : history'[k] \subseteq history[k]
    BY <2>1 DEF Without, TypeOK
  <2>3. \A r \in history'[host] : r.of \cap g.of = {}
    <3> SUFFICES ASSUME NEW r \in history'[host], NEW t \in r.of \cap g.of PROVE FALSE
      OBVIOUS
    <3>1. r \in history[host] /\ \A s \in g.of : Key(r.ts) # Key(s)
      BY <2>1 DEF Without, TypeOK
    <3>2. ~r.agg
      BY <3>1 DEF NotYet
    <3>3. r.ts = t
      BY <2>1, <3>1, <3>2 DEF RecordsOK, WellFormed
    <3> QED
      BY <3>1, <3>3
  <2>4. \A k \in Hosts : Holding(k)' = IF k = host THEN g.of ELSE {}
    BY <2>1 DEF Holding
  <2>5. CountedOnce'
    BY <2>1, <2>2, <2>3, <2>4 DEF CountedOnce, Stored
  <2>6. NotYet'
    BY <2>1, <2>2 DEF NotYet
  <2> QED
    BY <2>5, <2>6
<1>10. CASE Add
  <2> DEFINE new == AggregateDay(held)
  <2>1. /\ pc' = "run" /\ host \in Hosts /\ UNCHANGED <<host, groups>>
        /\ \A k \in Hosts : \A r \in history'[k] :
             r \in history[k] \/ (k = host /\ r = new)
    BY <1>10 DEF Add, Put, TypeOK, Tidy
  <2>2. new.of = held.of /\ held.of = Holding(host)
    BY <1>10 DEF AggregateDay, Holding
  <2>3. \A k : Holding(k)' = {}
    BY <2>1 DEF Tidy, Holding, NoGroup
  <2>4. CountedOnce'
    <3> SUFFICES ASSUME NEW k \in Hosts PROVE Disjoint(k, {})'
      BY <2>3, OnceByRecord DEF Disjoint, CountedOnce, Stored
    <3>1. Disjoint(k, Holding(k))
      BY OnceByRecord
    <3> HIDE DEF new
    <3> QED
      BY <2>1, <2>2, <3>1 DEF Disjoint
  <2>5. \A g \in groups : held.of \cap g.of = {}
    BY <1>10 DEF PendingOK, Pending, Add
  <2>6. NotYet'
    <3> HIDE DEF new
    <3> QED
      BY <2>1, <2>2, <2>5 DEF NotYet
  <2> QED
    BY <2>4, <2>6
<1> QED
  BY <1>1, <1>2, <1>3, <1>4, <1>5, <1>6, <1>7, <1>8, <1>9, <1>10, NextCases

-----------------------------------------------------------------------------
(* The past days are aggregated. *)

LEMMA NextDone ==
  ASSUME TypeOK, Timely, Tidy, RecordsOK, PendingOK, DoneOrLate, PastAggregated,
         [Next]_vars
  PROVE  DoneOrLate' /\ PastAggregated'
<1> USE DEF job, ghosts
<1>0. day \in Nat /\ today \in Nat /\ settled \in Nat
  BY ConstantsOK DEF TypeOK, Days
<1>1. CASE Midnight \/ Launch \/ Shutdown \/ UNCHANGED vars
  BY <1>1 DEF Midnight, Launch, Shutdown, vars, DoneOrLate, PastAggregated
<1>2. CASE Exit
  <2>1. \A h \in Hosts : history'[h] \subseteq history[h]
    BY <1>2 DEF Exit, TypeOK
  <2> QED
    BY <1>2, <2>1 DEF Exit, Return, DoneOrLate, PastAggregated
<1>3. CASE Fail
  BY <1>3 DEF Fail, Return, DoneOrLate, PastAggregated
<1>4. ASSUME NEW h \in Hosts, NEW tick \in 0 .. MaxTick, Begin(h, tick)
      PROVE  DoneOrLate' /\ PastAggregated'
  BY <1>4 DEF Begin, DoneOrLate, PastAggregated
<1>5. ASSUME NEW h \in Hosts, Abandon(h) PROVE DoneOrLate' /\ PastAggregated'
  BY <1>5 DEF Abandon, DoneOrLate, PastAggregated
<1>6. CASE Start
  <2>1. /\ pc' = "run" /\ todo' = {h \in Hosts : recorded[h] # {}}
        /\ UNCHANGED <<history, late, settled>>
    BY <1>6 DEF Start
  <2>2. ASSUME NEW h \in Hosts \ todo', NEW r \in history'[h] PROVE r.agg
    <3>1. WellFormed(h, r) /\ recorded[h] = {}
      BY <2>1, <2>2 DEF RecordsOK
    <3> QED
      BY <3>1 DEF WellFormed
  <2> QED
    BY <2>1, <2>2 DEF DoneOrLate, PastAggregated
<1>7. ASSUME NEW h \in Hosts, Record(h) PROVE DoneOrLate' /\ PastAggregated'
  <2>1. PICK t \in Stamps :
          /\ t[1] < day => t \in late'[h]
          /\ \A k \in Hosts : \A r \in history'[k] :
               r \in history[k] \/ (k = h /\ r.ts = t)
    <3>1. dial[h] \in Stamps
      BY <1>7 DEF Record, TypeOK
    <3> QED
      BY <1>7, <3>1 DEF Record, Put, Response, TypeOK
  <2>2. t[1] \in Nat /\ today <= day /\ settled <= day
    BY <2>1, StampParts DEF Days, Timely
  <2>3. /\ UNCHANGED <<pc, today, todo, host, groups, settled>>
        /\ \A k \in Hosts : late[k] \subseteq late'[k]
    BY <1>7 DEF Record, TypeOK
  <2>4. t[1] < today \/ t[1] < settled => t \in late'[h]
    BY <1>0, <2>1, <2>2
  <2>5. PastAggregated'
    BY <2>1, <2>3, <2>4 DEF PastAggregated
  <2>6. DoneOrLate'
    BY <2>1, <2>3, <2>4 DEF DoneOrLate
  <2> QED
    BY <2>5, <2>6
<1>8. ASSUME NEW h \in Hosts, Find(h) PROVE DoneOrLate' /\ PastAggregated'
  <2>1. /\ pc = "run" /\ groups = {} /\ todo' = todo \ {h} /\ host' = h
        /\ groups' = Groups(history[h])
        /\ UNCHANGED <<pc, today, history, late, settled>>
    BY <1>8 DEF Find
  <2>2. ASSUME NEW r \in history[h], r.ts[1] < today, ~r.agg
        PROVE  \E g \in groups' : r.ts \in g.of
    <3>1. r.ts \in Stamps /\ history[h] \in SUBSET Records
      BY DEF TypeOK, Records
    <3>2. r.ts[1] \in Nat
      BY <3>1, StampParts DEF Days
    <3>3. Old(r)
      BY <1>0, <2>2, <3>2 DEF Old, Fresh
    <3> QED
      BY <2>1, <3>1, <3>3, GroupOf
  <2>3. DoneOrLate'
    <3> SUFFICES ASSUME NEW k \in Hosts \ todo', NEW r \in history[k],
                        r.ts[1] < today
                 PROVE  \/ r.agg \/ r.ts \in late[k]
                        \/ (k = h /\ \E g \in groups' : r.ts \in g.of)
      BY <2>1 DEF DoneOrLate
    <3>1. CASE k = h
      BY <2>2, <3>1
    <3>2. CASE k # h
      BY <2>1, <3>2 DEF DoneOrLate
    <3> QED
      BY <3>1, <3>2
  <2> QED
    BY <2>1, <2>3 DEF PastAggregated
<1>9. ASSUME NEW g \in groups, Delete(g) PROVE DoneOrLate' /\ PastAggregated'
  <2>1. /\ pc = "run" /\ host \in Hosts /\ groups' = groups \ {g}
        /\ history' = [history EXCEPT ![host] = Without(@, g.of)]
        /\ UNCHANGED <<today, todo, host, late, settled>>
    BY <1>9 DEF Delete, Tidy
  <2>2. \A k \in Hosts : history'[k] \subseteq history[k]
    BY <2>1 DEF Without, TypeOK
  <2>3. \A r \in history'[host] : r.ts \notin g.of
    BY <2>1 DEF Without, TypeOK
  <2> QED
    BY <2>1, <2>2, <2>3 DEF DoneOrLate, PastAggregated
<1>10. CASE Add
  <2>1. /\ pc = "add" /\ host \in Hosts
        /\ UNCHANGED <<today, todo, host, groups, late, settled>>
        /\ \A k \in Hosts : \A r \in history'[k] : r \in history[k] \/ r.agg
    BY <1>10 DEF Add, Put, AggregateDay, TypeOK, Tidy
  <2> QED
    BY <2>1 DEF DoneOrLate, PastAggregated
<1>11. CASE Finish
  BY <1>11 DEF Finish, Return, DoneOrLate, PastAggregated
<1> QED
  BY <1>1, <1>2, <1>3, <1>4, <1>5, <1>6, <1>7, <1>8, <1>9, <1>10, <1>11,
     NextCases

-----------------------------------------------------------------------------
(* Next to an aggregation there are only late responses. *)

LEMMA NextLateOnly ==
  ASSUME TypeOK, Timely, Tidy, RecordsOK, PendingOK, DoneOrLate, LateOnly,
         [Next]_vars
  PROVE  LateOnly'
<1> USE DEF job, ghosts
<1>0. day \in Nat /\ today \in Nat
  BY ConstantsOK DEF TypeOK, Days
<1>1. CASE Midnight \/ Launch \/ Shutdown \/ Start \/ UNCHANGED vars
  BY <1>1 DEF Midnight, Launch, Shutdown, Start, vars, Tidy, LateOnly, Pending,
              Midnights
<1>2. CASE Exit \/ Fail \/ Finish
  <2>1. /\ Pending' = {} /\ late' = late
        /\ \A h \in Hosts : history'[h] \subseteq history[h]
    BY <1>2 DEF Exit, Fail, Finish, Return, Pending, TypeOK
  <2> QED
    BY <2>1 DEF LateOnly, Midnights
<1>3. ASSUME NEW h \in Hosts, NEW tick \in 0 .. MaxTick, Begin(h, tick)
      PROVE  LateOnly'
  BY <1>3 DEF Begin, LateOnly, Pending, Midnights
<1>4. ASSUME NEW h \in Hosts, Abandon(h) PROVE LateOnly'
  BY <1>4 DEF Abandon, LateOnly, Pending, Midnights
<1>5. ASSUME NEW h \in Hosts, Record(h) PROVE LateOnly'
  <2>1. PICK new \in Records :
          /\ ~new.agg /\ new.ts[1] <= day
          /\ new.ts[1] < day => new.ts \in late'[h]
          /\ \A k \in Hosts : \A r \in history'[k] :
               r \in history[k] \/ (k = h /\ r = new)
    <3>1. Response(dial[h]) \in Records
      BY <1>5 DEF Record, TypeOK, Response, Records
    <3> QED
      BY <1>5, <3>1 DEF Record, Put, Response, TypeOK, Timely
  <2>2. /\ \A k \in Hosts : late[k] \subseteq late'[k]
        /\ UNCHANGED <<pc, host, groups, held>>
    BY <1>5 DEF Record, TypeOK
  <2>3. ASSUME NEW x \in history[h], x.agg, x.ts[1] = new.ts[1]
        PROVE  new.ts \in late'[h] \/ Midnights(x)
    <3>1. \A i \in x.of : i[1] = x.ts[1] /\ (i[1] < day \/ i[2] = 0)
      BY <2>3 DEF RecordsOK, WellFormed
    <3>2. new.ts[1] \in Nat
      BY StampParts DEF Records, Days
    <3> QED
      BY <1>0, <2>1, <2>3, <3>1, <3>2 DEF Midnights
  <2>4. ASSUME NEW k \in Hosts, NEW x \in history'[k], NEW r \in history'[k],
               x.agg, ~r.agg, x.ts[1] = r.ts[1]
        PROVE  r.ts \in late'[k] \/ Midnights(x)
    <3>1. x \in history[k]
      BY <2>1, <2>4
    <3>2. CASE r \in history[k]
      BY <2>2, <2>4, <3>1, <3>2 DEF LateOnly
    <3>3. CASE k = h /\ r = new
      BY <2>3, <2>4, <3>1, <3>3
    <3> QED
      BY <2>1, <3>2, <3>3
  <2>5. ASSUME NEW g \in Pending', NEW t \in g.of, NEW x \in history'[host'],
               x.agg, x.ts[1] = g.day
        PROVE  t \in late'[host'] \/ Midnights(x)
    <3>1. g \in Pending /\ host' = host /\ host \in Hosts
      BY <2>2, <2>5 DEF Pending, Tidy
    <3>2. x \in history[host]
      BY <2>1, <2>5, <3>1
    <3> QED
      BY <2>2, <2>5, <3>1, <3>2 DEF LateOnly
  <2> QED
    BY <2>4, <2>5 DEF LateOnly, Midnights
<1>6. ASSUME NEW h \in Hosts, Find(h) PROVE LateOnly'
  <2>1. /\ pc = "run" /\ host' = h /\ groups' = Groups(history[h])
        /\ UNCHANGED <<pc, history, late>>
    BY <1>6 DEF Find
  <2>2. Pending' = Groups(history[h])
    BY <2>1 DEF Pending
  <2>3. ASSUME NEW g \in Groups(history[h]), NEW t \in g.of, NEW x \in history[h],
               x.agg, x.ts[1] = g.day
        PROVE  t \in late[h] \/ Midnights(x)
    <3>1. PICK r \in history[h] : Old(r) /\ r.ts = t /\ r.ts[1] = g.day
      BY GroupFacts DEF TypeOK
    <3> QED
      BY <2>3, <3>1 DEF LateOnly, Old
  <2> QED
    BY <2>1, <2>2, <2>3 DEF LateOnly, Midnights
<1>7. ASSUME NEW g \in groups, Delete(g) PROVE LateOnly'
  <2>1. /\ pc = "run" /\ pc' = "add" /\ held' = g /\ groups' = groups \ {g}
        /\ host \in Hosts /\ UNCHANGED <<host, late>>
        /\ \A k \in Hosts : history'[k] \subseteq history[k]
    BY <1>7 DEF Delete, Without, TypeOK, Tidy
  <2>2. Pending' = Pending
    BY <2>1 DEF Pending
  <2> QED
    BY <2>1, <2>2 DEF LateOnly, Midnights
<1>8. CASE Add
  <2>1. PICK new \in [ts : Days \X {0}, agg : {TRUE}, of : {held.of}] :
          /\ new.ts[1] = held.day
          /\ \A k \in Hosts : \A r \in history'[k] :
               r \in history[k] \/ (k = host /\ r = new)
    <3>1. AggregateDay(held) \in [ts : Days \X {0}, agg : {TRUE}, of : {held.of}]
      BY DEF AggregateDay, TypeOK
    <3> QED
      BY <1>8, <3>1 DEF Add, Put, AggregateDay, TypeOK
  <2>2. /\ pc = "add" /\ host \in Hosts /\ held \in Pending /\ held \notin groups
        /\ groups \subseteq Pending /\ Pending' = groups
        /\ UNCHANGED <<host, late>>
    BY <1>8 DEF Add, Tidy, Pending, PendingOK
  <2>3. \A g \in groups : g.day # held.day
    BY <2>2 DEF PendingOK
  <2>4. ASSUME NEW r \in history[host], ~r.agg, r.ts[1] = held.day
        PROVE  r.ts \in late[host] \/ Midnights(new)
    <3>1. CASE held.day < today
      <4>1. host \in Hosts \ todo
        BY <2>2 DEF Tidy
      <4>2. r.ts \in late[host] \/ \E g \in groups : r.ts \in g.of
        BY <2>2, <2>4, <3>1, <4>1 DEF DoneOrLate
      <4>3. \A g \in groups : \A t \in g.of : t[1] = g.day
        BY <2>2 DEF PendingOK
      <4> QED
        BY <2>3, <2>4, <4>2, <4>3
    <3>2. CASE ~(held.day < today)
      BY <2>1, <2>2, <3>2 DEF PendingOK, Midnights
    <3> QED
      BY <3>1, <3>2
  <2>5. \A k \in Hosts : \A x, r \in history'[k] :
          x.agg /\ ~r.agg /\ x.ts[1] = r.ts[1] => r.ts \in late[k] \/ Midnights(x)
    BY <2>1, <2>4 DEF LateOnly
  <2>6. \A g \in groups : \A t \in g.of : \A x \in history'[host] :
          x.agg /\ x.ts[1] = g.day => t \in late[host] \/ Midnights(x)
    BY <2>1, <2>2, <2>3 DEF LateOnly
  <2> QED
    BY <2>2, <2>5, <2>6 DEF LateOnly, Midnights
<1> QED
  BY <1>1, <1>2, <1>3, <1>4, <1>5, <1>6, <1>7, <1>8, NextCases

-----------------------------------------------------------------------------
(* What is lost, and why. *)

Explained(h, ts) ==
  \/ ts \in cut[h]
  \/ \E l \in late[h] : l[1] = ts[1]
  \/ \E other \in recorded[h] \ {ts} : Key(other) = Key(ts)
  \/ ts[2] = 0

Kept(h) == Stored(h) \cup Holding(h)

LEMMA LossByHost ==
  LossExplained <=> \A h \in Hosts : \A ts \in recorded[h] : ts \in Kept(h) \/ Explained(h, ts)
  BY DEF LossExplained, Explained, Kept

(* An explanation stays valid, so that only what a step removes needs one. *)
LEMMA LossStep ==
  ASSUME LossExplained,
         \A h \in Hosts : /\ cut[h] \subseteq cut'[h] /\ late[h] \subseteq late'[h]
                          /\ recorded[h] \subseteq recorded'[h],
         \A h \in Hosts : \A ts \in recorded'[h] :
           \/ ts \in recorded[h] /\ ts \notin Kept(h)
           \/ ts \in Kept(h)' \/ Explained(h, ts)'
  PROVE  LossExplained'
<1>1. \A h \in Hosts : \A ts \in recorded[h] : Explained(h, ts) => Explained(h, ts)'
  BY DEF Explained, Key
<1>2. \A h \in Hosts : \A ts \in recorded'[h] : ts \in Kept(h)' \/ Explained(h, ts)'
  BY <1>1, LossByHost
<1> QED
  BY <1>2 DEF LossExplained, Explained, Kept, Stored, Holding

LEMMA NothingLost ==
  ASSUME LossExplained, UNCHANGED <<history, recorded, late>>,
         \A h \in Hosts : cut[h] \subseteq cut'[h],
         \A h \in Hosts : Holding(h) \subseteq Holding(h)' \cup cut'[h]
  PROVE  LossExplained'
<1>1. \A h \in Hosts : Stored(h)' = Stored(h)
  BY DEF Stored
<1>2. \A h \in Hosts : \A ts \in recorded'[h] :
        \/ ts \in recorded[h] /\ ts \notin Kept(h)
        \/ ts \in Kept(h)' \/ Explained(h, ts)'
  BY <1>1 DEF Kept, Explained
<1> QED
  BY <1>2, LossStep

LEMMA NextLoss ==
  ASSUME TypeOK, Timely, Tidy, RecordsOK, PendingOK, DoneOrLate, LateOnly,
         LossExplained, [Next]_vars
  PROVE  LossExplained'
<1> USE DEF job, ghosts
<1>0. day \in Nat /\ today \in Nat
  BY ConstantsOK DEF TypeOK, Days
<1>1. CASE Midnight \/ Launch \/ Shutdown \/ Start \/ UNCHANGED vars
  BY <1>1, NothingLost DEF Midnight, Launch, Shutdown, Start, vars, Holding, Tidy,
                           NoGroup
<1>2. CASE Exit
  <2>1. CASE Persistent
    BY <1>2, <2>1, NothingLost DEF Exit, TypeOK
  <2>2. CASE ~Persistent
    BY <1>2, <2>2 DEF Exit, LossExplained
  <2> QED
    BY <2>1, <2>2
<1>3. CASE Fail
  BY <1>3, NothingLost DEF Fail, TypeOK
<1>4. ASSUME NEW h \in Hosts, NEW tick \in 0 .. MaxTick, Begin(h, tick)
      PROVE  LossExplained'
  BY <1>4, NothingLost DEF Begin, Holding
<1>5. ASSUME NEW h \in Hosts, Abandon(h) PROVE LossExplained'
  BY <1>5, NothingLost DEF Abandon, Holding
<1>6. ASSUME NEW h \in Hosts, Find(h) PROVE LossExplained'
  BY <1>6, HoldingNothing, NothingLost DEF Find
<1>7. CASE Finish
  BY <1>7, HoldingNothing, NothingLost DEF Finish
<1>8. ASSUME NEW h \in Hosts, Record(h) PROVE LossExplained'
  <2>1. PICK new \in Records :
          /\ new.of = {new.ts} /\ ~new.agg /\ new.ts[1] <= day
          /\ new.ts[1] < day => new.ts \in late'[h]
          /\ recorded' = [recorded EXCEPT ![h] = @ \cup {new.ts}]
          /\ history' = [history EXCEPT ![h] = Put(@, new)]
    <3>1. Response(dial[h]) \in Records
      BY <1>8 DEF Record, TypeOK, Response, Records
    <3> QED
      BY <1>8, <3>1 DEF Record, Response, TypeOK, Timely
  <2>2. /\ \A k \in Hosts : late[k] \subseteq late'[k]
        /\ \A k : Holding(k)' = Holding(k)
        /\ cut' = cut
    BY <1>8 DEF Record, TypeOK, Holding
  <2>3. ASSUME NEW r \in history[h], r \notin history'[h], NEW ts \in r.of
        PROVE  ts \in Kept(h)' \/ Explained(h, ts)'
    <3>1. Key(r.ts) = Key(new.ts) /\ new \in history'[h] /\ WellFormed(h, r)
      BY <2>1, <2>3 DEF Put, TypeOK, RecordsOK
    <3>2. r.ts \in Stamps /\ new.ts \in Stamps
      BY DEF TypeOK, Records
    <3>3. CASE ~r.agg
      <4>1. ts = r.ts /\ new.ts \in recorded'[h]
        BY <2>1, <3>1, <3>3 DEF WellFormed, TypeOK
      <4>2. CASE ts = new.ts
        BY <2>1, <3>1, <4>2 DEF Kept, Stored
      <4>3. CASE ts # new.ts
        BY <3>1, <4>1, <4>3 DEF Explained, Key
      <4> QED
        BY <4>2, <4>3
    <3>4. CASE r.agg
      <4>1. ts[1] = new.ts[1] /\ (ts[1] < day \/ ts[2] = 0)
        BY <3>1, <3>2, <3>4, KeyEqual DEF WellFormed
      <4> QED
        BY <2>1, <4>1 DEF Explained
    <3> QED
      BY <3>3, <3>4
  <2>4. new.ts \in Kept(h)'
    BY <2>1 DEF Kept, Stored, Put, TypeOK
  <2>5. ASSUME NEW k \in Hosts, NEW ts \in recorded'[k], ts \in Kept(k) \/ ts \notin recorded[k]
        PROVE  ts \in Kept(k)' \/ Explained(k, ts)'
    <3>1. CASE ts \notin recorded[k]
      BY <2>1, <2>4, <2>5, <3>1 DEF TypeOK
    <3>2. CASE ts \in Holding(k)
      BY <2>2, <3>2 DEF Kept
    <3>3. ASSUME NEW r \in history[k], ts \in r.of
          PROVE  ts \in Kept(k)' \/ Explained(k, ts)'
      <4>1. CASE r \in history'[k]
        BY <3>3, <4>1 DEF Kept, Stored
      <4>2. CASE r \notin history'[k]
        BY <2>1, <2>3, <3>3, <4>2 DEF TypeOK
      <4> QED
        BY <4>1, <4>2
    <3> QED
      BY <2>5, <3>1, <3>2, <3>3 DEF Kept, Stored
  <2>6. \A k \in Hosts : recorded[k] \subseteq recorded'[k]
    BY <2>1 DEF TypeOK
  <2> QED
    BY <2>2, <2>5, <2>6, LossStep
<1>9. ASSUME NEW g \in groups, Delete(g) PROVE LossExplained'
  <2>1. /\ pc = "run" /\ host \in Hosts /\ held' = g
        /\ UNCHANGED <<host, recorded, late, cut>>
        /\ history' = [history EXCEPT ![host] = Without(@, g.of)]
    BY <1>9 DEF Delete, Tidy
  <2>2. /\ g \in Pending /\ g.of \subseteq recorded[host] /\ g.of \subseteq Stamps
        /\ \A t \in g.of : t[1] = g.day
    BY DEF Pending, PendingOK, TypeOK
  <2>3. /\ Holding(host)' = g.of
        /\ \A k \in Hosts : Holding(k) = {}
    BY <2>1, HoldingNothing DEF Holding
  <2>4. ASSUME NEW r \in history[host], r \notin history'[host], NEW ts \in r.of
        PROVE  ts \in Kept(host)' \/ Explained(host, ts)'
    <3>1. PICK s \in g.of : Key(r.ts) = Key(s)
      BY <2>1, <2>4 DEF Without, TypeOK
    <3>2. r.ts \in Stamps /\ s \in Stamps /\ WellFormed(host, r)
      BY <2>1, <2>2 DEF TypeOK, Records, RecordsOK
    <3>3. CASE ~r.agg
      <4>1. ts = r.ts
        BY <3>2, <3>3 DEF WellFormed
      <4>2. CASE ts = s
        BY <2>3, <4>2 DEF Kept
      <4>3. CASE ts # s
        BY <2>1, <2>2, <3>1, <4>1, <4>3 DEF Explained, Key
      <4> QED
        BY <4>2, <4>3
    <3>4. CASE r.agg
      <4>1. r.ts[1] = s[1] /\ s[1] = g.day /\ ts[1] = r.ts[1]
        BY <2>2, <3>1, <3>2, <3>4, KeyEqual DEF WellFormed
      <4>2. s \in late[host] \/ Midnights(r)
        BY <2>2, <3>4, <4>1 DEF LateOnly
      <4> QED
        BY <2>1, <4>1, <4>2 DEF Explained, Midnights
    <3> QED
      BY <3>3, <3>4
  <2>5. ASSUME NEW k \in Hosts, NEW r \in history[k], NEW ts \in r.of
        PROVE  ts \in Kept(k)' \/ Explained(k, ts)'
    <3>1. CASE r \in history'[k]
      BY <3>1 DEF Kept, Stored
    <3>2. CASE r \notin history'[k]
      BY <2>1, <2>4, <3>2 DEF TypeOK
    <3> QED
      BY <3>1, <3>2
  <2>6. \A k \in Hosts : \A ts \in Kept(k) : ts \in Kept(k)' \/ Explained(k, ts)'
    BY <2>3, <2>5 DEF Kept, Stored
  <2> QED
    BY <2>1, <2>6, LossStep
<1>10. CASE Add
  <2>1. PICK new \in [ts : Days \X {0}, agg : {TRUE}, of : {held.of}] :
          /\ new.ts = <<held.day, 0>>
          /\ history' = [history EXCEPT ![host] = Put(@, new)]
    <3>1. AggregateDay(held) \in [ts : Days \X {0}, agg : {TRUE}, of : {held.of}]
      BY DEF AggregateDay, TypeOK
    <3> QED
      BY <1>10, <3>1 DEF Add, AggregateDay
  <2>2. /\ pc = "add" /\ pc' = "run" /\ host \in Hosts
        /\ held \in Pending /\ held \notin groups /\ groups \subseteq Pending
        /\ UNCHANGED <<host, recorded, late, cut>>
    BY <1>10 DEF Add, Tidy, Pending, PendingOK
  <2>3. /\ held.of # {} /\ held.of \subseteq recorded[host] /\ held.of \subseteq Stamps
        /\ \A t \in held.of : /\ t[1] = held.day
                              /\ t[1] < today \/ (t[1] = today /\ t[2] = 0)
    BY <2>2 DEF PendingOK, TypeOK
  <2>4. held.of \subseteq Kept(host)'
    BY <2>1, <2>2 DEF Kept, Stored, Put, TypeOK
  <2>5. ASSUME NEW r \in history[host], r \notin history'[host], NEW ts \in r.of
        PROVE  ts \in Kept(host)' \/ Explained(host, ts)'
    <3>1. Key(r.ts) = Key(new.ts)
      BY <2>1, <2>2, <2>5 DEF Put, TypeOK
    <3>2. new.ts \in Stamps /\ r.ts \in Stamps /\ WellFormed(host, r)
      BY <2>1, <2>2, ConstantsOK DEF TypeOK, Records, RecordsOK, Stamps
    <3>3. r.ts[1] = held.day
      BY <2>1, <3>1, <3>2, KeyEqual
    <3>4. PICK t \in held.of : TRUE
      BY <2>3
    <3>5. CASE r.agg
      <4>1. t \in late[host] \/ Midnights(r)
        BY <2>2, <3>3, <3>5 DEF LateOnly
      <4>2. ts[1] = t[1]
        BY <2>3, <3>2, <3>3, <3>5 DEF WellFormed
      <4> QED
        BY <2>2, <4>1, <4>2 DEF Explained, Midnights
    <3>6. CASE ~r.agg
      <4>1. ts = r.ts
        BY <3>2, <3>6 DEF WellFormed
      <4>2. CASE held.day < today
        <5>1. host \in Hosts \ todo
          BY <2>2 DEF Tidy
        <5>2. r.ts \in late[host] \/ \E g \in groups : r.ts \in g.of
          BY <2>2, <3>3, <3>6, <4>2, <5>1 DEF DoneOrLate
        <5>3. \A g \in groups : r.ts \notin g.of
          BY <2>2, <3>3 DEF PendingOK
        <5> QED
          BY <2>2, <4>1, <5>2, <5>3 DEF Explained
      <4>3. CASE ~(held.day < today)
        <5>1. t[1] = held.day /\ t[2] = 0 /\ t \in Stamps
          BY <2>3, <4>3
        <5>2. t = new.ts
          BY <2>1, <5>1, StampParts
        <5>3. CASE ts = t
          BY <2>4, <5>3
        <5>4. CASE ts # t
          BY <2>2, <2>3, <3>1, <4>1, <5>2, <5>4 DEF Explained, Key
        <5> QED
          BY <5>3, <5>4
      <4> QED
        BY <4>2, <4>3
    <3> QED
      BY <3>5, <3>6
  <2>6. ASSUME NEW k \in Hosts, NEW r \in history[k], NEW ts \in r.of
        PROVE  ts \in Kept(k)' \/ Explained(k, ts)'
    <3>1. CASE r \in history'[k]
      BY <3>1 DEF Kept, Stored
    <3>2. CASE r \notin history'[k]
      BY <2>1, <2>2, <2>5, <3>2 DEF TypeOK
    <3> QED
      BY <3>1, <3>2
  <2>7. \A k \in Hosts : Holding(k) \subseteq Kept(k)'
    BY <2>2, <2>4 DEF Holding
  <2>8. \A k \in Hosts : \A ts \in Kept(k) : ts \in Kept(k)' \/ Explained(k, ts)'
    BY <2>6, <2>7 DEF Kept, Stored
  <2> QED
    BY <2>2, <2>8, LossStep
<1> QED
  BY <1>1, <1>2, <1>3, <1>4, <1>5, <1>6, <1>7, <1>8, <1>9, <1>10, NextCases

-----------------------------------------------------------------------------
(* Today's records, and the theorems. *)

IntactStep ==
  UNCHANGED recorded /\ phase' # "off" =>
    \A h \in Hosts : \A r \in history[h] :
      r.ts[1] = day /\ Second[r.ts[2]] # Second[0] => r \in history'[h]

LEMMA NextIntact ==
  ASSUME TypeOK, Timely, Tidy, PendingOK, [Next]_vars
  PROVE  IntactStep
<1> USE DEF job, ghosts
<1> SUFFICES ASSUME UNCHANGED recorded, phase' # "off",
                    NEW h \in Hosts, NEW r \in history[h],
                    r.ts[1] = day, Second[r.ts[2]] # Second[0]
             PROVE  r \in history'[h]
  BY DEF IntactStep
<1>0. r.ts \in Stamps
  BY DEF TypeOK, Records
<1>1. CASE UNCHANGED history
  BY <1>1
<1>2. CASE Exit
  BY <1>2 DEF Exit
<1>3. ASSUME NEW k \in Hosts, Record(k) PROVE FALSE
  BY <1>3 DEF Record, Timely, TypeOK
<1>4. ASSUME NEW g \in groups, Delete(g) PROVE r \in history'[h]
  <2>1. /\ g.of \subseteq Stamps /\ today <= day
        /\ \A t \in g.of : t[1] < today \/ (t[1] = today /\ t[2] = 0)
    BY DEF PendingOK, Pending, TypeOK, Timely
  <2>2. day \in Nat /\ today \in Nat
    BY ConstantsOK DEF TypeOK, Days
  <2>3. \A t \in g.of : Key(r.ts) # Key(t)
    BY <1>0, <2>1, <2>2, KeyEqual
  <2> QED
    BY <1>4, <2>3 DEF Delete, Without, TypeOK
<1>5. CASE Add
  <2>1. <<held.day, 0>> \in Stamps
    BY ConstantsOK DEF TypeOK, Stamps
  <2>2. Key(r.ts) # Key(<<held.day, 0>>)
    BY <1>0, <2>1, KeyEqual
  <2> QED
    BY <1>5, <2>2 DEF Add, Put, AggregateDay, TypeOK
<1> QED
  BY <1>1, <1>2, <1>3, <1>4, <1>5, NextCases
     DEF Midnight, Launch, Shutdown, Begin, Abandon, Find, Start, Fail, Finish, vars

(* No response is of a day to come, and no record counts nothing.           *)
Dated ==
  \A h \in Hosts : /\ \A ts \in recorded[h] : ts[1] <= day
                   /\ \A r \in history[h] : r.of # {}

LEMMA NextDated ==
  ASSUME TypeOK, Timely, Tidy, PendingOK, Dated, [Next]_vars
  PROVE  Dated'
<1> USE DEF job, ghosts
<1>1. CASE UNCHANGED <<day, history, recorded>>
  BY <1>1 DEF Dated
<1>2. CASE Midnight
  <2>1. day \in Nat /\ \A h \in Hosts : \A ts \in recorded[h] : ts[1] \in Nat
    BY DEF TypeOK, Stamps, Days
  <2> QED
    BY <1>2, <2>1 DEF Midnight, Dated
<1>3. CASE Exit
  BY <1>3 DEF Exit, Dated
<1>4. ASSUME NEW h \in Hosts, Record(h) PROVE Dated'
  <2>1. /\ day' = day /\ dial[h][1] <= day
        /\ recorded' = [recorded EXCEPT ![h] = @ \cup {dial[h]}]
        /\ history' = [history EXCEPT ![h] = Put(@, Response(dial[h]))]
    BY <1>4 DEF Record, Timely
  <2>2. Response(dial[h]).of # {}
    BY DEF Response
  <2> QED
    BY <2>1, <2>2 DEF Dated, Put, TypeOK
<1>5. ASSUME NEW g \in groups, Delete(g) PROVE Dated'
  BY <1>5 DEF Delete, Dated, Without, TypeOK
<1>6. CASE Add
  <2>1. AggregateDay(held).of # {}
    BY <1>6 DEF Add, AggregateDay, PendingOK, Pending
  <2> QED
    BY <1>6, <2>1 DEF Add, Dated, Put, TypeOK
<1> QED
  BY <1>1, <1>2, <1>3, <1>4, <1>5, <1>6, NextCases
     DEF Launch, Shutdown, Begin, Abandon, Find, Start, Fail, Finish, vars

(* What a run that ended half way has lost does not come back.              *)
CutIsGone ==
  /\ \A h \in Hosts : cut[h] \subseteq recorded[h] \ Stored(h)
  /\ \A g \in Pending : g.of \cap cut[host] = {}

LEMMA HoldingPending ==
  ASSUME Tidy, PendingOK, NEW h \in Hosts, NEW ts \in Holding(h)
  PROVE  pc = "add" /\ h = host /\ held \in Pending /\ ts \in recorded[h]
<1>1. pc = "add" /\ h = host /\ ts \in held.of
  BY DEF Tidy, Holding, NoGroup
<1>2. held \in Pending
  BY <1>1 DEF Pending
<1> QED
  BY <1>1, <1>2 DEF PendingOK

(* Nothing new is stored or pending that was lost before.                   *)
LEMMA StillGone ==
  ASSUME CutIsGone, UNCHANGED cut,
         \A h \in Hosts : /\ recorded[h] \subseteq recorded'[h]
                          /\ \A r \in history'[h] : r.of \cap cut[h] = {},
         \A g \in Pending' : g.of \cap cut[host'] = {}
  PROVE  CutIsGone'
  BY DEF CutIsGone, Stored

LEMMA NextGone ==
  ASSUME TypeOK, Timely, Tidy, RecordsOK, PendingOK, CountedOnce, CutIsGone, [Next]_vars
  PROVE  CutIsGone'
<1> USE DEF job, ghosts
<1>0. \A h \in Hosts : \A r \in history[h] : r.of \cap cut[h] = {}
  BY DEF CutIsGone, Stored
<1>1. CASE UNCHANGED <<history, recorded, cut, host>> /\ Pending' \subseteq Pending
  BY <1>0, <1>1, StillGone DEF CutIsGone
<1>2. ASSUME UNCHANGED <<history, recorded>>, pc' = "idle", groups' = {},
             cut' = [h \in Hosts |-> cut[h] \cup Holding(h)]
      PROVE  CutIsGone'
  <2>1. Pending' = {}
    BY <1>2 DEF Pending
  <2>2. \A h \in Hosts : Holding(h) \subseteq recorded[h] \ Stored(h)
    BY HoldingPending DEF CountedOnce
  <2>3. \A h \in Hosts : Stored(h)' = Stored(h)
    BY <1>2 DEF Stored
  <2> QED
    BY <1>2, <2>1, <2>2, <2>3 DEF CutIsGone
<1>3. CASE Exit
  <2>1. pc' = "idle" /\ groups' = {} /\ UNCHANGED recorded
    BY <1>3 DEF Exit, Return
  <2>2. CASE Persistent
    BY <1>2, <1>3, <2>1, <2>2 DEF Exit
  <2>3. CASE ~Persistent
    <3>1. cut' = recorded /\ \A h \in Hosts : history'[h] = {}
      BY <1>3, <2>3 DEF Exit
    <3> QED
      BY <2>1, <3>1 DEF CutIsGone, Stored, Pending
  <2> QED
    BY <2>2, <2>3
<1>4. CASE Fail
  BY <1>2, <1>4 DEF Fail, Return
<1>5. ASSUME NEW h \in Hosts, Record(h) PROVE CutIsGone'
  <2>1. /\ UNCHANGED <<cut, host, groups, pc, held>>
        /\ dial[h] \notin recorded[h]
        /\ recorded' = [recorded EXCEPT ![h] = @ \cup {dial[h]}]
        /\ history' = [history EXCEPT ![h] = Put(@, Response(dial[h]))]
    BY <1>5 DEF Record, Timely
  <2>2. Response(dial[h]).of \cap cut[h] = {}
    BY <2>1 DEF Response, CutIsGone
  <2>3. \A k \in Hosts : \A r \in history'[k] : r.of \cap cut[k] = {}
    BY <1>0, <2>1, <2>2 DEF Put, TypeOK
  <2>4. /\ Pending' = Pending
        /\ \A k \in Hosts : recorded[k] \subseteq recorded'[k]
    BY <2>1 DEF Pending, TypeOK
  <2> QED
    BY <2>1, <2>3, <2>4, StillGone DEF CutIsGone
<1>6. ASSUME NEW h \in Hosts, Find(h) PROVE CutIsGone'
  <2>1. /\ UNCHANGED <<cut, recorded, history>> /\ host' = h
        /\ pc' = "run" /\ groups' = Groups(history[h])
    BY <1>6 DEF Find
  <2>2. ASSUME NEW g \in Groups(history[h]) PROVE g.of \cap cut[h] = {}
    <3>1. g.of = {r.ts : r \in {x \in history[h] : Old(x) /\ x.ts[1] = g.day}}
      BY GroupFacts DEF TypeOK
    <3>2. ASSUME NEW r \in history[h], Old(r) PROVE r.ts \notin cut[h]
      <4>1. r.of = {r.ts}
        BY <3>2 DEF RecordsOK, WellFormed, Old
      <4> QED
        BY <1>0, <4>1
    <3> QED
      BY <3>1, <3>2
  <2>3. Pending' = Groups(history[h])
    BY <2>1 DEF Pending
  <2> QED
    BY <1>0, <2>1, <2>2, <2>3, StillGone
<1>7. ASSUME NEW g \in groups, Delete(g) PROVE CutIsGone'
  <2>1. /\ UNCHANGED <<cut, recorded, host>>
        /\ held' = g /\ groups' = groups \ {g}
        /\ history' = [history EXCEPT ![host] = Without(@, g.of)]
    BY <1>7 DEF Delete
  <2>2. Pending' \subseteq Pending
    BY <2>1 DEF Pending
  <2>3. \A h \in Hosts : history'[h] \subseteq history[h]
    BY <2>1 DEF Without, TypeOK
  <2> QED
    BY <1>0, <2>1, <2>2, <2>3, StillGone DEF CutIsGone
<1>8. CASE Add
  <2>1. /\ UNCHANGED <<cut, recorded, host, groups>> /\ pc = "add" /\ pc' = "run"
        /\ history' = [history EXCEPT ![host] = Put(@, AggregateDay(held))]
    BY <1>8 DEF Add
  <2>2. Pending' \subseteq Pending /\ held \in Pending
    BY <2>1 DEF Pending
  <2>3. AggregateDay(held).of \cap cut[host] = {}
    BY <2>2 DEF AggregateDay, CutIsGone
  <2>4. \A h \in Hosts : \A r \in history'[h] : r.of \cap cut[h] = {}
    BY <1>0, <2>1, <2>3 DEF Put, TypeOK
  <2> QED
    BY <2>1, <2>2, <2>4, StillGone DEF CutIsGone
<1>9. CASE Midnight \/ Launch \/ Shutdown \/ UNCHANGED vars
  BY <1>1, <1>9 DEF Midnight, Launch, Shutdown, vars, Pending
<1>10. CASE Start
  BY <1>1, <1>10 DEF Start, Pending
<1>11. CASE Finish
  <2>1. Pending' = {} /\ UNCHANGED <<history, recorded, cut>>
    BY <1>11 DEF Finish, Return, Pending
  <2> QED
    BY <1>0, <2>1, StillGone
<1>12. ASSUME NEW h \in Hosts, NEW tick \in 0 .. MaxTick, Begin(h, tick)
       PROVE  CutIsGone'
  BY <1>1, <1>12 DEF Begin, Pending
<1>13. ASSUME NEW h \in Hosts, Abandon(h) PROVE CutIsGone'
  BY <1>1, <1>13 DEF Abandon, Pending
<1> QED
  BY <1>3, <1>4, <1>5, <1>6, <1>7, <1>8, <1>9, <1>10, <1>11, <1>12, <1>13, NextCases

(* What the properties need of each other and of the invariants above.      *)
IInv ==
  /\ TypeOK /\ Timely /\ Tidy /\ RecordsOK /\ PendingOK /\ NotYet
  /\ DoneOrLate /\ LateOnly
  /\ CountedOnce /\ PastAggregated /\ LossExplained /\ Dated
  /\ CutIsGone

LEMMA InitAll == Init => IInv
<1> SUFFICES ASSUME Init PROVE IInv
  OBVIOUS
<1>1. \A h \in Hosts : history[h] = {} /\ recorded[h] = {} /\ cut[h] = {}
  BY DEF Init
<1>2. pc = "idle" /\ groups = {} /\ Pending = {} /\ held.of = {}
  BY DEF Init, Pending, NoGroup
<1>3. RecordsOK /\ PendingOK /\ NotYet /\ DoneOrLate /\ LateOnly
  BY <1>1, <1>2 DEF RecordsOK, PendingOK, NotYet, DoneOrLate, LateOnly
<1>4. CountedOnce /\ PastAggregated /\ LossExplained /\ Dated /\ CutIsGone
  BY <1>1, <1>2 DEF CountedOnce, PastAggregated, LossExplained, Dated, CutIsGone,
                    Stored, Holding
<1> QED
  BY <1>3, <1>4, InitType, InitTimely DEF IInv

LEMMA NextAll == IInv /\ [Next]_vars => IInv' /\ IntactStep
<1> SUFFICES ASSUME IInv, [Next]_vars PROVE IInv' /\ IntactStep
  OBVIOUS
<1> USE DEF IInv
<1>1. TypeOK' /\ Timely' /\ Tidy'
  BY NextType, NextTimely, NextTidy
<1>2. RecordsOK' /\ PendingOK' /\ CountedOnce' /\ NotYet'
  BY <1>1, NextRecords, NextPending, NextOnce
<1>3. DoneOrLate' /\ PastAggregated' /\ LateOnly' /\ LossExplained'
  BY NextDone, NextLateOnly, NextLoss
<1>4. Dated' /\ CutIsGone'
  BY NextDated, NextGone
<1> QED
  BY <1>1, <1>2, <1>3, <1>4, NextIntact

LEMMA Invariance == Spec => []IInv
  BY InitAll, NextAll, PTL DEF Spec

(* No response is counted twice, whatever the store and the resolution of   *)
(* its keys, and wherever the run of Aggregate is killed (store.go:96-134). *)
THEOREM Once == Spec => []CountedOnce
<1>1. IInv => CountedOnce
  BY DEF IInv
<1> QED
  BY <1>1, Invariance, PTL

(* After a run that succeeded no day before it has plain records, but for   *)
(* those written after their day was over (store.go:106-115).               *)
THEOREM Aggregated == Spec => []PastAggregated
<1>1. IInv => PastAggregated
  BY DEF IInv
<1> QED
  BY <1>1, Invariance, PTL

(* There are no other ways to lose a response than the four named ones      *)
(* (store.go:109, 122-133, bolt.go:34).                                     *)
THEOREM Losses == Spec => []LossExplained
<1>1. IInv => LossExplained
  BY DEF IInv
<1> QED
  BY <1>1, Invariance, PTL

(* No response is late, at midnight, or shares its key with another one.    *)
Regular(h) ==
  /\ late[h] = {} /\ \A ts \in recorded[h] : ts[2] # 0
  /\ \A s, t \in recorded[h] : Key(s) = Key(t) => s = t

LEMMA Ledger ==
  ASSUME RecordsOK, Tidy, PendingOK, LossExplained, CutIsGone,
         NEW h \in Hosts, Regular(h)
  PROVE  Stored(h) \cup Holding(h) = recorded[h] \ cut[h]
<1>1. Stored(h) \subseteq recorded[h] \ cut[h]
  BY DEF Stored, RecordsOK, WellFormed, CutIsGone
<1>2. ASSUME NEW ts \in Holding(h) PROVE ts \in recorded[h] \ cut[h]
  <2>1. h = host /\ held \in Pending /\ ts \in recorded[h] /\ ts \in held.of
    BY HoldingPending DEF Holding
  <2> QED
    BY <2>1 DEF CutIsGone
<1>3. ASSUME NEW ts \in recorded[h], ts \notin cut[h]
      PROVE  ts \in Stored(h) \cup Holding(h)
  <2>1. ts \in Stored(h) \cup Holding(h) \/ Explained(h, ts)
    BY LossByHost DEF Kept
  <2> QED
    BY <1>3, <2>1 DEF Regular, Explained
<1> QED
  BY <1>1, <1>2, <1>3

(* The history of such a host counts exactly the responses that were        *)
(* recorded, wherever Aggregate stands, except what the runs that ended     *)
(* between their two transactions had deleted (store.go:122-133).           *)
THEOREM LedgerExact ==
  Spec => [](\A h \in Hosts :
               Regular(h) => Stored(h) \cup Holding(h) = recorded[h] \ cut[h])
<1>1. IInv => \A h \in Hosts :
        Regular(h) => Stored(h) \cup Holding(h) = recorded[h] \ cut[h]
  BY Ledger DEF IInv
<1> QED
  BY <1>1, Invariance, PTL

(* Aggregate leaves the records of the current day alone (store.go:109).    *)
THEOREM Intact == Spec => TodayIntact
<1>1. IInv /\ [Next]_vars => [IntactStep]_vars
  BY NextAll
<1> QED
  BY <1>1, Invariance, PTL DEF Spec, TodayIntact, IntactStep

=============================================================================
