---------------------------- MODULE Aggregation ----------------------------
(***************************************************************************)
(* The history of responses (store/bolt.go, store/memory.go) and its daily *)
(* aggregation (store/store.go), which runs when the process starts and    *)
(* ten minutes after midnight, next to the checks.  It works on a snapshot *)
(* and deletes the responses of a day before it adds their aggregation, in *)
(* two transactions.                                                       *)
(*                                                                         *)
(* A response is its time: a day and a tick of that day.  A record counts  *)
(* the responses in its "of": a plain one itself, an aggregation its day.  *)
(***************************************************************************)
EXTENDS Naturals, FiniteSets

CONSTANTS
  Hosts,        \* the hosts that are checked
  None,         \* no dial under way, no host
  Second,       \* Second[t]: what the store keeps of a tick in its key
  Persistent,   \* TRUE for bolt; memory is lost with the process
  MaxDay,       \* bound: the last day
  MaxTick,      \* bound: the last tick of a day; tick 0 is its midnight
  MaxResponses  \* bound: how many responses of a host are recorded

Days == 0 .. MaxDay
Stamps == Days \X (0 .. MaxTick)

ASSUME ConstantsOK ==
  /\ MaxDay \in Nat /\ MaxTick \in Nat \ {0}
  /\ MaxResponses \in [Hosts -> Nat]
  /\ Second \in [0 .. MaxTick -> Nat] /\ Persistent \in BOOLEAN
  /\ None \notin Stamps \cup Hosts

VARIABLES
  day,        \* the day
  due,        \* the ticker of the aggregation has fired
  phase,      \* off, boot (store.New), serve, closed (the store)
  dial,       \* the time at which the dial of a host began
  history,    \* the records of a host
  pc, today,  \* Aggregate: idle, run, or add a record; the day it began
  todo, host, \* the hosts it still has to do, and the one it does
  groups,     \* the days of that host it still has to do
  held,       \* the day whose responses are deleted
  recorded, late, \* history variables: the responses of a host ever recorded,
  cut, settled    \* those recorded on a later day, those lost when Aggregate
                  \* ended half way; the day of its last success

job == <<pc, today, todo, host, groups, held>>
ghosts == <<recorded, late, cut, settled>>
vars == <<day, due, phase, dial, history, job, ghosts>>

-----------------------------------------------------------------------------
(* The history of a host. *)

Key(ts) == <<ts[1], Second[ts[2]]>>

(* AddResponse replaces the record with the same key. *)
PutAppends(records, r) == records \cup {r} \* mutant: the key is not unique
Put(records, r) == {x \in records : Key(x.ts) # Key(r.ts)} \cup {r}

(* DeleteResponse *)
Without(records, stamps) ==
  {x \in records : \A ts \in stamps : Key(x.ts) # Key(ts)}

Response(ts) == [ts |-> ts, agg |-> FALSE, of |-> {ts}]

-----------------------------------------------------------------------------
(* Aggregate on one host. *)

(* After today's midnight; a response at midnight itself is not. *)
Fresh(ts) == ts[1] > today \/ (ts[1] = today /\ ts[2] > 0)

OldAgain(r) == ~Fresh(r.ts) \* mutant: an aggregation is aggregated again
OldToday(r) == ~r.agg \* mutant: today is not excluded
Old(r) == ~Fresh(r.ts) /\ ~r.agg

GroupsOfYesterday(records) == \* mutant: only the day that just ended
  {[day |-> d, of |-> {r.ts : r \in {x \in records : Old(x) /\ x.ts[1] = d}}] :
     d \in {r.ts[1] : r \in {x \in records : Old(x) /\ x.ts[1] + 1 >= today}}}
(* The responses of the past days, by day. *)
Groups(records) ==
  {[day |-> d, of |-> {r.ts : r \in {x \in records : Old(x) /\ x.ts[1] = d}}] :
     d \in {r.ts[1] : r \in {x \in records : Old(x)}}}

(* The record of a day has the time of its midnight. *)
AggregateDay(g) == [ts |-> <<g.day, 0>>, agg |-> TRUE, of |-> g.of]

NoGroup == [day |-> 0, of |-> {}]

(* Nothing of Aggregate remains, whether it succeeded or not. *)
Return ==
  /\ pc' = "idle" /\ today' = 0 /\ todo' = {} /\ host' = None
  /\ groups' = {} /\ held' = NoGroup

(* What Aggregate has deleted and not yet added. *)
Holding(h) == IF h = host THEN held.of ELSE {}

Init ==
  /\ day = 0 /\ due = FALSE /\ phase = "off"
  /\ dial = [h \in Hosts |-> None] /\ history = [h \in Hosts |-> {}]
  /\ pc = "idle" /\ today = 0 /\ todo = {} /\ host = None
  /\ groups = {} /\ held = NoGroup
  /\ recorded = [h \in Hosts |-> {}] /\ late = [h \in Hosts |-> {}]
  /\ cut = [h \in Hosts |-> {}] /\ settled = 0

-----------------------------------------------------------------------------
(* The ticker is set when store.New has aggregated, and set anew after each *)
(* run, to the next day in both cases.                                      *)
Midnight ==
  /\ day < MaxDay /\ day' = day + 1
  /\ due' = (phase = "serve" /\ pc = "idle")
  /\ UNCHANGED <<phase, dial, history, job, ghosts>>

-----------------------------------------------------------------------------
(* The process. *)

Launch ==
  /\ phase = "off" /\ phase' = "boot"
  /\ UNCHANGED <<day, due, dial, history, job, ghosts>>

(* Monitor.Stop ends the checks, then the store is closed. *)
Shutdown ==
  /\ phase = "serve" /\ phase' = "closed"
  /\ dial' = [h \in Hosts |-> None]
  /\ UNCHANGED <<day, due, history, job, ghosts>>

(* The process is killed, or ends after a shutdown. *)
Exit ==
  /\ phase # "off" /\ phase' = "off" /\ due' = FALSE
  /\ dial' = [h \in Hosts |-> None]
  /\ Return
  /\ IF Persistent
     THEN cut' = [h \in Hosts |-> cut[h] \cup Holding(h)] /\ UNCHANGED history
     ELSE cut' = recorded /\ history' = [h \in Hosts |-> {}]
  /\ UNCHANGED <<day, recorded, late, settled>>

-----------------------------------------------------------------------------
(* The checks of a host, one after the other. *)

Begin(h, tick) ==
  /\ phase = "serve" /\ dial[h] = None
  /\ Cardinality(recorded[h]) < MaxResponses[h]
  /\ \A ts \in recorded[h] : ts[1] = day => ts[2] < tick
  /\ dial' = [dial EXCEPT ![h] = <<day, tick>>]
  /\ UNCHANGED <<day, due, phase, history, job, ghosts>>

(* The response has the time at which its dial began. *)
Record(h) ==
  /\ dial[h] # None
  /\ dial' = [dial EXCEPT ![h] = None]
  /\ history' = [history EXCEPT ![h] = Put(@, Response(dial[h]))]
  /\ recorded' = [recorded EXCEPT ![h] = @ \cup {dial[h]}]
  /\ late' = [late EXCEPT ![h] = IF dial[h][1] < day THEN @ \cup {dial[h]} ELSE @]
  /\ UNCHANGED <<day, due, phase, job, cut, settled>>

(* It is not recorded: stopped, offline, or the store fails. *)
Abandon(h) ==
  /\ dial[h] # None
  /\ dial' = [dial EXCEPT ![h] = None]
  /\ UNCHANGED <<day, due, phase, history, job, ghosts>>

-----------------------------------------------------------------------------
(* Aggregate. *)

Open == phase # "closed" \/ ~Persistent

Start ==
  /\ pc = "idle" /\ (phase = "boot" \/ (phase = "serve" /\ due))
  /\ pc' = "run" /\ today' = day
  /\ todo' = {h \in Hosts : recorded[h] # {}}
  /\ UNCHANGED <<day, due, phase, dial, history, host, groups, held, ghosts>>

Find(h) ==
  /\ pc = "run" /\ groups = {} /\ h \in todo /\ Open
  /\ todo' = todo \ {h} /\ host' = h
  /\ groups' = Groups(history[h])
  /\ UNCHANGED <<day, due, phase, dial, history, pc, today, held, ghosts>>

DeleteNothing(g) == \* mutant: the error of DeleteResponse is ignored
  /\ pc = "run" /\ g \in groups /\ Open
  /\ pc' = "add" /\ held' = g /\ groups' = groups \ {g}
  /\ UNCHANGED <<day, due, phase, dial, history, today, todo, host, ghosts>>
Delete(g) ==
  /\ pc = "run" /\ g \in groups /\ Open
  /\ pc' = "add" /\ held' = g /\ groups' = groups \ {g}
  /\ history' = [history EXCEPT ![host] = Without(@, g.of)]
  /\ UNCHANGED <<day, due, phase, dial, today, todo, host, ghosts>>

Add ==
  /\ pc = "add" /\ Open
  /\ pc' = "run" /\ held' = NoGroup
  /\ history' = [history EXCEPT ![host] = Put(@, AggregateDay(held))]
  /\ UNCHANGED <<day, due, phase, dial, today, todo, host, groups, ghosts>>

(* A call of the store fails; store.New fails with it. *)
Fail ==
  /\ pc # "idle" /\ Return /\ due' = FALSE
  /\ cut' = [h \in Hosts |-> cut[h] \cup Holding(h)]
  /\ phase' = IF phase = "boot" THEN "off" ELSE phase
  /\ UNCHANGED <<day, dial, history, recorded, late, settled>>

Finish ==
  /\ pc = "run" /\ todo = {} /\ groups = {}
  /\ Return /\ due' = FALSE /\ settled' = today
  /\ phase' = IF phase = "boot" THEN "serve" ELSE phase
  /\ UNCHANGED <<day, dial, history, recorded, late, cut>>

Next ==
  \/ Midnight \/ Launch \/ Shutdown \/ Exit
  \/ \E h \in Hosts, tick \in 0 .. MaxTick : Begin(h, tick)
  \/ \E h \in Hosts : Record(h) \/ Abandon(h) \/ Find(h)
  \/ \E g \in groups : Delete(g)
  \/ Start \/ Add \/ Fail \/ Finish

Spec == Init /\ [][Next]_vars

-----------------------------------------------------------------------------
(* Properties. *)

Records == [ts : Stamps, agg : BOOLEAN, of : SUBSET Stamps]

TypeOK ==
  /\ day \in Days /\ due \in BOOLEAN
  /\ phase \in {"off", "boot", "serve", "closed"}
  /\ dial \in [Hosts -> Stamps \cup {None}]
  /\ history \in [Hosts -> SUBSET Records]
  /\ \A h \in Hosts : \A r, s \in history[h] : Key(r.ts) = Key(s.ts) => r = s
  /\ pc \in {"idle", "run", "add"} /\ today \in Days
  /\ todo \subseteq Hosts /\ host \in Hosts \cup {None}
  /\ groups \subseteq [day : Days, of : SUBSET Stamps]
  /\ held \in [day : Days, of : SUBSET Stamps]
  /\ recorded \in [Hosts -> SUBSET Stamps] /\ late \in [Hosts -> SUBSET Stamps]
  /\ cut \in [Hosts -> SUBSET Stamps] /\ settled \in Days

Stored(h) == UNION {r.of : r \in history[h]}

(* A response is counted once: not both as itself and in the aggregation of *)
(* its day, although the aggregation works on a snapshot, in two            *)
(* transactions, and may be repeated after a kill (store.go:96-134).        *)
CountedOnce ==
  \A h \in Hosts :
    /\ \A r, s \in history[h] : r # s => r.of \cap s.of = {}
    /\ Stored(h) \cap Holding(h) = {}

(* A response that was recorded is found again, in its day, unless the run  *)
(* that aggregated it ended half way, a response of the same day arrived    *)
(* when the day was over, the store has no key of its own for it, or it     *)
(* came exactly at midnight (store.go:109, 122-133, bolt.go:34).            *)
LossExplained ==
  \A h \in Hosts : \A ts \in recorded[h] \ (Stored(h) \cup Holding(h)) :
    \/ ts \in cut[h]
    \/ \E l \in late[h] : l[1] = ts[1]
    \/ \E other \in recorded[h] \ {ts} : Key(other) = Key(ts)
    \/ ts[2] = 0

(* When a run has succeeded, the days before it are aggregated, also those  *)
(* that earlier runs left behind; only late responses are not               *)
(* (store.go:106-115, store_test.go:323).                                   *)
PastAggregated ==
  \A h \in Hosts : \A r \in history[h] :
    r.ts[1] < settled => r.agg \/ r.ts \in late[h]

(* What is recorded today stays as it is while the past days are            *)
(* aggregated, unless its key is that of midnight (store.go:109).           *)
TodayIntact ==
  [][UNCHANGED recorded /\ phase' # "off" =>
       \A h \in Hosts : \A r \in history[h] :
         r.ts[1] = day /\ Second[r.ts[2]] # Second[0] => r \in history'[h]]_vars

=============================================================================
