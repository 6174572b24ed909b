------------------------------- MODULE Stats -------------------------------
(***************************************************************************)
(* What the status page says of the histories Aggregation can produce: the *)
(* chart and the uptime of the last days, the details of the last month    *)
(* and the chart of a group (monitor/stats.go, AggregateDay).  They are    *)
(* asked for late in the day.                                              *)
(***************************************************************************)
EXTENDS Aggregation, Integers, FiniteSetsExt

CONSTANTS
  Verdict,       \* Verdict[ts]: the status a response was recorded with
  HistoryPoints, \* the past days of a chart, 90 in the code
  Window,        \* the days of the details, 30 in the code
  Good, Fair     \* a day is up, or degraded, above so many percent: 95, 50

Status == {"up", "degraded", "down", "unknown"}

ASSUME StatsConstantsOK ==
  /\ Verdict \in [Stamps -> Status]
  /\ HistoryPoints \in Nat /\ Window \in Nat
  /\ Good \in 0 .. 100 /\ Fair \in 0 .. Good
  /\ Hosts # {} \* a group is that of some host (stats.go:57)

Before(s, t) == s[1] < t[1] \/ (s[1] = t[1] /\ s[2] < t[2])

-----------------------------------------------------------------------------
(* A day and a host. *)

Ups(stamps) == Cardinality({ts \in stamps : Verdict[ts] = "up"})

(* The status AggregateDay gives a day. *)
DayStatus(stamps) ==
  CASE stamps = {} -> "unknown"
    [] 100 * Ups(stamps) > Good * Cardinality(stamps) -> "up"
    [] 100 * Ups(stamps) > Fair * Cardinality(stamps) -> "degraded"
    [] OTHER -> "down"

StatusOf(r) == IF r.agg THEN DayStatus(r.of) ELSE Verdict[r.ts]

Oldest(records, n) == \* mutant: the slice is cut at its end
  {r \in records : Cardinality({x \in records : Before(x.ts, r.ts)}) < n}
Newest(records, n) ==
  {r \in records : Cardinality({x \in records : Before(r.ts, x.ts)}) < n}

AfterMidnight(ts) == Before(<<day, 0>>, ts)

(* The day report: the records of the past, and today as one record. *)
Shown(h) ==
  LET past  == {r \in history[h] : ~AfterMidnight(r.ts)}
      today_ == UNION {r.of : r \in history[h] \ past}
  IN  Newest(past, HistoryPoints) \cup
        {[ts |-> <<day, 0>>, agg |-> TRUE, of |-> today_]}

(* The slots of the chart that have no record are the first ones and have   *)
(* the dates they would have if there were a record for every day.          *)
Points(h) ==
  LET space == HistoryPoints + 1 - Cardinality(Shown(h))
  IN  {[ts |-> <<day - HistoryPoints + i, MaxTick + 1>>, status |-> "unknown"] :
         i \in 0 .. space - 1}
      \cup {[ts |-> r.ts, status |-> StatusOf(r)] : r \in Shown(h)}

(* Of the points with a known status. *)
Uptime(points) ==
  LET known == {p \in points : p.status # "unknown"}
  IN  IF known = {} THEN 0
      ELSE (100 * Cardinality({p \in known : p.status = "up"}))
             \div Cardinality(known)

(* The i-th point when they are sorted, from 0. *)
Point(h, i) ==
  CHOOSE p \in Points(h) :
    Cardinality({q \in Points(h) : Before(q.ts, p.ts)}) = i

-----------------------------------------------------------------------------
(* The details: a single check counts unless its status is unknown, an      *)
(* aggregation as many checks as it was made of.                            *)

InWindow(h) == {r \in history[h] : Before(<<day - Window, MaxTick + 1>>, r.ts)}

CountedOnceEach(h) == \* mutant: the days are not weighted
  [checks |-> Cardinality(InWindow(h)),
   ups |-> Cardinality({r \in InWindow(h) : StatusOf(r) = "up"})]
Details(h) ==
  LET counted == {r \in InWindow(h) : r.agg \/ Verdict[r.ts] # "unknown"}
  IN  [checks |-> MapThenSumSet(LAMBDA r : Cardinality(r.of), counted),
       ups |-> MapThenSumSet(LAMBDA r : Ups(r.of), counted)]

-----------------------------------------------------------------------------
(* A group. *)

GroupStatusOptimistic(statuses) == \* mutant: degraded hosts are not looked at
  LET Is(s) == {h \in Hosts : statuses[h] = s}
  IN  CASE Is("up") # {} /\ Is("down") = {} -> "up"
        [] Is("down") = Hosts -> "down"
        [] Is("down") # {} -> "degraded"
        [] OTHER -> "unknown"
(* generateGroupStatus *)
GroupStatus(statuses) ==
  LET Is(s) == {h \in Hosts : statuses[h] = s}
  IN  CASE \/ Is("up") = Hosts
           \/ Is("unknown") # {} /\ Is("up") # {} /\ Is("down") \cup Is("degraded") = {}
             -> "up"
        [] Is("down") = Hosts -> "down"
        [] Is("down") \cup Is("degraded") # {} -> "degraded"
        [] OTHER -> "unknown"

GroupPoint(i) == GroupStatus([h \in Hosts |-> Point(h, i).status])

-----------------------------------------------------------------------------
(* Properties.  They compare the page with the responses ever recorded, and *)
(* say under which conditions they agree.                                   *)

(* Every response is still there, and the past days are aggregated. *)
Complete(h) ==
  /\ pc = "idle" /\ Stored(h) = recorded[h] /\ settled = day /\ late[h] = {}
  /\ \A ts \in recorded[h] : ts[2] # 0

Responses(h, d) == {ts \in recorded[h] : ts[1] = d}

(* The share of the days that were up, of those with responses at all.      *)
UpShare(h, days) ==
  LET known == {d \in days : Responses(h, d) # {}}
      ups   == {d \in known : DayStatus(Responses(h, d)) = "up"}
  IN  IF known = {} THEN 0
      ELSE (100 * Cardinality(ups)) \div Cardinality(known)

(* No day is missing of the last 90, or nothing is known from before them.  *)
NothingToReachFor(h) ==
  \/ \A d \in day - HistoryPoints .. day - 1 : Responses(h, d) # {}
  \/ \A ts \in recorded[h] : ts[1] >= day - HistoryPoints

(* The uptime is what src/README.md:476 and api/metrics.go:70 call it, that *)
(* of the last 90 days (and of today), when the chart has no missing day to *)
(* fill with an older one (stats.go:285-306, 351-360).                      *)
UptimeOfDays ==
  \A h \in Hosts : Complete(h) /\ NothingToReachFor(h) =>
    Uptime(Points(h)) = UpShare(h, day - HistoryPoints .. day)

(* The same of every host: the code takes the last 90 records whatever the  *)
(* days are that they are of (stats.go:304-305).                            *)
UptimeOfWindow ==
  \A h \in Hosts : Complete(h) =>
    Uptime(Points(h)) = UpShare(h, day - HistoryPoints .. day)

(* The details do not depend on which days are aggregated already, in the   *)
(* middle of a run included, but that checks of unknown status count as     *)
(* not up once their day is aggregated (stats.go:431-452, store.go:147).    *)
DetailsExact ==
  \A h \in Hosts : Stored(h) = recorded[h] =>
    LET days    == {ts \in recorded[h] : ts[1] > day - Window}
        unknown == {ts \in days : /\ Verdict[ts] = "unknown"
                                  /\ Response(ts) \in history[h]}
    IN  Details(h) = [checks |-> Cardinality(days \ unknown), ups |-> Ups(days)]

(* The past days of a host have responses from the first one on. *)
Gapless(h) ==
  \A ts \in recorded[h] : \A d \in ts[1] .. day - 1 : Responses(h, d) # {}

(* When no host misses a day, the i-th points of all hosts of a group are   *)
(* of the same day, and the point of the group says what the hosts'         *)
(* responses of that day say (stats.go:81-84, 311-349, 499-530).            *)
GroupByDay ==
  (\A h \in Hosts : Complete(h) /\ Gapless(h)) =>
    \A i \in 0 .. HistoryPoints :
      LET d == day - HistoryPoints + i
          Of(s) == {h \in Hosts : DayStatus(Responses(h, d)) = s}
      IN  /\ \A h \in Hosts : Point(h, i).ts[1] = d
          /\ GroupPoint(i) = "up"      => Of("up") # {} /\ Of("up") \cup Of("unknown") = Hosts
          /\ GroupPoint(i) = "down"    => Of("down") = Hosts
          /\ GroupPoint(i) = "unknown" => Of("unknown") = Hosts

=============================================================================
