----------------------------- MODULE StatsCache -----------------------------
(***************************************************************************)
(* The cache of the computed stats (pkg/monitor/cache.go) between the      *)
(* requests that fill it (Stats and StatsByID, pkg/monitor/stats.go), the  *)
(* checks that record a response and then drop it (watcher.check) and the  *)
(* reloads that drop it and then remove a host (Monitor.Run).              *)
(*                                                                         *)
(* A check is abstracted to its number: status[h] is the check the watcher *)
(* of h judged last, stored[h] the last one the store holds, and a         *)
(* computed value is the pair of the numbers it was computed from.         *)
(***************************************************************************)
EXTENDS Naturals, FiniteSets, Functions

CONSTANTS
  Hosts,     \* the hosts of the first configuration
  Requests,  \* concurrent readers
  All,       \* the cache key of Stats; StatsByID(h) uses the key h
  MaxChecks  \* bound: checks per host

ASSUME KeysOK == All \notin Hosts /\ MaxChecks \in Nat

Keys == Hosts \cup {All}

VARIABLES
  watchers, \* m.watchers: the hosts that are monitored
  check,    \* where the check of each host stands: idle, judged, recorded
  status,   \* w.status, as the number of the check that set it
  stored,   \* the history of the host in the store
  reload,   \* Monitor.Run: idle, or between the reset and the removal
  items,    \* the cache: a partial function from keys to entries
  pc, key, todo, \* each request: Stats or StatsByID, the hosts left to do,
  part, found,   \* the value it is computing and those it collected
  done      \* history: the checks that were recorded and dropped the cache

shared == <<watchers, check, status, stored, reload, done>>
request == <<pc, key, todo, part, found>>
vars == <<shared, items, request>>

Nothing == [h \in {} |-> 0]

(* A value being computed; raced (a history field) tells whether the cache  *)
(* was dropped since the computation began.                                 *)
Unread(h) == [host |-> h, status |-> 0, history |-> 0, raced |-> FALSE]
NoPart == Unread(All)

Init ==
  /\ watchers = Hosts
  /\ check = [h \in Hosts |-> "idle"]
  /\ status = [h \in Hosts |-> 0] /\ stored = [h \in Hosts |-> 0]
  /\ reload = "idle"
  /\ items = Nothing
  /\ pc = [r \in Requests |-> "idle"]
  /\ key = [r \in Requests |-> All]
  /\ todo = [r \in Requests |-> {}]
  /\ part = [r \in Requests |-> NoPart]
  /\ found = [r \in Requests |-> Nothing]
  /\ done = [h \in Hosts |-> 0]

-----------------------------------------------------------------------------
(* Checks and reloads. *)

(* cache.reset *)
Reset ==
  /\ items' = Nothing
  /\ part' = [r \in Requests |-> [part[r] EXCEPT !.raced = pc[r] # "idle"]]
  /\ found' = [r \in Requests |-> [h \in DOMAIN found[r] |->
                                    [found[r][h] EXCEPT !.raced = TRUE]]]
  /\ UNCHANGED <<pc, key, todo>>

(* check: w.mu is taken and validate sets the status ... *)
Judge(h) ==
  /\ check[h] = "idle" /\ h \in watchers /\ status[h] < MaxChecks
  /\ check' = [check EXCEPT ![h] = "judged"]
  /\ status' = [status EXCEPT ![h] = @ + 1]
  /\ UNCHANGED <<watchers, stored, reload, done, items, request>>

(* ... AddResponse stores it and w.mu is released ... *)
Record(h) ==
  /\ check[h] = "judged"
  /\ check' = [check EXCEPT ![h] = "recorded"]
  /\ stored' = [stored EXCEPT ![h] = status[h]]
  /\ UNCHANGED <<watchers, status, reload, done, items, request>>

(* ... and onChange drops the cache. *)
OnChangeForgotten(h) == \* mutant: the check does not call onChange
  /\ check[h] = "recorded"
  /\ check' = [check EXCEPT ![h] = "idle"]
  /\ done' = [done EXCEPT ![h] = stored[h]]
  /\ UNCHANGED <<watchers, status, stored, reload, items, request>>
OnChange(h) ==
  /\ check[h] = "recorded"
  /\ check' = [check EXCEPT ![h] = "idle"]
  /\ done' = [done EXCEPT ![h] = stored[h]]
  /\ Reset
  /\ UNCHANGED <<watchers, status, stored, reload>>

(* Monitor.Run drops the cache first; it removes the hosts that are not in  *)
(* the new configuration later, and waits for their loops.                  *)
RunReset ==
  /\ reload = "idle" /\ watchers # {}
  /\ reload' = "apply"
  /\ Reset
  /\ UNCHANGED <<watchers, check, status, stored, done>>

RunRemove(h) ==
  /\ reload = "apply" /\ h \in watchers
  /\ watchers' = watchers \ {h}
  /\ reload' = "idle"
  /\ UNCHANGED <<check, status, stored, done, items, request>>

(* An entry is dropped when it is looked up after its TTL. *)
ExpireHostsOnly(k) == \* mutant: the entry of Stats never expires
  /\ k \in DOMAIN items \ {All}
  /\ items' = Restrict(items, DOMAIN items \ {k})
  /\ UNCHANGED <<shared, request>>
Expire(k) ==
  /\ k \in DOMAIN items
  /\ items' = Restrict(items, DOMAIN items \ {k})
  /\ UNCHANGED <<shared, request>>

-----------------------------------------------------------------------------
(* Requests.  One that finds its key in the cache changes nothing. *)

Go(r, from, to) == pc[r] = from /\ pc' = [pc EXCEPT ![r] = to]

(* cache.set: the value a request computed, whatever happened meanwhile. *)
SetItem(k, parts) ==
  items' = [x \in DOMAIN items \cup {k} |-> IF x = k THEN parts ELSE items[x]]

Only(h, p) == [x \in {h} |-> p]

(* Stats misses the cache and lists the watchers. *)
AskAll(r) ==
  /\ All \notin DOMAIN items
  /\ Go(r, "idle", "next")
  /\ key' = [key EXCEPT ![r] = All]
  /\ todo' = [todo EXCEPT ![r] = watchers]
  /\ UNCHANGED <<shared, items, part, found>>

(* StatsByID misses the cache. *)
AskHost(r, h) ==
  /\ h \notin DOMAIN items
  /\ Go(r, "idle", "lookup")
  /\ key' = [key EXCEPT ![r] = h]
  /\ part' = [part EXCEPT ![r] = Unread(h)]
  /\ UNCHANGED <<shared, items, todo, found>>

(* stats: StatsByID of the next watcher, a hit ... *)
NextCached(r, h) ==
  /\ pc[r] = "next" /\ h \in todo[r] \cap DOMAIN items
  /\ todo' = [todo EXCEPT ![r] = @ \ {h}]
  /\ found' = [found EXCEPT ![r] = [x \in DOMAIN @ \cup {h} |->
                 IF x = h THEN items[h][h] ELSE @[x]]]
  /\ UNCHANGED <<shared, items, pc, key, part>>

(* ... or a miss. *)
NextComputed(r, h) ==
  /\ Go(r, "next", "lookup") /\ h \in todo[r] \ DOMAIN items
  /\ todo' = [todo EXCEPT ![r] = @ \ {h}]
  /\ part' = [part EXCEPT ![r] = Unread(h)]
  /\ UNCHANGED <<shared, items, key, found>>

(* statsByID: the snapshot of the watcher, taken under w.mu ... *)
SnapshotUnlocked(r) == \* mutant: w.status is read without w.mu
  /\ Go(r, "lookup", "history")
  /\ part[r].host \in watchers
  /\ part' = [part EXCEPT ![r].status = status[part[r].host]]
  /\ UNCHANGED <<shared, items, key, todo, found>>
Snapshot(r) ==
  /\ Go(r, "lookup", "history")
  /\ part[r].host \in watchers /\ check[part[r].host] # "judged"
  /\ part' = [part EXCEPT ![r].status = status[part[r].host]]
  /\ UNCHANGED <<shared, items, key, todo, found>>

(* ... unless it was removed meanwhile: Stats goes on without the host.     *)
NotFound(r) ==
  /\ Go(r, "lookup", IF key[r] = All THEN "next" ELSE "idle")
  /\ key' = [key EXCEPT ![r] = All]
  /\ part[r].host \notin watchers
  /\ part' = [part EXCEPT ![r] = NoPart]
  /\ UNCHANGED <<shared, items, todo, found>>

(* ... then the history of the host ... *)
FindResponses(r) ==
  /\ Go(r, "history", "set")
  /\ part' = [part EXCEPT ![r].history = stored[part[r].host]]
  /\ UNCHANGED <<shared, items, key, todo, found>>

(* ... and StatsByID caches the result and returns it. *)
SetHostCollected(r) == \* mutant: caches what Stats collected so far
  /\ Go(r, "set", IF key[r] = All THEN "next" ELSE "idle")
  /\ found' = IF key[r] # All THEN found
              ELSE [found EXCEPT ![r] = [x \in DOMAIN @ \cup {part[r].host} |->
                     IF x = part[r].host THEN part[r] ELSE @[x]]]
  /\ SetItem(part[r].host, found'[r])
  /\ key' = [key EXCEPT ![r] = All]
  /\ part' = [part EXCEPT ![r] = NoPart]
  /\ UNCHANGED <<shared, todo>>
SetHost(r) ==
  /\ Go(r, "set", IF key[r] = All THEN "next" ELSE "idle")
  /\ SetItem(part[r].host, Only(part[r].host, part[r]))
  /\ found' = IF key[r] # All THEN found
              ELSE [found EXCEPT ![r] = [x \in DOMAIN @ \cup {part[r].host} |->
                     IF x = part[r].host THEN part[r] ELSE @[x]]]
  /\ key' = [key EXCEPT ![r] = All]
  /\ part' = [part EXCEPT ![r] = NoPart]
  /\ UNCHANGED <<shared, todo>>

(* Stats caches the collected values and returns them. *)
SetAll(r) ==
  /\ Go(r, "next", "idle") /\ todo[r] = {}
  /\ SetItem(All, found[r])
  /\ found' = [found EXCEPT ![r] = Nothing]
  /\ UNCHANGED <<shared, key, todo, part>>

Compute(r) ==
  \/ \E h \in Hosts : NextCached(r, h) \/ NextComputed(r, h)
  \/ Snapshot(r) \/ NotFound(r) \/ FindResponses(r) \/ SetHost(r) \/ SetAll(r)

CheckStep(h) == Judge(h) \/ Record(h) \/ OnChange(h)

Next ==
  \/ \E h \in Hosts : CheckStep(h) \/ RunRemove(h)
  \/ RunReset
  \/ \E k \in Keys : Expire(k)
  \/ \E r \in Requests : AskAll(r) \/ Compute(r) \/ \E h \in Hosts : AskHost(r, h)

Spec == Init /\ [][Next]_vars

(* A started check and a started request are carried to their end; an entry *)
(* outlives its TTL only until it is looked up.                             *)
Fairness ==
  /\ \A h \in Hosts : WF_vars(Record(h)) /\ WF_vars(OnChange(h))
  /\ \A r \in Requests : WF_vars(Compute(r))
  /\ \A k \in Keys : WF_vars(Expire(k))

FairSpec == Spec /\ Fairness

-----------------------------------------------------------------------------
(* Properties. *)

ValueOK(v) ==
  v \in [host : Keys, status : 0 .. MaxChecks, history : 0 .. MaxChecks,
         raced : BOOLEAN]
PartsOK(f) == DOMAIN f \subseteq Hosts /\ \A h \in DOMAIN f : ValueOK(f[h])

TypeOK ==
  /\ watchers \subseteq Hosts
  /\ \A h \in Hosts : /\ check[h] \in {"idle", "judged", "recorded"}
                      /\ status[h] \in 0 .. MaxChecks
                      /\ stored[h] \in 0 .. MaxChecks
                      /\ done[h] \in 0 .. MaxChecks
  /\ reload \in {"idle", "apply"}
  /\ DOMAIN items \subseteq Keys
  /\ \A k \in DOMAIN items : /\ PartsOK(items[k])
                             /\ k # All => DOMAIN items[k] = {k}
  /\ \A r \in Requests :
       /\ pc[r] \in {"idle", "next", "lookup", "history", "set"}
       /\ key[r] \in Keys /\ todo[r] \subseteq Hosts
       /\ ValueOK(part[r]) /\ PartsOK(found[r])

(* A cached value never shows a status together with a history that does    *)
(* not hold the check behind it: the status is read first and a check       *)
(* publishes both under w.mu (stats.go:165-168, watcher.go:191-215).        *)
HistoryNotOlder ==
  \A k \in DOMAIN items : \A h \in DOMAIN items[k] :
    items[k][h].history >= items[k][h].status

(* A cached value that misses a check which already dropped the cache was   *)
(* computed by a request that began before that drop and ended after it:    *)
(* nothing else makes the cache stale (stats.go:147-154, watcher.go:217).   *)
Missing(k, h) == items[k][h].status < done[h]
StaleOnlyByOverlap ==
  \A k \in DOMAIN items : \A h \in DOMAIN items[k] :
    Missing(k, h) => items[k][h].raced

(* A value that misses a check, or shows a host that was removed while it   *)
(* was computed, leaves the cache after all, even though Stats copies what  *)
(* StatsByID cached (stats.go:45-54, cache.go:26, monitor.go:54-83).        *)
Outdated == \E k \in DOMAIN items : \E h \in DOMAIN items[k] : Missing(k, h)
ShowsRemoved == \E k \in DOMAIN items : ~(DOMAIN items[k] \subseteq watchers)
StaleGoesAway == Outdated \/ ShowsRemoved ~> ~(Outdated \/ ShowsRemoved)

(* What cache_test.go:60 says of a recorded check: it is visible at once,   *)
(* not after the TTL.  The code does not keep that.                         *)
RecordedVisible == ~Outdated

=============================================================================
