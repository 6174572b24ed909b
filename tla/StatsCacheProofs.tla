-------------------------- MODULE StatsCacheProofs --------------------------
(***************************************************************************)
(* Theorems about StatsCache for every set of hosts and of concurrent      *)
(* requests, and any number of checks.                                     *)
(***************************************************************************)
EXTENDS StatsCache, TLAPS

Value == [host : Keys, status : 0 .. MaxChecks, history : 0 .. MaxChecks,
          raced : BOOLEAN]

(* A value of host h that says nothing false: it holds the check behind its *)
(* status, and misses one that dropped the cache only if it was raced.      *)
Excused(h, v) == v.status < done[h] => v.raced = TRUE
Sound(h, v)   == v \in Value /\ v.status <= v.history /\ Excused(h, v)

SoundParts(f) == DOMAIN f \subseteq Hosts /\ \A h \in DOMAIN f : Sound(h, f[h])

(* What the cache is told of the checks, in the order they do it. *)
CheckInv ==
  /\ watchers \subseteq Hosts
  /\ reload \in {"idle", "apply"}
  /\ check \in [Hosts -> {"idle", "judged", "recorded"}]
  /\ status \in [Hosts -> 0 .. MaxChecks]
  /\ stored \in [Hosts -> 0 .. MaxChecks]
  /\ done \in [Hosts -> 0 .. MaxChecks]
  /\ \A h \in Hosts : /\ done[h] <= stored[h] /\ stored[h] <= status[h]
                      /\ check[h] # "judged" => stored[h] = status[h]

ItemsInv ==
  /\ DOMAIN items \subseteq Keys
  /\ \A k \in DOMAIN items : /\ SoundParts(items[k])
                             /\ k # All => DOMAIN items[k] = {k}

(* A value in the making, after each of its two reads. *)
PartInv(r) ==
  LET h == part[r].host
  IN  /\ pc[r] \in {"lookup", "history", "set"} => h \in Hosts
      /\ pc[r] = "history" => part[r].status <= stored[h] /\ Excused(h, part[r])
      /\ pc[r] = "set" => Sound(h, part[r])

RequestInv ==
  /\ pc \in [Requests -> {"idle", "next", "lookup", "history", "set"}]
  /\ key \in [Requests -> Keys]
  /\ todo \in [Requests -> SUBSET Hosts]
  /\ part \in [Requests -> Value]
  /\ DOMAIN found = Requests
  /\ \A r \in Requests : PartInv(r) /\ SoundParts(found[r])

IInv == CheckInv /\ ItemsInv /\ RequestInv

LEMMA InitInv == Init => IInv
<1> SUFFICES ASSUME Init PROVE IInv
  OBVIOUS
<1> USE KeysOK DEF KeysOK, Init
<1>1. CheckInv
  BY DEF CheckInv
<1>2. ItemsInv
  BY DEF ItemsInv, Nothing
<1>3. NoPart \in Value
  BY DEF NoPart, Unread, Value, Keys
<1>4. SoundParts(Nothing)
  BY DEF SoundParts, Nothing
<1>5. RequestInv
  BY <1>3, <1>4 DEF RequestInv, PartInv, Keys
<1> QED
  BY <1>1, <1>2, <1>5 DEF IInv

-----------------------------------------------------------------------------
(* Checks and reloads. *)

LEMMA CheckStepInv ==
  ASSUME CheckInv, [Next]_vars
  PROVE  CheckInv'
<1> USE KeysOK DEF KeysOK, CheckInv
<1>1. ASSUME NEW h \in Hosts, Judge(h) PROVE CheckInv'
  BY <1>1 DEF Judge
<1>2. ASSUME NEW h \in Hosts, Record(h) PROVE CheckInv'
  BY <1>2 DEF Record
<1>3. ASSUME NEW h \in Hosts, OnChange(h) PROVE CheckInv'
  BY <1>3 DEF OnChange
<1>4. ASSUME NEW h \in Hosts, RunRemove(h) PROVE CheckInv'
  BY <1>4 DEF RunRemove
<1>5. CASE RunReset
  BY <1>5 DEF RunReset
<1>6. CASE UNCHANGED shared
  BY <1>6 DEF shared
<1>7. CASE \/ \E k \in Keys : Expire(k)
           \/ \E r \in Requests : AskAll(r) \/ Compute(r) \/ \E h \in Hosts : AskHost(r, h)
  BY <1>6, <1>7 DEF Expire, AskAll, AskHost, Compute, NextCached, NextComputed,
     Snapshot, NotFound, FindResponses, SetHost, SetAll
<1> QED
  BY <1>1, <1>2, <1>3, <1>4, <1>5, <1>6, <1>7 DEF Next, CheckStep, vars

(* A value that was raced is excused whatever is recorded later. *)
LEMMA Raced ==
  ASSUME NEW v \in Value
  PROVE  LET w == [v EXCEPT !.raced = TRUE]
         IN  /\ w \in Value /\ w.raced = TRUE
             /\ w.host = v.host /\ w.status = v.status /\ w.history = v.history
BY DEF Value

LEMMA ResetInv ==
  ASSUME IInv, Reset, status' = status, stored' = stored
  PROVE  ItemsInv' /\ RequestInv'
<1>1. ItemsInv'
  BY DEF Reset, ItemsInv, Nothing
<1>2. /\ pc' = pc /\ key' = key /\ todo' = todo
      /\ part' \in [Requests -> Value]
      /\ DOMAIN found' = Requests
  BY DEF Reset, IInv, RequestInv, Value
<1>3. ASSUME NEW r \in Requests PROVE PartInv(r)'
  <2>1. part'[r] = [part[r] EXCEPT !.raced = pc[r] # "idle"] /\ part[r] \in Value
    BY DEF Reset, IInv, RequestInv
  <2>2. PartInv(r)
    BY DEF IInv, RequestInv
  <2>3. CASE pc[r] \in {"idle", "next"}
    BY <1>2, <2>3 DEF PartInv
  <2>4. CASE pc[r] \notin {"idle", "next"}
    <3>1. part'[r] = [part[r] EXCEPT !.raced = TRUE]
      BY <2>1, <2>4
    <3>2. /\ part'[r] \in Value /\ part'[r].raced = TRUE
          /\ part'[r].host = part[r].host /\ part'[r].status = part[r].status
          /\ part'[r].history = part[r].history
      BY <2>1, <3>1, Raced
    <3> QED
      BY <1>2, <2>2, <3>2 DEF PartInv, Excused, Sound
  <2> QED
    BY <2>3, <2>4
<1>4. ASSUME NEW r \in Requests PROVE SoundParts(found[r])'
  <2>1. found'[r] = [h \in DOMAIN found[r] |-> [found[r][h] EXCEPT !.raced = TRUE]]
    BY DEF Reset
  <2>2. SoundParts(found[r])
    BY DEF IInv, RequestInv
  <2>3. ASSUME NEW h \in DOMAIN found[r] PROVE Sound(h, found[r][h])'
    <3>1. found'[r][h] = [found[r][h] EXCEPT !.raced = TRUE]
      BY <2>1, <2>3
    <3>2. Sound(h, found[r][h])
      BY <2>2, <2>3 DEF SoundParts
    <3>3. found[r][h] \in Value
      BY <3>2 DEF Sound
    <3> QED
      BY <3>1, <3>2, <3>3, Raced DEF Sound, Excused
  <2>4. DOMAIN found'[r] = DOMAIN found[r]
    BY <2>1
  <2> QED
    BY <2>2, <2>3, <2>4 DEF SoundParts
<1> QED
  BY <1>1, <1>2, <1>3, <1>4 DEF RequestInv, IInv

-----------------------------------------------------------------------------
(* Requests and the expiry: done, stored and status stay as they are, so    *)
(* that a value is as sound after the step as before.                       *)

LEMMA SetItemInv ==
  ASSUME ItemsInv, NEW k \in Keys, NEW f, SoundParts(f), done' = done,
         k # All => DOMAIN f = {k}, SetItem(k, f)
  PROVE  ItemsInv'
<1>1. \A x \in DOMAIN items' : items'[x] = IF x = k THEN f ELSE items[x]
  BY DEF SetItem
<1>2. DOMAIN items' = DOMAIN items \cup {k}
  BY DEF SetItem
<1> QED
  BY <1>1, <1>2 DEF ItemsInv, SoundParts, Sound, Excused

LEMMA ExpireInv ==
  ASSUME ItemsInv, RequestInv, NEW k \in Keys, Expire(k)
  PROVE  ItemsInv' /\ RequestInv'
<1>1. UNCHANGED <<done, stored, pc, key, todo, part, found>>
  BY DEF Expire, shared, request
<1>2. /\ DOMAIN items' = DOMAIN items \ {k}
      /\ \A x \in DOMAIN items' : items'[x] = items[x]
  BY DEF Expire, Restrict
<1>3. ItemsInv'
  BY <1>1, <1>2 DEF ItemsInv, SoundParts, Sound, Excused
<1>4. RequestInv'
  BY <1>1 DEF RequestInv, PartInv, SoundParts, Sound, Excused
<1> QED
  BY <1>3, <1>4

LEMMA AskInv ==
  ASSUME ItemsInv, RequestInv, CheckInv, NEW r \in Requests,
         AskAll(r) \/ \E h \in Hosts : AskHost(r, h)
  PROVE  ItemsInv' /\ RequestInv'
<1> USE DEF shared
<1>1. ItemsInv'
  BY DEF AskAll, AskHost, ItemsInv, SoundParts, Sound, Excused
<1>2. ASSUME AskAll(r) PROVE RequestInv'
  <2>1. \A q \in Requests : PartInv(q)' /\ SoundParts(found[q])'
    BY <1>2 DEF AskAll, Go, RequestInv, PartInv, SoundParts, Sound, Excused
  <2> QED
    <3>1. todo' \in [Requests -> SUBSET Hosts]
      BY <1>2 DEF AskAll, RequestInv, CheckInv
    <3>2. key' \in [Requests -> Keys]
      BY <1>2 DEF AskAll, RequestInv, Keys
    <3>3. pc' \in [Requests -> {"idle", "next", "lookup", "history", "set"}]
      BY <1>2 DEF AskAll, Go, RequestInv
    <3>4. part' = part /\ found' = found
      BY <1>2 DEF AskAll
    <3> QED
      BY <2>1, <3>1, <3>2, <3>3, <3>4 DEF RequestInv
<1>3. ASSUME NEW h \in Hosts, AskHost(r, h) PROVE RequestInv'
  <2>1. Unread(h) \in Value /\ Unread(h).host = h
    BY KeysOK DEF KeysOK, Unread, Value, Keys
  <2>2. \A q \in Requests : PartInv(q)' /\ SoundParts(found[q])'
    BY <1>3, <2>1 DEF AskHost, Go, RequestInv, PartInv, SoundParts, Sound, Excused
  <2> QED
    BY <1>3, <2>1, <2>2 DEF AskHost, Go, RequestInv, Keys
<1> QED
  BY <1>1, <1>2, <1>3

LEMMA NextCachedInv ==
  ASSUME ItemsInv, RequestInv, NEW r \in Requests, NEW h \in Hosts, NextCached(r, h)
  PROVE  ItemsInv' /\ RequestInv'
<1>1. UNCHANGED <<done, stored, items, pc, key, part>>
  BY DEF NextCached, shared
<1>2. ItemsInv'
  BY <1>1 DEF ItemsInv, SoundParts, Sound, Excused
<1>3. Sound(h, items[h][h])
  BY KeysOK DEF KeysOK, NextCached, ItemsInv, SoundParts
<1>4. /\ DOMAIN found' = Requests
      /\ \A q \in Requests \ {r} : found'[q] = found[q]
      /\ found'[r] = [x \in DOMAIN found[r] \cup {h} |->
                       IF x = h THEN items[h][h] ELSE found[r][x]]
  BY DEF NextCached, RequestInv
<1>5. ASSUME NEW q \in Requests PROVE SoundParts(found[q])'
  <2>1. SoundParts(found[q]) /\ SoundParts(found[r])
    BY DEF RequestInv
  <2>2. CASE q # r
    BY <1>1, <1>4, <2>1, <2>2 DEF SoundParts, Sound, Excused
  <2>3. CASE q = r
    BY <1>1, <1>3, <1>4, <2>1, <2>3 DEF SoundParts, Sound, Excused
  <2> QED
    BY <2>2, <2>3
<1>6. \A q \in Requests : PartInv(q)'
  BY <1>1 DEF RequestInv, PartInv, Sound, Excused
<1>7. todo' \in [Requests -> SUBSET Hosts]
  BY DEF NextCached, RequestInv
<1> QED
  BY <1>1, <1>2, <1>4, <1>5, <1>6, <1>7 DEF RequestInv

LEMMA NextComputedInv ==
  ASSUME ItemsInv, RequestInv, NEW r \in Requests, NEW h \in Hosts, NextComputed(r, h)
  PROVE  ItemsInv' /\ RequestInv'
<1>1. UNCHANGED <<done, stored, items, key, found>>
  BY DEF NextComputed, shared
<1>2. ItemsInv'
  BY <1>1 DEF ItemsInv, SoundParts, Sound, Excused
<1>3. Unread(h) \in Value /\ Unread(h).host = h
  BY KeysOK DEF KeysOK, Unread, Value, Keys
<1>4. \A q \in Requests : PartInv(q)'
  BY <1>1, <1>3 DEF NextComputed, Go, RequestInv, PartInv, Sound, Excused
<1>5. \A q \in Requests : SoundParts(found[q])'
  BY <1>1 DEF RequestInv, SoundParts, Sound, Excused
<1> QED
  BY <1>1, <1>2, <1>3, <1>4, <1>5 DEF NextComputed, Go, RequestInv

LEMMA SnapshotInv ==
  ASSUME CheckInv, ItemsInv, RequestInv, NEW r \in Requests, Snapshot(r)
  PROVE  ItemsInv' /\ RequestInv'
<1>1. UNCHANGED <<done, stored, items, key, todo, found>>
  BY DEF Snapshot, shared
<1>2. ItemsInv'
  BY <1>1 DEF ItemsInv, SoundParts, Sound, Excused
<1> DEFINE h == part[r].host
<1>3. h \in Hosts /\ status[h] \in 0 .. MaxChecks /\ part[r] \in Value
  BY DEF Snapshot, CheckInv, RequestInv
<1>4. part'[r] = [part[r] EXCEPT !.status = status[h]]
  BY DEF Snapshot, RequestInv
<1>5. part'[r] \in Value /\ part'[r].host = h /\ part'[r].status = status[h]
  BY <1>3, <1>4 DEF Value
(* The check that was judged is recorded: w.mu is free. *)
<1>6. status[h] = stored[h] /\ done[h] <= stored[h] /\ stored[h] \in Nat /\ done[h] \in Nat
  BY <1>3, KeysOK DEF KeysOK, Snapshot, CheckInv
<1>7. PartInv(r)'
  BY <1>1, <1>3, <1>5, <1>6 DEF Snapshot, Go, PartInv, Excused, RequestInv
<1>8. \A q \in Requests \ {r} : PartInv(q)'
  BY <1>1 DEF Snapshot, Go, RequestInv, PartInv, Sound, Excused
<1>9. \A q \in Requests : SoundParts(found[q])'
  BY <1>1 DEF RequestInv, SoundParts, Sound, Excused
<1> QED
  BY <1>1, <1>2, <1>4, <1>5, <1>7, <1>8, <1>9 DEF Snapshot, Go, RequestInv

LEMMA NotFoundInv ==
  ASSUME ItemsInv, RequestInv, NEW r \in Requests, NotFound(r)
  PROVE  ItemsInv' /\ RequestInv'
<1>1. UNCHANGED <<done, stored, items, todo, found>>
  BY DEF NotFound, shared
<1>2. ItemsInv'
  BY <1>1 DEF ItemsInv, SoundParts, Sound, Excused
<1>3. NoPart \in Value
  BY KeysOK DEF KeysOK, NoPart, Unread, Value, Keys
<1>4. \A q \in Requests : PartInv(q)'
  BY <1>1 DEF NotFound, Go, RequestInv, PartInv, Sound, Excused
<1>5. \A q \in Requests : SoundParts(found[q])'
  BY <1>1 DEF RequestInv, SoundParts, Sound, Excused
<1> QED
  BY <1>1, <1>2, <1>3, <1>4, <1>5 DEF NotFound, Go, RequestInv, Keys

LEMMA FindResponsesInv ==
  ASSUME CheckInv, ItemsInv, RequestInv, NEW r \in Requests, FindResponses(r)
  PROVE  ItemsInv' /\ RequestInv'
<1>1. UNCHANGED <<done, stored, items, key, todo, found>>
  BY DEF FindResponses, shared
<1>2. ItemsInv'
  BY <1>1 DEF ItemsInv, SoundParts, Sound, Excused
<1> DEFINE h == part[r].host
<1>3. PartInv(r) /\ pc[r] = "history" /\ part[r] \in Value
  BY DEF FindResponses, Go, RequestInv
<1>4. h \in Hosts /\ part[r].status <= stored[h] /\ Excused(h, part[r])
  BY <1>3 DEF PartInv
<1>5. part'[r] = [part[r] EXCEPT !.history = stored[h]]
  BY DEF FindResponses, RequestInv
<1>6. /\ part'[r] \in Value /\ part'[r].host = h /\ part'[r].history = stored[h]
      /\ part'[r].status = part[r].status /\ part'[r].raced = part[r].raced
  BY <1>3, <1>4, <1>5 DEF Value, CheckInv
<1>7. PartInv(r)'
  BY <1>1, <1>4, <1>6 DEF FindResponses, Go, PartInv, Sound, Excused, RequestInv
<1>8. \A q \in Requests \ {r} : PartInv(q)'
  BY <1>1 DEF FindResponses, Go, RequestInv, PartInv, Sound, Excused
<1>9. \A q \in Requests : SoundParts(found[q])'
  BY <1>1 DEF RequestInv, SoundParts, Sound, Excused
<1> QED
  BY <1>1, <1>2, <1>5, <1>6, <1>7, <1>8, <1>9 DEF FindResponses, Go, RequestInv

LEMMA SetHostInv ==
  ASSUME ItemsInv, RequestInv, NEW r \in Requests, SetHost(r)
  PROVE  ItemsInv' /\ RequestInv'
<1> DEFINE h == part[r].host
<1>1. UNCHANGED <<done, stored, todo>>
  BY DEF SetHost, shared
<1>2. h \in Hosts /\ Sound(h, part[r])
  BY DEF SetHost, Go, RequestInv, PartInv
<1>3. SoundParts(Only(h, part[r])) /\ DOMAIN Only(h, part[r]) = {h}
  BY <1>2 DEF SoundParts, Only
<1>4. ItemsInv'
  BY <1>1, <1>2, <1>3, SetItemInv DEF SetHost, Keys
<1>5. NoPart \in Value
  BY KeysOK DEF KeysOK, NoPart, Unread, Value, Keys
<1>6. \A q \in Requests : PartInv(q)'
  BY <1>1 DEF SetHost, Go, RequestInv, PartInv, Sound, Excused
<1>7. /\ DOMAIN found' = Requests
      /\ \A q \in Requests \ {r} : found'[q] = found[q]
      /\ \/ found'[r] = found[r]
         \/ found'[r] = [x \in DOMAIN found[r] \cup {h} |->
                            IF x = h THEN part[r] ELSE found[r][x]]
  BY DEF SetHost, RequestInv
<1>8. ASSUME NEW q \in Requests PROVE SoundParts(found[q])'
  <2>1. SoundParts(found[q]) /\ SoundParts(found[r])
    BY DEF RequestInv
  <2>2. CASE found'[q] = found[q]
    BY <1>1, <2>1, <2>2 DEF SoundParts, Sound, Excused
  <2>3. CASE q = r /\ found'[r] # found[r]
    BY <1>1, <1>2, <1>7, <2>1, <2>3 DEF SoundParts, Sound, Excused
  <2> QED
    BY <1>7, <2>2, <2>3
<1>9. part' \in [Requests -> Value] /\ key' \in [Requests -> Keys]
  BY <1>5 DEF SetHost, RequestInv, Keys
<1>10. pc' \in [Requests -> {"idle", "next", "lookup", "history", "set"}]
  BY DEF SetHost, Go, RequestInv
<1> QED
  BY <1>1, <1>4, <1>6, <1>7, <1>8, <1>9, <1>10 DEF RequestInv

LEMMA SetAllInv ==
  ASSUME ItemsInv, RequestInv, NEW r \in Requests, SetAll(r)
  PROVE  ItemsInv' /\ RequestInv'
<1>1. UNCHANGED <<done, stored, key, todo, part>>
  BY DEF SetAll, shared
<1>2. ItemsInv'
  BY <1>1, SetItemInv DEF SetAll, RequestInv, Keys
<1>3. SoundParts(Nothing)'
  BY DEF SoundParts, Nothing
<1>4. \A q \in Requests : PartInv(q)'
  BY <1>1 DEF SetAll, Go, RequestInv, PartInv, Sound, Excused
<1>5. \A q \in Requests : found'[q] = IF q = r THEN Nothing ELSE found[q]
  BY DEF SetAll, RequestInv
<1>6. ASSUME NEW q \in Requests PROVE SoundParts(found[q])'
  BY <1>1, <1>3, <1>5 DEF RequestInv, SoundParts, Sound, Excused, Nothing
<1> QED
  BY <1>1, <1>2, <1>4, <1>6 DEF SetAll, Go, RequestInv

-----------------------------------------------------------------------------

LEMMA NextInv == IInv /\ [Next]_vars => IInv'
<1> SUFFICES ASSUME IInv, [Next]_vars PROVE IInv'
  OBVIOUS
<1>1. CheckInv /\ ItemsInv /\ RequestInv /\ CheckInv'
  BY CheckStepInv DEF IInv
<1>2. ASSUME NEW h \in Hosts, CheckStep(h) \/ RunRemove(h)
      PROVE  ItemsInv' /\ RequestInv'
  <2>1. CASE OnChange(h)
    BY <2>1, ResetInv DEF OnChange
  <2>2. CASE Judge(h) \/ RunRemove(h)
    <3>1. UNCHANGED <<stored, done, items, request>>
      BY <2>2 DEF Judge, RunRemove
    <3>2. ItemsInv' /\ \A q \in Requests : SoundParts(found[q])'
      BY <1>1, <3>1 DEF request, ItemsInv, RequestInv, SoundParts, Sound, Excused
    <3>3. \A q \in Requests : PartInv(q)'
      BY <1>1, <3>1 DEF request, RequestInv, PartInv, Sound, Excused
    <3> QED
      BY <1>1, <3>1, <3>2, <3>3 DEF request, RequestInv
  <2>3. CASE Record(h)
    <3>1. UNCHANGED <<done, items, request>>
      BY <2>3 DEF Record
    <3>2. \A g \in Hosts : stored[g] <= stored'[g]
      BY <1>1, <2>3, KeysOK DEF KeysOK, Record, CheckInv
    <3>3. ItemsInv' /\ \A q \in Requests : SoundParts(found[q])'
      BY <1>1, <3>1 DEF request, ItemsInv, RequestInv, SoundParts, Sound, Excused
    <3>4. \A q \in Requests : PartInv(q)'
      BY <1>1, <3>1, <3>2, KeysOK
         DEF KeysOK, request, RequestInv, CheckInv, PartInv, Sound, Excused, Value
    <3> QED
      BY <1>1, <3>1, <3>3, <3>4 DEF request, RequestInv
  <2> QED
    BY <1>2, <2>1, <2>2, <2>3 DEF CheckStep
<1>3. ASSUME RunReset PROVE ItemsInv' /\ RequestInv'
  BY <1>3, ResetInv DEF RunReset
<1>4. ASSUME NEW r \in Requests, AskAll(r) \/ Compute(r) \/ \E h \in Hosts : AskHost(r, h)
      PROVE  ItemsInv' /\ RequestInv'
  BY <1>1, <1>4, AskInv, NextCachedInv, NextComputedInv, SnapshotInv, NotFoundInv,
     FindResponsesInv, SetHostInv, SetAllInv DEF Compute
<1>5. ASSUME NEW k \in Keys, Expire(k) PROVE ItemsInv' /\ RequestInv'
  BY <1>1, <1>5, ExpireInv
<1>6. ASSUME UNCHANGED vars PROVE ItemsInv' /\ RequestInv'
  <2>1. ItemsInv' /\ \A q \in Requests : SoundParts(found[q])'
    BY <1>1, <1>6 DEF vars, shared, request, ItemsInv, RequestInv, SoundParts, Sound, Excused
  <2>2. \A q \in Requests : PartInv(q)'
    BY <1>1, <1>6 DEF vars, shared, request, RequestInv, PartInv, Sound, Excused
  <2> QED
    BY <1>1, <1>6, <2>1, <2>2 DEF vars, request, RequestInv
<1> QED
  BY <1>1, <1>2, <1>3, <1>4, <1>5, <1>6 DEF Next, IInv

LEMMA Invariance == Spec => []IInv
BY InitInv, NextInv, PTL DEF Spec

-----------------------------------------------------------------------------

(* The variables have their types; an entry of the cache under a host holds *)
(* that host and no other (cache.go, stats.go:144-156).                     *)
THEOREM CacheTypes == Spec => []TypeOK
<1>1. IInv => TypeOK
  BY DEF IInv, CheckInv, ItemsInv, RequestInv, TypeOK, PartsOK, ValueOK, SoundParts,
     Sound, Value
<1> QED
  BY <1>1, Invariance, PTL

(* What is cached never shows a status without the check behind it          *)
(* (stats.go:165-168, watcher.go:191-215).                                  *)
THEOREM StatusHasHistory == Spec => []HistoryNotOlder
<1>1. IInv => HistoryNotOlder
  BY KeysOK DEF KeysOK, IInv, ItemsInv, HistoryNotOlder, SoundParts, Sound, Value
<1> QED
  BY <1>1, Invariance, PTL

(* Only a computation that a drop of the cache overlapped can leave a stale *)
(* value (stats.go:147-154, watcher.go:217).                                *)
THEOREM StaleByOverlap == Spec => []StaleOnlyByOverlap
<1>1. IInv => StaleOnlyByOverlap
  BY DEF IInv, ItemsInv, StaleOnlyByOverlap, Missing, SoundParts, Sound, Excused
<1> QED
  BY <1>1, Invariance, PTL

=============================================================================
