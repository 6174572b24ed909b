-------------------------- MODULE WatcherAnnounce --------------------------
(***************************************************************************)
(* What the check loop announces, for every value of the constants: the    *)
(* status is debounced, while the store works it is announced, once, and a *)
(* first check is announced only with a threshold of one.                  *)
(***************************************************************************)
EXTENDS WatcherSafety

(* The only step from one place of the loop to the next. *)
LEMMA StepsOf ==
  ASSUME TypeOK, [Next]_vars, NEW l \in Loops
  PROVE  /\ pc[l] = "judge" /\ pc'[l] = "save" => Validate(l)
         /\ pc[l] = "send" /\ pc'[l] = "wait" => Announce(l)
<1> USE DEF control, memory, loops, store, history, news
<1>1. CASE UNCHANGED pc
  BY <1>1
<1>2. CASE \/ \E c \in Configs : AddHost(c)
           \/ Restart
  <2>1. \A k \in Loops : pc'[k] = pc[k] \/ pc'[k] = "load"
    BY <1>2 DEF AddHost, Restart, StartLoop, TypeOK
  <2> QED
    BY <2>1
<1>3. CASE Crash
  BY <1>3 DEF Crash
<1>4. ASSUME NEW k \in Loops, LoopStep(k)
      PROVE  /\ pc[l] = "judge" /\ pc'[l] = "save" => Validate(l)
             /\ pc[l] = "send" /\ pc'[l] = "wait" => Announce(l)
  <2>1. CASE k = l
    BY <1>4, <2>1 DEF LoopStep, Load, DelayElapsed, Tick, Exit, DialDone,
       SkipOffline, Validate, Save, Announce, Go, TypeOK
  <2>2. CASE k # l
    BY <1>4, <2>2, LoopStepFrame DEF TypeOK
  <2> QED
    BY <2>1, <2>2
<1>5. CASE \/ \E c \in Configs : Update(c)
           \/ RemoveHost \/ Shutdown \/ StopCancel \/ Removed
           \/ Halted \/ Launch \/ Signal \/ Aggregate \/ UNCHANGED vars
  BY <1>1, <1>5 DEF Update, RemoveHost, Shutdown, StopCancel, Removed, Halted,
     Launch, Signal, Aggregate, vars
<1> QED
  BY <1>2, <1>3, <1>4, <1>5, NextCases

-----------------------------------------------------------------------------
(* Debouncing.  A counter never counts more than the verdicts in a row, and *)
(* only the counter of the last verdict counts at all.                      *)
CountInv ==
  /\ streak.ok => successCount <= streak.n /\ failureCount = 0
  /\ ~streak.ok => failureCount <= streak.n /\ successCount = 0

LEMMA BumpMore ==
  ASSUME NEW m \in 0 .. CountCap, NEW n \in 0 .. CountCap, m <= n
  PROVE  Bump(m) <= Bump(n) /\ Bump(0) = 1
  BY ConstantsOK DEF ConstantsOK, Bump

LEMMA ValidateCounts ==
  ASSUME TypeOK, CountInv, NEW l \in Loops, Validate(l)
  PROVE  CountInv' /\ streak'.ok = job[l].ok
<1> DEFINE ok == job[l].ok
<1>1. /\ ok \in BOOLEAN /\ streak.ok \in BOOLEAN /\ streak.n \in 0 .. CountCap
      /\ successCount \in 0 .. CountCap /\ failureCount \in 0 .. CountCap
  BY DEF TypeOK
<1>2. /\ Counted(ok)
      /\ streak' = [ok |-> ok, n |-> IF streak.ok = ok THEN Bump(streak.n) ELSE 1]
  BY DEF Validate
<1>3. streak'.ok = ok /\ streak'.n = IF streak.ok = ok THEN Bump(streak.n) ELSE 1
  BY <1>2
<1>4. CASE ok
  <2>1. successCount' = Bump(successCount) /\ failureCount' = 0
    BY <1>2, <1>4 DEF Counted
  <2>2. CASE streak.ok
    <3>1. streak'.n = Bump(streak.n) /\ successCount <= streak.n
      BY <1>1, <1>3, <1>4, <2>2, Zenon DEF CountInv
    <3>2. successCount' <= streak'.n
      BY <1>1, <2>1, <3>1, BumpMore
    <3> QED
      BY <1>3, <1>4, <2>1, <3>2 DEF CountInv
  <2>3. CASE ~streak.ok
    <3>1. streak'.n = 1 /\ successCount = 0
      BY <1>1, <1>3, <1>4, <2>3, Zenon DEF CountInv
    <3>2. successCount' <= streak'.n
      BY <1>1, <2>1, <3>1, BumpMore
    <3> QED
      BY <1>3, <1>4, <2>1, <3>2 DEF CountInv
  <2> QED
    BY <2>2, <2>3
<1>5. CASE ~ok
  <2>1. failureCount' = Bump(failureCount) /\ successCount' = 0
    BY <1>2, <1>5 DEF Counted
  <2>2. CASE ~streak.ok
    <3>1. streak'.n = Bump(streak.n) /\ failureCount <= streak.n
      BY <1>1, <1>3, <1>5, <2>2, Zenon DEF CountInv
    <3>2. failureCount' <= streak'.n
      BY <1>1, <2>1, <3>1, BumpMore
    <3> QED
      BY <1>3, <1>5, <2>1, <3>2 DEF CountInv
  <2>3. CASE streak.ok
    <3>1. streak'.n = 1 /\ failureCount = 0
      BY <1>1, <1>3, <1>5, <2>3, Zenon DEF CountInv
    <3>2. failureCount' <= streak'.n
      BY <1>1, <2>1, <3>1, BumpMore
    <3> QED
      BY <1>3, <1>5, <2>1, <3>2 DEF CountInv
  <2> QED
    BY <2>2, <2>3
<1> QED
  BY <1>1, <1>3, <1>4, <1>5

LEMMA NextCount == TypeOK /\ CountInv /\ [Next]_vars => CountInv'
<1> SUFFICES ASSUME TypeOK, CountInv, [Next]_vars PROVE CountInv'
  OBVIOUS
<1> USE DEF control, memory, loops, store, history, news
<1>1. CASE UNCHANGED <<successCount, failureCount, streak>>
  BY <1>1 DEF CountInv
<1>2. CASE Fresh
  BY <1>2 DEF Fresh, NoStreak, CountInv
<1>3. ASSUME NEW l \in Loops, Validate(l) PROVE CountInv'
  BY <1>3, ValidateCounts
<1>4. ASSUME NEW l \in Loops, LoopStep(l), ~Validate(l) PROVE CountInv'
  BY <1>1, <1>4 DEF LoopStep, Load, DelayElapsed, Tick, Exit, DialDone,
     SkipOffline, Save, Announce
<1>5. CASE (\E c \in Configs : AddHost(c)) \/ Removed \/ Halted \/ Crash
  BY <1>2, <1>5 DEF AddHost, Removed, Halted, Crash
<1>6. CASE \/ \E c \in Configs : Update(c)
           \/ RemoveHost \/ Shutdown \/ StopCancel \/ Restart
           \/ Launch \/ Signal \/ Aggregate \/ UNCHANGED vars
  BY <1>1, <1>6 DEF Update, RemoveHost, Shutdown, StopCancel, Restart,
     Launch, Signal, Aggregate, vars
<1> QED
  BY <1>3, <1>4, <1>5, <1>6, NextCases

LEMMA CountInvariant == Spec => []CountInv
<1>1. Init => CountInv
  BY DEF Init, NoStreak, CountInv
<1> QED
  BY <1>1, NextCount, TypeCorrect, PTL DEF Spec

(* The status becomes UP or DOWN only after as many verdicts in a row as    *)
(* the threshold in force wants (watcher.go:245-292).                       *)
THEOREM Debounce == Spec => Debounced
<1> DEFINE Step ==
      Judging /\ status' # status =>
        \/ status' = "UNKNOWN" /\ status = New
        \/ status' = "UP" /\ streak'.ok /\ streak'.n >= host.success
        \/ status' = "DOWN" /\ ~streak'.ok /\ streak'.n >= host.failure
<1>1. TypeOK /\ LoopInv /\ CountInv /\ [Next]_vars => [Step]_vars
  <2> SUFFICES ASSUME TypeOK, LoopInv, CountInv, [Next]_vars, NEW l \in Loops,
                      pc[l] = "judge", pc'[l] = "save", status' # status
               PROVE  \/ status' = "UNKNOWN" /\ status = New
                      \/ status' = "UP" /\ streak'.ok /\ streak'.n >= host.success
                      \/ status' = "DOWN" /\ ~streak'.ok /\ streak'.n >= host.failure
    BY DEF Judging
  <2>1. Validate(l)
    BY StepsOf
  <2>2. CountInv' /\ streak'.ok = job[l].ok /\ job[l].ok \in BOOLEAN
    BY <2>1, ValidateCounts DEF TypeOK
  <2>3. TypeOK'
    BY NextType
  <2>4. host.success \in Nat /\ host.failure \in Nat
    BY ConstantsOK DEF ConstantsOK, ConfigOK, LoopInv, SingleLoop, TypeOK
  <2>5. status' = NextStatus(job[l].ok)
    BY <2>1 DEF Validate
  <2>6. CASE ~Reached(job[l].ok)
    BY <2>5, <2>6 DEF NextStatus
  <2>7. CASE Reached(job[l].ok) /\ job[l].ok
    <3>1. status' = "UP" /\ streak'.ok /\ successCount' >= host.success
      BY <2>2, <2>5, <2>7 DEF NextStatus, Target, Reached
    <3>2. successCount' <= streak'.n
      BY <2>2, <3>1 DEF CountInv
    <3>3. successCount' \in Nat /\ streak'.n \in Nat
      BY <2>3 DEF TypeOK
    <3>4. streak'.n >= host.success
      BY <2>4, <3>1, <3>2, <3>3
    <3> QED
      BY <3>1, <3>4
  <2>8. CASE Reached(job[l].ok) /\ ~job[l].ok
    <3>1. status' = "DOWN" /\ ~streak'.ok /\ failureCount' >= host.failure
      BY <2>2, <2>5, <2>8 DEF NextStatus, Target, Reached
    <3>2. failureCount' <= streak'.n
      BY <2>2, <3>1 DEF CountInv
    <3>3. failureCount' \in Nat /\ streak'.n \in Nat
      BY <2>3 DEF TypeOK
    <3>4. streak'.n >= host.failure
      BY <2>4, <3>1, <3>2, <3>3
    <3> QED
      BY <3>1, <3>4
  <2> QED
    BY <2>2, <2>6, <2>7, <2>8
<1>2. Spec => []LoopInv
  BY InitLoop, NextLoop, TypeCorrect, PTL DEF Spec
<1> QED
  BY <1>1, <1>2, CountInvariant, TypeCorrect, PTL DEF Spec, Debounced

-----------------------------------------------------------------------------
(* Announcing, while the store works.  The store has the status of the      *)
(* watcher but while it is about to be saved; a watcher that has read the   *)
(* store and has no status found none; and a check that is about to         *)
(* announce a status is about to tell something new.  Where the check is    *)
(* killed decides: before the response is stored the last notification      *)
(* still tells the stored status; after it, the kill is a reason in since.  *)
Unsaved == \E l \in Loops : pc[l] = "save"

Kept == host # None /\ status # New /\ ~Unsaved => saved = status
Announced == Resting /\ told # None /\ since = {} => told = KnownStatus
FirstTime == Loaded /\ status = New => saved = None
Telling(l) == job[l].note = status /\ (since = {} => told # status)
Saving(l) ==
  /\ status # New
  /\ since = {} => told \in {None, saved}
  /\ IF job[l].note = None THEN since = {} => told \in {None, status}
                           ELSE Telling(l)

NoteInv ==
  /\ Kept /\ Announced /\ FirstTime
  /\ \A l \in Loops : pc[l] = "save" => Saving(l)
  /\ \A l \in Loops : pc[l] = "send" => status # New /\ Telling(l)

(* The main goroutine comes to a watcher whose loop is over. *)
LEMMA AtRest ==
  ASSUME \A l \in Loops : pc[l] = "done"
  PROVE  Resting /\ ~Unsaved /\ ~Loaded
  BY DEF Resting, Unsaved, Loaded

LEMMA MainNote ==
  ASSUME TypeOK, LoopInv, NoteInv, MainStep \/ Signal \/ Crash \/ Aggregate \/ UNCHANGED vars
  PROVE  NoteInv'
<1> USE DEF control, memory, loops, store, history, news
<1>1. ASSUME UNCHANGED <<pc, job, status, saved, told, since>>, host' = None <=> host = None
      PROVE  NoteInv'
  BY <1>1 DEF NoteInv, Kept, Announced, FirstTime, Telling, Saving, Unsaved, Resting,
              KnownStatus, Loaded
<1>2. ASSUME \A l \in Loops : pc[l] = "done", \A l \in Loops : pc'[l] \in {"done", "load"},
             Kept', told # None /\ since = {} => told = KnownStatus', UNCHANGED <<told, since>>
      PROVE  NoteInv'
  <2>1. ~Loaded'
    BY <1>2 DEF Loaded
  <2> QED
    BY <1>2, <2>1 DEF NoteInv, Announced, FirstTime
<1>3. ASSUME NEW c \in Configs, AddHost(c) PROVE NoteInv'
  <2>1. \A l \in Loops : pc[l] = "done"
    BY <1>3, AllDone DEF AddHost
  <2>2. /\ \A l \in Loops : pc'[l] \in {"done", "load"}
        /\ status' = New /\ UNCHANGED <<saved, told, since>>
    BY <1>3, <2>1 DEF AddHost, StartLoop, Fresh, TypeOK
  <2>3. told # None /\ since = {} => told = KnownStatus'
    BY <1>3, <2>1, <2>2, AtRest DEF AddHost, NoteInv, Announced, KnownStatus
  <2> QED
    BY <1>2, <2>1, <2>2, <2>3 DEF Kept
<1>4. CASE Restart
  <2>1. \A l \in Loops : pc[l] = "done"
    BY <1>4, AllDone DEF Restart, Stopped
  <2>2. /\ \A l \in Loops : pc'[l] \in {"done", "load"}
        /\ UNCHANGED <<host, status, saved, told, since>>
    BY <1>4, <2>1 DEF Restart, StartLoop, TypeOK
  <2>3. Kept' /\ (told # None /\ since = {} => told = KnownStatus')
    BY <2>1, <2>2, AtRest DEF NoteInv, Kept, Announced, KnownStatus
  <2> QED
    BY <1>2, <2>1, <2>2, <2>3
<1>5. CASE Removed \/ Halted
  <2>1. \A l \in Loops : pc[l] = "done"
    BY <1>5, AllDone DEF Removed, Halted, Stopped
  <2>2. host' = None /\ status' = New /\ UNCHANGED <<pc, saved, told, since>>
    BY <1>5 DEF Removed, Halted, Fresh
  <2>3. told # None /\ since = {} => told = KnownStatus'
    BY <2>1, <2>2, AtRest DEF NoteInv, Kept, Announced, KnownStatus
  <2> QED
    BY <1>2, <2>1, <2>2, <2>3 DEF Kept
<1>6. CASE Crash
  <2>1. \A l \in Loops : pc'[l] = "done"
    BY <1>6 DEF Crash
  <2>2. host' = None /\ ~Loaded' /\ KnownStatus' = saved /\ UNCHANGED told
    BY <1>6 DEF Crash, Loaded, KnownStatus
  <2>3. ASSUME since' = {} PROVE since = {} /\ \A l \in Loops : pc[l] # "send"
    BY <1>6, <2>3 DEF Crash
  <2>4. ASSUME since = {}, \A l \in Loops : pc[l] # "send", told # None
        PROVE  told = saved
    <3>1. CASE Unsaved
      BY <2>4, <3>1 DEF Unsaved, NoteInv, Saving
    <3>2. CASE ~Unsaved
      BY <2>4, <3>2 DEF Unsaved, Resting, NoteInv, Kept, Announced, KnownStatus
    <3> QED
      BY <3>1, <3>2
  <2>5. Announced'
    BY <2>2, <2>3, <2>4 DEF Announced
  <2> QED
    BY <2>1, <2>2, <2>5 DEF NoteInv, Kept, FirstTime
<1>7. CASE Aggregate
  <2>1. \A l \in Loops : pc[l] = "done"
    BY <1>7, AllDone DEF Aggregate
  <2>2. host' = None /\ ~Loaded' /\ UNCHANGED <<host, pc, status, told>>
    BY <1>7, <2>1 DEF Aggregate, Loaded
  <2>3. ASSUME since' = {} PROVE since = {} /\ saved' = saved
    BY <1>7, <2>3 DEF Aggregate
  <2>4. Announced'
    BY <2>1, <2>2, <2>3 DEF NoteInv, Announced, Resting, KnownStatus
  <2> QED
    BY <2>1, <2>2, <2>4 DEF NoteInv, Kept, FirstTime
<1>8. ASSUME NEW c \in Configs, Update(c) PROVE NoteInv'
  BY <1>1, <1>8, NoneIsNoValue DEF NoneIsNoValue, Update
<1>9. CASE RemoveHost \/ Shutdown \/ StopCancel \/ Launch \/ Signal \/ UNCHANGED vars
  BY <1>1, <1>9 DEF RemoveHost, Shutdown, StopCancel, Launch, Signal, vars
<1> QED
  BY <1>3, <1>4, <1>5, <1>6, <1>7, <1>8, <1>9 DEF MainStep

(* What validate decides to announce is new, and nothing else is. *)
LEMMA ValidateNote ==
  ASSUME TypeOK, LoopInv, NoteInv, NEW l \in Loops, Validate(l)
  PROVE  Saving(l)'
<1> DEFINE ok == job[l].ok
           target == Target(ok)
<1>1. /\ pc[l] = "judge" /\ Loaded /\ host # None
      /\ Resting
  BY DEF Validate, Go, LoopInv, SingleLoop, Loaded, Resting
<1>2. /\ status' = NextStatus(ok) /\ UNCHANGED <<told, since, saved>>
      /\ job'[l].note = IF Changes(ok) THEN target ELSE None
  BY DEF Validate, Verdict, TypeOK, news
<1>3. target \in {"UP", "DOWN"} /\ told \in {"UP", "DOWN", None}
  BY DEF Target, TypeOK
<1>4. target \notin {New, None} /\ None \notin {"UP", "DOWN", "UNKNOWN"}
  BY <1>3, NoneIsNoValue DEF NoneIsNoValue, New, Statuses
<1>5. told # None /\ since = {} => status # New /\ told = status /\ told = saved
  BY <1>1 DEF NoteInv, Announced, FirstTime, KnownStatus, Kept, Resting, Unsaved
<1>6. status' # New
  BY <1>2, <1>4 DEF NextStatus, New
<1>7. CASE Changes(ok)
  <2>1. status' = target /\ status # target /\ job'[l].note = target
    BY <1>2, <1>7 DEF Changes, NextStatus
  <2>2. since = {} => told # target
    BY <1>4, <1>5, <2>1
  <2> QED
    BY <1>2, <1>4, <1>5, <1>6, <2>1, <2>2 DEF Saving, Telling
<1>8. CASE ~Changes(ok)
  <2>1. told # None /\ since = {} => status' = status
    <3>1. CASE Reached(ok)
      BY <1>2, <1>3, <1>5, <1>8, <3>1 DEF Changes, NextStatus
    <3>2. CASE ~Reached(ok)
      BY <1>2, <1>5, <3>2 DEF NextStatus
    <3> QED
      BY <3>1, <3>2
  <2> QED
    BY <1>2, <1>5, <1>6, <1>8, <2>1 DEF Saving
<1> QED
  BY <1>7, <1>8

LEMMA LoopNote ==
  ASSUME TypeOK, LoopInv, KnownInv, NoteInv, ~StoreFaults, NEW l \in Loops, LoopStep(l)
  PROVE  NoteInv'
<1> USE DEF control, memory, loops, store, history, news
<1>0. /\ \A k \in Loops : k # l => pc[k] = "done" /\ pc'[k] = "done"
      /\ host # None /\ host' = host
  BY LoopStepFrame DEF LoopInv, SingleLoop, TypeOK
<1>1. CASE Load(l)
  <2>1. /\ pc[l] = "load" /\ pc'[l] \in {"delay", "dial"}
        /\ status' = RestoreStatus /\ UNCHANGED <<saved, told, since>>
    BY <1>1 DEF Load, Go, TypeOK
  <2>2. Resting /\ ~Unsaved /\ Resting' /\ ~Unsaved'
    BY <1>0, <2>1 DEF Resting, Unsaved
  <2>3. saved # New
    BY DEF KnownInv, StoredStatusKnown
  <2>4. Kept' /\ FirstTime'
    BY <1>0, <2>1, <2>2, <2>3 DEF NoteInv, Kept, FirstTime, RestoreStatus
  <2>5. Announced'
    BY <1>0, <2>1, <2>2, <2>3 DEF NoteInv, Announced, KnownStatus, RestoreStatus
  <2> QED
    BY <2>2, <2>4, <2>5 DEF NoteInv, Resting
<1>2. CASE Validate(l)
  <2>1. pc'[l] = "save"
    BY <1>2 DEF Validate, Go, TypeOK
  <2>2. Unsaved' /\ ~Resting' /\ status' # New /\ Saving(l)'
    BY <1>2, <2>1, ValidateNote DEF Unsaved, Resting, Saving
  <2> QED
    BY <1>0, <2>1, <2>2 DEF NoteInv, Kept, Announced, FirstTime
<1>3. CASE Save(l)
  <2>1. /\ pc[l] = "save" /\ Saving(l) /\ saved' = status
        /\ UNCHANGED <<status, told, since>>
    BY <1>3 DEF Save, Go, NoteInv
  <2>2. CASE job[l].note = None
    <3>1. pc'[l] = "wait"
      BY <1>3, <2>2 DEF Save, Go, TypeOK
    <3> QED
      BY <1>0, <2>1, <2>2, <3>1
         DEF NoteInv, Kept, Announced, FirstTime, KnownStatus, Saving
  <2>3. CASE job[l].note # None
    <3>1. pc'[l] = "send" /\ UNCHANGED job
      BY <1>3, <2>3 DEF Save, Go, TypeOK
    <3>2. ~Resting' /\ (status # New /\ Telling(l))'
      BY <2>1, <2>3, <3>1 DEF Saving, Telling, Resting
    <3> QED
      BY <1>0, <2>1, <3>1, <3>2 DEF NoteInv, Kept, Announced, FirstTime
  <2> QED
    BY <2>2, <2>3
<1>4. CASE Announce(l)
  <2>1. /\ pc[l] = "send" /\ pc'[l] = "wait" /\ status # New /\ Telling(l)
        /\ told' = status /\ UNCHANGED <<status, saved>>
    BY <1>4 DEF Announce, Go, NoteInv, Telling, TypeOK
  <2>2. ~Unsaved /\ saved = status
    BY <1>0, <2>1 DEF NoteInv, Kept, Unsaved
  <2> QED
    BY <1>0, <2>1, <2>2 DEF NoteInv, Kept, Announced, FirstTime, KnownStatus
<1>5. CASE ~Load(l) /\ ~Validate(l) /\ ~Save(l) /\ ~Announce(l)
  <2>1. /\ pc[l] \in {"delay", "dial", "judge", "wait"}
        /\ pc'[l] \in {"delay", "dial", "judge", "wait", "done"}
        /\ UNCHANGED <<status, saved, told, since>>
    BY <1>5 DEF LoopStep, DelayElapsed, Tick, Exit, DialDone, SkipOffline, Go, TypeOK
  <2>2. Loaded /\ Resting /\ ~Unsaved /\ Resting' /\ ~Unsaved'
    BY <1>0, <2>1 DEF Loaded, Resting, Unsaved
  <2> QED
    BY <1>0, <2>1, <2>2
       DEF NoteInv, Kept, Announced, FirstTime, KnownStatus, Resting
<1> QED
  BY <1>1, <1>2, <1>3, <1>4, <1>5

LEMMA NoteInvariant ==
  ASSUME ~StoreFaults PROVE Spec => [](TypeOK /\ LoopInv /\ NoteInv)
<1>1. Init => NoteInv
  BY DEF Init, NoteInv, Kept, Announced, FirstTime, Loaded, Unsaved
<1>2. TypeOK /\ LoopInv /\ KnownInv /\ NoteInv /\ [Next]_vars => NoteInv'
  BY MainNote, LoopNote DEF Next
<1>3. Spec => []LoopInv
  BY InitLoop, NextLoop, TypeCorrect, PTL DEF Spec
<1>4. Spec => []KnownInv
  BY <1>3, InitKnown, NextKnown, TypeCorrect, PTL DEF Spec
<1> QED
  BY <1>1, <1>2, <1>3, <1>4, TypeCorrect, PTL DEF Spec

(* Between two checks the last notification tells the status of the host,   *)
(* across reloads, removals, kills and restarts, unless a kill cut the next *)
(* one off or an aggregation gave the day of the last response another      *)
(* status (watcher.go:206-227, 144-146, store.go:64).                       *)
THEOREM AnnouncementsTrue == Spec => []AnnouncedStatus
<1>1. CASE StoreFaults
  <2>1. AnnouncedStatus
    BY <1>1 DEF AnnouncedStatus
  <2> QED
    BY <2>1, PTL
<1>2. CASE ~StoreFaults
  <2>1. NoteInv => AnnouncedStatus
    BY DEF NoteInv, Announced, AnnouncedStatus
  <2> QED
    BY <1>2, <2>1, NoteInvariant, PTL
<1> QED
  BY <1>1, <1>2

(* Two notifications in a row never say the same, unless one of those two   *)
(* things came between them (watcher.go:250, 274).                          *)
THEOREM AnnouncedOnce == Spec => NeverRepeated
<1> DEFINE Step == ~StoreFaults /\ since = {} =>
                     \A l \in Loops : Announcing(l) => told' # told
<1>1. CASE StoreFaults
  <2>1. [Next]_vars => [Step]_vars
    BY <1>1
  <2> QED
    BY <2>1, PTL DEF Spec, NeverRepeated
<1>2. CASE ~StoreFaults
  <2>1. TypeOK /\ NoteInv /\ [Next]_vars => [Step]_vars
    BY StepsOf DEF NoteInv, Telling, Announce, Announcing
  <2> QED
    BY <1>2, <2>1, NoteInvariant, PTL DEF Spec, NeverRepeated
<1> QED
  BY <1>1, <1>2

-----------------------------------------------------------------------------
(* The first check.  It is not always silent (watcher_test.go:231); but a   *)
(* watcher without a status has counted nothing, whatever the store does.   *)
UnjudgedInv == status = New => successCount = 0 /\ failureCount = 0

LEMMA NextUnjudged == TypeOK /\ UnjudgedInv /\ [Next]_vars => UnjudgedInv'
<1> SUFFICES ASSUME TypeOK, UnjudgedInv, [Next]_vars PROVE UnjudgedInv'
  OBVIOUS
<1> USE DEF control, memory, loops, store, history, news, UnjudgedInv
<1>1. CASE UNCHANGED <<status, successCount, failureCount>>
  BY <1>1
<1>2. CASE Fresh
  BY <1>2 DEF Fresh
<1>3. ASSUME NEW l \in Loops, LoopStep(l) PROVE UnjudgedInv'
  <2>1. CASE Validate(l)
    BY <2>1 DEF Validate, NextStatus, Target, New
  <2>2. CASE Load(l)
    BY <2>2 DEF Load, RestoreStatus
  <2>3. CASE ~Validate(l) /\ ~Load(l)
    BY <1>3, <2>3 DEF LoopStep, DelayElapsed, Tick, Exit, DialDone,
       SkipOffline, Save, Announce
  <2> QED
    BY <2>1, <2>2, <2>3
<1>4. CASE (\E c \in Configs : AddHost(c)) \/ Removed \/ Halted \/ Crash
  BY <1>2, <1>4 DEF AddHost, Removed, Halted, Crash
<1>5. CASE \/ \E c \in Configs : Update(c)
           \/ RemoveHost \/ Shutdown \/ StopCancel \/ Restart
           \/ Launch \/ Signal \/ Aggregate \/ UNCHANGED vars
  BY <1>1, <1>5 DEF Update, RemoveHost, Shutdown, StopCancel, Restart,
     Launch, Signal, Aggregate, vars
<1> QED
  BY <1>3, <1>4, <1>5, NextCases

(* The first check of a watcher without a status is announced only when the *)
(* threshold of its verdict is one: with any larger threshold the host is   *)
(* unknown first (watcher.go:245-297).                                      *)
FirstAnnouncedAtOne ==
  [][\A l \in Loops :
       pc[l] = "judge" /\ pc'[l] = "save" /\ status = New /\ job'[l].note # None =>
         (IF job[l].ok THEN host.success ELSE host.failure) = 1]_vars

(* A threshold above one keeps the first check silent. *)
THEOREM FirstCheck == Spec => FirstAnnouncedAtOne
<1> DEFINE Threshold(l) == IF job[l].ok THEN host.success ELSE host.failure
           Step == \A l \in Loops :
             pc[l] = "judge" /\ pc'[l] = "save" /\ status = New /\ job'[l].note # None =>
               Threshold(l) = 1
<1>1. TypeOK /\ LoopInv /\ UnjudgedInv /\ [Next]_vars => [Step]_vars
  <2> SUFFICES ASSUME TypeOK, LoopInv, UnjudgedInv, [Next]_vars, NEW l \in Loops,
                      pc[l] = "judge", pc'[l] = "save", status = New,
                      job'[l].note # None
               PROVE  Threshold(l) = 1
    OBVIOUS
  <2>1. Validate(l)
    BY StepsOf
  <2>2. Counted(job[l].ok) /\ Reached(job[l].ok)
    BY <2>1 DEF Validate, Verdict, Changes, TypeOK
  <2>3. successCount = 0 /\ failureCount = 0 /\ Bump(0) = 1
    BY ConstantsOK DEF UnjudgedInv, ConstantsOK, Bump
  <2>4. IF job[l].ok THEN 1 >= host.success ELSE 1 >= host.failure
    BY <2>2, <2>3 DEF Counted, Reached
  <2>5. host.success \in Nat \ {0} /\ host.failure \in Nat \ {0}
    BY ConstantsOK DEF ConstantsOK, ConfigOK, LoopInv, SingleLoop, TypeOK
  <2>6. CASE job[l].ok
    BY <2>4, <2>5, <2>6
  <2>7. CASE ~job[l].ok
    BY <2>4, <2>5, <2>7
  <2> QED
    BY <2>6, <2>7
<1>2. Spec => []LoopInv
  BY InitLoop, NextLoop, TypeCorrect, PTL DEF Spec
<1>3. Init => UnjudgedInv
  BY DEF Init, UnjudgedInv
<1>4. Spec => []UnjudgedInv
  BY <1>3, NextUnjudged, TypeCorrect, PTL DEF Spec
<1> QED
  BY <1>1, <1>2, <1>4, TypeCorrect, PTL DEF Spec, FirstAnnouncedAtOne

=============================================================================
