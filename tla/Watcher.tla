------------------------------ MODULE Watcher ------------------------------
(***************************************************************************)
(* The watcher of one host (pkg/monitor/watcher.go), driven by the main    *)
(* goroutine (main.go run/shutdown, Monitor.Run/Stop): a check loop that   *)
(* dials the host, judges the answer, debounces it with the thresholds,    *)
(* keeps the incident log and announces the status changes, while the      *)
(* configuration is reloaded, the host is removed and added again, and     *)
(* the process is stopped, killed and started again over the same store.   *)
(*                                                                         *)
(* An answer is abstracted to the verdict of Host.Status.  The callback    *)
(* that drops the stats cache and the channels behind notify.Send are not  *)
(* part of this module's state: a notification is sent in one step.        *)
(***************************************************************************)
EXTENDS Integers, Sequences, FiniteSets, SequencesExt

CONSTANTS
  Loops,        \* identities of check loop goroutines
  Configs,      \* the definitions of the host a configuration file can hold
  CountCap,     \* bound: successCount and failureCount saturate here
  MaxIncidents, \* bound: once that many incidents are logged the host stays up
  StoreFaults,  \* TRUE when a call to the store may return an error
  None          \* nothing: no watcher, no stored response, no notification

ConfigOK(c) ==
  /\ c.success \in 1 .. CountCap
  /\ c.failure \in 1 .. CountCap
  /\ c.delay \in BOOLEAN

ASSUME ConstantsOK ==
  /\ CountCap \in Nat \ {0}
  /\ MaxIncidents \in Nat
  /\ StoreFaults \in BOOLEAN
  /\ \A c \in Configs : ConfigOK(c)
  /\ Loops # {}

New == ""      \* the status of a watcher that has not recorded a check yet
Statuses == {"UP", "DOWN", "DEGRADED", "UNKNOWN"}

ASSUME NoneIsNoValue == None \notin Configs /\ None \notin Statuses \cup {New}

VARIABLES
  ctl,          \* the main goroutine: idle, cancel, await (in stop), or down
  goal,         \* what stop() was called for: restart, remove, halt
  terminated,   \* the context of the process (m.ctx) is cancelled
  host,         \* w.host, or None when the host has no watcher
  status, successCount, failureCount, \* w.status and the counters
  incident,     \* w.incident: its ID, 0 when nil
  cur,          \* the loop of w.ctx, w.cancel and w.done
  cancelled,    \* the loops whose context is cancelled
  pc,           \* where each loop stands
  delay,        \* the delay argument of each loop
  job,          \* the check of each loop: its context, verdict, notification
  saved,        \* store: the status of the last response, None when empty
  incidents,    \* store: the incidents by ID, TRUE while open
  streak,       \* history: the verdicts in a row this watcher recorded
  told,         \* history: the last notification that was sent
  since         \* history: what made it stale, see AnnouncedStatus

memory == <<status, successCount, failureCount, incident>>
control == <<ctl, goal, terminated, host>>
loops == <<cur, cancelled, pc, delay, job>>
store == <<saved, incidents>>
news == <<told, since>>
history == <<streak, news>>
vars == <<control, memory, loops, store, history>>

NoStreak == [ok |-> TRUE, n |-> 0]
Verdict(ctx, ok, note) == [ctx |-> ctx, ok |-> ok, note |-> note]
Idle(ctx) == Verdict(ctx, TRUE, None)

(* The fields of a watcher that was just created; and of one that is gone. *)
Fresh ==
  /\ status' = New /\ successCount' = 0 /\ failureCount' = 0 /\ incident' = 0
  /\ streak' = NoStreak

(* The check holds w.mu from validate to the end of AddResponse. *)
Locked == \E l \in Loops : pc[l] = "save"

(* ctx.Err() of a loop's context: cancelled itself, or through its parent. *)
Done(ctx) == terminated \/ ctx \in cancelled

Init ==
  /\ ctl = "down" /\ goal = "halt" /\ terminated = FALSE /\ host = None
  /\ status = New /\ successCount = 0 /\ failureCount = 0 /\ incident = 0
  /\ cur \in Loops /\ cancelled = {}
  /\ pc = [l \in Loops |-> "done"]
  /\ delay = [l \in Loops |-> FALSE]
  /\ job = [l \in Loops |-> Idle(cur)]
  /\ saved = None /\ incidents = << >>
  /\ streak = NoStreak /\ told = None /\ since = {}

-----------------------------------------------------------------------------
(* The main goroutine. *)

(* watcher.start: a goroutine with a fresh context becomes w.ctx. *)
StartLoop(withDelay) ==
  \E l \in {k \in Loops : pc[k] = "done"} :
    /\ cur' = l
    /\ cancelled' = cancelled \ {l}
    /\ pc' = [pc EXCEPT ![l] = "load"]
    /\ delay' = [delay EXCEPT ![l] = withDelay]
    /\ job' = [job EXCEPT ![l] = Idle(l)]

(* Monitor.add: the host is new in the configuration. *)
AddHost(c) ==
  /\ ctl = "idle" /\ host = None
  /\ host' = c
  /\ Fresh
  /\ StartLoop(TRUE)
  /\ UNCHANGED <<ctl, goal, terminated, store, news>>

(* watcher.update; the loop is restarted only when the host changed. *)
Update(c) ==
  /\ ctl = "idle" /\ host # None /\ ~Locked
  /\ host' = c
  /\ IF c = host THEN UNCHANGED <<ctl, goal>>
                 ELSE ctl' = "cancel" /\ goal' = "restart"
  /\ UNCHANGED <<terminated, memory, loops, store, history>>

(* Monitor.Run: the host is no longer in the configuration. *)
RemoveHost ==
  /\ ctl = "idle" /\ host # None
  /\ ctl' = "cancel" /\ goal' = "remove"
  /\ UNCHANGED <<terminated, host, memory, loops, store, history>>

(* Monitor.Stop, on a signal or when the rest server failed: m.cancel(). *)
Shutdown ==
  /\ ctl = "idle"
  /\ terminated' = TRUE
  /\ goal' = "halt"
  /\ ctl' = "cancel"
  /\ UNCHANGED <<host, memory, loops, store, history>>

(* watcher.stop reads and cancels the context of the current loop ... *)
StopCancel ==
  /\ ctl = "cancel" /\ ~Locked
  /\ cancelled' = IF host = None THEN cancelled ELSE cancelled \cup {cur}
  /\ ctl' = "await"
  /\ UNCHANGED <<goal, terminated, host, memory, cur, pc, delay, job, store,
                 history>>

(* ... and waits until it returned: <-done. *)
StoppedNoWait == TRUE \* mutant: stop() does not wait for <-done
Stopped == host = None \/ pc[cur] = "done"

Restart ==
  /\ ctl = "await" /\ goal = "restart" /\ Stopped
  /\ ctl' = "idle"
  /\ StartLoop(FALSE)
  /\ UNCHANGED <<goal, terminated, host, memory, store, history>>

Removed ==
  /\ ctl = "await" /\ goal = "remove" /\ Stopped
  /\ ctl' = "idle" /\ host' = None
  /\ Fresh
  /\ UNCHANGED <<goal, terminated, loops, store, news>>

Halted ==
  /\ ctl = "await" /\ goal = "halt" /\ Stopped
  /\ ctl' = "down" /\ host' = None
  /\ Fresh
  /\ UNCHANGED <<goal, terminated, loops, store, news>>

(* The process starts; the first Monitor.Run makes the context. *)
Launch ==
  /\ ctl = "down"
  /\ ctl' = "idle" /\ terminated' = FALSE
  /\ UNCHANGED <<goal, host, memory, loops, store, history>>

(* SIGTERM cancels the context of the process before main reacts to it. *)
Signal ==
  /\ ctl # "down" /\ ~terminated
  /\ terminated' = TRUE
  /\ UNCHANGED <<ctl, goal, host, memory, loops, store, history>>

(* The process is killed: what is in memory is lost, the store is not; a    *)
(* notification that was not sent yet is lost as well.                      *)
Crash ==
  /\ ctl # "down"
  /\ ctl' = "down" /\ goal' = "halt" /\ host' = None
  /\ Fresh
  /\ terminated' = FALSE /\ cancelled' = {}
  /\ pc' = [l \in Loops |-> "done"]
  /\ delay' = [l \in Loops |-> FALSE]
  /\ job' = [l \in Loops |-> Idle(cur)]
  /\ since' = since \cup {"killed" : l \in {k \in Loops : pc[k] = "send"}}
  /\ UNCHANGED <<cur, store, told>>

(* store.Aggregate replaces the responses of a past day, so the last one of *)
(* a host that is not being checked, by one with the status of that day;    *)
(* killed between DeleteResponse and AddResponse it leaves none.            *)
Aggregate ==
  /\ host = None /\ saved # None
  /\ saved' \in {"UP", "DEGRADED", "DOWN", None}
  /\ since' = IF saved' = saved THEN since ELSE since \cup {"regraded"}
  /\ UNCHANGED <<control, memory, loops, incidents, streak, told>>

-----------------------------------------------------------------------------
(* The check loop. *)

Go(l, from, to) == pc[l] = from /\ pc' = [pc EXCEPT ![l] = to]

(* A check begins and reads w.ctx; or it ended and its variables are gone. *)
Begin(l) == job' = [job EXCEPT ![l] = Idle(cur)]

NewestOpen == incidents # << >> /\ Last(incidents)

(* loop: restores the open incident and, the first time, the status. *)
RestoreOldest == \* mutant: the oldest incident is taken for the newest
  IF incidents # << >> /\ Head(incidents) THEN 1 ELSE incident
RestoreIncident == IF NewestOpen THEN Len(incidents) ELSE incident
RestoreMissing == IF status = New THEN saved ELSE status \* mutant: no nil check
RestoreNothing == status \* mutant: the stored status is not restored
RestoreStatus == IF status = New /\ saved # None THEN saved ELSE status

Load(l) ==
  /\ Go(l, "load", IF delay[l] /\ host.delay THEN "delay" ELSE "dial")
  /\ ~Locked
  /\ \/ incident' = RestoreIncident
     \/ StoreFaults /\ UNCHANGED incident
  /\ \/ status' = RestoreStatus
     \/ StoreFaults /\ UNCHANGED status
  /\ Begin(l)
  /\ UNCHANGED <<control, successCount, failureCount, cur, cancelled, delay,
                 store, history>>

(* The initial delay elapses and the first check begins, or the loop ends. *)
DelayElapsed(l) ==
  /\ Go(l, "delay", "dial")
  /\ Begin(l)
  /\ UNCHANGED <<control, memory, cur, cancelled, delay, store, history>>

(* The ticker fires and check() reads w.ctx; a cancelled loop may still see *)
(* a tick first, select takes either.                                       *)
Tick(l) ==
  /\ Go(l, "wait", "dial")
  /\ Begin(l)
  /\ UNCHANGED <<control, memory, cur, cancelled, delay, store, history>>

ExitFromDelay(l) == \* mutant: the ticker loop ignores ctx.Done
  /\ pc[l] = "delay" /\ Done(l)
  /\ pc' = [pc EXCEPT ![l] = "done"]
  /\ UNCHANGED <<control, memory, cur, cancelled, delay, job, store, history>>

Exit(l) ==
  /\ pc[l] \in {"delay", "wait"} /\ Done(l)
  /\ pc' = [pc EXCEPT ![l] = "done"]
  /\ UNCHANGED <<control, memory, cur, cancelled, delay, job, store, history>>

(* Dial returns; the answer of a stopped watcher must not be recorded. *)
DialDone(l, ok) ==
  /\ Len(incidents) >= MaxIncidents => ok
  /\ Go(l, "dial", IF Done(job[l].ctx) THEN "wait" ELSE "judge")
  /\ IF Done(job[l].ctx) THEN Begin(l)
     ELSE job' = [job EXCEPT ![l] = Verdict(@.ctx, ok, None)]
  /\ UNCHANGED <<control, memory, cur, cancelled, delay, store, history>>

(* A failed check while the monitor itself is offline is not evaluated. *)
SkipOffline(l) ==
  /\ Go(l, "judge", "wait") /\ ~job[l].ok /\ ~Locked
  /\ Begin(l)
  /\ UNCHANGED <<control, memory, cur, cancelled, delay, store, history>>

Bump(n) == IF n < CountCap THEN n + 1 ELSE n

(* store.EndIncident and store.DeleteIncident: an unknown ID is ignored. *)
EndIncident(id) ==
  IF id \in DOMAIN incidents THEN [incidents EXCEPT ![id] = FALSE]
                             ELSE incidents
DeleteIncident(id) ==
  IF id \in DOMAIN incidents THEN RemoveAt(incidents, id) ELSE incidents

RecoverKeepsID == \* mutant: w.incident is not cleared
  IF incident # 0
  THEN /\ \/ incidents' = EndIncident(incident)
          \/ incidents' = DeleteIncident(incident)
       /\ UNCHANGED incident
  ELSE UNCHANGED <<incidents, incident>>

(* validate: the host recovered; incidents of a second or less are deleted. *)
Recover ==
  IF incident # 0
  THEN /\ \/ incidents' = EndIncident(incident)
          \/ incidents' = DeleteIncident(incident)
          \/ StoreFaults /\ UNCHANGED incidents
       /\ incident' = 0
  ELSE UNCHANGED <<incidents, incident>>

FailAlways == \* mutant: an open incident is not looked for
  incidents' = Append(incidents, TRUE) /\ incident' = Len(incidents) + 1

(* validate: the host went down; an AddIncident that fails leaves the       *)
(* watcher with the ID of an incident the store does not have.              *)
Fail ==
  IF incident = 0
  THEN /\ \/ incidents' = Append(incidents, TRUE)
          \/ StoreFaults /\ UNCHANGED incidents
       /\ incident' = Len(incidents) + 1
  ELSE UNCHANGED <<incidents, incident>>

CountedNoReset(ok) == \* mutant: a success does not reset the failures
  IF ok THEN successCount' = Bump(successCount) /\ UNCHANGED failureCount
        ELSE failureCount' = Bump(failureCount) /\ successCount' = 0

Counted(ok) ==
  IF ok THEN successCount' = Bump(successCount) /\ failureCount' = 0
        ELSE failureCount' = Bump(failureCount) /\ successCount' = 0

Reached(ok) == IF ok THEN successCount' >= host.success
                     ELSE failureCount' >= host.failure

Target(ok) == IF ok THEN "UP" ELSE "DOWN"

(* The status changed, and was known before. *)
Changes(ok) == Reached(ok) /\ status \notin {"UNKNOWN", Target(ok)}

NextStatus(ok) == IF Reached(ok) THEN Target(ok)
                  ELSE IF status = New THEN "UNKNOWN" ELSE status

Validate(l) ==
  /\ Go(l, "judge", "save") /\ ~Locked
  /\ LET ok == job[l].ok IN
     /\ Counted(ok)
     /\ IF ~Changes(ok) THEN UNCHANGED <<incidents, incident>>
        ELSE IF ok THEN Recover ELSE Fail
     /\ job' = [job EXCEPT ![l] =
                 Verdict(@.ctx, ok, IF Changes(ok) THEN Target(ok) ELSE None)]
     /\ status' = NextStatus(ok)
     /\ streak' = [ok |-> ok, n |-> IF streak.ok = ok THEN Bump(streak.n) ELSE 1]
  /\ UNCHANGED <<control, cur, cancelled, delay, saved, news>>

(* check: AddResponse with the new status, then the lock is released. *)
Save(l) ==
  /\ Go(l, "save", IF job[l].note = None THEN "wait" ELSE "send")
  /\ saved' = status \/ (StoreFaults /\ UNCHANGED saved)
  /\ IF job[l].note = None THEN Begin(l) ELSE UNCHANGED job
  /\ UNCHANGED <<control, memory, cur, cancelled, delay, incidents, history>>

AnnounceUnlessStopped(l) == \* mutant: a stopped loop drops its notification
  /\ Go(l, "send", "wait")
  /\ told' = IF Done(job[l].ctx) THEN told ELSE job[l].note
  /\ since' = {}
  /\ Begin(l)
  /\ UNCHANGED <<control, memory, cur, cancelled, delay, store, streak>>

(* check: notify.Send, outside the lock. *)
Announce(l) ==
  /\ Go(l, "send", "wait")
  /\ told' = job[l].note /\ since' = {}
  /\ Begin(l)
  /\ UNCHANGED <<control, memory, cur, cancelled, delay, store, streak>>

LoopStep(l) ==
  \/ Load(l) \/ DelayElapsed(l) \/ Tick(l) \/ Exit(l)
  \/ \E ok \in BOOLEAN : DialDone(l, ok)
  \/ SkipOffline(l) \/ Validate(l) \/ Save(l) \/ Announce(l)

MainStep ==
  \/ \E c \in Configs : AddHost(c) \/ Update(c)
  \/ RemoveHost \/ Shutdown \/ StopCancel \/ Restart \/ Removed \/ Halted
  \/ Launch

Next ==
  \/ MainStep \/ Signal \/ Crash \/ Aggregate
  \/ \E l \in Loops : LoopStep(l)

Spec == Init /\ [][Next]_vars

(* A loop between two waits keeps going, and the initial delay ends: a dial *)
(* and every notification channel have a timeout; no tick is asked for.  A  *)
(* mutex lets its waiter in although the loop locks it again and again.     *)
(* Both selects (a tick against a cancelled context, a reload against a     *)
(* cancelled process) take each ready case again and again, so what stays   *)
(* ready is taken: strong fairness.                                         *)
Fairness ==
  /\ \A l \in Loops :
       WF_vars(pc[l] # "wait" /\ LoopStep(l)) /\ SF_vars(Exit(l))
  /\ SF_vars(StopCancel) /\ WF_vars(Restart) /\ WF_vars(Removed)
  /\ WF_vars(Halted) /\ SF_vars(terminated /\ Shutdown)

FairSpec == Spec /\ Fairness

-----------------------------------------------------------------------------
(* Properties. *)

TypeOK ==
  /\ ctl \in {"idle", "cancel", "await", "down"}
  /\ goal \in {"restart", "remove", "halt"}
  /\ terminated \in BOOLEAN
  /\ host \in Configs \cup {None}
  /\ status \in Statuses \cup {New}
  /\ successCount \in 0 .. CountCap /\ failureCount \in 0 .. CountCap
  /\ incident \in Nat
  /\ cur \in Loops /\ cancelled \subseteq Loops
  /\ pc \in [Loops -> {"load", "delay", "dial", "judge", "save", "send",
                       "wait", "done"}]
  /\ delay \in [Loops -> BOOLEAN]
  /\ job \in [Loops -> [ctx : Loops, ok : BOOLEAN, note : {"UP", "DOWN", None}]]
  /\ saved \in Statuses \cup {New, None}
  /\ incidents \in Seq(BOOLEAN)
  /\ streak \in [ok : BOOLEAN, n : 0 .. CountCap]
  /\ told \in {"UP", "DOWN", None}
  /\ since \subseteq {"killed", "regraded"}

(* At most one check loop of the host is alive, the one stop() can reach,   *)
(* and none is once the host was removed or the process is down: stop()     *)
(* waits for the loop it cancels (watcher.go:64-75, monitor.go:79,102).     *)
SingleLoop ==
  \A l \in Loops : pc[l] # "done" => l = cur /\ host # None /\ ctl # "down"

(* The loop has read the store. *)
Loaded == host # None /\ \E l \in Loops : pc[l] \notin {"done", "load"}

(* A response is never stored with the empty status of a new watcher: below *)
(* the thresholds it is stored as unknown, so a restart restores a status   *)
(* whenever a check was recorded (watcher.go:144, 205, 295-297).            *)
StoredStatusKnown == saved # New

(* While the store works, w.incident is the newest incident of the log      *)
(* exactly while that one is open: an outage is never forgotten by the      *)
(* watcher that has to end it, and never ended twice (watcher.go:141-143,   *)
(* 253-265, 277-289).                                                       *)
TracksOpenIncident ==
  ~StoreFaults /\ Loaded =>
    incident = IF NewestOpen THEN Len(incidents) ELSE 0

(* Outages of a host do not overlap: what the watcher does to the log is    *)
(* what IncidentLog allows, across reloads, kills and restarts.             *)
Log == INSTANCE IncidentLog WITH log <- incidents
LogRefined == Log!Spec

(* Even when calls to the store fail, what the watcher ends or deletes is   *)
(* the newest incident: the older ones keep their place and their state     *)
(* (watcher.go:253-265 with the ID restored at 141-143).                    *)
OlderIncidentsUntouched ==
  [][\A i \in 1 .. Len(incidents) - 1 :
       i \in DOMAIN incidents' /\ incidents'[i] = incidents[i]]_incidents

(* A check makes the status UP (DOWN) only when it is the last of at least  *)
(* successThreshold (failureThreshold) verdicts in a row of that kind, with *)
(* the thresholds of the configuration in force, whatever reloads happened  *)
(* between them (watcher.go:245-292).                                       *)
Judging == \E l \in Loops : pc[l] = "judge" /\ pc'[l] = "save"
Debounced ==
  [][Judging /\ status' # status =>
       \/ status' = "UNKNOWN" /\ status = New
       \/ status' = "UP" /\ streak'.ok /\ streak'.n >= host.success
       \/ status' = "DOWN" /\ ~streak'.ok /\ streak'.n >= host.failure]_vars

(* Between two checks the last notification that was sent tells the status  *)
(* of the host: a change of a known status is announced even when the loop  *)
(* is stopped right after it, and a restart restores what was announced.    *)
(* Two things alone can come between: a kill that cuts a notification off,  *)
(* after its response was recorded, and an aggregation of the day of the    *)
(* last response that gives it another status (watcher.go:144-146, 206-227, *)
(* store.go:64, 122-133).                                                   *)
Resting == \A l \in Loops : pc[l] \notin {"save", "send"}
KnownStatus == IF host = None \/ status = New THEN saved ELSE status
AnnouncedStatus ==
  ~StoreFaults /\ Resting /\ told # None /\ since = {} => told = KnownStatus

(* Two notifications in a row never say the same, a reload, a kill or a     *)
(* restart in between included, unless one of those two things came between *)
(* them (watcher.go:250, 274).                                              *)
Announcing(l) == pc[l] = "send" /\ pc'[l] = "wait"
NeverRepeated ==
  [][~StoreFaults /\ since = {} =>
       \A l \in Loops : Announcing(l) => told' # told]_vars

(* A check that records a success and leaves the host UP leaves no outage   *)
(* open: the intent of watcher_test.go:401.  The code does not do that.     *)
RecoveryEndsIncident ==
  \A l \in Loops :
    pc[l] = "save" /\ job[l].ok /\ status = "UP" => ~NewestOpen

(* A process that was told to terminate goes down (main.go:166-170).        *)
Terminates == terminated ~> ctl = "down"
=============================================================================
