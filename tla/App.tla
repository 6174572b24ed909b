-------------------------------- MODULE App --------------------------------
(***************************************************************************)
(* The reload path of the process: the configuration file, the poller that *)
(* watches it and the channel FW (types/config.go), the main loop that     *)
(* parses, validates and applies it (main.go), Monitor.Run and Stop over   *)
(* the watchers of all hosts (pkg/monitor/monitor.go), and the slots of    *)
(* the dialers that the checks share (pkg/dialer/dialer.go).               *)
(*                                                                         *)
(* A version of the file stands for its content and modification time.  Of *)
(* a check only its dial is kept; Watcher tells what a check does.         *)
(***************************************************************************)
EXTENDS Naturals, FiniteSets

CONSTANTS
  Hosts,    \* all hosts that some version of the file names
  Versions, \* the versions of the file
  Kind,     \* Kind[v]: "good", "invalid" (Validate) or "broken" (Parse)
  Def,      \* Def[v][h]: the definition of host h, None when v lacks it
  None,     \* nothing
  MaxConn,  \* the capacity of a dialer
  MaxEdits  \* bound: how often the file is edited

ASSUME ConstantsOK ==
  /\ Kind \in [Versions -> {"good", "invalid", "broken"}]
  /\ None \notin Versions \cup Hosts /\ IsFiniteSet(Hosts)
  /\ MaxConn \in Nat \ {0} /\ MaxEdits \in Nat

Definitions == {Def[v][h] : v \in Versions, h \in Hosts} \cup {None}
HostsOf(v) == {h \in Hosts : Def[v][h] # None}
Generations == 0 .. MaxEdits + 1 \* a reload follows an edit or the start

VARIABLES
  file, edits, \* the file on disk, and how often it was edited
  seen, poll,  \* the poller: modTimestamp; idle or push
  fw,          \* a reload is pending in FW
  ctl,         \* main: select, parse, validate, run, apply, restart, remove,
               \* stop, down
  terminated,  \* the context of the process, or m.cancel, is cancelled
  cfg,         \* the version whose fields a.config holds
  running,     \* the version that Monitor.Run applied last
  gen,         \* how many dialers (notifiers, checkers) Run has made
  todo,        \* Run: the hosts of the configuration it still has to do
  stopping,    \* the watchers main has to stop; victim is the one it waits for
  victim,
  watched,     \* the keys of m.watchers
  def, dep,    \* of each watcher: its host, the generation of its dialer
  loop,        \* of each watcher: off, wait, queue (for a slot), dial
  cancelled,   \* the watchers whose loop was cancelled by stop
  via,         \* the generation of the dialer that a check uses, else 0
  used         \* the slots taken of each dialer

disk == <<file, edits>>
poller == <<seen, poll, fw>>
run == <<gen, todo, stopping, victim>>
registry == <<watched, def, dep>>
checks == <<loop, cancelled, via, used>>
vars == <<disk, poller, ctl, terminated, cfg, running, run, registry, checks>>

(* NewConfig has parsed the file and starts the poller. *)
Init ==
  /\ file \in {v \in Versions : Kind[v] # "broken"} /\ edits = 0
  /\ seen = None /\ poll = "idle" /\ fw = FALSE
  /\ ctl = "select" /\ terminated = FALSE
  /\ cfg = file /\ running = None
  /\ gen = 0 /\ todo = {} /\ stopping = {} /\ victim = None
  /\ watched = {}
  /\ def = [h \in Hosts |-> None] /\ dep = [h \in Hosts |-> 0]
  /\ loop = [h \in Hosts |-> "off"] /\ cancelled = {}
  /\ via = [h \in Hosts |-> 0] /\ used = [g \in Generations |-> 0]

-----------------------------------------------------------------------------
(* The file and the poller. *)

(* An edit does not bring back the modification time that the poller saw    *)
(* last; an older version may be restored.                                  *)
Edit(v) ==
  /\ edits < MaxEdits /\ v \notin {file, seen}
  /\ file' = v /\ edits' = edits + 1
  /\ UNCHANGED <<poller, ctl, terminated, cfg, running, run, registry, checks>>

(* A tick finds another modification time ... *)
Stat ==
  /\ ctl # "down" /\ poll = "idle" /\ seen # file
  /\ seen' = file /\ poll' = "push"
  /\ UNCHANGED <<disk, fw, ctl, terminated, cfg, running, run, registry, checks>>

PushUnbuffered == \* mutant: FW has no buffer, a busy main loop misses it
  /\ ctl # "down" /\ poll = "push"
  /\ fw' = (fw \/ ctl = "select") /\ poll' = "idle"
  /\ UNCHANGED <<disk, seen, ctl, terminated, cfg, running, run, registry, checks>>
(* ... and FW gets an element unless one is pending. *)
Push ==
  /\ ctl # "down" /\ poll = "push"
  /\ fw' = TRUE /\ poll' = "idle"
  /\ UNCHANGED <<disk, seen, ctl, terminated, cfg, running, run, registry, checks>>

-----------------------------------------------------------------------------
(* The main loop up to Monitor.Run. *)

Take ==
  /\ ctl = "select" /\ fw
  /\ fw' = FALSE /\ ctl' = "parse"
  /\ UNCHANGED <<disk, seen, poll, terminated, cfg, running, run, registry, checks>>

ParseFatal == \* mutant: a broken file ends the main loop
  /\ ctl = "parse"
  /\ IF Kind[file] = "broken" THEN ctl' = "down" /\ UNCHANGED cfg
                              ELSE ctl' = "validate" /\ cfg' = file
  /\ UNCHANGED <<disk, poller, terminated, running, run, registry, checks>>
(* The file is read now; the fields of a.config, the UI settings that the   *)
(* handlers read among them, change before the values are validated.        *)
Parse ==
  /\ ctl = "parse"
  /\ IF Kind[file] = "broken" THEN ctl' = "select" /\ UNCHANGED cfg
                              ELSE ctl' = "validate" /\ cfg' = file
  /\ UNCHANGED <<disk, poller, terminated, running, run, registry, checks>>

Validate ==
  /\ ctl = "validate"
  /\ ctl' = IF Kind[cfg] = "good" THEN "run" ELSE "select"
  /\ UNCHANGED <<disk, poller, terminated, cfg, running, run, registry, checks>>

-----------------------------------------------------------------------------
(* Monitor.Run and Monitor.Stop. *)

(* Run makes the new dialer; the one before is left to its dials. *)
Run ==
  /\ ctl = "run"
  /\ ctl' = "apply" /\ gen' = gen + 1 /\ todo' = HostsOf(cfg)
  /\ UNCHANGED <<disk, poller, terminated, cfg, running, stopping, victim,
                 registry, checks>>

AdoptOldDialer(h) == \* mutant: a watcher that is updated keeps its dialer
  /\ ctl = "apply" /\ h \in todo
  /\ todo' = todo \ {h}
  /\ def' = [def EXCEPT ![h] = Def[cfg][h]]
  /\ dep' = [dep EXCEPT ![h] = IF h \in watched THEN @ ELSE gen]
  /\ UNCHANGED <<disk, poller, terminated, cfg, running, gen, victim>>
(* The watcher gets the definition of the host and the dialer. *)
Adopt(h) ==
  /\ ctl = "apply" /\ h \in todo
  /\ todo' = todo \ {h}
  /\ def' = [def EXCEPT ![h] = Def[cfg][h]]
  /\ dep' = [dep EXCEPT ![h] = gen]
  /\ UNCHANGED <<disk, poller, terminated, cfg, running, gen, victim>>

(* Monitor.add *)
Add(h) ==
  /\ h \notin watched /\ Adopt(h)
  /\ watched' = watched \cup {h}
  /\ loop' = [loop EXCEPT ![h] = "wait"]
  /\ cancelled' = cancelled \ {h}
  /\ UNCHANGED <<ctl, stopping, via, used>>

(* watcher.update; a host that changed is stopped and started. *)
Update(h) ==
  /\ h \in watched /\ Adopt(h)
  /\ IF Def[cfg][h] # def[h] THEN ctl' = "restart" /\ stopping' = {h}
                             ELSE UNCHANGED <<ctl, stopping>>
  /\ UNCHANGED <<watched, checks>>

(* The hosts that the configuration lacks leave the map ... *)
Remove ==
  /\ ctl = "apply" /\ todo = {}
  /\ ctl' = "remove"
  /\ stopping' = watched \ HostsOf(cfg)
  /\ watched' = watched \cap HostsOf(cfg)
  /\ UNCHANGED <<disk, poller, terminated, cfg, running, gen, todo, victim,
                 def, dep, checks>>

(* ... and Run returns when they are stopped. *)
Applied ==
  /\ ctl = "remove" /\ stopping = {}
  /\ ctl' = "select" /\ running' = cfg
  /\ UNCHANGED <<disk, poller, terminated, cfg, run, registry, checks>>

(* watcher.stop, one watcher after the other ... *)
StopCancel(h) ==
  /\ ctl \in {"restart", "remove", "stop"}
  /\ victim = None /\ h \in stopping
  /\ victim' = h /\ cancelled' = cancelled \cup {h}
  /\ UNCHANGED <<disk, poller, ctl, terminated, cfg, running, gen, todo, stopping,
                 registry, loop, via, used>>

(* ... each until its loop is done; a changed host starts again. *)
Stopped ==
  /\ victim # None /\ loop[victim] = "off"
  /\ victim' = None /\ stopping' = stopping \ {victim}
  /\ IF ctl = "restart"
     THEN /\ ctl' = "apply"
          /\ loop' = [loop EXCEPT ![victim] = "wait"]
          /\ cancelled' = cancelled \ {victim}
     ELSE UNCHANGED <<ctl, loop, cancelled>>
  /\ UNCHANGED <<disk, poller, terminated, cfg, running, gen, todo, registry,
                 via, used>>

(* A signal cancels the context at any time; main reacts to it, or to the   *)
(* failure of the server, when it selects the next case.                    *)
Signal ==
  /\ ~terminated /\ ctl # "down"
  /\ terminated' = TRUE
  /\ UNCHANGED <<disk, poller, ctl, cfg, running, run, registry, checks>>

Shutdown ==
  /\ ctl = "select"
  /\ ctl' = "stop" /\ terminated' = TRUE /\ stopping' = watched
  /\ UNCHANGED <<disk, poller, cfg, running, gen, todo, victim, registry, checks>>

Down ==
  /\ ctl = "stop" /\ stopping = {}
  /\ ctl' = "down"
  /\ UNCHANGED <<disk, poller, terminated, cfg, running, run, registry, checks>>

-----------------------------------------------------------------------------
(* The checks of a watcher. *)

Done(h) == terminated \/ h \in cancelled

Go(h, from, to) == loop[h] = from /\ loop' = [loop EXCEPT ![h] = to]
others == <<disk, poller, ctl, terminated, cfg, running, run, registry, cancelled>>

Leave(h) == via' = [via EXCEPT ![h] = 0]

(* check takes the dialer its watcher has at that moment. *)
Check(h) ==
  /\ Go(h, "wait", "queue")
  /\ via' = [via EXCEPT ![h] = dep[h]]
  /\ UNCHANGED <<others, used>>

(* Dial gets a slot ... *)
Acquire(h) ==
  /\ used[via[h]] < MaxConn /\ Go(h, "queue", "dial")
  /\ used' = [used EXCEPT ![via[h]] = @ + 1]
  /\ UNCHANGED <<others, via>>

(* ... or gives up with its context ... *)
GiveUpReleases(h) == \* mutant: a slot is released that was not taken
  /\ Done(h) /\ Go(h, "queue", "wait")
  /\ used' = [used EXCEPT ![via[h]] = IF @ > 0 THEN @ - 1 ELSE 0]
  /\ Leave(h) /\ UNCHANGED others
GiveUp(h) ==
  /\ Done(h) /\ Go(h, "queue", "wait")
  /\ Leave(h) /\ UNCHANGED <<others, used>>

(* ... and releases the slot when it returns. *)
ReturnTwice(h) == \* mutant: the slot of another dial is released, too
  /\ Go(h, "dial", "wait")
  /\ used' = [used EXCEPT ![via[h]] = @ - 2]
  /\ Leave(h) /\ UNCHANGED others
ReturnKeepsSlot(h) == \* mutant: the slot is not released
  Go(h, "dial", "wait") /\ Leave(h) /\ UNCHANGED <<others, used>>
Return(h) ==
  /\ Go(h, "dial", "wait")
  /\ used' = [used EXCEPT ![via[h]] = @ - 1]
  /\ Leave(h) /\ UNCHANGED others

ExitWhenRemoved(h) == \* mutant: the loop asks the registry, not its context
  /\ h \notin watched /\ Go(h, "wait", "off")
  /\ UNCHANGED <<others, via, used>>
Exit(h) ==
  /\ Done(h) /\ Go(h, "wait", "off")
  /\ UNCHANGED <<others, via, used>>

Main ==
  \/ Take \/ Parse \/ Validate \/ Run \/ Remove \/ Applied \/ Stopped \/ Down
  \/ \E h \in Hosts : Add(h) \/ Update(h) \/ StopCancel(h)

Next ==
  \/ \E v \in Versions : Edit(v)
  \/ Stat \/ Push \/ Main \/ Signal \/ Shutdown
  \/ \E h \in Hosts : Check(h) \/ Acquire(h) \/ GiveUp(h) \/ Return(h) \/ Exit(h)

Spec == Init /\ [][Next]_vars

(* The poller ticks until its context ends, main goes on, a dial returns    *)
(* (it has a timeout).  A select takes what is ready again and again: a     *)
(* cancelled context, a slot, a pending reload.                             *)
Fairness ==
  /\ WF_vars(~terminated /\ Stat) /\ WF_vars(Push) /\ WF_vars(Main)
  /\ SF_vars(terminated /\ Shutdown)
  /\ \A h \in Hosts : /\ SF_vars(Acquire(h)) /\ WF_vars(GiveUp(h))
                      /\ WF_vars(Return(h)) /\ SF_vars(Exit(h))

FairSpec == Spec /\ Fairness

-----------------------------------------------------------------------------
(* Properties. *)

TypeOK ==
  /\ file \in Versions /\ edits \in 0 .. MaxEdits
  /\ seen \in Versions \cup {None} /\ poll \in {"idle", "push"}
  /\ fw \in BOOLEAN /\ terminated \in BOOLEAN
  /\ ctl \in {"select", "parse", "validate", "run", "apply", "restart",
              "remove", "stop", "down"}
  /\ cfg \in Versions /\ running \in Versions \cup {None}
  /\ gen \in Generations
  /\ todo \subseteq Hosts /\ stopping \subseteq Hosts
  /\ victim \in Hosts \cup {None}
  /\ watched \subseteq Hosts /\ cancelled \subseteq Hosts
  /\ def \in [Hosts -> Definitions]
  /\ dep \in [Hosts -> Generations] /\ via \in [Hosts -> Generations]
  /\ loop \in [Hosts -> {"off", "wait", "queue", "dial"}]
  /\ used \in [Generations -> 0 .. MaxConn]

(* Between two reloads the monitor runs one version of the file, entirely:  *)
(* its hosts and no others, each with the definition of that version and    *)
(* the dependencies made for it; the loop of any other host is over         *)
(* (monitor.go:36-106).                                                     *)
OneVersion ==
  ctl = "select" /\ running # None =>
    /\ Kind[running] = "good"
    /\ watched = HostsOf(running)
    /\ \A h \in Hosts : IF h \in watched
                        THEN /\ def[h] = Def[running][h] /\ dep[h] = gen
                             /\ loop[h] = "off" => terminated
                        ELSE loop[h] = "off"

(* No edit is lost although FW holds one element, the poller looks at the   *)
(* file before it is read, and main may be busy for long: when both are     *)
(* idle and nothing is pending, the monitor runs what the file says, if     *)
(* that can be run (config.go:257-273, main.go:152-165).                    *)
NoEditLost ==
  ctl = "select" /\ poll = "idle" /\ ~fw /\ seen = file /\ Kind[file] = "good" =>
    running = file

(* The slots of a dialer are those its dials hold, across reloads, stops    *)
(* and checks that give up (dialer.go:48-59).                               *)
SlotsExact ==
  \A g \in Generations :
    used[g] = Cardinality({h \in Hosts : loop[h] = "dial" /\ via[h] = g})

(* A file that is not edited any more is applied in the end, whatever was   *)
(* wrong with it before, unless the process ends (README.md:93).            *)
Converges ==
  <>(terminated \/ [](Kind[file] = "good" => running = file))

(* A check that waits for a slot gets one or gives up (dialer.go:48-56).    *)
Served == \A h \in Hosts : loop[h] = "queue" ~> loop[h] # "queue"

(* A process that is told to terminate goes down, with a reload half way    *)
(* and checks waiting for slots (main.go:171-188).                          *)
Terminates == terminated ~> ctl = "down"

(* What main.go:153-154 says of a broken configuration: the previous one    *)
(* stays in effect.  The code does not keep that for the UI settings.       *)
PreviousInEffect == ctl = "select" /\ running # None => cfg = running

=============================================================================
