------------------------------- MODULE Notify -------------------------------
(***************************************************************************)
(* The fan-out of the notifications (pkg/notify/notify.go): the watchers   *)
(* call Send, the first Monitor.Run starts Startup in a goroutine of its   *)
(* own, Monitor.Stop calls Shutdown, and every reload builds a new Notify  *)
(* (Monitor.Run) that the watchers get one after the other.                *)
(*                                                                         *)
(* Sending to a channel succeeds or fails.  Time is abstracted to the      *)
(* event that the cooldown of a notification has elapsed.                  *)
(***************************************************************************)
EXTENDS Naturals, Sequences, SequencesExt

CONSTANTS
  Hosts,       \* the monitored hosts, one watcher each
  Clients,     \* n.clients: the configured channels, in order
  Alerts,      \* Alerts[h]: host.Alerts, the empty set allows all channels
  Greetings,   \* the broadcasts that the configuration asks for
  Starter,     \* the goroutine of Startup
  Main,        \* the main goroutine
  Nobody,      \* no holder of a lock
  MaxNotifiers \* bound: how many times the configuration is applied

Channels == ToSet(Clients)
Threads == Hosts \cup {Starter, Main}
Notifiers == 0 .. MaxNotifiers \* 0: there is none yet
Statuses == {"UP", "DOWN"}
Broadcasts == {"online", "offline"}
Keys == Channels \X Hosts \X Statuses

ASSUME ConstantsOK ==
  /\ MaxNotifiers \in Nat \ {0}
  /\ Clients \in Seq(Channels)
  /\ \A i, j \in DOMAIN Clients : Clients[i] = Clients[j] => i = j
  /\ Alerts \in [Hosts -> SUBSET Channels]
  /\ Greetings \subseteq Broadcasts
  /\ Starter # Main /\ Starter \notin Hosts /\ Main \notin Hosts
  /\ Nobody \notin Threads

VARIABLES
  ctl,     \* main.go: run, apply (in Monitor.Run), stop, shutdown, exited
  current, \* m.notify
  alive,   \* the hosts whose check loop runs
  using,   \* w.notify of each watcher
  mu,      \* the holder of n.mu of each notifier
  sent,    \* n.sent: the keys younger than the cooldown
  pc,      \* each thread: idle, wait (for n.mu), send
  msg,     \* the last message each thread was called with
  gen,     \* the notifier a thread is in, 0 when it is idle
  left,    \* the channels it still has to visit
  tried,   \* history: the channels its call has visited
  recent,  \* history: the keys delivered less than a cooldown ago
  told     \* history: how often each channel was sent each broadcast

main == <<ctl, current, alive, using>>
call == <<pc, msg, gen, left, tried>>
vars == <<main, mu, sent, call, recent, told>>

Init ==
  /\ ctl = "run" /\ current = 0 /\ alive = {}
  /\ using = [h \in Hosts |-> 0]
  /\ mu = [n \in Notifiers |-> Nobody]
  /\ sent = [n \in Notifiers |-> {}]
  /\ pc = [t \in Threads |-> "idle"]
  /\ msg = [t \in Threads |-> "UP"]
  /\ gen = [t \in Threads |-> 0]
  /\ left = [t \in Threads |-> <<>>]
  /\ tried = [t \in Threads |-> {}]
  /\ recent = {}
  /\ told = [c \in Channels |-> [b \in Broadcasts |-> 0]]

-----------------------------------------------------------------------------
(* The calls.  Send, Startup and Shutdown hold n.mu while they visit the    *)
(* channels one after the other.                                            *)

Call(t, m, n) ==
  /\ pc[t] = "idle"
  /\ pc' = [pc EXCEPT ![t] = "wait"]
  /\ msg' = [msg EXCEPT ![t] = m]
  /\ gen' = [gen EXCEPT ![t] = n]
  /\ UNCHANGED <<left, tried>>

(* enabled: an empty list of alerts allows every channel.  Broadcasts ask   *)
(* for no host.                                                             *)
Enabled(t, c) == t \in Hosts => Alerts[t] = {} \/ c \in Alerts[t]

AcquireAnyway(t) == \* mutant: the lock is not waited for
  /\ pc[t] = "wait"
  /\ mu' = [mu EXCEPT ![gen[t]] = t]
  /\ pc' = [pc EXCEPT ![t] = "send"]
  /\ left' = [left EXCEPT ![t] = Clients]
  /\ UNCHANGED <<main, sent, msg, gen, tried, recent, told>>
Acquire(t) ==
  /\ pc[t] = "wait" /\ mu[gen[t]] = Nobody
  /\ mu' = [mu EXCEPT ![gen[t]] = t]
  /\ pc' = [pc EXCEPT ![t] = "send"]
  /\ left' = [left EXCEPT ![t] = Clients]
  /\ UNCHANGED <<main, sent, msg, gen, tried, recent, told>>

Channel(t) == Head(left[t])
Key(t) == <<Channel(t), t, msg[t]>>

Advance(t) ==
  /\ pc[t] = "send" /\ left[t] # <<>>
  /\ left' = [left EXCEPT ![t] = Tail(@)]
  /\ UNCHANGED <<main, mu, pc, msg, gen>>

Skip(t) ==
  /\ Advance(t) /\ ~Enabled(t, Channel(t))
  /\ UNCHANGED <<sent, tried, recent, told>>

Visit(t) ==
  /\ Advance(t) /\ Enabled(t, Channel(t))
  /\ tried' = [tried EXCEPT ![t] = @ \cup {Channel(t)}]

(* suppressed: this channel was sent the same within the cooldown. *)
Suppressed(t) == Key(t) \in sent[gen[t]]

Suppress(t) ==
  /\ t \in Hosts /\ Visit(t) /\ Suppressed(t)
  /\ UNCHANGED <<sent, recent, told>>

(* The channel took the message: markSent. *)
Deliver(t) ==
  /\ t \in Hosts /\ Visit(t) /\ ~Suppressed(t)
  /\ sent' = [sent EXCEPT ![gen[t]] = @ \cup {Key(t)}]
  /\ recent' = recent \cup {Key(t)}
  /\ UNCHANGED told

FailMarks(t) == \* mutant: a failed delivery starts the cooldown
  /\ t \in Hosts /\ Visit(t) /\ ~Suppressed(t)
  /\ sent' = [sent EXCEPT ![gen[t]] = @ \cup {Key(t)}]
  /\ UNCHANGED <<recent, told>>
FailReturns(t) == \* mutant: Send returns at the first error
  /\ t \in Hosts /\ pc[t] = "send" /\ left[t] # <<>>
  /\ Enabled(t, Channel(t)) /\ ~Suppressed(t)
  /\ left' = [left EXCEPT ![t] = <<>>]
  /\ tried' = [tried EXCEPT ![t] = @ \cup {Channel(t)}]
  /\ UNCHANGED <<main, mu, sent, pc, msg, gen, recent, told>>
(* The channel failed: the error is collected, the others are visited. *)
Fail(t) ==
  /\ t \in Hosts /\ Visit(t) /\ ~Suppressed(t)
  /\ UNCHANGED <<sent, recent, told>>

(* broadcast: every channel, without a cooldown; errors are only logged. *)
Broadcast(t) ==
  /\ t \notin Hosts /\ Visit(t)
  /\ told' = [told EXCEPT ![Channel(t)][msg[t]] = @ + 1]
  /\ UNCHANGED <<sent, recent>>

Leave(t) ==
  /\ pc[t] = "send" /\ left[t] = <<>>
  /\ pc' = [pc EXCEPT ![t] = "idle"]
  /\ gen' = [gen EXCEPT ![t] = 0]
  /\ tried' = [tried EXCEPT ![t] = {}]
  /\ UNCHANGED <<main, sent, msg, left, recent, told>>
ReturnLocked(t) == \* mutant: the lock is kept
  Leave(t) /\ UNCHANGED mu
(* The deferred unlock. *)
Return(t) == Leave(t) /\ mu' = [mu EXCEPT ![gen[t]] = Nobody]

(* The cooldown of a key is over, whoever remembers it. *)
Elapse(k) ==
  /\ k \in recent
  /\ recent' = recent \ {k}
  /\ sent' = [n \in Notifiers |-> sent[n] \ {k}]
  /\ UNCHANGED <<main, mu, call, told>>

-----------------------------------------------------------------------------
(* The watchers and the main goroutine. *)

(* check: the status changed and w.notify was read; see Watcher.            *)
Announce(h) ==
  /\ h \in alive /\ ctl # "exited"
  /\ \E s \in Statuses \ {msg[h]} : Call(h, s, using[h])
  /\ UNCHANGED <<main, mu, sent, recent, told>>

Greet(t, b, n) == IF b \in Greetings THEN Call(t, b, n) ELSE UNCHANGED call

RunGreets == \* mutant: every reload sends the startup message
  /\ ctl = "run" /\ current < MaxNotifiers
  /\ ctl' = "apply" /\ current' = current + 1
  /\ Greet(Starter, "online", current + 1)
  /\ UNCHANGED <<alive, using, mu, sent, recent, told>>
(* Monitor.Run builds the notifier; the first one greets.  *)
Run ==
  /\ ctl = "run" /\ current < MaxNotifiers
  /\ ctl' = "apply" /\ current' = current + 1
  /\ IF current = 0 THEN Greet(Starter, "online", 1) ELSE UNCHANGED call
  /\ UNCHANGED <<alive, using, mu, sent, recent, told>>

(* Monitor.add and watcher.update hand it to the watchers. *)
Hand(h) ==
  /\ ctl = "apply" /\ using[h] # current
  /\ using' = [using EXCEPT ![h] = current]
  /\ alive' = alive \cup {h}
  /\ UNCHANGED <<ctl, current, mu, sent, call, recent, told>>

Applied ==
  /\ ctl = "apply" /\ \A h \in Hosts : using[h] = current
  /\ ctl' = "run"
  /\ UNCHANGED <<current, alive, using, mu, sent, call, recent, told>>

(* Monitor.Stop: every watcher is stopped, which waits for its loop, and    *)
(* then the notifier of the last configuration says goodbye.                *)
Stop ==
  /\ ctl = "run" /\ current > 0
  /\ ctl' = "stop"
  /\ UNCHANGED <<current, alive, using, mu, sent, call, recent, told>>

StopWatcherNoWait(h) == \* mutant: stop() does not wait for the loop
  /\ ctl = "stop" /\ h \in alive
  /\ alive' = alive \ {h}
  /\ UNCHANGED <<ctl, current, using, mu, sent, call, recent, told>>
StopWatcher(h) ==
  /\ ctl = "stop" /\ h \in alive /\ pc[h] = "idle"
  /\ alive' = alive \ {h}
  /\ UNCHANGED <<ctl, current, using, mu, sent, call, recent, told>>

Shutdown ==
  /\ ctl = "stop" /\ alive = {}
  /\ ctl' = "shutdown"
  /\ Greet(Main, "offline", current)
  /\ UNCHANGED <<current, alive, using, mu, sent, recent, told>>

(* The process exits; a Startup that is not through is cut off. *)
Exit ==
  /\ ctl = "shutdown" /\ pc[Main] = "idle"
  /\ ctl' = "exited"
  /\ UNCHANGED <<current, alive, using, mu, sent, call, recent, told>>

Serve(t) ==
  /\ ctl # "exited"
  /\ \/ Acquire(t) \/ Skip(t) \/ Suppress(t) \/ Deliver(t) \/ Fail(t)
     \/ Broadcast(t) \/ Return(t)

Manage ==
  \/ Applied \/ Shutdown \/ Exit
  \/ \E h \in Hosts : Hand(h) \/ StopWatcher(h)

Next ==
  \/ \E t \in Threads : Serve(t)
  \/ \E h \in Hosts : Announce(h)
  \/ Run \/ Stop \/ Manage
  \/ \E k \in Keys : Elapse(k)

Spec == Init /\ [][Next]_vars

(* A channel answers or times out, a Go mutex lets everyone in after all,   *)
(* and select takes a watcher's cancelled context in the end.               *)
Fairness ==
  /\ \A t \in Threads : WF_vars(Serve(t)) /\ SF_vars(Acquire(t))
  /\ WF_vars(Manage)
  /\ \A h \in Hosts : SF_vars(StopWatcher(h))

FairSpec == Spec /\ Fairness

-----------------------------------------------------------------------------
(* Properties. *)

(* The variables have their types, and a thread that visits channels holds  *)
(* its notifier's lock: two calls of one notifier never overlap.            *)
TypeOK ==
  /\ ctl \in {"run", "apply", "stop", "shutdown", "exited"}
  /\ current \in Notifiers /\ alive \subseteq Hosts
  /\ using \in [Hosts -> Notifiers]
  /\ mu \in [Notifiers -> Threads \cup {Nobody}]
  /\ sent \in [Notifiers -> SUBSET Keys]
  /\ pc \in [Threads -> {"idle", "wait", "send"}]
  /\ msg \in [Threads -> Statuses \cup Broadcasts]
  /\ gen \in [Threads -> Notifiers]
  /\ left \in [Threads -> Seq(Channels)]
  /\ tried \in [Threads -> SUBSET Channels]
  /\ recent \subseteq Keys
  /\ told \in [Channels -> [Broadcasts -> Nat]]
  /\ \A t \in Threads : pc[t] = "send" => mu[gen[t]] = t

(* A notification is withheld from a channel only when that channel took    *)
(* the same one less than a cooldown ago: neither a failed delivery nor     *)
(* another channel or host counts (notify.go:219-230, cooldown_test.go:71). *)
WithheldOnlyIfTold ==
  [][\A t \in Hosts : Suppress(t) => Key(t) \in recent]_vars

(* A call that returns has visited every channel that the host alerts, the  *)
(* failures of others notwithstanding (notify.go:203-233, README.md:271).   *)
EveryChannelVisited ==
  [][\A t \in Threads : Leave(t) =>
       tried[t] = {c \in Channels : Enabled(t, c)}]_vars

(* The startup and shutdown messages reach a channel at most once per       *)
(* process: a reload does not repeat them (monitor.go:65-67, README.md:271).*)
OncePerProcess == \A c \in Channels, b \in Broadcasts : told[c][b] <= 1

(* No status is announced to a channel that was told that the process goes  *)
(* offline, whichever notifier the watcher uses (monitor.go:123-128).       *)
NothingAfterOffline ==
  [][\A t \in Hosts : Visit(t) => told[Channel(t)]["offline"] = 0]_vars

(* Stop comes to its end although a loop may be sending and Startup may     *)
(* hold the notifier it needs (monitor.go:109-132, main.go:180-188).        *)
Exits == ctl = "stop" ~> ctl = "exited"

(* What types/config.go:110 says of the cooldown, of a process and not of   *)
(* one of its notifiers.  The code does not keep that across a reload.      *)
CooldownKept ==
  [][\A t \in Hosts : Deliver(t) => Key(t) \notin recent]_vars

=============================================================================
