---------------------------- MODULE NotifyProofs ----------------------------
(***************************************************************************)
(* Theorems about Notify for every set of hosts, every list of channels    *)
(* without repetitions and any number of reloads.                          *)
(***************************************************************************)
EXTENDS Notify, TLAPS

(* The kinds of steps, as far as the calls and their locks are concerned. *)
Calls ==
  /\ UNCHANGED <<mu, sent, recent, told>>
  /\ \/ UNCHANGED call
     \/ \E t \in Threads, m \in Statuses \cup Broadcasts, n \in Notifiers : Call(t, m, n)

Visits(t) == Skip(t) \/ Suppress(t) \/ Deliver(t) \/ Fail(t) \/ Broadcast(t)

Types ==
  /\ ctl \in {"run", "apply", "stop", "shutdown", "exited"}
  /\ current \in Notifiers /\ alive \subseteq Hosts
  /\ using \in [Hosts -> Notifiers]
  /\ mu \in [Notifiers -> Threads \cup {Nobody}]
  /\ sent \in [Notifiers -> SUBSET Keys]
  /\ pc \in [Threads -> {"idle", "wait", "send"}]
  /\ msg \in [Threads -> Statuses \cup Broadcasts]
  /\ gen \in [Threads -> Notifiers]
  /\ left \in [Threads -> Seq(Channels)]
  /\ tried \in [Threads -> SUBSET Channels]
  /\ recent \subseteq Keys
  /\ told \in [Channels -> [Broadcasts -> Nat]]

(* A host is called with a status, so that its keys are keys. *)
Announcing == \A h \in Hosts : msg[h] \in Statuses

LEMMA StepKinds ==
  ASSUME Types, [Next]_vars
  PROVE  \/ \E t \in Threads : Acquire(t) \/ Visits(t) \/ Return(t)
         \/ Calls
         \/ \E k \in Keys : Elapse(k)
<1>1. ASSUME NEW t \in Threads, Serve(t)
      PROVE  Acquire(t) \/ Visits(t) \/ Return(t)
  BY <1>1 DEF Serve, Visits
<1>2. ASSUME NEW h \in Hosts, Announce(h) PROVE Calls
  BY <1>2 DEF Announce, Calls, Threads, Types
<1>3. ASSUME Run PROVE Calls
  <2>1. 1 \in Notifiers
    BY ConstantsOK DEF ConstantsOK, Notifiers
  <2> QED
    BY <1>3, <2>1 DEF Run, Greet, Calls, Threads, Broadcasts
<1>4. ASSUME Shutdown PROVE Calls
  BY <1>4 DEF Shutdown, Greet, Calls, Threads, Broadcasts, Types
<1>5. CASE Stop \/ Applied \/ Exit \/ (\E h \in Hosts : Hand(h) \/ StopWatcher(h))
           \/ UNCHANGED vars
  BY <1>5 DEF Stop, Applied, Exit, Hand, StopWatcher, vars, Calls
<1> QED
  BY <1>1, <1>2, <1>3, <1>4, <1>5 DEF Next, Manage

-----------------------------------------------------------------------------
(* A list that is visited from its head. *)

Distinct(s) == \A i, j \in DOMAIN s : s[i] = s[j] => i = j

LEMMA Visited ==
  ASSUME NEW C, NEW s \in Seq(C), s # <<>>, Distinct(s)
  PROVE  /\ Head(s) \in C /\ Tail(s) \in Seq(C) /\ Distinct(Tail(s))
         /\ ToSet(s) = {Head(s)} \cup ToSet(Tail(s))
         /\ Head(s) \notin ToSet(Tail(s))
<1>1. Len(s) \in Nat \ {0} /\ DOMAIN s = 1 .. Len(s)
  OBVIOUS
<1>2. /\ Head(s) = s[1] /\ Head(s) \in C
      /\ Tail(s) \in Seq(C) /\ DOMAIN Tail(s) = 1 .. Len(s) - 1
      /\ \A i \in 1 .. Len(s) - 1 : Tail(s)[i] = s[i + 1]
  BY <1>1
<1>3. Distinct(Tail(s))
  BY <1>1, <1>2 DEF Distinct
<1>4. Head(s) \notin ToSet(Tail(s))
  BY <1>1, <1>2 DEF Distinct, ToSet
<1>5. ToSet(s) = {Head(s)} \cup ToSet(Tail(s))
  <2>1. ASSUME NEW i \in DOMAIN s PROVE s[i] \in {Head(s)} \cup ToSet(Tail(s))
    <3>1. CASE i = 1
      BY <1>2, <3>1
    <3>2. CASE i # 1
      <4>1. i - 1 \in 1 .. Len(s) - 1 /\ (i - 1) + 1 = i
        BY <1>1, <3>2
      <4> QED
        BY <1>2, <4>1 DEF ToSet
    <3> QED
      BY <3>1, <3>2
  <2>2. ASSUME NEW i \in DOMAIN Tail(s) PROVE Tail(s)[i] \in ToSet(s)
    <3>1. i + 1 \in DOMAIN s
      BY <1>1, <1>2
    <3> QED
      BY <1>2, <3>1 DEF ToSet
  <2>3. Head(s) \in ToSet(s)
    BY <1>1, <1>2 DEF ToSet
  <2> QED
    BY <2>1, <2>2, <2>3 DEF ToSet
<1> QED
  BY <1>2, <1>3, <1>4, <1>5

-----------------------------------------------------------------------------
(* Types. *)

LEMMA OneMore ==
  ASSUME NEW S, NEW f \in [S -> Nat], NEW x
  PROVE  [f EXCEPT ![x] = f[x] + 1] \in [S -> Nat]
<1>1. ASSUME NEW y \in S PROVE [f EXCEPT ![x] = f[x] + 1][y] \in Nat
  OBVIOUS
<1> QED
  BY <1>1

LEMMA InitTypes == Init => Types /\ Announcing
<1> SUFFICES ASSUME Init PROVE Types /\ Announcing
  OBVIOUS
<1>1. 0 \in Notifiers /\ <<>> \in Seq(Channels)
  BY ConstantsOK DEF ConstantsOK, Notifiers
<1> QED
  BY <1>1 DEF Init, Types, Announcing, Threads, Statuses

LEMMA NextTypes ==
  ASSUME Types, Announcing, [Next]_vars
  PROVE  Types' /\ Announcing'
<1> USE DEF Types, main
<1>1. ASSUME NEW t \in Threads, Acquire(t) PROVE Types' /\ Announcing'
  BY <1>1, ConstantsOK DEF ConstantsOK, Acquire, Announcing
<1>2. ASSUME NEW t \in Threads, Return(t) PROVE Types' /\ Announcing'
  <2>1. 0 \in Notifiers
    BY ConstantsOK DEF ConstantsOK, Notifiers
  <2> QED
    BY <1>2, <2>1 DEF Return, Leave, Announcing
<1>3. ASSUME NEW t \in Threads, Visits(t) PROVE Types' /\ Announcing'
  <2>1. Advance(t)
    BY <1>3 DEF Visits, Skip, Suppress, Deliver, Fail, Broadcast, Visit
  <2>2. left' \in [Threads -> Seq(Channels)] /\ Channel(t) \in Channels
    BY <2>1 DEF Advance, Channel
  <2>3. tried' \in [Threads -> SUBSET Channels]
    <3>1. CASE UNCHANGED tried
      BY <3>1
    <3>2. CASE Visit(t)
      BY <2>2, <3>2 DEF Visit
    <3> QED
      BY <1>3, <3>1, <3>2 DEF Visits, Skip, Suppress, Deliver, Fail, Broadcast
  <2>4. sent' \in [Notifiers -> SUBSET Keys] /\ recent' \subseteq Keys
    <3>1. t \in Hosts => Key(t) \in Keys
      BY <2>2 DEF Key, Keys, Announcing
    <3>2. CASE UNCHANGED <<sent, recent>>
      BY <3>2
    <3>3. CASE Deliver(t)
      BY <3>1, <3>3 DEF Deliver
    <3> QED
      BY <1>3, <3>2, <3>3 DEF Visits, Skip, Suppress, Fail, Broadcast
  <2>5. told' \in [Channels -> [Broadcasts -> Nat]]
    <3>1. CASE UNCHANGED told
      BY <3>1
    <3>2. CASE Broadcast(t)
      <4>1. PICK c \in Channels : c = Channel(t)
        BY <2>2
      <4>2. told' = [told EXCEPT ![c] = [told[c] EXCEPT ![msg[t]] = told[c][msg[t]] + 1]]
        BY <3>2, <4>1 DEF Broadcast
      <4>3. told \in [Channels -> [Broadcasts -> Nat]]
        OBVIOUS
      <4>4. told[c] \in [Broadcasts -> Nat]
        BY <4>3
      <4>5. [told[c] EXCEPT ![msg[t]] = told[c][msg[t]] + 1] \in [Broadcasts -> Nat]
        BY <4>4, OneMore
      <4> QED
        BY <4>2, <4>3, <4>5
    <3> QED
      BY <1>3, <3>1, <3>2 DEF Visits, Skip, Suppress, Deliver, Fail
  <2> QED
    BY <2>1, <2>2, <2>3, <2>4, <2>5 DEF Advance, Announcing
<1>4. ASSUME NEW k \in Keys, Elapse(k) PROVE Types' /\ Announcing'
  BY <1>4 DEF Elapse, call, Announcing
<1>5. CASE Calls
  <2>1. /\ pc' \in [Threads -> {"idle", "wait", "send"}]
        /\ msg' \in [Threads -> Statuses \cup Broadcasts]
        /\ gen' \in [Threads -> Notifiers]
        /\ UNCHANGED <<left, tried, mu, sent, recent, told>>
    <3>1. CASE UNCHANGED call
      BY <1>5, <3>1 DEF Calls, call
    <3>2. ASSUME NEW t \in Threads, NEW m \in Statuses \cup Broadcasts, NEW n \in Notifiers,
                 Call(t, m, n)
          PROVE  /\ pc' \in [Threads -> {"idle", "wait", "send"}]
                 /\ msg' \in [Threads -> Statuses \cup Broadcasts]
                 /\ gen' \in [Threads -> Notifiers]
                 /\ UNCHANGED <<left, tried>>
      BY <3>2 DEF Call
    <3> QED
      BY <1>5, <3>1, <3>2 DEF Calls
  <2>2. ASSUME NEW h \in Hosts, Announce(h) PROVE Types' /\ Announcing'
    BY <2>1, <2>2 DEF Announce, Call, Announcing, Threads
  <2>3. CASE Run
    <3>1. current + 1 \in Notifiers
      BY <2>3, ConstantsOK DEF Run, ConstantsOK, Notifiers
    <3>2. Announcing'
      BY <2>3, ConstantsOK DEF Run, ConstantsOK, Greet, Call, call, Announcing, Threads
    <3> QED
      BY <2>1, <2>3, <3>1, <3>2 DEF Run
  <2>4. CASE Shutdown
    BY <2>1, <2>4, ConstantsOK DEF Shutdown, ConstantsOK, Greet, Call, call, Announcing, Threads
  <2>5. CASE Stop \/ Applied \/ Exit \/ (\E h \in Hosts : Hand(h) \/ StopWatcher(h))
           \/ UNCHANGED vars
    BY <2>1, <2>5 DEF Stop, Applied, Exit, Hand, StopWatcher, vars, call, Announcing
  <2>6. CASE \E t \in Threads : Serve(t)
    BY <1>1, <1>2, <1>3, <2>6 DEF Serve, Visits
  <2>7. CASE \E k \in Keys : Elapse(k)
    BY <1>4, <2>7
  <2> QED
    BY <2>2, <2>3, <2>4, <2>5, <2>6, <2>7 DEF Next, Manage
<1> QED
  BY <1>1, <1>2, <1>3, <1>4, <1>5, StepKinds

-----------------------------------------------------------------------------
(* The locks, and what a call has visited. *)

LockInv == \A t \in Threads : pc[t] = "send" => mu[gen[t]] = t

Visiting(t) ==
  /\ Distinct(left[t])
  /\ {c \in Channels : Enabled(t, c)} =
       tried[t] \cup {c \in ToSet(left[t]) : Enabled(t, c)}

FanInv ==
  \A t \in Threads : /\ pc[t] = "send" => Visiting(t)
                     /\ pc[t] # "send" => tried[t] = {}

LEMMA NextLock ==
  ASSUME Types, LockInv, [Next]_vars
  PROVE  LockInv'
<1> USE DEF Types, LockInv
<1>1. ASSUME NEW t \in Threads, Acquire(t) PROVE LockInv'
  BY <1>1, ConstantsOK DEF ConstantsOK, Acquire
<1>2. ASSUME NEW t \in Threads, Visits(t) PROVE LockInv'
  BY <1>2 DEF Visits, Skip, Suppress, Deliver, Fail, Broadcast, Visit, Advance
<1>3. ASSUME NEW t \in Threads, Return(t) PROVE LockInv'
  BY <1>3 DEF Return, Leave
<1>4. CASE Calls
  <2>1. CASE UNCHANGED call
    BY <1>4, <2>1 DEF Calls, call
  <2>2. ASSUME NEW t \in Threads, NEW m, NEW n, Call(t, m, n) PROVE LockInv'
    BY <1>4, <2>2 DEF Calls, Call
  <2> QED
    BY <1>4, <2>1, <2>2 DEF Calls
<1>5. CASE \E k \in Keys : Elapse(k)
  BY <1>5 DEF Elapse, call
<1> QED
  BY <1>1, <1>2, <1>3, <1>4, <1>5, StepKinds

LEMMA NextFan ==
  ASSUME Types, FanInv, [Next]_vars
  PROVE  FanInv'
<1>1. ASSUME NEW t \in Threads, Acquire(t) PROVE FanInv'
  <2>1. Distinct(Clients) /\ tried[t] = {} /\ left'[t] = Clients
    BY <1>1, ConstantsOK DEF ConstantsOK, Distinct, FanInv, Acquire, Types
  <2>2. Visiting(t)'
    BY <1>1, <2>1 DEF Visiting, Acquire, Channels, Enabled
  <2> QED
    BY <1>1, <2>2 DEF FanInv, Visiting, Acquire, Types, Enabled
<1>2. ASSUME NEW t \in Threads, Visits(t) PROVE FanInv'
  <2>1. Advance(t) /\ Visiting(t) /\ left[t] \in Seq(Channels)
    BY <1>2 DEF Visits, Skip, Suppress, Deliver, Fail, Broadcast, Visit, Advance, FanInv, Types
  <2> DEFINE c == Head(left[t])
  <2>2. /\ Distinct(Tail(left[t])) /\ c \in Channels
        /\ ToSet(left[t]) = {c} \cup ToSet(Tail(left[t]))
    BY <2>1, Visited DEF Advance, Visiting
  <2>3. left'[t] = Tail(left[t]) /\ \A q \in Threads \ {t} : left'[q] = left[q]
    BY <2>1 DEF Advance, Types
  <2>4. /\ tried'[t] = tried[t] \cup (IF Enabled(t, c) THEN {c} ELSE {})
        /\ \A q \in Threads \ {t} : tried'[q] = tried[q]
    BY <1>2 DEF Visits, Skip, Suppress, Deliver, Fail, Broadcast, Visit, Channel, Types
  <2>5. Visiting(t)'
    BY <2>1, <2>2, <2>3, <2>4 DEF Visiting, Enabled
  <2> QED
    BY <2>1, <2>3, <2>4, <2>5 DEF FanInv, Visiting, Advance, Enabled
<1>3. ASSUME NEW t \in Threads, Return(t) PROVE FanInv'
  BY <1>3 DEF Return, Leave, FanInv, Visiting, Types, Enabled
<1>4. CASE Calls
  <2>1. CASE UNCHANGED call
    BY <1>4, <2>1 DEF call, FanInv, Visiting, Enabled
  <2>2. ASSUME NEW t \in Threads, NEW m, NEW n, Call(t, m, n) PROVE FanInv'
    BY <1>4, <2>2 DEF Call, FanInv, Visiting, Types, Enabled
  <2> QED
    BY <1>4, <2>1, <2>2 DEF Calls
<1>5. CASE \E k \in Keys : Elapse(k)
  BY <1>5 DEF Elapse, call, FanInv, Visiting, Enabled
<1> QED
  BY <1>1, <1>2, <1>3, <1>4, <1>5, StepKinds

-----------------------------------------------------------------------------
(* The cooldowns. *)

CoolInv == \A n \in Notifiers : sent[n] \subseteq recent

LEMMA NextCool ==
  ASSUME Types, CoolInv, [Next]_vars
  PROVE  CoolInv'
<1> USE DEF Types, CoolInv
<1>1. ASSUME NEW t \in Threads, Visits(t) PROVE CoolInv'
  <2>1. CASE Deliver(t)
    <3>1. /\ sent' = [sent EXCEPT ![gen[t]] = @ \cup {Key(t)}]
          /\ recent' = recent \cup {Key(t)}
      BY <2>1 DEF Deliver
    <3> QED
      BY <3>1
  <2>2. CASE Skip(t) \/ Suppress(t) \/ Fail(t) \/ Broadcast(t)
    <3>1. UNCHANGED <<sent, recent>>
      BY <2>2 DEF Skip, Suppress, Fail, Broadcast
    <3> QED
      BY <3>1
  <2> QED
    BY <1>1, <2>1, <2>2 DEF Visits
<1>2. ASSUME NEW t \in Threads, Acquire(t) \/ Return(t) PROVE CoolInv'
  BY <1>2 DEF Acquire, Return, Leave
<1>3. CASE \E k \in Keys : Elapse(k)
  BY <1>3 DEF Elapse
<1>4. CASE Calls
  BY <1>4 DEF Calls
<1> QED
  BY <1>1, <1>2, <1>3, <1>4, StepKinds

-----------------------------------------------------------------------------
(* The loops: one that sends is alive, and none is when the process says    *)
(* goodbye.                                                                 *)

AliveInv ==
  /\ \A h \in Hosts : pc[h] # "idle" => h \in alive
  /\ ctl \in {"shutdown", "exited"} => alive = {}

LEMMA NextAlive ==
  ASSUME Types, AliveInv, [Next]_vars
  PROVE  AliveInv'
<1> USE DEF Types, AliveInv, Threads
<1>1. ASSUME NEW t \in Threads, Acquire(t) PROVE AliveInv'
  BY <1>1 DEF Acquire, main
<1>2. ASSUME NEW t \in Threads, Visits(t) PROVE AliveInv'
  <2>1. Advance(t)
    BY <1>2 DEF Visits, Skip, Suppress, Deliver, Fail, Broadcast, Visit
  <2> QED
    BY <2>1 DEF Advance, main
<1>3. ASSUME NEW t \in Threads, Return(t) PROVE AliveInv'
  BY <1>3 DEF Return, Leave, main
<1>4. ASSUME NEW h \in Hosts, Announce(h) PROVE AliveInv'
  BY <1>4 DEF Announce, Call, main
<1>5. CASE Run
  BY <1>5, ConstantsOK DEF ConstantsOK, Run, Greet, Call, call
<1>6. CASE Shutdown
  BY <1>6, ConstantsOK DEF ConstantsOK, Shutdown, Greet, Call, call
<1>7. CASE Stop \/ Applied \/ Exit
  BY <1>7 DEF Stop, Applied, Exit, call
<1>8. ASSUME NEW h \in Hosts, Hand(h) \/ StopWatcher(h) PROVE AliveInv'
  BY <1>8 DEF Hand, StopWatcher, call
<1>9. CASE (\E k \in Keys : Elapse(k)) \/ UNCHANGED vars
  BY <1>9 DEF Elapse, vars, call, main
<1> QED
  BY <1>1, <1>2, <1>3, <1>4, <1>5, <1>6, <1>7, <1>8, <1>9 DEF Next, Serve, Visits, Manage

-----------------------------------------------------------------------------
(* The broadcasts, each of a thread of its own that is called once. *)

Greeter(b) == IF b = "online" THEN Starter ELSE Main
Greeted(b) == IF b = "online" THEN current # 0 ELSE ctl \in {"shutdown", "exited"}

GreetInv(b) ==
  LET t == Greeter(b)
  IN  /\ ~Greeted(b) => pc[t] = "idle" /\ \A c \in Channels : told[c][b] = 0
      /\ pc[t] # "idle" => msg[t] = b
      /\ pc[t] = "wait" => \A c \in Channels : told[c][b] = 0
      /\ pc[t] = "send" => \A c \in ToSet(left[t]) : told[c][b] = 0
      /\ \A c \in Channels : told[c][b] <= 1

GreetsInv == GreetInv("online") /\ GreetInv("offline")

LEMMA GreetKept ==
  ASSUME NEW b \in Broadcasts, GreetInv(b), Greeted(b) => Greeted(b)', UNCHANGED told,
         UNCHANGED <<pc[Greeter(b)], msg[Greeter(b)], left[Greeter(b)]>>
  PROVE  GreetInv(b)'
BY DEF GreetInv, Greeter

LEMMA OneTold ==
  ASSUME NEW f \in [Channels -> [Broadcasts -> Nat]], NEW c \in Channels, NEW m,
         NEW g, g = [f EXCEPT ![c][m] = @ + 1],
         NEW b \in Broadcasts, NEW x \in Channels
  PROVE  g[x][b] = IF x = c /\ m = b THEN f[x][b] + 1 ELSE f[x][b]
<1>1. f[c] \in [Broadcasts -> Nat] /\ f[x] \in [Broadcasts -> Nat]
  OBVIOUS
<1>2. g = [f EXCEPT ![c] = [f[c] EXCEPT ![m] = f[c][m] + 1]]
  OBVIOUS
<1>3. CASE x = c
  <2>1. g[x] = [f[c] EXCEPT ![m] = f[c][m] + 1]
    BY <1>2, <1>3
  <2> QED
    BY <1>1, <1>3, <2>1
<1>4. CASE x # c
  BY <1>2, <1>4
<1> QED
  BY <1>3, <1>4

LEMMA NextGreet ==
  ASSUME Types, FanInv, GreetsInv, [Next]_vars, NEW b \in Broadcasts
  PROVE  GreetInv(b)'
<1> DEFINE t == Greeter(b)
<1>0. /\ GreetInv(b) /\ t \in Threads \ Hosts
      /\ \A q \in Threads \ Hosts : q # t => \E d \in Broadcasts \ {b} : GreetInv(d) /\ q = Greeter(d)
  BY ConstantsOK DEF ConstantsOK, GreetsInv, Broadcasts, Greeter, Threads
<1>1. ASSUME NEW q \in Threads, Acquire(q) PROVE GreetInv(b)'
  <2>1. UNCHANGED <<ctl, current, msg, told>>
    BY <1>1 DEF Acquire, main
  <2>2. CASE q # t
    BY <1>0, <1>1, <2>1, <2>2, GreetKept DEF Acquire, Types, Greeted
  <2>3. CASE q = t
    <3>1. pc[t] = "wait" /\ pc'[t] = "send" /\ left'[t] = Clients
      BY <1>0, <1>1, <2>3 DEF Acquire, Types
    <3> QED
      BY <1>0, <2>1, <3>1 DEF GreetInv, Greeter, Greeted, Channels
  <2> QED
    BY <2>2, <2>3
<1>2. ASSUME NEW q \in Threads, Visits(q) PROVE GreetInv(b)'
  <2>1. Advance(q) /\ UNCHANGED <<ctl, current, pc, msg>>
    BY <1>2 DEF Visits, Skip, Suppress, Deliver, Fail, Broadcast, Visit, Advance, main
  <2>2. CASE q \in Hosts
    <3>1. UNCHANGED told
      BY <1>2, <2>2 DEF Visits, Skip, Suppress, Deliver, Fail, Broadcast
    <3> QED
      BY <1>0, <2>1, <2>2, <3>1, GreetKept DEF Advance, Types, Greeted
  <2>3. CASE q \notin Hosts
    <3> DEFINE c == Channel(q)
    <3>1. /\ pc[q] = "send" /\ left[q] # <<>> /\ Visiting(q)
          /\ left[q] \in Seq(Channels) /\ left'[q] = Tail(left[q])
      BY <2>1 DEF Advance, FanInv, Types
    <3>2. /\ c \in Channels /\ c \in ToSet(left[q]) /\ c \notin ToSet(Tail(left[q]))
          /\ \A x \in ToSet(Tail(left[q])) : x \in ToSet(left[q]) /\ x # c
          /\ Tail(left[q]) \in Seq(Channels)
      BY <3>1, Visited DEF Visiting, Channel
    <3>3. UNCHANGED told \/ told' = [told EXCEPT ![c][msg[q]] = @ + 1]
      BY <1>2 DEF Visits, Skip, Suppress, Deliver, Fail, Broadcast
    <3>4. CASE q # t
      <4>1. msg[q] # b
        BY <1>0, <2>3, <3>1, <3>4 DEF GreetInv
      <4>2. \A x \in Channels : told'[x][b] = told[x][b]
        <5>1. CASE UNCHANGED told
          BY <5>1
        <5>2. CASE told' = [told EXCEPT ![c][msg[q]] = @ + 1]
          <6>1. told \in [Channels -> [Broadcasts -> Nat]] /\ c \in Channels
            BY <3>2 DEF Types
          <6> HIDE DEF c
          <6> QED
            BY <4>1, <5>2, <6>1, OneTold
        <5> QED
          BY <3>3, <5>1, <5>2
      <4>3. left'[t] = left[t]
        BY <1>0, <2>1, <3>4 DEF Advance, Types
      <4>4. ToSet(left[t]) \subseteq Channels
        BY <1>0 DEF Types, ToSet
      <4> QED
        BY <1>0, <2>1, <4>2, <4>3, <4>4 DEF GreetInv, Greeter, Greeted
    <3>5. CASE q = t
      <4>1. msg[t] = b /\ told[c][b] = 0 /\ Greeted(b)
        BY <1>0, <3>1, <3>2, <3>5 DEF GreetInv
      <4>2. \A x \in Channels : told'[x][b] = told[x][b] \/ (x = c /\ told'[x][b] = 1)
        <5>1. 0 + 1 = 1
          OBVIOUS
        <5> QED
          BY <3>2, <3>3, <3>5, <4>1, <5>1, OneTold DEF Types
      <4>3. \A x \in ToSet(left'[t]) : told'[x][b] = 0
        <5>1. ToSet(left[t]) \subseteq Channels
          BY <1>0 DEF Types, ToSet
        <5> QED
          BY <1>0, <3>1, <3>2, <3>5, <4>2, <5>1 DEF GreetInv
      <4> QED
        BY <1>0, <2>1, <3>1, <3>5, <4>1, <4>2, <4>3 DEF GreetInv, Greeter, Greeted
    <3> QED
      BY <3>4, <3>5
  <2> QED
    BY <2>2, <2>3
<1>3. ASSUME NEW q \in Threads, Return(q) PROVE GreetInv(b)'
  BY <1>0, <1>3 DEF Return, Leave, main, Types, GreetInv, Greeter, Greeted
<1>4. ASSUME NEW h \in Hosts, Announce(h) PROVE GreetInv(b)'
  BY <1>0, <1>4, GreetKept DEF Announce, Call, main, Types, Greeted
<1>5. ASSUME Run PROVE GreetInv(b)'
  <2>1. current \in Nat /\ current' = current + 1 /\ ctl' \notin {"shutdown", "exited"}
    BY <1>5, ConstantsOK DEF Run, Types, Notifiers, ConstantsOK
  <2>2. CASE b = "offline" \/ UNCHANGED call
    <3>1. ctl \notin {"shutdown", "exited"} /\ UNCHANGED told
      BY <1>5 DEF Run
    <3>2. Greeted(b) => Greeted(b)'
      BY <2>1, <3>1 DEF Greeted
    <3>3. UNCHANGED <<pc[t], msg[t], left[t]>>
      <4>1. CASE UNCHANGED call
        BY <4>1 DEF call
      <4>2. CASE b = "offline" /\ Call(Starter, "online", 1)
        <5>1. t = Main /\ Main # Starter /\ Main \in Threads
          BY <4>2, ConstantsOK DEF ConstantsOK, Greeter, Threads
        <5> QED
          BY <4>2, <5>1 DEF Call, Types
      <4> QED
        BY <1>5, <2>2, <4>1, <4>2 DEF Run, Greet
    <3> QED
      BY <1>0, <3>1, <3>2, <3>3, GreetKept
  <2>3. CASE b = "online" /\ ~UNCHANGED call
    <3>1. /\ current = 0 /\ Call(Starter, "online", 1) /\ UNCHANGED told
      BY <1>5, <2>3 DEF Run, Greet
    <3>2. pc'[Starter] = "wait" /\ msg'[Starter] = "online"
      BY <3>1 DEF Call, Types, Threads
    <3> QED
      BY <1>0, <2>1, <2>3, <3>1, <3>2 DEF GreetInv, Greeter, Greeted
  <2> QED
    BY <2>2, <2>3 DEF Broadcasts
<1>6. ASSUME Shutdown PROVE GreetInv(b)'
  <2>1. current' = current /\ ctl = "stop" /\ ctl' = "shutdown" /\ UNCHANGED told
    BY <1>6 DEF Shutdown
  <2>2. CASE b = "online" \/ UNCHANGED call
    BY <1>0, <1>6, <2>1, <2>2, GreetKept, ConstantsOK
       DEF ConstantsOK, Shutdown, Greet, Call, call, Greeted, Greeter, Types
  <2>3. CASE b = "offline" /\ ~UNCHANGED call
    <3>1. Call(Main, "offline", current)
      BY <1>6, <2>3 DEF Shutdown, Greet
    <3>2. pc'[Main] = "wait" /\ msg'[Main] = "offline"
      BY <3>1 DEF Call, Types, Threads
    <3> QED
      BY <1>0, <2>1, <2>3, <3>2 DEF GreetInv, Greeter, Greeted
  <2> QED
    BY <2>2, <2>3 DEF Broadcasts
<1>7. CASE \/ Stop \/ Applied \/ Exit \/ (\E h \in Hosts : Hand(h) \/ StopWatcher(h))
           \/ (\E k \in Keys : Elapse(k)) \/ UNCHANGED vars
  BY <1>0, <1>7, GreetKept
     DEF Stop, Applied, Exit, Hand, StopWatcher, Elapse, vars, call, main, Greeted
<1> QED
  BY <1>1, <1>2, <1>3, <1>4, <1>5, <1>6, <1>7 DEF Next, Serve, Visits, Manage

-----------------------------------------------------------------------------

(* A notifier that is used was made before, and what was delivered within   *)
(* the cooldown is remembered by the notifier that delivered it.            *)

MadeInv ==
  /\ ctl # "run" => current > 0
  /\ \A h \in alive : using[h] \in 1 .. current
  /\ \A t \in Threads : pc[t] # "idle" => gen[t] \in 1 .. current

MemoryInv == \A k \in recent : \E n \in 1 .. current : k \in sent[n]

LEMMA NextMade ==
  ASSUME Types, MadeInv, [Next]_vars
  PROVE  MadeInv' /\ current <= current'
<1>0. current \in Nat /\ \A n \in Notifiers : n \in Nat
  BY ConstantsOK DEF ConstantsOK, Notifiers, Types
<1> USE DEF Types, MadeInv, Threads
<1>1. ASSUME NEW t \in Threads, Acquire(t) PROVE MadeInv' /\ current <= current'
  BY <1>0, <1>1 DEF Acquire, main
<1>2. ASSUME NEW t \in Threads, Visits(t) PROVE MadeInv' /\ current <= current'
  <2>1. Advance(t)
    BY <1>2 DEF Visits, Skip, Suppress, Deliver, Fail, Broadcast, Visit
  <2> QED
    BY <1>0, <2>1 DEF Advance, main
<1>3. ASSUME NEW t \in Threads, Return(t) PROVE MadeInv' /\ current <= current'
  BY <1>0, <1>3 DEF Return, Leave, main
<1>4. ASSUME NEW h \in Hosts, Announce(h) PROVE MadeInv' /\ current <= current'
  <2>1. PICK m \in Statuses : Call(h, m, using[h])
    BY <1>4 DEF Announce
  <2>2. h \in alive /\ UNCHANGED main
    BY <1>4 DEF Announce
  <2> QED
    BY <1>0, <2>1, <2>2 DEF Call, main
<1>5. CASE Run
  <2>1. current' = current + 1 /\ UNCHANGED <<alive, using>>
    BY <1>5 DEF Run
  <2>2. \/ UNCHANGED call
        \/ current = 0 /\ Call(Starter, "online", 1)
    BY <1>5 DEF Run, Greet
  <2>3. \A n \in 1 .. current : n \in 1 .. current'
    BY <1>0, <2>1
  <2>4. 1 \in 1 .. current'
    BY <1>0, <2>1
  <2>5. \A t \in Threads : pc'[t] # "idle" => gen'[t] \in 1 .. current'
    BY <2>2, <2>3, <2>4 DEF Call, call
  <2> QED
    BY <1>0, <2>1, <2>3, <2>5
<1>6. CASE Shutdown
  <2>1. current > 0 /\ ctl' = "shutdown" /\ UNCHANGED <<current, alive, using>>
    BY <1>6 DEF Shutdown
  <2>2. UNCHANGED call \/ Call(Main, "offline", current)
    BY <1>6 DEF Shutdown, Greet
  <2>3. current \in 1 .. current
    BY <1>0, <2>1
  <2>4. \A t \in Threads : pc'[t] # "idle" => gen'[t] \in 1 .. current'
    BY <2>1, <2>2, <2>3 DEF Call, call
  <2> QED
    BY <1>0, <2>1, <2>4
<1>7. CASE Stop \/ Applied \/ Exit
  BY <1>0, <1>7 DEF Stop, Applied, Exit, call
<1>8. ASSUME NEW h \in Hosts, Hand(h) \/ StopWatcher(h) PROVE MadeInv' /\ current <= current'
  <2>1. CASE Hand(h)
    <3>1. current > 0 /\ current \in 1 .. current
      BY <1>0, <2>1 DEF Hand
    <3> QED
      BY <1>0, <2>1, <3>1 DEF Hand, call
  <2>2. CASE StopWatcher(h)
    BY <1>0, <2>2 DEF StopWatcher, call
  <2> QED
    BY <1>8, <2>1, <2>2
<1>9. CASE (\E k \in Keys : Elapse(k)) \/ UNCHANGED vars
  BY <1>0, <1>9 DEF Elapse, vars, call, main
<1> QED
  BY <1>1, <1>2, <1>3, <1>4, <1>5, <1>6, <1>7, <1>8, <1>9 DEF Next, Serve, Visits, Manage

LEMMA NextMemory ==
  ASSUME Types, Announcing, MadeInv, MemoryInv, [Next]_vars
  PROVE  MemoryInv'
<1>0. current \in Nat /\ current' \in Nat /\ 1 .. current \subseteq Notifiers
  <2>1. Types /\ Types'
    BY NextTypes
  <2>2. current \in Notifiers /\ current' \in Notifiers
    BY <2>1 DEF Types
  <2> QED
    BY <2>2, ConstantsOK DEF ConstantsOK, Notifiers
<1>1. \A n \in 1 .. current : n \in 1 .. current'
  BY <1>0, NextMade
<1> USE DEF Types, MemoryInv
<1>2. CASE UNCHANGED <<sent, recent>>
  BY <1>1, <1>2
<1>3. ASSUME NEW t \in Threads, Deliver(t) PROVE MemoryInv'
  <2>1. /\ sent' = [sent EXCEPT ![gen[t]] = @ \cup {Key(t)}]
        /\ recent' = recent \cup {Key(t)}
    BY <1>3 DEF Deliver
  <2>2. gen[t] \in 1 .. current
    BY <1>3 DEF MadeInv, Deliver, Visit, Advance
  <2>3. \A n \in 1 .. current : sent[n] \subseteq sent'[n]
    BY <1>0, <2>1
  <2>4. Key(t) \in sent'[gen[t]]
    BY <1>0, <2>1, <2>2
  <2> QED
    BY <1>1, <2>1, <2>2, <2>3, <2>4
<1>4. ASSUME NEW k \in Keys, Elapse(k) PROVE MemoryInv'
  <2>1. /\ recent' = recent \ {k}
        /\ \A n \in Notifiers : sent'[n] = sent[n] \ {k}
    BY <1>4 DEF Elapse
  <2> QED
    BY <1>0, <1>1, <2>1
<1>5. ASSUME NEW t \in Threads, Acquire(t) \/ Return(t) PROVE UNCHANGED <<sent, recent>>
  BY <1>5 DEF Acquire, Return, Leave
<1>6. ASSUME NEW t \in Threads, Visits(t) PROVE MemoryInv'
  BY <1>2, <1>3, <1>6 DEF Visits, Skip, Suppress, Fail, Broadcast
<1>7. CASE Calls
  BY <1>2, <1>7 DEF Calls
<1> QED
  BY <1>2, <1>4, <1>5, <1>6, <1>7, StepKinds

-----------------------------------------------------------------------------

IInv ==
  /\ Types /\ Announcing
  /\ LockInv /\ FanInv /\ CoolInv /\ AliveInv /\ GreetsInv
  /\ MadeInv /\ MemoryInv

LEMMA InitInv == Init => IInv
<1> SUFFICES ASSUME Init PROVE IInv
  OBVIOUS
<1>1. \A t \in Threads : pc[t] = "idle" /\ tried[t] = {}
  BY DEF Init
<1>2. LockInv /\ FanInv /\ CoolInv
  BY <1>1 DEF Init, LockInv, FanInv, CoolInv
<1>3. AliveInv
  BY <1>1 DEF Init, AliveInv, Threads
<1>4. GreetsInv
  BY <1>1 DEF Init, GreetsInv, GreetInv, Greeter, Greeted, Threads, Broadcasts
<1>5. MadeInv /\ MemoryInv
  BY <1>1 DEF Init, MadeInv, MemoryInv
<1> QED
  BY <1>2, <1>3, <1>4, <1>5, InitTypes DEF IInv

LEMMA NextInv == IInv /\ [Next]_vars => IInv'
<1> SUFFICES ASSUME IInv, [Next]_vars PROVE IInv'
  OBVIOUS
<1> USE DEF IInv
<1>1. Types' /\ Announcing'
  BY NextTypes
<1>2. LockInv' /\ FanInv' /\ CoolInv' /\ AliveInv'
  BY NextLock, NextFan, NextCool, NextAlive
<1>3. GreetsInv'
  BY NextGreet DEF GreetsInv, Broadcasts
<1>4. MadeInv' /\ MemoryInv'
  BY NextMade, NextMemory
<1> QED
  BY <1>1, <1>2, <1>3, <1>4

LEMMA Invariance == Spec => []IInv
BY InitInv, NextInv, PTL DEF Spec

-----------------------------------------------------------------------------

(* Types, and the calls of one notifier exclude each other (notify.go:189,  *)
(* 210).                                                                    *)
THEOREM NotifyTypes == Spec => []TypeOK
<1>1. IInv => TypeOK
  BY DEF IInv, Types, LockInv, TypeOK
<1> QED
  BY <1>1, Invariance, PTL

(* Each channel gets the startup and the shutdown message at most once      *)
(* (monitor.go:65-67).                                                      *)
THEOREM GreetedOnce == Spec => []OncePerProcess
<1>1. IInv => OncePerProcess
  BY DEF IInv, GreetsInv, GreetInv, OncePerProcess, Broadcasts
<1> QED
  BY <1>1, Invariance, PTL

(* The cooldown withholds only what the channel took (notify.go:219-230).   *)
THEOREM WithheldTold == Spec => WithheldOnlyIfTold
<1> DEFINE Step == \A t \in Hosts : Suppress(t) => Key(t) \in recent
<1>1. IInv => Step
  <2> SUFFICES ASSUME IInv, NEW t \in Hosts, Suppress(t) PROVE Key(t) \in recent
    OBVIOUS
  <2>1. gen[t] \in Notifiers
    BY DEF IInv, Types, Threads
  <2> QED
    BY <2>1 DEF IInv, CoolInv, Suppress, Suppressed
<1>2. IInv /\ [Next]_vars => [Step]_vars
  BY <1>1
<1> QED
  BY <1>2, Invariance, PTL DEF Spec, WithheldOnlyIfTold

(* A notification is repeated within the cooldown only by another notifier  *)
(* than the one that sent it first: only a reload breaks CooldownKept       *)
(* (notify.go:219-230).                                                     *)
CooldownKeptByNotifier ==
  [][\A t \in Hosts : Deliver(t) /\ Key(t) \in recent =>
       \E n \in 1 .. current : /\ Key(t) \in sent[n]
                              /\ gen[t] \in 1 .. current /\ n # gen[t]]_vars

(* What is recent is remembered, by a notifier that was made before. *)
THEOREM CooldownOfNotifier == Spec => CooldownKeptByNotifier
<1> DEFINE Step == \A t \in Hosts : Deliver(t) /\ Key(t) \in recent =>
             \E n \in 1 .. current : /\ Key(t) \in sent[n]
                                    /\ gen[t] \in 1 .. current /\ n # gen[t]
<1>1. IInv => Step
  <2> SUFFICES ASSUME IInv, NEW t \in Hosts, Deliver(t), Key(t) \in recent
               PROVE  \E n \in 1 .. current : /\ Key(t) \in sent[n]
                                             /\ gen[t] \in 1 .. current /\ n # gen[t]
    OBVIOUS
  <2>1. gen[t] \in 1 .. current /\ Key(t) \notin sent[gen[t]]
    BY DEF IInv, MadeInv, Threads, Deliver, Visit, Advance, Suppressed
  <2>2. PICK n \in 1 .. current : Key(t) \in sent[n]
    BY DEF IInv, MemoryInv
  <2> QED
    BY <2>1, <2>2
<1>2. IInv /\ [Next]_vars => [Step]_vars
  BY <1>1
<1> QED
  BY <1>2, Invariance, PTL DEF Spec, CooldownKeptByNotifier

(* Send leaves out no channel that the host alerts (notify.go:203-233).     *)
THEOREM AllVisited == Spec => EveryChannelVisited
<1> DEFINE Step == \A t \in Threads :
             Leave(t) => tried[t] = {c \in Channels : Enabled(t, c)}
<1>1. IInv => Step
  <2> SUFFICES ASSUME IInv, NEW t \in Threads, Leave(t)
               PROVE  tried[t] = {c \in Channels : Enabled(t, c)}
    OBVIOUS
  <2>1. Visiting(t) /\ left[t] = <<>>
    BY DEF IInv, FanInv, Leave
  <2>2. ToSet(left[t]) = {}
    BY <2>1 DEF ToSet
  <2> QED
    BY <2>1, <2>2 DEF Visiting
<1>2. IInv /\ [Next]_vars => [Step]_vars
  BY <1>1
<1> QED
  BY <1>2, Invariance, PTL DEF Spec, EveryChannelVisited

(* After the goodbye no status is announced (monitor.go:123-128).           *)
THEOREM OfflineLast == Spec => NothingAfterOffline
<1> DEFINE Step == \A t \in Hosts : Visit(t) => told[Channel(t)]["offline"] = 0
<1>1. IInv => Step
  <2> SUFFICES ASSUME IInv, NEW t \in Hosts, Visit(t)
               PROVE  told[Channel(t)]["offline"] = 0
    OBVIOUS
  <2>1. ctl \notin {"shutdown", "exited"}
    BY DEF IInv, AliveInv, Visit, Advance
  <2>2. Channel(t) \in Channels
    BY DEF IInv, Types, Threads, Channel, Visit, Advance
  <2> QED
    BY <2>1, <2>2 DEF IInv, GreetsInv, GreetInv, Greeted
<1>2. IInv /\ [Next]_vars => [Step]_vars
  BY <1>1
<1> QED
  BY <1>2, Invariance, PTL DEF Spec, NothingAfterOffline

=============================================================================
