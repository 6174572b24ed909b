--------------------------- MODULE WatcherSafety ---------------------------
(***************************************************************************)
(* Theorems about Watcher for every set of loops and configurations, every *)
(* cap on the counters and on the incidents, with and without store faults:*)
(* well-typed states, one loop at a time, and an incident log whose        *)
(* outages do not overlap.                                                 *)
(***************************************************************************)
EXTENDS Watcher, SequenceTheorems, TLAPS

-----------------------------------------------------------------------------
(* Types.                                                                   *)

(* A saturating counter stays in its range. *)
LEMMA BumpType == \A n \in 0 .. CountCap : Bump(n) \in 0 .. CountCap
  BY ConstantsOK DEF Bump

(* Deleting one incident leaves a log. *)
LEMMA RemoveAtType ==
  ASSUME NEW s \in Seq(BOOLEAN), NEW i \in 1 .. Len(s)
  PROVE  RemoveAt(s, i) \in Seq(BOOLEAN)
<1>1. SubSeq(s, 1, i - 1) \in Seq(BOOLEAN)
  BY SubSeqProperties
<1>2. SubSeq(s, i + 1, Len(s)) \in Seq(BOOLEAN)
  BY SubSeqProperties
<1> QED
  BY <1>1, <1>2 DEF RemoveAt

(* Deleting the newest incident keeps all the others. *)
LEMMA RemoveNewest ==
  ASSUME NEW s \in Seq(BOOLEAN), Len(s) > 0
  PROVE  RemoveAt(s, Len(s)) = SubSeq(s, 1, Len(s) - 1)
<1>1. SubSeq(s, Len(s) + 1, Len(s)) = << >>
  BY SubSeqEmpty
<1>2. SubSeq(s, 1, Len(s) - 1) \in Seq(BOOLEAN)
  BY SubSeqProperties
<1> QED
  BY <1>1, <1>2 DEF RemoveAt

LEMMA EndIncidentType ==
  ASSUME incidents \in Seq(BOOLEAN), NEW id
  PROVE  /\ EndIncident(id) \in Seq(BOOLEAN)
         /\ Len(EndIncident(id)) = Len(incidents)
<1>1. CASE id \in DOMAIN incidents
  <2>1. id \in 1 .. Len(incidents)
    BY <1>1
  <2>2. /\ [incidents EXCEPT ![id] = FALSE] \in Seq(BOOLEAN)
        /\ Len([incidents EXCEPT ![id] = FALSE]) = Len(incidents)
    BY <2>1, ExceptSeq
  <2> QED
    BY <1>1, <2>2 DEF EndIncident
<1>2. CASE id \notin DOMAIN incidents
  BY <1>2 DEF EndIncident
<1> QED
  BY <1>1, <1>2

(* Whatever validate does to the log and to w.incident is well typed. *)
LEMMA ValidateTypes ==
  ASSUME TypeOK, Recover \/ Fail \/ UNCHANGED <<incidents, incident>>
  PROVE  incidents' \in Seq(BOOLEAN) /\ incident' \in Nat
<1> USE DEF TypeOK
<1>1. CASE UNCHANGED <<incidents, incident>>
  BY <1>1
<1>2. CASE Recover
  <2>1. EndIncident(incident) \in Seq(BOOLEAN)
    BY EndIncidentType
  <2>2. DeleteIncident(incident) \in Seq(BOOLEAN)
    <3>1. CASE incident \in DOMAIN incidents
      <4>1. incident \in 1 .. Len(incidents)
        BY <3>1
      <4> QED
        BY <3>1, <4>1, RemoveAtType DEF DeleteIncident
    <3>2. CASE incident \notin DOMAIN incidents
      BY <3>2 DEF DeleteIncident
    <3> QED
      BY <3>1, <3>2
  <2> QED
    BY <1>2, <2>1, <2>2 DEF Recover
<1>3. CASE Fail
  <2>1. Append(incidents, TRUE) \in Seq(BOOLEAN)
    BY AppendProperties
  <2>2. Len(incidents) + 1 \in Nat
    BY LenProperties
  <2> QED
    BY <1>3, <2>1, <2>2 DEF Fail
<1> QED
  BY <1>1, <1>2, <1>3

-----------------------------------------------------------------------------
(* Type correctness. *)

LEMMA InitType == Init => TypeOK
<1> SUFFICES ASSUME Init PROVE TypeOK
  OBVIOUS
<1>1. incidents \in Seq(BOOLEAN)
  BY EmptySeq DEF Init
<1>2. job \in [Loops -> [ctx : Loops, ok : BOOLEAN, note : {"UP", "DOWN", None}]]
  BY DEF Init, Idle, Verdict
<1>3. 0 \in 0 .. CountCap
  BY ConstantsOK
<1> QED
  BY <1>1, <1>2, <1>3 DEF Init, TypeOK, NoStreak

LEMMA StartLoopType ==
  ASSUME TypeOK, NEW d \in BOOLEAN, StartLoop(d)
  PROVE  /\ cur' \in Loops /\ cancelled' \subseteq Loops
         /\ (/\ pc \in [Loops -> {"load", "delay", "dial", "judge", "save",
                                 "send", "wait", "done"}]
             /\ delay \in [Loops -> BOOLEAN]
             /\ job \in [Loops -> [ctx : Loops, ok : BOOLEAN,
                                   note : {"UP", "DOWN", None}]])'
  BY DEF TypeOK, StartLoop, Idle, Verdict

LEMMA MainStepType == TypeOK /\ MainStep => TypeOK'
<1> SUFFICES ASSUME TypeOK, MainStep PROVE TypeOK'
  OBVIOUS
<1> USE DEF control, memory, loops, store, history, news
<1>0. 0 \in 0 .. CountCap
  BY ConstantsOK
<1>1. ASSUME NEW c \in Configs, AddHost(c) PROVE TypeOK'
  BY <1>0, <1>1, StartLoopType DEF AddHost, Fresh, NoStreak, New, TypeOK
<1>2. ASSUME NEW c \in Configs, Update(c) PROVE TypeOK'
  BY <1>2 DEF Update, TypeOK
<1>3. CASE RemoveHost
  BY <1>3 DEF RemoveHost, TypeOK
<1>4. CASE Shutdown
  BY <1>4 DEF Shutdown, TypeOK
<1>5. CASE StopCancel
  BY <1>5 DEF StopCancel, TypeOK
<1>6. CASE Restart
  BY <1>6, StartLoopType DEF Restart, TypeOK
<1>7. CASE Removed
  BY <1>0, <1>7 DEF Removed, Fresh, NoStreak, New, TypeOK
<1>8. CASE Halted
  BY <1>0, <1>8 DEF Halted, Fresh, NoStreak, New, TypeOK
<1>9. CASE Launch
  BY <1>9 DEF Launch, TypeOK
<1> QED
  BY <1>1, <1>2, <1>3, <1>4, <1>5, <1>6, <1>7, <1>8, <1>9 DEF MainStep

LEMMA BeginType ==
  ASSUME TypeOK, NEW l \in Loops, Begin(l)
  PROVE  job' \in [Loops -> [ctx : Loops, ok : BOOLEAN,
                             note : {"UP", "DOWN", None}]]
  BY DEF TypeOK, Begin, Idle, Verdict

LEMMA CountedType ==
  ASSUME TypeOK, NEW ok \in BOOLEAN, Counted(ok)
  PROVE  successCount' \in 0 .. CountCap /\ failureCount' \in 0 .. CountCap
<1>1. 0 \in 0 .. CountCap
  BY ConstantsOK
<1>2. CASE ok
  BY <1>1, <1>2, BumpType DEF Counted, TypeOK
<1>3. CASE ~ok
  BY <1>1, <1>3, BumpType DEF Counted, TypeOK
<1> QED
  BY <1>2, <1>3

LEMMA ValidateType ==
  ASSUME TypeOK, NEW l \in Loops, Validate(l)
  PROVE  TypeOK'
<1> DEFINE ok == job[l].ok
<1>0. ok \in BOOLEAN
  BY DEF TypeOK
<1>1. incidents' \in Seq(BOOLEAN) /\ incident' \in Nat
  <2>1. Recover \/ Fail \/ UNCHANGED <<incidents, incident>>
    BY DEF Validate
  <2> QED
    BY <2>1, ValidateTypes
<1>2. successCount' \in 0 .. CountCap /\ failureCount' \in 0 .. CountCap
  BY <1>0, CountedType DEF Validate
<1>3. status' \in Statuses
  BY DEF Validate, NextStatus, Target, Statuses, TypeOK
<1>4. job' \in [Loops -> [ctx : Loops, ok : BOOLEAN,
                          note : {"UP", "DOWN", None}]]
  BY DEF Validate, Verdict, Target, TypeOK
<1>5. streak' \in [ok : BOOLEAN, n : 0 .. CountCap]
  <2>1. Bump(streak.n) \in 0 .. CountCap
    BY BumpType DEF TypeOK
  <2> QED
    BY <1>0, <2>1, ConstantsOK DEF Validate, TypeOK
<1> QED
  BY <1>1, <1>2, <1>3, <1>4, <1>5 DEF Validate, Go, TypeOK, control, news

LEMMA LoopStepType ==
  ASSUME TypeOK, NEW l \in Loops, LoopStep(l)
  PROVE  TypeOK'
<1> USE DEF control, memory, store, history, news, Go
<1>1. CASE Load(l)
  <2>1. incident' \in Nat
    BY <1>1 DEF Load, RestoreIncident, TypeOK
  <2>2. status' \in Statuses \cup {New}
    BY <1>1 DEF Load, RestoreStatus, TypeOK
  <2> QED
    BY <1>1, <2>1, <2>2, BeginType DEF Load, TypeOK
<1>2. CASE DelayElapsed(l)
  BY <1>2, BeginType DEF DelayElapsed, TypeOK
<1>3. CASE Tick(l)
  BY <1>3, BeginType DEF Tick, TypeOK
<1>4. CASE Exit(l)
  BY <1>4 DEF Exit, TypeOK
<1>5. ASSUME NEW ok \in BOOLEAN, DialDone(l, ok) PROVE TypeOK'
  <2>1. job' \in [Loops -> [ctx : Loops, ok : BOOLEAN,
                            note : {"UP", "DOWN", None}]]
    BY <1>5, BeginType DEF DialDone, Verdict, TypeOK
  <2> QED
    BY <1>5, <2>1 DEF DialDone, TypeOK
<1>6. CASE SkipOffline(l)
  BY <1>6, BeginType DEF SkipOffline, TypeOK
<1>7. CASE Validate(l)
  BY <1>7, ValidateType
<1>8. CASE Save(l)
  <2>1. job' \in [Loops -> [ctx : Loops, ok : BOOLEAN,
                            note : {"UP", "DOWN", None}]]
    BY <1>8, BeginType DEF Save, TypeOK
  <2> QED
    BY <1>8, <2>1 DEF Save, TypeOK
<1>9. CASE Announce(l)
  BY <1>9, BeginType DEF Announce, TypeOK
<1> QED
  BY <1>1, <1>2, <1>3, <1>4, <1>5, <1>6, <1>7, <1>8, <1>9 DEF LoopStep

LEMMA NextType == TypeOK /\ [Next]_vars => TypeOK'
<1> SUFFICES ASSUME TypeOK, [Next]_vars PROVE TypeOK'
  OBVIOUS
<1> USE DEF control, memory, loops, store, history, news
<1>1. CASE MainStep
  BY <1>1, MainStepType
<1>2. CASE Signal
  BY <1>2 DEF Signal, TypeOK
<1>3. CASE Crash
  <2>1. job' \in [Loops -> [ctx : Loops, ok : BOOLEAN,
                            note : {"UP", "DOWN", None}]]
    BY <1>3 DEF Crash, Idle, Verdict, TypeOK
  <2>2. since' \subseteq {"killed", "regraded"}
    BY <1>3 DEF Crash, TypeOK
  <2>3. /\ status' \in Statuses \cup {New} /\ incident' \in Nat
        /\ successCount' \in 0 .. CountCap /\ failureCount' \in 0 .. CountCap
        /\ streak' \in [ok : BOOLEAN, n : 0 .. CountCap]
    BY <1>3, ConstantsOK DEF Crash, Fresh, NoStreak
  <2> QED
    BY <1>3, <2>1, <2>2, <2>3 DEF Crash, TypeOK
<1>4. CASE Aggregate
  BY <1>4 DEF Aggregate, Statuses, TypeOK
<1>5. CASE UNCHANGED vars
  BY <1>5 DEF vars, TypeOK
<1>6. ASSUME NEW l \in Loops, LoopStep(l) PROVE TypeOK'
  BY <1>6, LoopStepType
<1> QED
  BY <1>1, <1>2, <1>3, <1>4, <1>5, <1>6 DEF Next

(* Every reachable state is well typed. *)
THEOREM TypeCorrect == Spec => []TypeOK
  BY InitType, NextType, PTL DEF Spec

-----------------------------------------------------------------------------
(* One loop.                                                                *)

LEMMA NextCases ==
  ASSUME [Next]_vars
  PROVE  \/ \E c \in Configs : AddHost(c) \/ Update(c)
         \/ RemoveHost \/ Shutdown \/ StopCancel \/ Restart \/ Removed
         \/ Halted \/ Launch \/ Signal \/ Crash \/ Aggregate
         \/ \E l \in Loops : LoopStep(l)
         \/ UNCHANGED vars
  BY DEF Next, MainStep

(* A step of the loop leaves the main goroutine alone and, but for the      *)
(* step itself, the program counters of the others.                         *)
LEMMA LoopStepFrame ==
  ASSUME TypeOK, NEW l \in Loops, LoopStep(l)
  PROVE  /\ UNCHANGED <<ctl, goal, terminated, host, cur, cancelled>>
         /\ pc[l] # "done"
         /\ pc' = [pc EXCEPT ![l] = pc'[l]]
         /\ pc'[l] # "load"
  BY DEF LoopStep, Load, DelayElapsed, Tick, Exit, DialDone, SkipOffline,
         Validate, Save, Announce, Go, control, TypeOK

-----------------------------------------------------------------------------
(* At most one loop.  SingleLoop is inductive together with the fact that   *)
(* a restart or a removal is only ever asked for a host that has a watcher. *)
LoopInv ==
  /\ SingleLoop
  /\ ctl \in {"cancel", "await"} /\ goal # "halt" => host # None

LEMMA AllDone ==
  ASSUME LoopInv, host = None \/ ctl = "down" \/ pc[cur] = "done"
  PROVE  \A l \in Loops : pc[l] = "done"
  BY DEF LoopInv, SingleLoop

LEMMA InitLoop == Init => LoopInv
  BY DEF Init, LoopInv, SingleLoop

LEMMA NextLoop == TypeOK /\ LoopInv /\ [Next]_vars => LoopInv'
<1> SUFFICES ASSUME TypeOK, LoopInv, [Next]_vars PROVE LoopInv'
  OBVIOUS
<1> USE DEF control, memory, loops, store, history, news, LoopInv, SingleLoop
<1>1. ASSUME NEW c \in Configs, AddHost(c) PROVE LoopInv'
  <2>1. \A l \in Loops : pc[l] = "done"
    BY <1>1, AllDone DEF AddHost
  <2>2. c # None
    BY NoneIsNoValue
  <2> QED
    BY <1>1, <2>1, <2>2 DEF AddHost, StartLoop, TypeOK
<1>2. ASSUME NEW c \in Configs, Update(c) PROVE LoopInv'
  <2>1. c # None
    BY NoneIsNoValue
  <2> QED
    BY <1>2, <2>1 DEF Update
<1>3. CASE RemoveHost
  BY <1>3 DEF RemoveHost
<1>4. CASE Shutdown
  BY <1>4 DEF Shutdown
<1>5. CASE StopCancel
  BY <1>5 DEF StopCancel
<1>6. CASE Restart
  <2>1. \A l \in Loops : pc[l] = "done"
    BY <1>6, AllDone DEF Restart, Stopped
  <2>2. host # None
    BY <1>6 DEF Restart
  <2> QED
    BY <1>6, <2>1, <2>2 DEF Restart, StartLoop, TypeOK
<1>7. CASE Removed
  BY <1>7, AllDone DEF Removed, Stopped
<1>8. CASE Halted
  BY <1>8, AllDone DEF Halted, Stopped
<1>9. CASE Launch
  BY <1>9 DEF Launch
<1>10. CASE Signal
  BY <1>10 DEF Signal
<1>11. CASE Crash
  BY <1>11 DEF Crash
<1>12. CASE Aggregate
  BY <1>12 DEF Aggregate
<1>13. ASSUME NEW l \in Loops, LoopStep(l) PROVE LoopInv'
  <2>1. \A k \in Loops : k # l => pc'[k] = pc[k]
    BY <1>13, LoopStepFrame DEF TypeOK
  <2> QED
    BY <1>13, <2>1, LoopStepFrame
<1>14. CASE UNCHANGED vars
  BY <1>14 DEF vars
<1> QED
  BY <1>1, <1>2, <1>3, <1>4, <1>5, <1>6, <1>7, <1>8, <1>9, <1>10, <1>11,
     <1>12, <1>13, <1>14, NextCases

(* At most one check loop of the host is alive, and it is the one stop()    *)
(* cancels and waits for; none is left once the host is removed.            *)
THEOREM OneLoop == Spec => []SingleLoop
<1>1. Spec => []LoopInv
  BY InitLoop, NextLoop, TypeCorrect, PTL DEF Spec
<1>2. LoopInv => SingleLoop
  BY DEF LoopInv
<1> QED
  BY <1>1, <1>2, PTL

-----------------------------------------------------------------------------
(* Nothing is stored with the status of a watcher that has not judged yet:  *)
(* inductive with the fact that validate leaves a known status.             *)
KnownInv ==
  /\ \A l \in Loops : pc[l] = "save" => status # New
  /\ StoredStatusKnown

LEMMA NextKnown == TypeOK /\ LoopInv /\ KnownInv /\ [Next]_vars => KnownInv'
<1> SUFFICES ASSUME TypeOK, LoopInv, KnownInv, [Next]_vars PROVE KnownInv'
  OBVIOUS
<1> USE DEF control, memory, loops, store, history, news, KnownInv, StoredStatusKnown
<1>1. ASSUME NEW c \in Configs, AddHost(c) PROVE KnownInv'
  <2>1. \A l \in Loops : pc'[l] # "save"
    BY <1>1, AllDone DEF AddHost, StartLoop, TypeOK
  <2> QED
    BY <1>1, <2>1 DEF AddHost
<1>2. ASSUME NEW c \in Configs, Update(c) PROVE KnownInv'
  BY <1>2 DEF Update
<1>3. CASE RemoveHost \/ Shutdown \/ StopCancel \/ Launch \/ Signal
  BY <1>3 DEF RemoveHost, Shutdown, StopCancel, Launch, Signal
<1>4. CASE Restart
  BY <1>4, AllDone DEF Restart, Stopped, StartLoop, TypeOK
<1>5. CASE Removed
  BY <1>5, AllDone DEF Removed, Stopped
<1>6. CASE Halted
  BY <1>6, AllDone DEF Halted, Stopped
<1>7. CASE Crash
  BY <1>7 DEF Crash
<1>8. CASE Aggregate
  <2>1. \A l \in Loops : pc[l] = "done"
    BY <1>8, AllDone DEF Aggregate
  <2>2. saved' # New
    BY <1>8, NoneIsNoValue DEF Aggregate, New, Statuses
  <2> QED
    BY <1>8, <2>1, <2>2 DEF Aggregate
<1>9. ASSUME NEW l \in Loops, LoopStep(l) PROVE KnownInv'
  <2>1. \A k \in Loops : k # l => pc[k] = "done" /\ pc'[k] = "done"
    BY <1>9, LoopStepFrame DEF LoopInv, SingleLoop, TypeOK
  <2>2. CASE Validate(l)
    <3>1. status' # New
      BY <2>2 DEF Validate, NextStatus, Target, New
    <3> QED
      BY <2>1, <2>2, <3>1 DEF Validate
  <2>3. CASE Save(l)
    BY <2>1, <2>3 DEF Save, Go, TypeOK
  <2>4. CASE ~Validate(l) /\ ~Save(l)
    <3>1. pc'[l] # "save" /\ UNCHANGED saved
      BY <1>9, <2>4 DEF LoopStep, Load, DelayElapsed, Tick, Exit, DialDone,
         SkipOffline, Announce, Go, TypeOK
    <3> QED
      BY <2>1, <3>1
  <2> QED
    BY <2>2, <2>3, <2>4
<1>10. CASE UNCHANGED vars
  BY <1>10 DEF vars
<1> QED
  BY <1>1, <1>2, <1>3, <1>4, <1>5, <1>6, <1>7, <1>8, <1>9, <1>10, NextCases

LEMMA InitKnown == Init => KnownInv
  BY NoneIsNoValue DEF Init, KnownInv, StoredStatusKnown

(* A restart restores a status whenever a check was ever recorded: no       *)
(* response is stored with the empty status.                                *)
THEOREM StoredKnown == Spec => []StoredStatusKnown
<1>1. Spec => []LoopInv
  BY InitLoop, NextLoop, TypeCorrect, PTL DEF Spec
<1>2. Spec => []KnownInv
  BY <1>1, InitKnown, NextKnown, TypeCorrect, PTL DEF Spec
<1>3. KnownInv => StoredStatusKnown
  BY DEF KnownInv
<1> QED
  BY <1>2, <1>3, PTL

-----------------------------------------------------------------------------
(* The incident log.  While the store works: all incidents but the newest   *)
(* are closed, w.incident is nil or the open one, and a loop that has read  *)
(* the store knows the open one.                                            *)
OlderClosed(s) == \A i \in 1 .. Len(s) - 1 : ~s[i]

LogInv ==
  /\ OlderClosed(incidents)
  /\ incident # 0 => NewestOpen /\ incident = Len(incidents)
  /\ Loaded /\ NewestOpen => incident = Len(incidents)

LEMMA NewestOpenSame ==
  ASSUME TypeOK PROVE NewestOpen <=> Log!NewestOpen
  BY EmptySeq DEF TypeOK, NewestOpen, Last, Log!NewestOpen

(* What the three steps of IncidentLog do to a log with closed elders. *)
LEMMA OpenLog ==
  ASSUME NEW s \in Seq(BOOLEAN), OlderClosed(s), s # << >> => ~s[Len(s)]
  PROVE  LET t == Append(s, TRUE) IN
         /\ OlderClosed(t) /\ t # << >> /\ t[Len(t)] /\ Len(t) = Len(s) + 1
<1> DEFINE t == Append(s, TRUE)
<1>1. /\ Len(t) = Len(s) + 1
      /\ \A i \in 1 .. Len(s) : t[i] = s[i]
      /\ t # << >>
      /\ t[Len(s) + 1] = TRUE
  <2>1. \A e \in BOOLEAN :
          /\ Len(Append(s, e)) = Len(s) + 1
          /\ \A i \in 1 .. Len(s) : Append(s, e)[i] = s[i]
          /\ Append(s, e) # << >>
          /\ Append(s, e)[Len(s) + 1] = e
    BY AppendProperties
  <2>2. TRUE \in BOOLEAN
    OBVIOUS
  <2> QED
    BY <2>1, <2>2, Zenon
<1>2. Len(s) \in Nat /\ (Len(s) = 0 <=> s = << >>)
  BY EmptySeq, LenProperties
<1>3. \A i \in 1 .. Len(s) : ~s[i]
  <2> SUFFICES ASSUME NEW i \in 1 .. Len(s) PROVE ~s[i]
    OBVIOUS
  <2>1. i \in 1 .. Len(s) - 1 \/ i = Len(s)
    BY <1>2
  <2> QED
    BY <1>2, <2>1 DEF OlderClosed
<1>4. OlderClosed(t)
  <2> HIDE DEF t
  <2> QED
    BY <1>1, <1>2, <1>3 DEF OlderClosed
<1>5. t[Len(t)]
  <2> HIDE DEF t
  <2> QED
    BY <1>1
<1> QED
  BY <1>1, <1>4, <1>5

LEMMA CloseLog ==
  ASSUME NEW s \in Seq(BOOLEAN), OlderClosed(s), Len(s) > 0
  PROVE  LET t == [s EXCEPT ![Len(s)] = FALSE] IN
         OlderClosed(t) /\ ~t[Len(t)]
<1>1. Len(s) \in 1 .. Len(s)
  BY LenProperties
<1> QED
  BY <1>1, ExceptSeq DEF OlderClosed

LEMMA DropLog ==
  ASSUME NEW s \in Seq(BOOLEAN), OlderClosed(s), Len(s) > 0
  PROVE  LET t == SubSeq(s, 1, Len(s) - 1) IN
         OlderClosed(t) /\ (t # << >> => ~t[Len(t)])
<1> DEFINE t == SubSeq(s, 1, Len(s) - 1)
<1>1. Len(s) \in Nat
  BY LenProperties
<1>2. /\ t \in Seq(BOOLEAN) /\ Len(t) = Len(s) - 1
      /\ \A i \in 1 .. Len(s) - 1 : t[i] = s[i]
  <2> DEFINE n == Len(s) - 1
  <2>1. n \in Nat
    BY <1>1
  <2>2. \A i \in 1 .. n : s[i] \in BOOLEAN
    BY <1>1
  <2> HIDE DEF n
  <2>3. /\ SubSeq(s, 1, n) \in Seq(BOOLEAN)
        /\ Len(SubSeq(s, 1, n)) = IF 1 <= n THEN n - 1 + 1 ELSE 0
        /\ \A i \in 1 .. n - 1 + 1 : SubSeq(s, 1, n)[i] = s[1 + i - 1]
    BY <2>1, <2>2, SubSeqProperties
  <2>4. /\ SubSeq(s, 1, n) \in Seq(BOOLEAN) /\ Len(SubSeq(s, 1, n)) = n
        /\ \A i \in 1 .. n : SubSeq(s, 1, n)[i] = s[i]
    BY <2>1, <2>3
  <2> QED
    BY <2>4 DEF n
<1>3. t # << >> => Len(t) \in 1 .. Len(s) - 1
  BY <1>1, <1>2, EmptySeq
<1> QED
  BY <1>1, <1>2, <1>3 DEF OlderClosed

(* What validate does to the log is a step of IncidentLog, or nothing. *)
LEMMA ValidateLog ==
  ASSUME TypeOK, LoopInv, LogInv, ~StoreFaults, NEW l \in Loops, Validate(l)
  PROVE  LogInv' /\ [Log!Next]_incidents
<1>1. Loaded
  BY DEF Loaded, Validate, Go, LoopInv, SingleLoop
<1>2. Len(incidents) \in Nat /\ (Len(incidents) > 0 <=> incidents # << >>)
  BY EmptySeq DEF TypeOK
<1>3. UNCHANGED <<incidents, incident>> \/ Recover \/ Fail
  BY DEF Validate
<1>4. CASE UNCHANGED <<incidents, incident>>
  BY <1>1, <1>4 DEF LogInv, NewestOpen
<1>5. CASE Recover /\ incident # 0
  <2>1. /\ NewestOpen /\ incident = Len(incidents)
        /\ incident \in 1 .. Len(incidents) /\ Len(incidents) > 0
    BY <1>2, <1>5 DEF LogInv, NewestOpen
  <2>2. incident \in DOMAIN incidents
    BY <2>1 DEF TypeOK
  <2>3. CASE incidents' = EndIncident(incident)
    <3>1. incidents' = [incidents EXCEPT ![Len(incidents)] = FALSE]
      BY <2>1, <2>2, <2>3 DEF EndIncident
    <3>2. OlderClosed(incidents') /\ ~incidents'[Len(incidents')]
      BY <2>1, <3>1, CloseLog DEF LogInv, TypeOK
    <3> QED
      BY <1>5, <2>1, <3>1, <3>2, NewestOpenSame
         DEF LogInv, NewestOpen, Last, Recover, Log!Next, Log!Close
  <2>4. CASE incidents' = DeleteIncident(incident)
    <3>1. incidents' = SubSeq(incidents, 1, Len(incidents) - 1)
      BY <2>1, <2>2, <2>4, RemoveNewest DEF DeleteIncident, TypeOK
    <3>2. /\ OlderClosed(incidents')
          /\ incidents' # << >> => ~incidents'[Len(incidents')]
      BY <2>1, <3>1, DropLog DEF LogInv, TypeOK
    <3> QED
      BY <1>5, <2>1, <3>1, <3>2, NewestOpenSame
         DEF LogInv, NewestOpen, Last, Recover, Log!Next, Log!Drop
  <2> QED
    BY <1>5, <2>3, <2>4 DEF Recover
<1>6. CASE Fail /\ incident = 0
  <2>1. ~NewestOpen
    BY <1>1, <1>2, <1>6 DEF LogInv, NewestOpen
  <2>2. incidents' = Append(incidents, TRUE) /\ incident' = Len(incidents) + 1
    BY <1>6 DEF Fail
  <2>3. /\ OlderClosed(incidents') /\ incidents' # << >>
        /\ incidents'[Len(incidents')] /\ Len(incidents') = Len(incidents) + 1
    BY <2>1, <2>2, OpenLog DEF LogInv, NewestOpen, Last, TypeOK
  <2> QED
    BY <2>1, <2>2, <2>3, NewestOpenSame
       DEF LogInv, NewestOpen, Last, Log!Next, Log!Open
<1>7. CASE (Recover /\ incident = 0) \/ (Fail /\ incident # 0)
  BY <1>1, <1>4, <1>7 DEF Recover, Fail
<1> QED
  BY <1>3, <1>4, <1>5, <1>6, <1>7

(* Every step keeps the log invariant and is a step of IncidentLog. *)
LEMMA NextLog ==
  TypeOK /\ LoopInv /\ LogInv /\ ~StoreFaults /\ [Next]_vars
    => LogInv' /\ [Log!Next]_incidents
<1> SUFFICES ASSUME TypeOK, LoopInv, LogInv, ~StoreFaults, [Next]_vars
             PROVE  LogInv' /\ [Log!Next]_incidents
  OBVIOUS
<1> USE DEF control, memory, loops, store, history, news
<1>a. ASSUME UNCHANGED <<incidents, incident>>, Loaded' => Loaded
      PROVE  LogInv' /\ [Log!Next]_incidents
  BY <1>a DEF LogInv, NewestOpen
<1>b. ASSUME UNCHANGED incidents, incident' = 0, ~Loaded'
      PROVE  LogInv' /\ [Log!Next]_incidents
  BY <1>b DEF LogInv
<1>1. ASSUME NEW c \in Configs, AddHost(c)
      PROVE  LogInv' /\ [Log!Next]_incidents
  <2>1. ~Loaded'
    BY <1>1, AllDone DEF AddHost, StartLoop, Loaded, TypeOK
  <2> QED
    BY <1>1, <1>b, <2>1 DEF AddHost, Fresh
<1>2. ASSUME NEW c \in Configs, Update(c)
      PROVE  LogInv' /\ [Log!Next]_incidents
  BY <1>2, <1>a DEF Update, Loaded
<1>3. CASE RemoveHost \/ Shutdown \/ StopCancel \/ Launch \/ Signal
  BY <1>3, <1>a DEF RemoveHost, Shutdown, StopCancel, Launch, Signal, Loaded
<1>4. CASE Restart
  <2>1. ~Loaded'
    BY <1>4, AllDone DEF Restart, Stopped, StartLoop, Loaded, TypeOK
  <2> QED
    BY <1>4, <1>a, <2>1 DEF Restart
<1>5. CASE Removed \/ Halted \/ Crash
  BY <1>5, <1>b DEF Removed, Halted, Crash, Fresh, Loaded
<1>6. CASE Aggregate
  BY <1>6, <1>a DEF Aggregate, Loaded
<1>7. ASSUME NEW l \in Loops, LoopStep(l)
      PROVE  LogInv' /\ [Log!Next]_incidents
  <2>1. CASE Load(l)
    <3>1. incident' = RestoreIncident /\ UNCHANGED incidents
      BY <2>1 DEF Load
    <3> QED
      BY <3>1 DEF LogInv, RestoreIncident, NewestOpen
  <2>2. CASE Validate(l)
    BY <2>2, ValidateLog
  <2>3. CASE ~Load(l) /\ ~Validate(l)
    <3>1. UNCHANGED <<incidents, incident>> /\ pc[l] \notin {"load", "done"}
      BY <1>7, <2>3 DEF LoopStep, DelayElapsed, Tick, Exit, DialDone,
         SkipOffline, Save, Announce, Go
    <3>2. Loaded
      BY <3>1 DEF Loaded, LoopInv, SingleLoop
    <3> QED
      BY <1>a, <3>1, <3>2
  <2> QED
    BY <2>1, <2>2, <2>3
<1>8. CASE UNCHANGED vars
  BY <1>8, <1>a DEF vars, Loaded
<1> QED
  BY <1>1, <1>2, <1>3, <1>4, <1>5, <1>6, <1>7, <1>8, NextCases

LEMMA InitLog == Init => LogInv /\ Log!Init
<1> SUFFICES ASSUME Init PROVE LogInv /\ Log!Init
  OBVIOUS
<1>1. incidents = << >> /\ Len(incidents) = 0 /\ incidents \in Seq(BOOLEAN)
  BY EmptySeq DEF Init
<1> QED
  BY <1>1 DEF Init, LogInv, OlderClosed, NewestOpen, Log!Init

LEMMA LogInvariant == ~StoreFaults /\ Spec => []LogInv
<1>1. Spec => []LoopInv
  BY InitLoop, NextLoop, TypeCorrect, PTL DEF Spec
<1>2. ASSUME ~StoreFaults PROVE Spec => []LogInv
  <2>1. TypeOK /\ LoopInv /\ LogInv /\ [Next]_vars => LogInv'
    BY <1>2, NextLog
  <2> QED
    BY <1>1, <2>1, InitLog, TypeCorrect, PTL DEF Spec
<1> QED
  BY <1>2

(* As long as the store works, w.incident is the open incident of the log.  *)
THEOREM TracksOpen == Spec => []TracksOpenIncident
<1>1. CASE StoreFaults
  <2>1. TracksOpenIncident
    BY <1>1 DEF TracksOpenIncident
  <2> QED
    BY <2>1, PTL
<1>2. CASE ~StoreFaults
  <2>1. Spec => []LogInv
    BY <1>2, LogInvariant
  <2>2. LogInv => TracksOpenIncident
    BY DEF LogInv, TracksOpenIncident
  <2> QED
    BY <2>1, <2>2, PTL
<1> QED
  BY <1>1, <1>2

(* As long as the store works, outages never overlap: the watcher           *)
(* implements IncidentLog.                                                  *)
THEOREM LogRefinement == ~StoreFaults => (Spec => LogRefined)
<1> SUFFICES ASSUME ~StoreFaults PROVE Spec => LogRefined
  OBVIOUS
<1>1. Spec => []LoopInv
  BY InitLoop, NextLoop, TypeCorrect, PTL DEF Spec
<1>2. Spec => []LogInv
  BY LogInvariant
<1>3. TypeOK /\ LoopInv /\ LogInv /\ [Next]_vars => [Log!Next]_incidents
  BY NextLog
<1>4. Init => Log!Init
  BY InitLog
<1> QED
  BY <1>1, <1>2, <1>3, <1>4, TypeCorrect, PTL DEF Spec, LogRefined, Log!Spec

-----------------------------------------------------------------------------
(* An outage that is open although the watcher does not take its host for   *)
(* down: a check that finds the host up changes no status and leaves it.    *)
Disagree == Loaded /\ NewestOpen /\ status # "DOWN"

(* While the store works, the check loop never comes to disagree with the   *)
(* log by what it judges: only restoring the incident and the status from   *)
(* two places of the store can (watcher.go:141-146, 245-292).               *)
OnlyRestoreDisagrees ==
  [][~StoreFaults /\ ~Disagree /\ Disagree' => \E l \in Loops : Load(l)]_vars

LEMMA ValidateAgrees ==
  ASSUME TypeOK, LoopInv, LogInv, ~StoreFaults, ~Disagree,
         NEW l \in Loops, Validate(l)
  PROVE  ~Disagree'
<1>1. Loaded
  BY DEF Loaded, Validate, Go, LoopInv, SingleLoop
<1>2. LogInv' /\ TypeOK'
  BY ValidateLog, ValidateType
<1>3. status' = NextStatus(job[l].ok)
  BY DEF Validate
<1>4. incident' = 0 => ~NewestOpen' \/ ~Loaded'
  BY <1>2, EmptySeq DEF LogInv, NewestOpen, TypeOK
<1>5. CASE ~Changes(job[l].ok)
  <2>1. UNCHANGED incidents
    BY <1>5 DEF Validate
  <2>2. CASE ~NewestOpen
    BY <2>1, <2>2 DEF Disagree, NewestOpen
  <2>3. CASE status = "DOWN"
    <3>1. status' = "DOWN"
      BY <1>3, <1>5, <2>3 DEF NextStatus, Changes, Target, New
    <3> QED
      BY <3>1 DEF Disagree
  <2> QED
    BY <1>1, <2>2, <2>3 DEF Disagree
<1>6. CASE Changes(job[l].ok) /\ job[l].ok
  <2>1. Recover
    BY <1>6 DEF Validate
  <2>2. incident' = 0
    BY <2>1 DEF Recover
  <2> QED
    BY <1>4, <2>2 DEF Disagree
<1>7. CASE Changes(job[l].ok) /\ ~job[l].ok
  <2>1. status' = "DOWN"
    BY <1>3, <1>7 DEF Changes, NextStatus, Target
  <2> QED
    BY <2>1 DEF Disagree
<1> QED
  BY <1>5, <1>6, <1>7

LEMMA NextAgrees ==
  ASSUME TypeOK, LoopInv, LogInv, ~StoreFaults, ~Disagree, [Next]_vars,
         \A l \in Loops : ~Load(l)
  PROVE  ~Disagree'
<1> USE DEF control, memory, loops, store, history, news
<1>1. CASE ~Loaded'
  BY <1>1 DEF Disagree
<1>2. ASSUME UNCHANGED <<status, incidents>>, Loaded' => Loaded PROVE ~Disagree'
  BY <1>2 DEF Disagree, NewestOpen
<1>3. CASE Crash
  BY <1>1, <1>3 DEF Crash, Loaded
<1>4. CASE (\E c \in Configs : AddHost(c)) \/ Restart
  <2>1. \A l \in Loops : pc[l] = "done"
    BY <1>4, AllDone DEF AddHost, Restart, Stopped
  <2>2. \A l \in Loops : pc'[l] \in {"done", "load"}
    BY <1>4, <2>1 DEF AddHost, Restart, StartLoop, TypeOK
  <2> QED
    BY <1>1, <2>2 DEF Loaded
<1>5. CASE Removed \/ Halted
  BY <1>1, <1>5 DEF Removed, Halted, Loaded
<1>6. ASSUME NEW l \in Loops, LoopStep(l) PROVE ~Disagree'
  <2>1. CASE Validate(l)
    BY <2>1, ValidateAgrees
  <2>2. CASE ~Validate(l)
    <3>1. /\ UNCHANGED <<status, incidents>> /\ host' = host
          /\ pc[l] \notin {"done", "load"}
      BY <1>6, <2>2 DEF LoopStep, DelayElapsed, Tick, Exit, DialDone,
         SkipOffline, Save, Announce, Go
    <3>2. Loaded' => Loaded
      BY <3>1 DEF Loaded
    <3> QED
      BY <1>2, <3>1, <3>2
  <2> QED
    BY <2>1, <2>2
<1>7. ASSUME NEW c \in Configs, Update(c) PROVE ~Disagree'
  BY <1>2, <1>7 DEF Update, Loaded
<1>8. CASE \/ RemoveHost \/ Shutdown \/ StopCancel \/ Launch \/ Signal
           \/ Aggregate \/ UNCHANGED vars
  BY <1>2, <1>8 DEF RemoveHost, Shutdown, StopCancel, Launch, Signal,
     Aggregate, vars, Loaded
<1> QED
  BY <1>3, <1>4, <1>5, <1>6, <1>7, <1>8, NextCases

(* The two agree from a restore on, for as long as the loop runs. *)
THEOREM Agreement == Spec => OnlyRestoreDisagrees
<1> DEFINE Step ==
      ~StoreFaults /\ ~Disagree /\ Disagree' => \E l \in Loops : Load(l)
<1>1. CASE StoreFaults
  <2>1. [Next]_vars => [Step]_vars
    BY <1>1
  <2> QED
    BY <2>1, PTL DEF Spec, OnlyRestoreDisagrees
<1>2. CASE ~StoreFaults
  <2>1. TypeOK /\ LoopInv /\ LogInv /\ [Next]_vars => [Step]_vars
    BY <1>2, NextAgrees
  <2>2. Spec => []LoopInv
    BY InitLoop, NextLoop, TypeCorrect, PTL DEF Spec
  <2> QED
    BY <1>2, <2>1, <2>2, LogInvariant, TypeCorrect, PTL
       DEF Spec, OnlyRestoreDisagrees
<1> QED
  BY <1>1, <1>2

-----------------------------------------------------------------------------
(* With a store that fails.  A step of the loop may leave the watcher with  *)
(* the ID of an incident that the store did not take, but never with one of *)
(* an incident that is not the newest.                                      *)
NotOlder == incident # 0 => incident >= Len(incidents)
OlderKept ==
  \A i \in 1 .. Len(incidents) - 1 :
    i \in DOMAIN incidents' /\ incidents'[i] = incidents[i]

LEMMA LastPlace ==
  ASSUME NEW n \in Nat, NEW i \in 1 .. n, i >= n PROVE i = n /\ n > 0
  OBVIOUS

LEMMA Elder ==
  ASSUME NEW n \in Nat, NEW i \in 1 .. n - 1
  PROVE  i \in 1 .. n /\ i \in 1 .. n + 1 /\ i # n
  OBVIOUS

LEMMA ValidateOlder ==
  ASSUME TypeOK, NotOlder, NEW l \in Loops, Validate(l)
  PROVE  NotOlder' /\ (UNCHANGED incidents \/ OlderKept)
<1>1. /\ incidents \in Seq(BOOLEAN) /\ Len(incidents) \in Nat /\ incident \in Nat
      /\ DOMAIN incidents = 1 .. Len(incidents)
  BY DEF TypeOK
<1>2. UNCHANGED <<incidents, incident>> \/ Recover \/ Fail
  BY DEF Validate
<1>3. CASE UNCHANGED <<incidents, incident>>
  BY <1>3 DEF NotOlder
<1>4. CASE Recover /\ incident # 0
  <2>1. incident' = 0
    BY <1>4 DEF Recover
  <2>2. CASE incident \notin DOMAIN incidents
    BY <1>4, <2>1, <2>2 DEF Recover, EndIncident, DeleteIncident, NotOlder
  <2>3. CASE incident \in DOMAIN incidents
    <3>1. incident = Len(incidents) /\ Len(incidents) > 0
      <4>1. incident \in 1 .. Len(incidents)
        BY <1>1, <2>3, Zenon
      <4>2. incident >= Len(incidents)
        BY <1>4 DEF NotOlder
      <4> QED
        BY <1>1, <4>1, <4>2, LastPlace
    <3>2. \/ UNCHANGED incidents
          \/ incidents' = [incidents EXCEPT ![Len(incidents)] = FALSE]
          \/ incidents' = RemoveAt(incidents, Len(incidents))
      BY <1>4, <2>3, <3>1 DEF Recover, EndIncident, DeleteIncident
    <3>3. CASE incidents' = [incidents EXCEPT ![Len(incidents)] = FALSE]
      <4>1. /\ DOMAIN incidents' = 1 .. Len(incidents)
            /\ \A i \in 1 .. Len(incidents) : i # Len(incidents) => incidents'[i] = incidents[i]
        BY <1>1, <3>1, <3>3, ExceptSeq
      <4> QED
        BY <1>1, <2>1, <4>1, Elder DEF OlderKept, NotOlder
    <3>4. CASE incidents' = RemoveAt(incidents, Len(incidents))
      <4>1. incidents' = SubSeq(incidents, 1, Len(incidents) - 1)
        BY <1>1, <3>1, <3>4, RemoveNewest
      <4>2. OlderKept
        <5> DEFINE n == Len(incidents) - 1
        <5>1. n \in Nat /\ \A i \in 1 .. n : incidents[i] \in BOOLEAN
          BY <1>1, <3>1
        <5> HIDE DEF n
        <5>2. /\ Len(SubSeq(incidents, 1, n)) = n
              /\ \A i \in 1 .. n : SubSeq(incidents, 1, n)[i] = incidents[i]
              /\ SubSeq(incidents, 1, n) \in Seq(BOOLEAN)
          <6>1. /\ SubSeq(incidents, 1, n) \in Seq(BOOLEAN)
                /\ Len(SubSeq(incidents, 1, n)) = IF 1 <= n THEN n - 1 + 1 ELSE 0
                /\ \A i \in 1 .. n - 1 + 1 : SubSeq(incidents, 1, n)[i] = incidents[1 + i - 1]
            BY <5>1, SubSeqProperties
          <6> QED
            BY <5>1, <6>1
        <5>3. DOMAIN SubSeq(incidents, 1, n) = 1 .. n
          BY <5>1, <5>2
        <5>4. incidents' = SubSeq(incidents, 1, n)
          BY <4>1 DEF n
        <5>5. \A i \in 1 .. n : i \in DOMAIN incidents' /\ incidents'[i] = incidents[i]
          BY <5>2, <5>3, <5>4
        <5> QED
          BY <5>5 DEF OlderKept, n
      <4> QED
        BY <2>1, <4>2 DEF NotOlder
    <3> QED
      BY <2>1, <3>2, <3>3, <3>4 DEF NotOlder
  <2> QED
    BY <2>2, <2>3
<1>5. CASE Fail /\ incident = 0
  <2>1. incident' = Len(incidents) + 1
    BY <1>5 DEF Fail
  <2>2. CASE UNCHANGED incidents
    BY <1>1, <2>1, <2>2 DEF NotOlder
  <2>3. CASE incidents' = Append(incidents, TRUE)
    <3>1. /\ Len(incidents') = Len(incidents) + 1
          /\ DOMAIN incidents' = 1 .. Len(incidents) + 1
          /\ \A i \in 1 .. Len(incidents) : incidents'[i] = incidents[i]
      <4>1. \A e \in BOOLEAN :
              /\ Append(incidents, e) \in Seq(BOOLEAN)
              /\ Len(Append(incidents, e)) = Len(incidents) + 1
              /\ \A i \in 1 .. Len(incidents) : Append(incidents, e)[i] = incidents[i]
        BY <1>1, AppendProperties
      <4>2. \A e \in BOOLEAN : DOMAIN Append(incidents, e) = 1 .. Len(incidents) + 1
        BY <1>1, <4>1
      <4>3. TRUE \in BOOLEAN
        OBVIOUS
      <4> QED
        BY <2>3, <4>1, <4>2, <4>3, Zenon
    <3>2. OlderKept
      <4> QED
        BY <1>1, <3>1, Elder DEF OlderKept
    <3> QED
      BY <1>1, <2>1, <3>1, <3>2 DEF NotOlder
  <2> QED
    BY <1>5, <2>2, <2>3 DEF Fail
<1>6. CASE (Recover /\ incident = 0) \/ (Fail /\ incident # 0)
  BY <1>3, <1>6 DEF Recover, Fail
<1> QED
  BY <1>2, <1>3, <1>4, <1>5, <1>6

LEMMA NextOlder ==
  ASSUME TypeOK, NotOlder, [Next]_vars
  PROVE  NotOlder' /\ (UNCHANGED incidents \/ OlderKept)
<1> USE DEF control, memory, loops, store, history, news
<1>0. Len(incidents) \in Nat
  BY DEF TypeOK
<1>1. CASE UNCHANGED incidents /\ (UNCHANGED incident \/ incident' = 0)
  BY <1>1 DEF NotOlder
<1>2. CASE \/ \E c \in Configs : AddHost(c) \/ Update(c)
           \/ RemoveHost \/ Shutdown \/ StopCancel \/ Restart \/ Removed
           \/ Halted \/ Launch \/ Signal \/ Crash \/ Aggregate
           \/ UNCHANGED vars
  BY <1>1, <1>2 DEF AddHost, Update, RemoveHost, Shutdown, StopCancel, Restart,
     Removed, Halted, Launch, Signal, Crash, Aggregate, Fresh, vars
<1>3. ASSUME NEW l \in Loops, LoopStep(l)
      PROVE  NotOlder' /\ (UNCHANGED incidents \/ OlderKept)
  <2>1. CASE Load(l)
    <3>1. UNCHANGED incidents /\ incident' \in {incident, Len(incidents)}
      BY <2>1 DEF Load, RestoreIncident
    <3> QED
      BY <1>0, <3>1 DEF NotOlder
  <2>2. CASE Validate(l)
    BY <2>2, ValidateOlder
  <2>3. CASE ~Load(l) /\ ~Validate(l)
    BY <1>1, <1>3, <2>3 DEF LoopStep, DelayElapsed, Tick, Exit, DialDone,
       SkipOffline, Save, Announce
  <2> QED
    BY <2>1, <2>2, <2>3
<1> QED
  BY <1>2, <1>3, NextCases

(* Whatever the store fails to do, the incidents before the newest keep     *)
(* their place and their state (watcher.go:253-265, 141-143).               *)
THEOREM OlderUntouched == Spec => OlderIncidentsUntouched
<1>1. Init => NotOlder
  BY DEF Init, NotOlder
<1>2. TypeOK /\ NotOlder /\ [Next]_vars => NotOlder'
  BY NextOlder
<1>3. TypeOK /\ NotOlder /\ [Next]_vars => [OlderKept]_incidents
  BY NextOlder
<1> QED
  BY <1>1, <1>2, <1>3, TypeCorrect, PTL DEF Spec, OlderIncidentsUntouched, OlderKept

=============================================================================
