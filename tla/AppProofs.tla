----------------------------- MODULE AppProofs -----------------------------
(***************************************************************************)
(* Theorems about App for every finite set of hosts, all versions of the   *)
(* file, every capacity of the dialers and every number of edits.          *)
(***************************************************************************)
EXTENDS App, FiniteSetTheorems, TLAPS

HostStep(h) ==
  Check(h) \/ Acquire(h) \/ GiveUp(h) \/ Return(h) \/ Exit(h)

LEMMA NextCases ==
  ASSUME [Next]_vars
  PROVE  \/ \E v \in Versions : Edit(v)
         \/ Stat \/ Push \/ Take \/ Parse \/ Validate \/ Run \/ Remove
         \/ Applied \/ Stopped \/ Down \/ Signal \/ Shutdown
         \/ \E h \in Hosts : Add(h) \/ Update(h) \/ StopCancel(h)
         \/ \E h \in Hosts : HostStep(h)
         \/ UNCHANGED vars
  BY DEF Next, Main, HostStep

(* The steps of a check leave the file, the poller and main alone.          *)
LEMMA HostStepFrame ==
  ASSUME NEW h \in Hosts, HostStep(h)
  PROVE  UNCHANGED <<disk, poller, ctl, terminated, cfg, running, run, registry,
                     cancelled>>
  BY DEF HostStep, Check, Acquire, GiveUp, Return, Exit, others

-----------------------------------------------------------------------------
(* Every reload is paid for by the start or an edit: a pending one, or one  *)
(* the poller is about to find, is counted before Run makes a dialer.       *)
One(condition) == IF condition THEN 1 ELSE 0

ReloadsPaid ==
  gen + One(ctl \in {"parse", "validate", "run"}) + One(fw) + One(poll = "push")
      + One(seen # file) <= edits + 1

LEMMA InitPaid == Init => ReloadsPaid
  BY DEF Init, ReloadsPaid, One

LEMMA NextPaid == TypeOK /\ ReloadsPaid /\ [Next]_vars => ReloadsPaid'
<1> SUFFICES ASSUME TypeOK, ReloadsPaid, [Next]_vars PROVE ReloadsPaid'
  OBVIOUS
<1> USE DEF ReloadsPaid, One, TypeOK, Generations, disk, poller, run
<1>1. ASSUME NEW v \in Versions, Edit(v) PROVE ReloadsPaid'
  BY <1>1 DEF Edit
<1>2. CASE Stat
  BY <1>2 DEF Stat
<1>3. CASE Push
  BY <1>3 DEF Push
<1>4. CASE Take
  BY <1>4 DEF Take
<1>5. CASE Parse
  BY <1>5 DEF Parse
<1>6. CASE Validate
  BY <1>6 DEF Validate
<1>7. CASE Run
  BY <1>7 DEF Run
<1>8. CASE Remove \/ Applied \/ Stopped \/ Down \/ Signal \/ Shutdown
  BY <1>8 DEF Remove, Applied, Stopped, Down, Signal, Shutdown
<1>9. ASSUME NEW h \in Hosts, Add(h) \/ Update(h) \/ StopCancel(h)
      PROVE  ReloadsPaid'
  <2>1. /\ UNCHANGED <<gen, fw, poll, seen, file, edits>>
        /\ ctl' \notin {"parse", "validate", "run"}
    BY <1>9 DEF Add, Update, StopCancel, Adopt
  <2> QED
    BY <2>1
<1>10. ASSUME NEW h \in Hosts, HostStep(h) PROVE ReloadsPaid'
  <2>1. UNCHANGED <<gen, fw, poll, seen, file, edits, ctl>>
    BY <1>10, HostStepFrame
  <2> QED
    BY <2>1
<1>11. CASE UNCHANGED vars
  BY <1>11 DEF vars
<1> QED
  BY <1>1, <1>2, <1>3, <1>4, <1>5, <1>6, <1>7, <1>8, <1>9, <1>10, <1>11,
     NextCases

-----------------------------------------------------------------------------
(* A loop that is alive belongs to a watcher in the map or to one that main *)
(* is stopping.                                                             *)
LoopsOwned ==
  /\ \A h \in Hosts : loop[h] # "off" => h \in watched \cup stopping
  /\ ctl \notin {"restart", "remove", "stop"} => stopping = {}
  /\ victim # None => victim \in stopping
  /\ ctl = "restart" => \E h \in watched : stopping = {h}
  /\ ctl = "remove" => stopping \cap watched = {}

LEMMA InitOwned == Init => LoopsOwned
  BY DEF Init, LoopsOwned

LEMMA NextOwned == TypeOK /\ LoopsOwned /\ [Next]_vars => LoopsOwned'
<1> SUFFICES ASSUME TypeOK, LoopsOwned, [Next]_vars PROVE LoopsOwned'
  OBVIOUS
<1> USE DEF LoopsOwned, disk, poller, run, registry, checks
<1>1. ASSUME NEW v \in Versions, Edit(v) PROVE LoopsOwned'
  BY <1>1 DEF Edit
<1>2. CASE Stat \/ Push \/ Take \/ Parse \/ Validate
  BY <1>2 DEF Stat, Push, Take, Parse, Validate
<1>3. CASE Run \/ Applied \/ Down \/ Signal
  BY <1>3 DEF Run, Applied, Down, Signal
<1>4. CASE Remove
  BY <1>4 DEF Remove
<1>5. CASE Stopped
  BY <1>5, ConstantsOK DEF Stopped, TypeOK
<1>6. CASE Shutdown
  BY <1>6 DEF Shutdown
<1>7. ASSUME NEW h \in Hosts, Add(h) PROVE LoopsOwned'
  BY <1>7 DEF Add, Adopt, TypeOK
<1>8. ASSUME NEW h \in Hosts, Update(h) PROVE LoopsOwned'
  BY <1>8 DEF Update, Adopt, TypeOK
<1>9. ASSUME NEW h \in Hosts, StopCancel(h) PROVE LoopsOwned'
  BY <1>9 DEF StopCancel
<1>10. ASSUME NEW h \in Hosts, HostStep(h) PROVE LoopsOwned'
  <2>1. \A k \in Hosts : loop'[k] # "off" => loop[k] # "off"
    BY <1>10 DEF HostStep, Check, Acquire, GiveUp, Return, Exit, Go, TypeOK
  <2> QED
    BY <1>10, <2>1, HostStepFrame
<1>11. CASE UNCHANGED vars
  BY <1>11 DEF vars
<1> QED
  BY <1>1, <1>2, <1>3, <1>4, <1>5, <1>6, <1>7, <1>8, <1>9, <1>10, <1>11,
     NextCases

-----------------------------------------------------------------------------
(* The slots.  Only a dial that begins or ends changes who holds one.       *)
Holders(g) == {h \in Hosts : loop[h] = "dial" /\ via[h] = g}

LEMMA HoldersFinite == \A g : IsFiniteSet(Holders(g))
  BY ConstantsOK, FS_Subset DEF Holders

LEMMA InitSlots == Init => SlotsExact
  BY FS_EmptySet DEF Init, SlotsExact

LEMMA SameHolders ==
  ASSUME SlotsExact, used' = used,
         \A h \in Hosts : loop'[h] = "dial" <=> loop[h] = "dial",
         \A h \in Hosts : loop[h] = "dial" => via'[h] = via[h]
  PROVE  SlotsExact'
<1>1. \A g : Holders(g)' = Holders(g)
  BY DEF Holders
<1> QED
  BY <1>1 DEF SlotsExact, Holders

LEMMA NextSlots == TypeOK /\ LoopsOwned /\ SlotsExact /\ [Next]_vars => SlotsExact'
<1> SUFFICES ASSUME TypeOK, LoopsOwned, SlotsExact, [Next]_vars PROVE SlotsExact'
  OBVIOUS
<1> USE DEF disk, poller, run, registry, checks
<1>1. ASSUME NEW v \in Versions, Edit(v) PROVE SlotsExact'
  BY <1>1, SameHolders DEF Edit
<1>2. CASE Stat \/ Push \/ Take \/ Parse \/ Validate
  BY <1>2, SameHolders DEF Stat, Push, Take, Parse, Validate
<1>3. CASE Run \/ Remove \/ Applied \/ Down \/ Signal \/ Shutdown
  BY <1>3, SameHolders DEF Run, Remove, Applied, Down, Signal, Shutdown
<1>4. CASE Stopped
  BY <1>4, SameHolders DEF Stopped, TypeOK
<1>5. ASSUME NEW h \in Hosts, Add(h) PROVE SlotsExact'
  <2>1. loop[h] = "off"
    BY <1>5 DEF Add, Adopt, LoopsOwned
  <2> QED
    BY <1>5, <2>1, SameHolders DEF Add, Adopt, TypeOK
<1>6. ASSUME NEW h \in Hosts, Update(h) \/ StopCancel(h) PROVE SlotsExact'
  BY <1>6, SameHolders DEF Update, StopCancel, Adopt
<1>7. ASSUME NEW h \in Hosts, Check(h) \/ GiveUp(h) \/ Exit(h) PROVE SlotsExact'
  BY <1>7, SameHolders DEF Check, GiveUp, Exit, Go, Leave, TypeOK
<1>8. ASSUME NEW h \in Hosts, Acquire(h) PROVE SlotsExact'
  <2> PICK d \in Generations : d = via[h]
    BY DEF TypeOK
  <2>1. /\ Holders(d)' = Holders(d) \cup {h} /\ h \notin Holders(d)
        /\ \A g \in Generations : g # d => Holders(g)' = Holders(g)
    BY <1>8 DEF Acquire, Go, Holders, TypeOK
  <2>2. Cardinality(Holders(d) \cup {h}) = Cardinality(Holders(d)) + 1
    BY <2>1, HoldersFinite, FS_AddElement
  <2>3. /\ d \in Generations /\ used'[d] = used[d] + 1
        /\ \A g \in Generations : g # d => used'[g] = used[g]
    BY <1>8 DEF Acquire, TypeOK
  <2> QED
    BY <2>1, <2>2, <2>3 DEF SlotsExact, Holders
<1>9. ASSUME NEW h \in Hosts, Return(h) PROVE SlotsExact'
  <2> PICK d \in Generations : d = via[h]
    BY DEF TypeOK
  <2>1. /\ Holders(d)' = Holders(d) \ {h} /\ h \in Holders(d)
        /\ \A g \in Generations : g # d => Holders(g)' = Holders(g)
    BY <1>9 DEF Return, Go, Leave, Holders, TypeOK
  <2>2. Cardinality(Holders(d) \ {h}) = Cardinality(Holders(d)) - 1
    BY <2>1, HoldersFinite, FS_RemoveElement
  <2>3. /\ d \in Generations /\ used'[d] = used[d] - 1
        /\ \A g \in Generations : g # d => used'[g] = used[g]
    BY <1>9 DEF Return, Go, TypeOK
  <2> QED
    BY <2>1, <2>2, <2>3 DEF SlotsExact, Holders
<1>10. CASE UNCHANGED vars
  BY <1>10, SameHolders DEF vars
<1> QED
  BY <1>1, <1>2, <1>3, <1>4, <1>5, <1>6, <1>7, <1>8, <1>9, <1>10, NextCases
     DEF HostStep

(* A dial that returns held a slot. *)
LEMMA SlotTaken ==
  ASSUME TypeOK, SlotsExact, NEW h \in Hosts, loop[h] = "dial"
  PROVE  used[via[h]] >= 1
<1>1. h \in Holders(via[h]) /\ via[h] \in Generations
  BY DEF Holders, TypeOK
<1>2. Cardinality(Holders(via[h])) # 0
  BY <1>1, HoldersFinite, FS_EmptySet
<1>3. used[via[h]] = Cardinality(Holders(via[h])) /\ used[via[h]] \in Nat
  BY <1>1 DEF SlotsExact, Holders, TypeOK
<1> QED
  BY <1>2, <1>3

-----------------------------------------------------------------------------
(* Type correctness, together with what bounds the dialers and their slots. *)
Inv == TypeOK /\ ReloadsPaid /\ LoopsOwned /\ SlotsExact

LEMMA InitType == Init => TypeOK
<1> SUFFICES ASSUME Init PROVE TypeOK
  OBVIOUS
<1>1. 0 \in Generations /\ 0 \in 0 .. MaxConn /\ 0 \in 0 .. MaxEdits
  BY ConstantsOK DEF Generations
<1>2. None \in Definitions
  BY DEF Definitions
<1> QED
  BY <1>1, <1>2 DEF Init, TypeOK

LEMMA NextType == Inv /\ [Next]_vars => TypeOK'
<1> SUFFICES ASSUME Inv, [Next]_vars PROVE TypeOK'
  OBVIOUS
<1>0. TypeOK /\ ReloadsPaid /\ LoopsOwned /\ SlotsExact
  BY DEF Inv
<1> USE <1>0 DEF TypeOK, disk, poller, run, registry, checks
<1>1. ASSUME NEW v \in Versions, Edit(v) PROVE TypeOK'
  BY <1>1, ConstantsOK DEF Edit
<1>2. CASE Stat \/ Push \/ Take \/ Parse \/ Validate
  BY <1>2 DEF Stat, Push, Take, Parse, Validate
<1>3. CASE Run
  <2>1. gen + 1 \in Generations
    BY <1>3, ConstantsOK DEF Run, ReloadsPaid, One, Generations
  <2> QED
    BY <1>3, <2>1 DEF Run, HostsOf
<1>4. CASE Remove \/ Applied \/ Down \/ Signal \/ Shutdown
  BY <1>4 DEF Remove, Applied, Down, Signal, Shutdown
<1>5. CASE Stopped
  BY <1>5 DEF Stopped
<1>6. ASSUME NEW h \in Hosts, Adopt(h)
      PROVE  def' \in [Hosts -> Definitions] /\ dep' \in [Hosts -> Generations]
  <2>1. Def[cfg][h] \in Definitions
    BY DEF Definitions
  <2> QED
    BY <1>6, <2>1 DEF Adopt
<1>7. ASSUME NEW h \in Hosts, Add(h) PROVE TypeOK'
  BY <1>6, <1>7 DEF Add, Adopt
<1>8. ASSUME NEW h \in Hosts, Update(h) PROVE TypeOK'
  BY <1>6, <1>8 DEF Update, Adopt
<1>9. ASSUME NEW h \in Hosts, StopCancel(h) PROVE TypeOK'
  BY <1>9 DEF StopCancel
<1>10. ASSUME NEW h \in Hosts, HostStep(h) PROVE TypeOK'
  <2>0. 0 \in Generations
    BY ConstantsOK DEF Generations
  <2>1. /\ loop' \in [Hosts -> {"off", "wait", "queue", "dial"}]
        /\ via' \in [Hosts -> Generations]
    BY <1>10, <2>0 DEF HostStep, Check, Acquire, GiveUp, Return, Exit, Go, Leave
  <2>2. used' \in [Generations -> 0 .. MaxConn]
    <3>1. CASE Acquire(h)
      BY <3>1, ConstantsOK DEF Acquire
    <3>2. CASE Return(h)
      <4>1. used[via[h]] >= 1
        BY <3>2, SlotTaken DEF Return, Go
      <4> QED
        BY <3>2, <4>1, ConstantsOK DEF Return
    <3>3. CASE Check(h) \/ GiveUp(h) \/ Exit(h)
      BY <3>3 DEF Check, GiveUp, Exit
    <3> QED
      BY <1>10, <3>1, <3>2, <3>3 DEF HostStep
  <2> QED
    BY <1>10, <2>1, <2>2, HostStepFrame
<1>11. CASE UNCHANGED vars
  BY <1>11 DEF vars
<1> QED
  BY <1>1, <1>2, <1>3, <1>4, <1>5, <1>7, <1>8, <1>9, <1>10, <1>11, NextCases

LEMMA Invariance == Spec => []Inv
<1>1. Init => Inv
  BY InitType, InitPaid, InitOwned, InitSlots DEF Inv
<1>2. Inv /\ [Next]_vars => Inv'
  BY NextType, NextPaid, NextOwned, NextSlots DEF Inv
<1> QED
  BY <1>1, <1>2, PTL DEF Spec

(* Every variable stays in its type: no dialer ever has more than MaxConn   *)
(* slots taken or fewer than none (dialer.go:48-59).                        *)
THEOREM AppTypes == Spec => []TypeOK
  BY Invariance, PTL DEF Inv

(* The slots of a dialer are exactly those its dials hold, also when the    *)
(* dialer was replaced and the watcher stopped (dialer.go:48-59).           *)
THEOREM Slots == Spec => []SlotsExact
  BY Invariance, PTL DEF Inv

(* Never more than MaxConn dials at a time through one dialer, which is     *)
(* what its semaphore is for (dialer.go:19-23, 48-59).                      *)
THEOREM DialsBounded ==
  Spec => [](\A g \in Generations : Cardinality(Holders(g)) <= MaxConn)
<1>1. Inv => \A g \in Generations : Cardinality(Holders(g)) <= MaxConn
  BY ConstantsOK DEF Inv, TypeOK, SlotsExact, Holders
<1> QED
  BY <1>1, Invariance, PTL

-----------------------------------------------------------------------------
(* A version the file can be run with is on its way to the monitor from the *)
(* moment the poller has seen it until Run has applied it.                  *)
EditCarried ==
  seen = file /\ poll = "idle" /\ ~fw /\ Kind[file] = "good" =>
    \/ ctl \in {"parse", "stop", "down"}
    \/ ctl \in {"validate", "run", "apply", "restart", "remove"} /\ cfg = file
    \/ ctl = "select" /\ running = file

LEMMA InitCarried == Init => EditCarried
  BY ConstantsOK DEF Init, EditCarried

LEMMA NextCarried == TypeOK /\ LoopsOwned /\ EditCarried /\ [Next]_vars => EditCarried'
<1> SUFFICES ASSUME TypeOK, LoopsOwned, EditCarried, [Next]_vars PROVE EditCarried'
  OBVIOUS
<1> USE DEF EditCarried, disk, poller, run
<1>1. ASSUME NEW v \in Versions, Edit(v) PROVE EditCarried'
  BY <1>1 DEF Edit
<1>2. CASE Stat \/ Push
  BY <1>2 DEF Stat, Push
<1>3. CASE Take \/ Parse \/ Validate
  BY <1>3 DEF Take, Parse, Validate
<1>4. CASE Run \/ Remove \/ Applied \/ Down \/ Signal \/ Shutdown
  BY <1>4 DEF Run, Remove, Applied, Down, Signal, Shutdown
<1>5. CASE Stopped
  BY <1>5 DEF Stopped, LoopsOwned
<1>6. ASSUME NEW h \in Hosts, Add(h) \/ Update(h) \/ StopCancel(h)
      PROVE  EditCarried'
  BY <1>6 DEF Add, Update, StopCancel, Adopt
<1>7. ASSUME NEW h \in Hosts, HostStep(h) PROVE EditCarried'
  <2>1. UNCHANGED <<seen, file, poll, fw, ctl, cfg, running>>
    BY <1>7, HostStepFrame
  <2> QED
    BY <2>1
<1>8. CASE UNCHANGED vars
  BY <1>8 DEF vars
<1> QED
  BY <1>1, <1>2, <1>3, <1>4, <1>5, <1>6, <1>7, <1>8, NextCases

(* When the poller and main are idle and no reload is pending, the monitor  *)
(* runs the file, if it can be run (config.go:257-273, main.go:152-165).    *)
THEOREM EditsReach == Spec => []NoEditLost
<1>1. Spec => []EditCarried
  BY InitCarried, NextCarried, Invariance, PTL DEF Spec, Inv
<1>2. EditCarried => NoEditLost
  BY DEF EditCarried, NoEditLost
<1> QED
  BY <1>1, <1>2, PTL

-----------------------------------------------------------------------------
(* One version of the file, through the half-way states of Run: the hosts   *)
(* done so far run the new one, and a watcher whose loop is over was        *)
(* stopped for good or is the one that starts again.                        *)
Runs(h, v) == h \in watched /\ def[h] = Def[v][h] /\ dep[h] = gen

Valid == ctl \in {"run", "apply", "restart", "remove"} => Kind[cfg] = "good"

Settled ==
  ctl \in {"select", "parse", "validate", "run"} =>
    IF running = None THEN watched = {}
    ELSE /\ Kind[running] = "good" /\ watched = HostsOf(running)
         /\ \A h \in watched : Runs(h, running)

HalfWay ==
  /\ ctl \in {"apply", "restart"} =>
       /\ todo \subseteq HostsOf(cfg)
       /\ \A h \in HostsOf(cfg) \ todo : Runs(h, cfg)
  /\ ctl = "remove" => /\ watched = HostsOf(cfg)
                       /\ \A h \in watched : Runs(h, cfg)

LoopsLive ==
  /\ \A h \in watched : loop[h] = "off" => terminated \/ h \in cancelled
  /\ \A h \in watched \cap cancelled :
       ctl \in {"stop", "down"} \/ (ctl = "restart" /\ victim = h)

VersionInv == Valid /\ Settled /\ HalfWay /\ LoopsLive

LEMMA InitVersion == Init => VersionInv
  BY DEF Init, VersionInv, Valid, Settled, HalfWay, LoopsLive

LEMMA NextLive == TypeOK /\ LoopsOwned /\ LoopsLive /\ [Next]_vars => LoopsLive'
<1> SUFFICES ASSUME TypeOK, LoopsOwned, LoopsLive, [Next]_vars PROVE LoopsLive'
  OBVIOUS
<1> USE DEF LoopsLive, disk, poller, run, registry, checks
<1>1. ASSUME NEW v \in Versions, Edit(v) PROVE LoopsLive'
  BY <1>1 DEF Edit
<1>2. CASE Stat \/ Push \/ Take \/ Parse \/ Validate
  BY <1>2 DEF Stat, Push, Take, Parse, Validate
<1>3. CASE Run \/ Remove \/ Applied \/ Down \/ Signal \/ Shutdown
  BY <1>3 DEF Run, Remove, Applied, Down, Signal, Shutdown
<1>4. CASE Stopped
  <2>1. UNCHANGED <<terminated, watched>>
    BY <1>4 DEF Stopped
  <2>2. CASE ctl = "restart"
    BY <1>4, <2>1, <2>2, ConstantsOK DEF Stopped, TypeOK
  <2>3. CASE ctl # "restart"
    BY <1>4, <2>1, <2>3 DEF Stopped
  <2> QED
    BY <2>2, <2>3
<1>5. ASSUME NEW h \in Hosts, Add(h) PROVE LoopsLive'
  BY <1>5 DEF Add, Adopt, TypeOK
<1>6. ASSUME NEW h \in Hosts, Update(h) PROVE LoopsLive'
  BY <1>6 DEF Update, Adopt
<1>7. ASSUME NEW h \in Hosts, StopCancel(h) PROVE LoopsLive'
  BY <1>7, ConstantsOK DEF StopCancel, LoopsOwned, TypeOK
<1>8. ASSUME NEW h \in Hosts, HostStep(h) PROVE LoopsLive'
  <2>1. \A k \in Hosts : loop'[k] = "off" => loop[k] = "off" \/ Done(k)
    BY <1>8 DEF HostStep, Check, Acquire, GiveUp, Return, Exit, Go, TypeOK
  <2>2. UNCHANGED <<ctl, terminated, victim, watched, cancelled>>
    BY <1>8, HostStepFrame
  <2> QED
    BY <2>1, <2>2 DEF Done, TypeOK
<1>9. CASE UNCHANGED vars
  BY <1>9 DEF vars
<1> QED
  BY <1>1, <1>2, <1>3, <1>4, <1>5, <1>6, <1>7, <1>8, <1>9, NextCases

LEMMA NextVersion == TypeOK /\ LoopsOwned /\ VersionInv /\ [Next]_vars => VersionInv'
<1> SUFFICES ASSUME TypeOK, LoopsOwned, VersionInv, [Next]_vars
             PROVE  Valid' /\ Settled' /\ HalfWay'
  BY NextLive DEF VersionInv
<1>0. Valid /\ Settled /\ HalfWay
  BY DEF VersionInv
<1> USE <1>0 DEF Valid, Settled, HalfWay, Runs, HostsOf, disk, poller, run,
                 registry, checks
<1>1. ASSUME NEW v \in Versions, Edit(v) PROVE Valid' /\ Settled' /\ HalfWay'
  BY <1>1 DEF Edit
<1>2. CASE Stat \/ Push \/ Take \/ Parse \/ Validate
  BY <1>2 DEF Stat, Push, Take, Parse, Validate
<1>3. CASE Run
  BY <1>3 DEF Run
<1>4. CASE Remove
  BY <1>4 DEF Remove, TypeOK
<1>5. CASE Applied
  BY <1>5, ConstantsOK DEF Applied, TypeOK
<1>6. CASE Stopped
  BY <1>6 DEF Stopped, LoopsOwned
<1>7. CASE Down \/ Signal \/ Shutdown
  BY <1>7 DEF Down, Signal, Shutdown
<1>8. ASSUME NEW h \in Hosts, Add(h) PROVE Valid' /\ Settled' /\ HalfWay'
  BY <1>8 DEF Add, Adopt, TypeOK
<1>9. ASSUME NEW h \in Hosts, Update(h) PROVE Valid' /\ Settled' /\ HalfWay'
  BY <1>9 DEF Update, Adopt, TypeOK
<1>10. ASSUME NEW h \in Hosts, StopCancel(h) PROVE Valid' /\ Settled' /\ HalfWay'
  BY <1>10 DEF StopCancel
<1>11. ASSUME NEW h \in Hosts, HostStep(h) PROVE Valid' /\ Settled' /\ HalfWay'
  <2>1. UNCHANGED <<ctl, cfg, running, gen, todo, watched, def, dep>>
    BY <1>11, HostStepFrame
  <2> QED
    BY <2>1
<1>12. CASE UNCHANGED vars
  BY <1>12 DEF vars
<1> QED
  BY <1>1, <1>2, <1>3, <1>4, <1>5, <1>6, <1>7, <1>8, <1>9, <1>10, <1>11,
     <1>12, NextCases

(* Between two reloads the monitor runs one valid version of the file       *)
(* entirely: its hosts, their definitions, the dependencies made for it,    *)
(* and no loop of any other host (monitor.go:36-106).                       *)
THEOREM WholeVersion == Spec => []OneVersion
<1>1. Spec => [](TypeOK /\ LoopsOwned /\ VersionInv)
  BY InitVersion, NextVersion, Invariance, PTL DEF Spec, Inv
<1>2. TypeOK /\ LoopsOwned /\ VersionInv => OneVersion
  BY DEF TypeOK, LoopsOwned, VersionInv, Valid, Settled, LoopsLive, Runs,
         OneVersion
<1> QED
  BY <1>1, <1>2, PTL

=============================================================================
