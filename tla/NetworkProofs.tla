--------------------------- MODULE NetworkProofs ---------------------------
(***************************************************************************)
(* Theorems about Network for every set of hosts, every time a verdict, a  *)
(* probe and an idle connection may last, and all codes and bodies that a  *)
(* configuration may accept.                                               *)
(***************************************************************************)
EXTENDS Network, TLAPS

ConnStep == Cached \/ Probe \/ Probed \/ Flip \/ ConnTick \/ UNCHANGED connVars

SmtpStep ==
  \/ Enter \/ Connect \/ DialFails \/ Transmit \/ TransmitFails
  \/ idleClose \/ SmtpTick \/ UNCHANGED smtpVars

LEMMA ComponentSteps == [Next]_vars => ConnStep /\ SmtpStep
<1> SUFFICES ASSUME [Next]_vars PROVE ConnStep /\ SmtpStep
  OBVIOUS
<1>1. ASSUME NEW h \in Hosts, Begin(h) \/ Dialed(h) \/ Validate(h)
      PROVE  ConnStep /\ SmtpStep
  BY <1>1 DEF Begin, Dialed, Validate, ConnStep, SmtpStep
<1>2. ASSUME NEW h \in Hosts, Online(h) PROVE ConnStep /\ SmtpStep
  BY <1>2 DEF Online, ConnStep, SmtpStep
<1>3. ASSUME NEW h \in Hosts, Send(h) PROVE ConnStep /\ SmtpStep
  BY <1>3 DEF Send, ConnStep, SmtpStep
<1>4. CASE FlipUplink \/ IdleClose \/ Tick \/ UNCHANGED vars
  BY <1>4 DEF FlipUplink, IdleClose, Tick, vars, ConnStep, SmtpStep
<1> QED
  BY <1>1, <1>2, <1>3, <1>4 DEF Next, Check

-----------------------------------------------------------------------------
(* Connectivity: what the verdict, or a probe, has seen is in the trail not *)
(* further back than it is old.                                            *)

ConnInv ==
  /\ ConnTypeOK
  /\ uplink \in trail[0]
  /\ age < Ttl => \E i \in 0 .. age + Timeout : online \in trail[i]
  /\ \A v \in tried : \E i \in 0 .. begun : v \in trail[i]
  /\ ~mu => tried = {}

LEMMA InitConn == Init => ConnInv
<1> SUFFICES ASSUME ConnInit PROVE ConnInv
  BY DEF Init
<1> USE ConnectivityAssumption DEF ConnectivityAssumption, ConnInit, Horizon
<1>1. trail \in [0 .. Horizon -> SUBSET BOOLEAN] /\ trail[0] = {uplink}
  OBVIOUS
<1>2. age \in 0 .. Ttl /\ begun \in 0 .. Timeout /\ ~(age < Ttl)
  OBVIOUS
<1> QED
  BY <1>1, <1>2 DEF ConnInv, ConnTypeOK

LEMMA NextConn == ConnInv /\ ConnStep => ConnInv'
<1> SUFFICES ASSUME ConnInv, ConnStep PROVE ConnInv'
  OBVIOUS
<1> USE ConnectivityAssumption DEF ConnectivityAssumption, ConnInv, ConnTypeOK, Horizon
<1>1. CASE Cached \/ UNCHANGED connVars
  BY <1>1 DEF Cached, connVars
<1>2. CASE Probe
  BY <1>2 DEF Probe, Fresh
<1>3. CASE Probed
  <2>1. PICK i \in 0 .. begun : online' \in trail[i]
    BY <1>3 DEF Probed
  <2>2. age' = 0 /\ trail' = trail /\ tried' = {} /\ uplink' = uplink
    BY <1>3 DEF Probed
  <2>3. ConnTypeOK'
    <3>1. online' \in BOOLEAN /\ mu' \in BOOLEAN
      BY <1>3, Zenon DEF Probed
    <3> QED
      BY <1>3, <2>2, <3>1 DEF Probed
  <2>4. i \in 0 .. age' + Timeout
    BY <2>2
  <2> QED
    BY <2>1, <2>2, <2>3, <2>4
<1>4. CASE Flip
  <2>1. \A i \in 0 .. Horizon : trail[i] \subseteq trail'[i]
    BY <1>4 DEF Flip
  <2>2. uplink' \in trail'[0]
    BY <1>4 DEF Flip
  <2>3. ConnTypeOK'
    BY <1>4 DEF Flip
  <2>4. \A v \in tried' : \E i \in 0 .. begun' : v \in trail'[i]
    BY <1>4, <2>1, <2>2 DEF Flip
  <2>5. age' < Ttl => \E i \in 0 .. age' + Timeout : online' \in trail'[i]
    BY <1>4, <2>1 DEF Flip
  <2>6. ~mu' => tried' = {}
    BY <1>4 DEF Flip
  <2> QED
    BY <2>2, <2>3, <2>4, <2>5, <2>6
<1>5. CASE ConnTick
  <2>1. \A i \in 0 .. Horizon - 1 : trail'[i + 1] = trail[i]
    BY <1>5 DEF ConnTick
  <2>2. ConnTypeOK' /\ uplink' \in trail'[0]
    BY <1>5 DEF ConnTick, Older
  <2>3. ASSUME age' < Ttl
        PROVE  \E i \in 0 .. age' + Timeout : online' \in trail'[i]
    <3>1. age' = age + 1 /\ online' = online
      BY <1>5, <2>3 DEF ConnTick, Older
    <3>2. PICK i \in 0 .. age + Timeout : online \in trail[i]
      BY <2>3, <3>1
    <3>3. trail'[i + 1] = trail[i] /\ i + 1 \in 0 .. age' + Timeout
      BY <2>1, <2>3, <3>1, <3>2
    <3> QED
      BY <3>1, <3>2, <3>3
  <2>4. ASSUME NEW v \in tried'
        PROVE  \E i \in 0 .. begun' : v \in trail'[i]
    <3>1. PICK i \in 0 .. begun : v \in trail[i]
      BY <1>5, <2>4 DEF ConnTick
    <3>2. CASE mu
      <4>1. begun' = begun + 1 /\ begun < Timeout
        BY <1>5, <3>2 DEF ConnTick
      <4>2. trail'[i + 1] = trail[i] /\ i + 1 \in 0 .. begun'
        BY <2>1, <3>1, <4>1
      <4> QED
        BY <3>1, <4>2
    <3>3. CASE ~mu
      BY <1>5, <2>4, <3>3 DEF ConnTick
    <3> QED
      BY <3>2, <3>3
  <2>5. ~mu' => tried' = {}
    BY <1>5 DEF ConnTick
  <2> QED
    BY <2>2, <2>3, <2>4, <2>5
<1> QED
  BY <1>1, <1>2, <1>3, <1>4, <1>5 DEF ConnStep

-----------------------------------------------------------------------------
(* Smtp: a send stands somewhere exactly while it holds the lock. *)

SmtpInv == SmtpTypeOK /\ (lock <=> step # "none") /\ ConnectionGuarded

LEMMA InitSmtp == Init => SmtpInv
<1> SUFFICES ASSUME SmtpInit PROVE SmtpInv
  BY DEF Init
<1>1. timer \in 0 .. IdleTimeout /\ closers \in 0 .. MaxClosers
        /\ last \in 0 .. MinInterval
  BY SmtpAssumption DEF SmtpAssumption, SmtpInit
<1>2. SmtpTypeOK
  BY <1>1, Zenon DEF SmtpInit, SmtpTypeOK
<1> QED
  BY <1>2, Zenon DEF SmtpInit, SmtpInv, ConnectionGuarded

LEMMA NextSmtp == SmtpInv /\ SmtpStep => SmtpInv'
<1> SUFFICES ASSUME SmtpInv, SmtpStep PROVE SmtpInv'
  OBVIOUS
<1> USE SmtpAssumption DEF SmtpAssumption, SmtpInv, SmtpTypeOK, ConnectionGuarded
<1>1. CASE Enter
  BY <1>1 DEF Enter
<1>2. CASE Connect
  BY <1>2 DEF Connect
<1>3. CASE DialFails
  BY <1>3 DEF DialFails, Release
<1>4. CASE Transmit
  <2>1. timer' \in 0 .. IdleTimeout /\ timer' > 0 /\ last' \in 0 .. MinInterval
    BY <1>4 DEF Transmit
  <2>2. step' = "none" /\ lock' = FALSE
    BY <1>4 DEF Transmit, Release
  <2>3. conn' = conn /\ closers' = closers
    BY <1>4 DEF Transmit
  <2> QED
    BY <2>1, <2>2, <2>3
<1>5. CASE TransmitFails
  BY <1>5 DEF TransmitFails, Release
<1>6. CASE idleClose
  <2>1. step = "none" /\ step' = step /\ lock' = lock /\ conn' = FALSE
    BY <1>6 DEF idleClose
  <2>2. closers' \in 0 .. MaxClosers
    BY <1>6 DEF idleClose
  <2>3. SmtpTypeOK'
    BY <1>6, <2>1, <2>2 DEF idleClose
  <2> QED
    BY <2>1, <2>3
<1>7. CASE SmtpTick
  BY <1>7 DEF SmtpTick, Expires
<1>8. CASE UNCHANGED smtpVars
  BY <1>8 DEF smtpVars
<1> QED
  BY <1>1, <1>2, <1>3, <1>4, <1>5, <1>6, <1>7, <1>8 DEF SmtpStep

-----------------------------------------------------------------------------
(* Checks: who holds which lock, and what a success was. *)

CheckInv ==
  /\ pc \in [Hosts -> Places]
  /\ answer \in [Hosts -> Outcomes \cup {Nothing}]
  /\ Held(mu, "probe") /\ Held(lock, "send")
  /\ SuccessMeansServed

(* What has no code of an error is an answer; and only answers have texts. *)
LEMMA OtherCodesAnswer ==
  ASSUME NEW type \in HostTypes, NEW o \in Dial(type)
  PROVE  /\ o.code \notin ErrorCodes => o.stage = "answer"
         /\ o.body = "text" => o.stage = "answer"
<1>1. TransportErrors = {522, 523, 521, 503}
  BY DEF TransportErrors, errorCode
<1> USE <1>1 DEF Dial, Fails, Answers, Outcome, ErrorCodes
<1>2. CASE type \in {"mongo", "icmp", "tcp"}
  BY <1>2 DEF mongoCall, icmpCall, tcpCall
<1>3. CASE type \in {"dns", "redis"}
  BY <1>3 DEF dnsCall, redisCall
<1>4. CASE type \in {"sql", "http"}
  BY <1>4 DEF sqlCall, httpCall
<1> QED
  BY <1>2, <1>3, <1>4 DEF HostTypes

LEMMA SuccessServed ==
  ASSUME NEW h \in Hosts, NEW o \in Successes(h)
  PROVE  /\ o \in Outcomes
         /\ o.code \notin ErrorCodes => o.stage = "answer"
         /\ Expect[h] = "text" => o.stage = "answer" /\ o.body = "text"
         /\ Expect[h] = "empty" => o.body \notin {"text", "other"}
  BY OtherCodesAnswer DEF Successes, Outcomes, Status, BodyIs

LEMMA InitCheck == Init => CheckInv
  BY DEF Init, ConnInit, SmtpInit, CheckInv, Held, Places, SuccessMeansServed

LEMMA NextCheck == ConnInv /\ SmtpInv /\ CheckInv /\ [Next]_vars => CheckInv'
<1> SUFFICES ASSUME ConnInv, SmtpInv, CheckInv, [Next]_vars PROVE CheckInv'
  OBVIOUS
<1> USE DEF CheckInv, Goto, Places, SuccessMeansServed, Held
<1>1. ASSUME NEW h \in Hosts, Begin(h) PROVE CheckInv'
  BY <1>1 DEF Begin, connVars, smtpVars
<1>2. ASSUME NEW h \in Hosts, Dialed(h) PROVE CheckInv'
  <2>1. CASE UNCHANGED answer
    BY <1>2, <2>1, SuccessServed DEF Dialed, connVars, smtpVars
  <2>2. ASSUME NEW o \in Successes(h), Goto(h, "success"),
               answer' = [answer EXCEPT ![h] = o]
        PROVE  CheckInv'
    BY <1>2, <2>2, SuccessServed DEF Dialed, connVars, smtpVars
  <2> QED
    BY <1>2, <2>1, <2>2 DEF Dialed
<1>3. ASSUME NEW h \in Hosts, Validate(h) PROVE CheckInv'
  BY <1>3 DEF Validate, connVars, smtpVars
<1>4. ASSUME NEW h \in Hosts, Online(h) PROVE CheckInv'
  <2>1. CASE pc[h] = "failure" /\ Cached /\ Judge(h)
    BY <1>4, <2>1 DEF Online, Cached, Judge, connVars, smtpVars
  <2>2. CASE pc[h] = "failure" /\ Probe /\ Goto(h, "probe")
    BY <1>4, <2>2 DEF Online, Probe, smtpVars
  <2>3. CASE pc[h] = "probe" /\ Probed /\ Judge(h)
    BY <1>4, <2>3 DEF Online, Probed, Judge, smtpVars
  <2> QED
    BY <1>4, <2>1, <2>2, <2>3 DEF Online
<1>5. ASSUME NEW h \in Hosts, Send(h) PROVE CheckInv'
  <2>1. CASE pc[h] = "mail" /\ Enter /\ Goto(h, "send")
    BY <1>5, <2>1 DEF Send, Enter, connVars
  <2>2. CASE pc[h] = "send" /\ Connect /\ UNCHANGED pc
    BY <1>5, <2>2 DEF Send, Connect, connVars
  <2>3. CASE pc[h] = "send" /\ (DialFails \/ Transmit \/ TransmitFails) /\ Goto(h, "idle")
    BY <1>5, <2>3 DEF Send, DialFails, Transmit, TransmitFails, Release, connVars
  <2> QED
    BY <1>5, <2>1, <2>2, <2>3 DEF Send
<1>6. CASE FlipUplink \/ IdleClose \/ Tick \/ UNCHANGED vars
  BY <1>6 DEF FlipUplink, Flip, IdleClose, idleClose, Tick, ConnTick, SmtpTick,
              vars, connVars, smtpVars
<1> QED
  BY <1>1, <1>2, <1>3, <1>4, <1>5, <1>6 DEF Next, Check

-----------------------------------------------------------------------------
IInv == ConnInv /\ SmtpInv /\ CheckInv

LEMMA Invariance == Spec => []IInv
<1>1. Init => IInv
  BY InitConn, InitSmtp, InitCheck DEF IInv
<1>2. IInv /\ [Next]_vars => IInv'
  BY ComponentSteps, NextConn, NextSmtp, NextCheck DEF IInv
<1> QED
  BY <1>1, <1>2, PTL DEF Spec

(* The types, and that at most one check probes and one sends, each exactly *)
(* while its lock is held.                                                  *)
THEOREM NetworkTypes == Spec => []TypeOK
<1>1. IInv => TypeOK
  BY DEF IInv, ConnInv, SmtpInv, CheckInv, TypeOK
<1> QED
  BY <1>1, Invariance, PTL

(* Of all types of hosts, only one that answered is a success, unless the   *)
(* code of an error is accepted; with the text it is asked for, or, asked   *)
(* for an empty body, without one that was kept (pkg/dialer, host.go:76-94).*)
THEOREM OnlyAnswersSucceed == Spec => []SuccessMeansServed
<1>1. IInv => SuccessMeansServed
  BY DEF IInv, CheckInv
<1> QED
  BY <1>1, Invariance, PTL

(* Whatever its timeouts, an open connection has a timer or an idleClose on *)
(* its way, and is open while a message goes over it (smtp.go:98-147).      *)
THEOREM Guarded == Spec => []ConnectionGuarded
<1>1. IInv => ConnectionGuarded
  BY DEF IInv, SmtpInv
<1> QED
  BY <1>1, Invariance, PTL

JudgedStep ==
  \A h \in Hosts : /\ Skipped(h) => FALSE \in Recent
                   /\ Counted(h) => TRUE \in Recent

LEMMA InRecent ==
  ASSUME ConnInv, NEW i \in 0 .. Horizon, NEW v \in trail[i]
  PROVE  v \in Recent
  BY DEF Recent

(* Only a check that asks is judged, and by the verdict that Online has. *)
LEMMA JudgedByOnline ==
  ASSUME IInv, [Next]_vars, NEW h \in Hosts, Skipped(h) \/ Counted(h)
  PROVE  /\ Cached \/ Probed
         /\ Skipped(h) => online' = FALSE
         /\ Counted(h) => online' = TRUE
<1> USE DEF IInv, CheckInv, Skipped, Counted, Goto, ConnInv, ConnTypeOK
<1>1. ASSUME NEW g \in Hosts, Begin(g) \/ Dialed(g) \/ Validate(g) PROVE FALSE
  BY <1>1 DEF Begin, Dialed, Validate
<1>2. ASSUME NEW g \in Hosts, Send(g) PROVE FALSE
  BY <1>2 DEF Send
<1>3. CASE FlipUplink \/ IdleClose \/ Tick \/ UNCHANGED vars
  BY <1>3 DEF FlipUplink, IdleClose, Tick, vars
<1>4. ASSUME NEW g \in Hosts, Online(g)
      PROVE  /\ Cached \/ Probed
             /\ Skipped(h) => online' = FALSE
             /\ Counted(h) => online' = TRUE
  <2>1. g = h
    BY <1>4 DEF Online, Judge
  <2>2. (Cached \/ Probed) /\ Judge(h)
    BY <1>4, <2>1 DEF Online
  <2>3. online' \in BOOLEAN
    BY <2>2 DEF Cached, Probed, connVars
  <2> QED
    BY <2>2, <2>3 DEF Judge
<1> QED
  BY <1>1, <1>2, <1>3, <1>4 DEF Next, Check

LEMMA JudgedInStep == IInv /\ [Next]_vars => JudgedStep
<1> SUFFICES ASSUME IInv, [Next]_vars, NEW h \in Hosts, Skipped(h) \/ Counted(h)
             PROVE  online' \in Recent
  BY JudgedByOnline DEF JudgedStep
<1> USE ConnectivityAssumption DEF ConnectivityAssumption, IInv, ConnInv, ConnTypeOK, Horizon
<1>1. CASE Cached
  <2>1. PICK i \in 0 .. age + Timeout : online \in trail[i]
    BY <1>1 DEF Cached, Fresh
  <2>2. i \in 0 .. Horizon /\ online' = online
    BY <1>1, <2>1 DEF Cached, Fresh, connVars
  <2> QED
    BY <2>1, <2>2, InRecent
<1>2. CASE Probed
  <2>1. PICK i \in 0 .. begun : online' \in trail[i]
    BY <1>2 DEF Probed
  <2>2. i \in 0 .. Horizon
    BY <2>1
  <2> QED
    BY <2>1, <2>2, InRecent
<1> QED
  BY <1>1, <1>2, JudgedByOnline

(* However long verdicts are kept and probes take: a failure is judged by   *)
(* what the uplink was within that time (connectivity.go:66-80).            *)
THEOREM RecentVerdicts == Spec => JudgedRecently
<1>1. IInv /\ [Next]_vars => [JudgedStep]_vars
  BY JudgedInStep
<1> QED
  BY <1>1, Invariance, PTL DEF Spec, JudgedRecently, JudgedStep

=============================================================================
