------------------------------ MODULE Network ------------------------------
(***************************************************************************)
(* One notifier and one connectivity checker, as long as no reload         *)
(* replaces them, and the checks that use them: from the outcome of a dial *)
(* over the connectivity to a mail (watcher.check).  What a verdict does   *)
(* to the status is in Watcher; here any verdict may have to be announced. *)
(***************************************************************************)
EXTENDS Protocols, Connectivity, Smtp

CONSTANTS
  Hosts,
  Expect,  \* Expect[h]: what a host wants of the body
  Nothing

ASSUME NetworkAssumption ==
  /\ Expect \in [Hosts -> Expectations]
  /\ \A type \in HostTypes : Nothing \notin Dial(type)
  /\ MinInterval < IdleTimeout

VARIABLES
  pc,     \* where the check of a host stands
  answer  \* history variable: the outcome of a check that is a success

vars == <<pc, answer, connVars, smtpVars>>

Goto(h, place) == pc' = [pc EXCEPT ![h] = place]

Init ==
  /\ pc = [h \in Hosts |-> "idle"] /\ answer = [h \in Hosts |-> Nothing]
  /\ ConnInit /\ SmtpInit

Begin(h) ==
  /\ pc[h] = "idle" /\ Goto(h, "dial")
  /\ UNCHANGED <<answer, connVars, smtpVars>>

(* The type and with it the outcome can be any: a reload may change a host. *)
Outcomes == UNION {Dial(type) : type \in HostTypes}
Successes(h) == {o \in Outcomes : Status(o, Expect[h])}

Dialed(h) ==
  /\ pc[h] = "dial"
  /\ \/ \E o \in Successes(h) :
          Goto(h, "success") /\ answer' = [answer EXCEPT ![h] = o]
     \/ Successes(h) # Outcomes /\ Goto(h, "failure") /\ UNCHANGED answer
  /\ UNCHANGED <<connVars, smtpVars>>

(* A failure without a connection is not counted. *)
Judge(h) == Goto(h, IF online' THEN "counted" ELSE "idle")

Online(h) ==
  /\ \/ pc[h] = "failure" /\ Cached /\ Judge(h)
     \/ pc[h] = "failure" /\ Probe /\ Goto(h, "probe")
     \/ pc[h] = "probe" /\ Probed /\ Judge(h)
  /\ UNCHANGED <<answer, smtpVars>>

(* The verdict is recorded, and announced when it changes the status. *)
Validate(h) ==
  /\ pc[h] \in {"success", "counted"}
  /\ \/ Goto(h, "mail")
     \/ Goto(h, "idle")
  /\ answer' = [answer EXCEPT ![h] = Nothing]
  /\ UNCHANGED <<connVars, smtpVars>>

Send(h) ==
  /\ \/ pc[h] = "mail" /\ Enter /\ Goto(h, "send")
     \/ pc[h] = "send" /\ Connect /\ UNCHANGED pc
     \/ pc[h] = "send" /\ DialFails /\ Goto(h, "idle")
     \/ pc[h] = "send" /\ Transmit /\ Goto(h, "idle")
     \/ pc[h] = "send" /\ TransmitFails /\ Goto(h, "idle")
  /\ UNCHANGED <<answer, connVars>>

Check(h) == Dialed(h) \/ Online(h) \/ Validate(h) \/ Send(h)

FlipUplink == Flip /\ UNCHANGED <<pc, answer, smtpVars>>

IdleClose == idleClose /\ UNCHANGED <<pc, answer, connVars>>

Tick == ConnTick /\ SmtpTick /\ UNCHANGED <<pc, answer>>

Next ==
  \/ \E h \in Hosts : Begin(h) \/ Check(h)
  \/ FlipUplink
  \/ IdleClose
  \/ Tick

(* Dials, probes and messages have timeouts; a goroutine that waits for a   *)
(* mutex gets it in the end, for Go hands a mutex over to one that waited.  *)
Fairness ==
  /\ \A h \in Hosts : SF_vars(Check(h))
  /\ SF_vars(IdleClose)
  /\ WF_vars(Tick)

Spec == Init /\ [][Next]_vars /\ Fairness

-----------------------------------------------------------------------------
(* Properties. *)

Places == {"idle", "dial", "failure", "probe", "success", "counted", "mail", "send"}

Held(by, place) ==
  /\ by <=> \E h \in Hosts : pc[h] = place
  /\ \A g, h \in Hosts : pc[g] = place /\ pc[h] = place => g = h

(* Types, and that each lock is held by one check exactly when it is held. *)
TypeOK ==
  /\ pc \in [Hosts -> Places]
  /\ answer \in [Hosts -> Outcomes \cup {Nothing}]
  /\ ConnTypeOK /\ SmtpTypeOK
  /\ Held(mu, "probe") /\ Held(lock, "send")

(* The codes that the checks give to errors. *)
ErrorCodes == {0, 400, 401, 404, 417, 500, 502, 503, 521, 522, 523, 525}

(* A check is a success only when the host answered, whatever went wrong at *)
(* which stage of whose protocol, unless the configuration accepts the code *)
(* of the error; and one that asks for a text is a success only with that   *)
(* text in an answer.  One that asks for an empty body is not with a body   *)
(* that was kept; but it is with one that was too long or cut, which is not *)
(* what host.go:74 says (pkg/dialer/*.go, http.go:83-90, host.go:76-94).    *)
SuccessMeansServed ==
  \A h \in Hosts : pc[h] = "success" =>
    /\ answer[h].code \notin ErrorCodes => answer[h].stage = "answer"
    /\ Expect[h] = "text" => answer[h].stage = "answer" /\ answer[h].body = "text"
    /\ Expect[h] = "empty" => answer[h].body \notin {"text", "other"}

Skipped(h) == pc[h] \in {"failure", "probe"} /\ pc'[h] = "idle"
Counted(h) == pc[h] \in {"failure", "probe"} /\ pc'[h] = "counted"

(* A failure is left out only if the uplink was down, and counted only if   *)
(* it was up, within the time a verdict is kept and a probe takes: so long  *)
(* a host can go down, or an outage be skipped, by mistake                  *)
(* (watcher.go:194-201, connectivity.go:58-82).                             *)
JudgedRecently ==
  [][\A h \in Hosts : /\ Skipped(h) => FALSE \in Recent
                      /\ Counted(h) => TRUE \in Recent]_vars

(* The connection that is kept always has someone to close it, and never    *)
(* goes away under a message, though the timer may expire at any time of a  *)
(* send and several idleClose may wait (smtp.go:98-105, 117-147).           *)
ConnectionGuarded ==
  /\ conn => timer > 0 \/ closers > 0
  /\ step = "transmit" => conn

(* When the uplink stays up, failures do not go on being skipped because of *)
(* an older verdict (connectivity.go:66-80).                                *)
FailuresCount ==
  \A h \in Hosts :
    <>[]uplink /\ []<>(pc[h] = "failure") => []<>(pc[h] = "counted")

(* A check comes to its end although the probe, the limit of the rate and   *)
(* the connection are shared under locks with the other hosts and the timer *)
(* (watcher.go:173-234, connectivity.go:63, smtp.go:50).                    *)
ChecksReturn == \A h \in Hosts : pc[h] = "dial" ~> pc[h] = "idle"

=============================================================================
