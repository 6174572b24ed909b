---------------------------- MODULE IncidentLog ----------------------------
(***************************************************************************)
(* What the incident log of one host promises to whoever reads it (the    *)
(* status page, /api/incidents): outages do not overlap.  An outage is    *)
(* opened only when the previous ones are over, and only the newest one   *)
(* is ever ended (EndTS set) or, when it was a blip, deleted.             *)
(*                                                                         *)
(* Watcher.tla implements this specification; nothing of the check loop,  *)
(* of reloads or of crashes is visible here.                              *)
(***************************************************************************)
EXTENDS Naturals, Sequences

VARIABLE log \* the incidents, oldest first: TRUE while EndTS is nil

NewestOpen == Len(log) > 0 /\ log[Len(log)]

Init == log \in Seq(BOOLEAN) /\ \A i \in 1 .. Len(log) : ~log[i]

(* A new outage begins. *)
Open == ~NewestOpen /\ log' = Append(log, TRUE)

(* The outage is over: it stays in the log as a closed incident. *)
Close == NewestOpen /\ log' = [log EXCEPT ![Len(log)] = FALSE]

(* The outage lasted a second or less: it is dropped from the log. *)
Drop == NewestOpen /\ log' = SubSeq(log, 1, Len(log) - 1)

Next == Open \/ Close \/ Drop

Spec == Init /\ [][Next]_log

=============================================================================
