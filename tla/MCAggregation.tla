--------------------------- MODULE MCAggregation ---------------------------
(* A small instance of Aggregation, and of Stats over it, for TLC. *)
EXTENDS Stats

CONSTANTS a, b

(* Bolt keeps seconds: tick 1 falls in the second of midnight.              *)
Seconds == [t \in 0 .. MaxTick |-> t \div 2]

MostResponses == [h \in Hosts |-> IF h = a THEN 2 ELSE 1]

(* The two later ticks of a day can be unknown and up, or down and unknown; *)
(* a day with one check of each kind is degraded.                           *)
Verdicts ==
  [ts \in Stamps |-> CASE (ts[1] + ts[2]) % 3 = 0 -> "up"
                       [] (ts[1] + ts[2]) % 3 = 1 -> "down"
                       [] OTHER -> "unknown"]

=============================================================================
