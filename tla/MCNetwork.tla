----------------------------- MODULE MCNetwork -----------------------------
(* A small instance of Network for TLC. *)
EXTENDS Network

CONSTANTS a, b

Expected == [h \in Hosts |-> IF h = a THEN "text" ELSE "empty"]

=============================================================================
