--------------------------- MODULE MCStatsCache ---------------------------
(* A small instance of StatsCache for TLC. *)
EXTENDS StatsCache, TLC

=============================================================================
