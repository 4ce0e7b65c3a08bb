--------------------------- MODULE MCStatsThread ---------------------------
(* Small instances of StatsThread for TLC. *)
EXTENDS StatsThread
=============================================================================
