--------------------------- MODULE MCStatsCounter ---------------------------
(* Small instances of StatsCounter for TLC.                                *)
EXTENDS StatsCounter

=============================================================================
