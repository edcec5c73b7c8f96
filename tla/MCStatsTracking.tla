-------------------------- MODULE MCStatsTracking --------------------------
(* The top repository and one other, one blob of two bytes, two requests   *)
(* at a time and four calls in all: enough for a save, and for a deletion  *)
(* and a second save to fall between the steps of another deletion.        *)
EXTENDS StatsTracking

MCSize == [b \in Blob |-> 2]
=============================================================================
