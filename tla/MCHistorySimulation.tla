------------------------- MODULE MCHistorySimulation -------------------------
(* A session of each harness; the period 2 .. 5 with a TTL of 2 has room   *)
(* for a gap, for ends on both of its edges, and for a record after it.    *)
EXTENDS HistorySimulation

TwoFiles == <<"codex", "pi">>

=============================================================================
