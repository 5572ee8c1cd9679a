---------------------------- MODULE MCEventStore ----------------------------
(* Two hook processes are enough for any pair of records to be appended    *)
(* against the order of their stamps; hooks and sessions are each          *)
(* interchangeable.                                                        *)
EXTENDS EventStore, TLC

CONSTANTS s1, s2, h1, h2, hint1

TwoSessions == {s1, s2}
TwoHooks == {h1, h2}
OneHint == {hint1}

FullSymmetry == Permutations(TwoHooks) \cup Permutations(TwoSessions)
=============================================================================
