---------------------------- MODULE MCHistoryFile ----------------------------
(* Two daemons and a preview; a history of another version can be longer   *)
(* than the limit, and the texts do not run out.                           *)
EXTENDS HistoryFile, TLC

Symmetry == Permutations(Daemons) \cup Permutations(Texts)

=============================================================================
