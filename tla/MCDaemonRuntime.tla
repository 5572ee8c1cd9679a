--------------------------- MODULE MCDaemonRuntime ---------------------------
(* Two harnesses, with one session each or two of either: a change of the  *)
(* count alone, and one of neither count nor set.  A phrase that comes or  *)
(* goes is a change that the debouncer admits at once.                     *)
EXTENDS DaemonRuntime

CONSTANTS pi, codex, phrase

TwoHarnesses == {pi, codex}
OnePhrase == {phrase}
FourCrowds ==
    {[crew |-> c, context |-> None] :
        c \in {<<codex, pi>>, <<codex, codex, pi>>, <<codex, pi, pi>>}}
      \cup {[crew |-> <<codex, pi>>, context |-> phrase]}
=============================================================================
