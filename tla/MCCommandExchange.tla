------------------------- MODULE MCCommandExchange -------------------------
(* A request longer than its pipe and an output that can exceed the cap.   *)
EXTENDS CommandExchange
=============================================================================
