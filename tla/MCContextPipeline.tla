------------------------- MODULE MCContextPipeline -------------------------
(* Three turns against queue, wire and window of two. *)
EXTENDS ContextPipeline

CONSTANTS t1, t2, t3

MCTurns == {t1, t2, t3}

=============================================================================
