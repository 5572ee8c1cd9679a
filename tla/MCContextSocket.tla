--------------------------- MODULE MCContextSocket ---------------------------
(* A small instance of ContextSocket: three daemons and one foreign owner. *)
EXTENDS ContextSocket

CONSTANTS d1, d2, d3

MCDaemons == {d1, d2, d3}

=============================================================================
