------------------------- MODULE MCDiscordPublisher -------------------------
(* Two payloads (so that a change of status differs from a duplicate) and  *)
(* a clock with three instants (so that a renewed start is visible).       *)
EXTENDS DiscordPublisher

CONSTANTS p1, p2
MCPresences == {p1, p2}
=============================================================================
