------------------------- MODULE MCAccountSelection -------------------------
(* Three endpoints: one can fail while two reach the wanted account. *)
EXTENDS AccountSelection
=============================================================================
