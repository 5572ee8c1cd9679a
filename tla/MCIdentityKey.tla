---------------------------- MODULE MCIdentityKey ----------------------------
(* A small instance of IdentityKey: three hooks start at once. *)
EXTENDS IdentityKey

CONSTANTS h1, h2, h3

MCHooks == {h1, h2, h3}

=============================================================================
