---------------------------- MODULE MCPiExtension ----------------------------
(* A small instance of PiExtension: timers of 1 s and 1.5 s in units of    *)
(* half a second, two sessions of one process.                             *)
EXTENDS PiExtension
=============================================================================
