---------------------------- MODULE PresenceBoard ----------------------------
(***************************************************************************)
(* What a publisher promises to the person looking at Discord: the         *)
(* abstract specification that DiscordPublisher implements.                *)
(*                                                                         *)
(* There is one board.  It is empty or it shows a presence together with   *)
(* the start of the current publication window (the elapsed-time start).   *)
(* A window opens while the board is empty, every presence shown until it  *)
(* closes carries its start, and it closes only when presence is withdrawn.*)
(* The board goes dark at any moment, because Discord or the connection to *)
(* it goes away.                                                           *)
(***************************************************************************)
CONSTANTS
    Presences,      \* the payloads that can be published
    Instants,       \* the clock readings a window can start at
    None            \* no presence, an empty board, no window

VARIABLES
    wanted,         \* the presence last asked for, None once withdrawn
    window,         \* the start of the publication window, or None
    visible         \* what the board shows: None or [presence, start]

boardVars == <<wanted, window, visible>>

Init ==
    /\ wanted = None
    /\ window = None
    /\ visible = None

(* The caller asks for p; nothing is shown yet. *)
Ask(p) ==
    /\ wanted' = p
    /\ UNCHANGED <<window, visible>>

(* Presence is withdrawn: the window may close and the board may go dark. *)
Withdraw ==
    /\ wanted' = None
    /\ window' \in {window, None}
    /\ visible' \in {visible, None}

(* A window opens: only for a wanted presence, and only on an empty board. *)
OpenWindow(t) ==
    /\ wanted # None
    /\ window = None
    /\ visible = None
    /\ window' = t
    /\ UNCHANGED <<wanted, visible>>

(* The wanted presence, and no other, appears with the window's start. *)
Show ==
    /\ wanted # None
    /\ window # None
    /\ visible' = [presence |-> wanted, start |-> window]
    /\ UNCHANGED <<wanted, window>>

Hide ==
    /\ visible' = None
    /\ UNCHANGED <<wanted, window>>

Next ==
    \/ \E p \in Presences : Ask(p)
    \/ Withdraw
    \/ \E t \in Instants : OpenWindow(t)
    \/ Show
    \/ Hide

Spec == Init /\ [][Next]_boardVars

=============================================================================
