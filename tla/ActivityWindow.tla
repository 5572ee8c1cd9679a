--------------------------- MODULE ActivityWindow ---------------------------
(***************************************************************************)
(* generation.py: the rolling window of admitted public activity, as       *)
(* save_candid_status and remove_candid_status keep it.  The file is a     *)
(* list written from a dict: an entry that is updated keeps its place, a   *)
(* new one goes to the end, and the front is cut off beyond the limit.     *)
(*                                                                         *)
(* Entries are [turn, phase, seen]: the public text is a function of the   *)
(* save, so the instant of the save ("seen") stands for it.                *)
(***************************************************************************)
EXTENDS Naturals, Sequences, SequencesExt

CONSTANTS
    WindowTurns,    \* turns that activity can belong to
    WindowLimit     \* Settings.activity_window_limit

ASSUME WindowLimitAssumption == WindowLimit \in Nat \ {0}

WindowPhases == {"provisional", "settled"}
Activities == [turn : WindowTurns, phase : WindowPhases, seen : Nat]

(* What load_candid_statuses returns: one entry a turn, up to the limit. *)
IsWindow(w) ==
    /\ w \in Seq(Activities) /\ Len(w) <= WindowLimit
    /\ \A i, k \in DOMAIN w : w[i].turn = w[k].turn => i = k

PlaceOf(w, t) == {i \in DOMAIN w : w[i].turn = t}
InWindow(w, t) == PlaceOf(w, t) # {}
IsSettledIn(w, t) == \E i \in PlaceOf(w, t) : w[i].phase = "settled"

(* _write_candid_statuses keeps the last entries: entries[-limit:]. *)
Kept(w) ==
    IF Len(w) > WindowLimit
    THEN SubSeq(w, Len(w) - WindowLimit + 1, Len(w)) ELSE w

(* items[key] = activity, for a dict in order of insertion. *)
Upserted(w, a) ==
    IF InWindow(w, a.turn)
    THEN [i \in DOMAIN w |-> IF w[i].turn = a.turn THEN a ELSE w[i]]
    ELSE Append(w, a)

(* Mutant of Saved: a late provisional summary replaces the completion. *)
SavedAnyway(w, a) == Kept(Upserted(w, a))

(* Mutant of Saved: the window is never cut. *)
SavedUncut(w, a) ==
    IF a.phase = "provisional" /\ IsSettledIn(w, a.turn) THEN w
    ELSE Upserted(w, a)

(* save_candid_status: provisional activity never replaces settled. *)
Saved(w, a) ==
    IF a.phase = "provisional" /\ IsSettledIn(w, a.turn) THEN w
    ELSE Kept(Upserted(w, a))

(* remove_candid_status takes the one entry of a rejected turn out:        *)
(* items.pop(key, None).                                                   *)
Removed(w, t) ==
    IF InWindow(w, t) THEN RemoveAt(w, CHOOSE i \in PlaceOf(w, t) : TRUE) ELSE w

=============================================================================
