------------------------------- MODULE OneKey -------------------------------
(***************************************************************************)
(* What identity.py promises its hooks: there is one local key.  It is     *)
(* chosen once, and whoever learns a key learns that one, so that equal    *)
(* session names give equal digests in every process.                      *)
(***************************************************************************)
CONSTANTS
    Hooks,          \* processes that digest a session name
    None            \* no key

VARIABLES
    chosen,         \* the hook whose random key is the local key
    learned         \* the key each hook has returned

Init == chosen = None /\ learned = [h \in Hooks |-> None]

Choose(h) == chosen = None /\ chosen' = h /\ UNCHANGED learned

Learn(h) ==
    /\ chosen # None /\ learned[h] = None
    /\ learned' = [learned EXCEPT ![h] = chosen]
    /\ UNCHANGED chosen

Next == \E h \in Hooks : Choose(h) \/ Learn(h)

Spec == Init /\ [][Next]_<<chosen, learned>>

=============================================================================
