----------------------------- MODULE HistoryFile -----------------------------
(***************************************************************************)
(* generation.py and daemon.py: the message history, a JSON file that      *)
(* every continuous daemon, every daemon --once and every preview of an    *)
(* account reads, extends and replaces, without a lock.  The daemons also  *)
(* move an unreadable history aside when they start.                       *)
(*                                                                         *)
(* An entry is its public text.  Processes stop anywhere; a file that is   *)
(* written by another version or by hand appears anywhere.                 *)
(***************************************************************************)
EXTENDS Integers, Sequences

CONSTANTS
    Daemons,     \* processes of the daemon command without --once
    Commands,    \* processes of preview and of daemon --once
    Texts,       \* public texts, up to case
    Limit,       \* history_limit
    MaxForeign,  \* bound on the length of a history of another origin
    None

ASSUME HistoryAssumption ==
    /\ Limit \in Nat \ {0} /\ MaxForeign \in Nat
    /\ None \notin Texts
    /\ Daemons \cap Commands = {}

Processes == Daemons \cup Commands

VARIABLES
    kind,       \* is the file missing, valid, or invalid?
    file,       \* the texts of a valid file, oldest first
    step,       \* where each process is
    loaded,     \* the history it loaded
    text,       \* the text it generated
    raced,      \* did another write since it looked at the file? (ghost)
    ours        \* was the file written by a process of this version? (ghost)

local == <<step, loaded, text>>
vars == <<kind, file, local, raced, ours>>

Distinct(s) == \A i, j \in 1 .. Len(s) : s[i] = s[j] => i = j
Histories == {s \in Seq(Texts) : Distinct(s)}

(* The steps of quarantine_invalid_history and of refresh. *)
Steps == {"off", "checking", "suspecting", "idle", "reading", "generating", "saving"}

TypeOK ==
    /\ kind \in {"missing", "valid", "invalid"}
    /\ file \in Seq(Texts)
    /\ step \in [Processes -> Steps]
    /\ loaded \in [Processes -> Seq(Texts)]
    /\ text \in [Processes -> Texts \cup {None}]
    /\ raced \in [Processes -> BOOLEAN]
    /\ ours \in BOOLEAN

Init ==
    /\ kind = "missing" /\ file = <<>>
    /\ step = [p \in Processes |-> IF p \in Daemons THEN "off" ELSE "idle"]
    /\ loaded = [p \in Processes |-> <<>>]
    /\ text = [p \in Processes |-> None]
    /\ raced = [p \in Processes |-> FALSE]
    /\ ours = TRUE

Goes(p, to) == step' = [step EXCEPT ![p] = to]

(* From here on p relies on what it saw of the file. *)
Looks(p) == raced' = [raced EXCEPT ![p] = FALSE]

(* p has no more use for what it saw. *)
Drops(p) == loaded' = [loaded EXCEPT ![p] = <<>>] /\ text' = [text EXCEPT ![p] = None]

Leaves(p, to) == Goes(p, to) /\ Drops(p) /\ Looks(p)

(* The file changed under those in P that rely on it. *)
Wrote(P) == raced' = [q \in Processes |-> q \in P /\ step[q] \notin {"off", "idle"}]

-----------------------------------------------------------------------------
(* quarantine_invalid_history, when a continuous daemon starts *)

StartDaemon(p) ==
    /\ step[p] = "off"
    /\ Goes(p, "checking") /\ Looks(p)
    /\ UNCHANGED <<kind, file, loaded, text, ours>>

Check(p) ==
    /\ step[p] = "checking"
    /\ Goes(p, IF kind = "invalid" THEN "suspecting" ELSE "idle")
    /\ Looks(p)
    /\ UNCHANGED <<kind, file, loaded, text, ours>>

(* path.replace moves what is there by now; nothing there is no error. *)
Quarantine(p) ==
    /\ step[p] = "suspecting"
    /\ Goes(p, "idle") /\ Drops(p)
    /\ IF kind = "missing" THEN Looks(p) ELSE Wrote(Processes \ {p})
    /\ kind' = "missing" /\ file' = <<>>
    /\ UNCHANGED ours

(* OSError: the file cannot be moved, and the daemon does not start. *)
QuarantineFails(p) ==
    /\ step[p] = "suspecting" /\ kind # "missing"
    /\ Leaves(p, "off")
    /\ UNCHANGED <<kind, file, ours>>

-----------------------------------------------------------------------------
(* refresh *)

(* Mutant of Window: the oldest entries are the ones kept. *)
WindowOldest(s) == SubSeq(s, 1, IF Len(s) > Limit THEN Limit ELSE Len(s))

(* s[-limit:]. *)
Window(s) == SubSeq(s, IF Len(s) > Limit THEN Len(s) - Limit + 1 ELSE 1, Len(s))

(* path.exists(): without a file the history is empty. *)
Look(p) ==
    /\ step[p] = "idle"
    /\ Goes(p, IF kind = "missing" THEN "generating" ELSE "reading")
    /\ Drops(p) /\ Looks(p)
    /\ UNCHANGED <<kind, file, ours>>

Load(p) ==
    /\ step[p] = "reading" /\ kind = "valid"
    /\ Goes(p, "generating")
    /\ loaded' = [loaded EXCEPT ![p] = Window(file)]
    /\ Looks(p)
    /\ UNCHANGED <<kind, file, text, ours>>

(* An unreadable file, or one that was moved since: the refresh fails. *)
LoadFails(p) ==
    /\ step[p] = "reading" /\ kind # "valid"
    /\ Leaves(p, "idle")
    /\ UNCHANGED <<kind, file, ours>>

(* The latest entry still serves, or no text was generated: nothing is     *)
(* written, whether the entry is shown, a fallback, or an error.           *)
KeepHistory(p) ==
    /\ step[p] = "generating"
    /\ Leaves(p, "idle")
    /\ UNCHANGED <<kind, file, ours>>

(* _parse_state refuses a text that is in the history it was given. *)
Generate(p, t) ==
    /\ step[p] = "generating"
    /\ \A i \in 1 .. Len(loaded[p]) : loaded[p][i] # t
    /\ Goes(p, "saving")
    /\ text' = [text EXCEPT ![p] = t]
    /\ UNCHANGED <<kind, file, loaded, raced, ours>>

(* Mutant of Save: the entry is appended to the file as it is now. *)
SaveAnew(p) ==
    /\ step[p] = "saving"
    /\ Goes(p, "idle") /\ Drops(p)
    /\ kind' = "valid" /\ ours' = TRUE
    /\ file' = Window(Append(file, text[p]))
    /\ Wrote(Processes \ {p})

(* save_history([*history, generated]): a synced temporary file takes the  *)
(* place of the history, whatever it is by now.                            *)
Save(p) ==
    /\ step[p] = "saving"
    /\ Goes(p, "idle") /\ Drops(p)
    /\ kind' = "valid" /\ ours' = TRUE
    /\ file' = Window(Append(loaded[p], text[p]))
    /\ Wrote(Processes \ {p})

(* OSError before the replacement: the temporary file is removed. *)
SaveFails(p) ==
    /\ step[p] = "saving"
    /\ Leaves(p, "idle")
    /\ UNCHANGED <<kind, file, ours>>

(* The process stops, by itself or killed, at any step. *)
Stop(p) ==
    /\ step[p] # "off"
    /\ Leaves(p, IF p \in Daemons THEN "off" ELSE "idle")
    /\ UNCHANGED <<kind, file, ours>>

-----------------------------------------------------------------------------
(* Another version leaves a history this one cannot read, or one of its    *)
(* own limit.  It is assumed to refuse duplicates as this one does:        *)
(* load_history would not notice any.                                      *)
ForeignFile ==
    /\ \/ kind' = "invalid" /\ file' = <<>>
       \/ /\ kind' = "valid"
          /\ \E n \in 0 .. MaxForeign : file' \in [1 .. n -> Texts]
          /\ Distinct(file')
    /\ ours' = FALSE
    /\ Wrote(Processes)
    /\ UNCHANGED local

ProcessStep(p) ==
    \/ StartDaemon(p) \/ Check(p) \/ Quarantine(p) \/ QuarantineFails(p)
    \/ Look(p) \/ Load(p) \/ LoadFails(p) \/ KeepHistory(p)
    \/ \E t \in Texts : Generate(p, t)
    \/ Save(p) \/ SaveFails(p) \/ Stop(p)

Next == ForeignFile \/ \E p \in Processes : ProcessStep(p)

Spec == Init /\ [][Next]_vars

-----------------------------------------------------------------------------
(* However the reads, generations and saves of several processes fall, the *)
(* history never says the same thing twice and, once one of them saved,    *)
(* stays within its limit: an entry is checked against the same snapshot   *)
(* it is saved with (generation.py:635-643, 735-759, daemon.py:224-232).   *)
HistoryIsSound ==
    /\ Distinct(file)
    /\ ours => Len(file) <= Limit
    /\ kind # "valid" => file = <<>>

(* A process loses no entry of its own accord: a save keeps all the file   *)
(* had but the oldest beyond the limit, and a quarantine moves no readable *)
(* history, unless another process wrote since this one looked             *)
(* (generation.py:682-691, 712, 746, daemon.py:169, 232).                  *)
OnlyOverlapLoses ==
    [][\A p \in Processes :
          /\ Save(p) /\ ~raced[p] =>
               /\ file'[Len(file')] = text[p]
               /\ Len(file') = IF Len(file) < Limit THEN Len(file) + 1 ELSE Limit
               /\ \A i \in 1 .. Len(file') - 1 :
                    file'[i] = file[Len(file) - Len(file') + 1 + i]
          /\ Quarantine(p) /\ ~raced[p] => kind = "invalid"]_vars

=============================================================================
