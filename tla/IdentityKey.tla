----------------------------- MODULE IdentityKey -----------------------------
(***************************************************************************)
(* identity.py: hook processes that start at once read or create the one   *)
(* key file.  Creation is exclusive but not atomic: the file is there,     *)
(* empty and then partial, before its key is complete, and its creator may *)
(* fail or die in between.  Readers try again a bounded number of times    *)
(* and never make a key of their own.                                      *)
(*                                                                         *)
(* A key is named by the hook that drew it; the file holds a prefix of it. *)
(***************************************************************************)
EXTENDS Naturals

CONSTANTS
    Hooks,          \* processes that digest a session name
    NoKey,          \* no file, no key
    KeyBytes,       \* _KEY_BYTES
    Retries         \* _CREATION_RETRIES

ASSUME NoneAssumption ==
    NoKey \notin Hooks /\ NoKey \notin [owner : Hooks, size : 0 .. KeyBytes]
ASSUME SizeAssumption == KeyBytes \in Nat \ {0} /\ Retries \in Nat \ {0}

KeySteps == {"read", "create", "write", "sync", "retry", "done", "failed", "dead"}
Ended == {"done", "failed", "dead"}

VARIABLES
    keyFile,        \* identity.key: NoKey, or whose key and how much of it
    hookStep,       \* where each hook is
    tries,          \* reads left to _read_created_key
    result          \* the key each hook returned

keyVars == <<keyFile, hookStep, tries, result>>

Files == [owner : Hooks, size : 0 .. KeyBytes]

KeyTypeOK ==
    /\ keyFile \in Files \cup {NoKey}
    /\ hookStep \in [Hooks -> KeySteps]
    /\ tries \in [Hooks -> 0 .. Retries]
    /\ result \in [Hooks -> Hooks \cup {NoKey}]
    /\ \A h \in Hooks : result[h] # NoKey <=> hookStep[h] = "done"

KeyInit ==
    /\ keyFile = NoKey
    /\ hookStep = [h \in Hooks |-> "read"]
    /\ tries = [h \in Hooks |-> Retries]
    /\ result = [h \in Hooks |-> NoKey]

Complete == keyFile # NoKey /\ keyFile.size = KeyBytes
Goto(h, s) == hookStep' = [hookStep EXCEPT ![h] = s]
Return(h, key) == Goto(h, "done") /\ result' = [result EXCEPT ![h] = key]

-----------------------------------------------------------------------------
(* _load_or_create_key reads first. *)
ReadComplete(h) ==
    /\ hookStep[h] = "read" /\ Complete
    /\ Return(h, keyFile.owner)
    /\ UNCHANGED <<keyFile, tries>>

ReadMissing(h) ==
    /\ hookStep[h] = "read" /\ keyFile = NoKey
    /\ Goto(h, "create")
    /\ UNCHANGED <<keyFile, tries, result>>

(* A key of the wrong size, or a failing read, leads to the bounded retry. *)
ReadInvalid(h) ==
    /\ hookStep[h] = "read" /\ keyFile # NoKey
    /\ Goto(h, "retry")
    /\ UNCHANGED <<keyFile, tries, result>>

(* O_CREAT | O_EXCL *)
Create(h) ==
    /\ hookStep[h] = "create" /\ keyFile = NoKey
    /\ keyFile' = [owner |-> h, size |-> 0]
    /\ Goto(h, "write")
    /\ UNCHANGED <<tries, result>>

(* Mutant of CreateLost: the loser uses the key it drew itself. *)
CreateLostOwnKey(h) ==
    /\ hookStep[h] = "create" /\ keyFile # NoKey
    /\ Return(h, h)
    /\ UNCHANGED <<keyFile, tries>>

CreateLost(h) ==
    /\ hookStep[h] = "create" /\ keyFile # NoKey
    /\ Goto(h, "retry")
    /\ UNCHANGED <<keyFile, tries, result>>

(* Mutant of Write: one os.write is taken to have written everything. *)
WriteOnce(h) ==
    /\ hookStep[h] = "write"
    /\ \E size \in 1 .. KeyBytes : keyFile' = [keyFile EXCEPT !.size = size]
    /\ Goto(h, "sync")
    /\ UNCHANGED <<tries, result>>

(* _write_all goes on until every byte is written. *)
Write(h) ==
    /\ hookStep[h] = "write"
    /\ \E size \in keyFile.size + 1 .. KeyBytes :
          /\ keyFile' = [keyFile EXCEPT !.size = size]
          /\ Goto(h, IF size = KeyBytes THEN "sync" ELSE "write")
    /\ UNCHANGED <<tries, result>>

Sync(h) ==
    /\ hookStep[h] = "sync"
    /\ Return(h, h)
    /\ UNCHANGED <<keyFile, tries>>

(* fchmod, write or fsync fails: the file stays as it is. *)
CreationFails(h) ==
    /\ hookStep[h] \in {"write", "sync"}
    /\ Goto(h, "failed")
    /\ UNCHANGED <<keyFile, tries, result>>

RetryComplete(h) ==
    /\ hookStep[h] = "retry" /\ tries[h] > 0 /\ Complete
    /\ Return(h, keyFile.owner)
    /\ tries' = [tries EXCEPT ![h] = @ - 1]
    /\ UNCHANGED keyFile

(* Mutant of RetryInvalid: the attempts are not counted. *)
RetryUncounted(h) ==
    /\ hookStep[h] = "retry" /\ tries[h] > 0 /\ ~Complete
    /\ UNCHANGED keyVars

(* Still incomplete, or the read fails. *)
RetryInvalid(h) ==
    /\ hookStep[h] = "retry" /\ tries[h] > 0
    /\ tries' = [tries EXCEPT ![h] = @ - 1]
    /\ UNCHANGED <<keyFile, hookStep, result>>

RetriesSpent(h) ==
    /\ hookStep[h] = "retry" /\ tries[h] = 0
    /\ Goto(h, "failed")
    /\ UNCHANGED <<keyFile, tries, result>>

(* The hook's process is killed; a partial file stays. *)
Die(h) ==
    /\ hookStep[h] \notin Ended
    /\ Goto(h, "dead")
    /\ UNCHANGED <<keyFile, tries, result>>

Read(h) == ReadComplete(h) \/ ReadMissing(h) \/ ReadInvalid(h)
Make(h) == Create(h) \/ CreateLost(h) \/ Write(h) \/ Sync(h) \/ CreationFails(h)
Retry(h) == RetryComplete(h) \/ RetryInvalid(h) \/ RetriesSpent(h)

Run(h) == Read(h) \/ Make(h) \/ Retry(h)

KeyNext == \E h \in Hooks : Run(h) \/ Die(h)

IdentitySpec == KeyInit /\ [][KeyNext]_keyVars

(* A hook's process runs on unless it is killed. *)
FairIdentitySpec == IdentitySpec /\ \A h \in Hooks : WF_keyVars(Run(h))

-----------------------------------------------------------------------------
(* Every hook that gets a key gets the same one, and it is the one in the  *)
(* file for good: a half-written, failed or abandoned creation never       *)
(* yields a second identity (identity.py:35-50, 57-64).                    *)
OneIdentity ==
    \A h \in Hooks : result[h] # NoKey => Complete /\ keyFile.owner = result[h]

(* Only the hook that created the file writes it, and it does not sync a   *)
(* key that is incomplete (O_EXCL and _write_all, identity.py:39-45).      *)
CreatorOwns ==
    \A h \in Hooks :
        /\ hookStep[h] = "write" => keyFile # NoKey /\ keyFile.owner = h /\ keyFile.size < KeyBytes
        /\ hookStep[h] = "sync" => Complete /\ keyFile.owner = h

(* Every hook comes to an end, key or no key, even when the creator died   *)
(* and left a partial file behind: the retries are bounded                 *)
(* (identity.py:54-64).                                                    *)
HooksEnd == \A h \in Hooks : <>(hookStep[h] \in Ended)

(* The file is a choice that is made once: see module OneKey. *)
Key == INSTANCE OneKey WITH
    chosen <- IF Complete THEN keyFile.owner ELSE NoKey,
    learned <- result,
    None <- NoKey

KeySpec == Key!Spec

=============================================================================
