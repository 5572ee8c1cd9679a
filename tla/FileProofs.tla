----------------------------- MODULE FileProofs -----------------------------
(***************************************************************************)
(* What the two files promise that unsynchronized processes share: the     *)
(* identity key is one key for every set of hooks, key size and number of  *)
(* retries, and is the choice of module OneKey; the message history stays  *)
(* sound for any processes, any limit and any texts.                       *)
(***************************************************************************)
EXTENDS IdentityKey, HistoryFile, SequenceTheorems, TLAPS

-----------------------------------------------------------------------------
(* IdentityKey *)

KeyInv == KeyTypeOK /\ CreatorOwns /\ OneIdentity

LEMMA InitKeyInv == KeyInit => KeyInv
  BY NoneAssumption, SizeAssumption
  DEF KeyInit, KeyInv, KeyTypeOK, CreatorOwns, OneIdentity, KeySteps

(* A step that leaves the file alone and does not make its hook a creator. *)
LEMMA FileUntouched ==
  ASSUME KeyInv, NEW h \in Hooks, NEW s \in KeySteps, s \notin {"write", "sync"},
         keyFile' = keyFile, Goto(h, s),
         tries' \in [Hooks -> 0 .. Retries],
         \/ s # "done" /\ hookStep[h] # "done" /\ result' = result
         \/ s = "done" /\ Complete /\ result' = [result EXCEPT ![h] = keyFile.owner]
  PROVE  KeyInv'
<1> USE NoneAssumption DEF KeyInv, Goto
<1>1. Complete' <=> Complete
  BY DEF Complete
<1>2. Complete => keyFile.owner \in Hooks /\ keyFile.owner # NoKey
  BY DEF Complete, KeyTypeOK, Files
<1>3. KeyTypeOK'
  BY <1>2 DEF KeyTypeOK
<1>4. CreatorOwns'
  BY <1>1 DEF CreatorOwns, KeyTypeOK
<1>5. OneIdentity'
  BY <1>1 DEF OneIdentity, KeyTypeOK
<1> QED
  BY <1>3, <1>4, <1>5

LEMMA NextKeyInv == KeyInv /\ [KeyNext]_keyVars => KeyInv'
<1> SUFFICES ASSUME KeyInv, [KeyNext]_keyVars
             PROVE  KeyInv'
  OBVIOUS
<1> USE NoneAssumption, SizeAssumption
<1>0. ASSUME NEW h \in Hooks, Read(h) \/ CreateLost(h) \/ CreationFails(h) \/ Die(h)
      PROVE  KeyInv'
  <2>1. tries' \in [Hooks -> 0 .. Retries]
    BY <1>0 DEF KeyInv, KeyTypeOK, Read, ReadComplete, ReadMissing, ReadInvalid,
                CreateLost, CreationFails, Die
  <2>2. CASE ReadComplete(h)
    BY <2>1, <2>2, FileUntouched DEF ReadComplete, Return, KeySteps
  <2>3. CASE ReadMissing(h) \/ ReadInvalid(h) \/ CreateLost(h)
    BY <2>1, <2>3, FileUntouched
    DEF ReadMissing, ReadInvalid, CreateLost, KeySteps
  <2>4. CASE CreationFails(h) \/ Die(h)
    BY <2>1, <2>4, FileUntouched DEF CreationFails, Die, KeySteps, Ended
  <2> QED
    BY <1>0, <2>2, <2>3, <2>4 DEF Read
<1>1. ASSUME NEW h \in Hooks, Create(h)
      PROVE  KeyInv'
  <2>1. ~Complete /\ Complete' = FALSE
    BY <1>1 DEF Create, Complete
  <2>2. \A g \in Hooks : hookStep[g] \notin {"write", "sync"}
    BY <1>1 DEF Create, KeyInv, CreatorOwns, Complete
  <2>3. keyFile' = [owner |-> h, size |-> 0] /\ keyFile' \in Files /\ keyFile' # NoKey
    BY <1>1 DEF Create, Files
  <2>4. KeyTypeOK'
    BY <1>1, <2>3 DEF Create, KeyInv, KeyTypeOK, Goto, KeySteps
  <2>5. CreatorOwns'
    BY <1>1, <2>2, <2>3 DEF Create, KeyInv, KeyTypeOK, CreatorOwns, Goto
  <2>6. OneIdentity'
    BY <1>1, <2>1 DEF Create, KeyInv, OneIdentity
  <2> QED
    BY <2>4, <2>5, <2>6 DEF KeyInv
<1>2. ASSUME NEW h \in Hooks, Write(h)
      PROVE  KeyInv'
  <2>1. PICK size \in keyFile.size + 1 .. KeyBytes :
           /\ keyFile' = [keyFile EXCEPT !.size = size]
           /\ Goto(h, IF size = KeyBytes THEN "sync" ELSE "write")
    BY <1>2 DEF Write
  <2>2. /\ hookStep[h] = "write" /\ tries' = tries /\ result' = result
        /\ keyFile \in Files /\ keyFile.owner = h /\ keyFile.size < KeyBytes
    BY <1>2 DEF Write, KeyInv, CreatorOwns, KeyTypeOK
  <2>3. ~Complete
    BY <2>2 DEF Complete
  <2>4. \A g \in Hooks : result[g] = NoKey
    BY <2>3 DEF KeyInv, OneIdentity
  <2>5. \A g \in Hooks \ {h} : hookStep[g] \notin {"write", "sync"}
    BY <2>2 DEF KeyInv, CreatorOwns, Complete
  <2>6. keyFile' \in Files /\ keyFile'.owner = h /\ keyFile'.size = size /\ keyFile' # NoKey
    <3>1. size \in 0 .. KeyBytes
      BY <2>2 DEF Files
    <3>2. keyFile' = [owner |-> h, size |-> size]
      BY <2>1, <2>2 DEF Files
    <3> QED
      BY <3>1, <3>2 DEF Files
  <2>7. KeyTypeOK'
    BY <2>1, <2>2, <2>6 DEF KeyInv, KeyTypeOK, Goto, KeySteps
  <2>8. CreatorOwns'
    <3>1. \A g \in Hooks \ {h} : hookStep'[g] \notin {"write", "sync"}
      BY <2>1, <2>5 DEF Goto, KeyInv, KeyTypeOK
    <3>2. hookStep'[h] = IF size = KeyBytes THEN "sync" ELSE "write"
      BY <2>1 DEF Goto, KeyInv, KeyTypeOK
    <3>3. size = KeyBytes \/ size < KeyBytes
      BY <2>2 DEF Files
    <3> QED
      BY <2>6, <3>1, <3>2, <3>3 DEF CreatorOwns, Complete
  <2>9. OneIdentity'
    BY <2>2, <2>4 DEF OneIdentity
  <2> QED
    BY <2>7, <2>8, <2>9 DEF KeyInv
<1>3. ASSUME NEW h \in Hooks, Sync(h)
      PROVE  KeyInv'
  <2>1. Complete /\ keyFile.owner = h /\ keyFile' = keyFile /\ tries' = tries
    BY <1>3 DEF Sync, KeyInv, CreatorOwns
  <2> QED
    BY <1>3, <2>1, FileUntouched DEF Sync, Return, KeySteps, KeyInv, KeyTypeOK
<1>4. ASSUME NEW h \in Hooks, Retry(h)
      PROVE  KeyInv'
  <2>1. CASE RetryComplete(h)
    <3>1. tries' \in [Hooks -> 0 .. Retries]
      BY <2>1 DEF RetryComplete, KeyInv, KeyTypeOK
    <3> QED
      BY <2>1, <3>1, FileUntouched DEF RetryComplete, Return, KeySteps
  <2>2. CASE RetryInvalid(h)
    BY <2>2 DEF RetryInvalid, KeyInv, KeyTypeOK, CreatorOwns, OneIdentity, Complete
  <2>3. CASE RetriesSpent(h)
    BY <2>3, FileUntouched DEF RetriesSpent, KeySteps, KeyInv, KeyTypeOK
  <2> QED
    BY <1>4, <2>1, <2>2, <2>3 DEF Retry
<1>5. CASE UNCHANGED keyVars
  BY <1>5 DEF keyVars, KeyInv, KeyTypeOK, CreatorOwns, OneIdentity, Complete
<1> QED
  BY <1>0, <1>1, <1>2, <1>3, <1>4, <1>5 DEF KeyNext, Run, Make

LEMMA SpecKeyInv == IdentitySpec => []KeyInv
  BY InitKeyInv, NextKeyInv, PTL DEF IdentitySpec

-----------------------------------------------------------------------------
(* The file, the counters and the results keep their types                 *)
(* (identity.py:30-76).                                                    *)
THEOREM KeyTypeCorrect == IdentitySpec => []KeyTypeOK
<1>1. KeyInv => KeyTypeOK
  BY DEF KeyInv
<1> QED
  BY <1>1, SpecKeyInv, PTL

(* There is one writer, and it syncs only a complete key                   *)
(* (identity.py:39-45, 79-85).                                             *)
THEOREM KeyCreatorOwns == IdentitySpec => []CreatorOwns
<1>1. KeyInv => CreatorOwns
  BY DEF KeyInv
<1> QED
  BY <1>1, SpecKeyInv, PTL

(* Whoever gets a key gets the one in the file (identity.py:30-64).        *)
THEOREM KeyOneIdentity == IdentitySpec => []OneIdentity
<1>1. KeyInv => OneIdentity
  BY DEF KeyInv
<1> QED
  BY <1>1, SpecKeyInv, PTL

(* Creating, waiting for and reading the file is a choice made once: the   *)
(* last byte chooses, every return learns.                                 *)
THEOREM KeyIsChosenOnce == IdentitySpec => KeySpec
<1> DEFINE chosen == IF Complete THEN keyFile.owner ELSE NoKey
<1>1. KeyInit => Key!Init
  BY NoneAssumption DEF KeyInit, Key!Init, Complete
<1>2. ASSUME KeyInv, KeyInv', [KeyNext]_keyVars
      PROVE  [Key!Next]_<<chosen, result>>
  <2> USE <1>2, NoneAssumption DEF KeyInv
  <2>1. ASSUME keyFile' = keyFile
        PROVE  chosen' = chosen
    BY <2>1 DEF Complete
  <2>2. ASSUME NEW h \in Hooks, keyFile' = keyFile, Complete, hookStep[h] # "done",
               Return(h, keyFile.owner)
        PROVE  Key!Next
    <3>1. chosen' = chosen /\ chosen = keyFile.owner /\ chosen # NoKey
      BY <2>1, <2>2 DEF KeyTypeOK, Files, Complete
    <3>2. result[h] = NoKey /\ result' = [result EXCEPT ![h] = chosen]
      BY <2>2, <3>1 DEF KeyTypeOK, Return
    <3>3. Key!Learn(h)
      BY <3>1, <3>2 DEF Key!Learn
    <3> QED
      BY <3>3 DEF Key!Next
  <2>3. ASSUME NEW h \in Hooks,
               ReadComplete(h) \/ Sync(h) \/ RetryComplete(h)
        PROVE  Key!Next
    <3>1. keyFile' = keyFile /\ Complete /\ hookStep[h] # "done" /\ Return(h, keyFile.owner)
      BY <2>3 DEF ReadComplete, Sync, RetryComplete, CreatorOwns
    <3> QED
      BY <2>2, <3>1
  <2>4. ASSUME NEW h \in Hooks,
               ReadMissing(h) \/ ReadInvalid(h) \/ CreateLost(h)
               \/ CreationFails(h) \/ RetryInvalid(h) \/ RetriesSpent(h) \/ Die(h)
        PROVE  UNCHANGED <<chosen, result>>
    <3>1. keyFile' = keyFile /\ result' = result
      BY <2>4 DEF ReadMissing, ReadInvalid, CreateLost, CreationFails,
                  RetryInvalid, RetriesSpent, Die
    <3> QED
      BY <2>1, <3>1
  <2>5. ASSUME NEW h \in Hooks, Create(h)
        PROVE  UNCHANGED <<chosen, result>>
    BY <2>5, SizeAssumption DEF Create, Complete
  <2>6. ASSUME NEW h \in Hooks, Write(h)
        PROVE  Key!Next \/ UNCHANGED <<chosen, result>>
    <3>1. /\ keyFile.owner = h /\ keyFile \in Files /\ keyFile.size < KeyBytes
          /\ result' = result
      BY <2>6 DEF Write, CreatorOwns, KeyTypeOK
    <3>2. chosen = NoKey
      <4>1. keyFile.size # KeyBytes
        BY ONLY <3>1, SizeAssumption DEF Files
      <4> QED
        BY <4>1 DEF Complete
    <3>3. keyFile'.owner = h
      BY <2>6, <3>1 DEF Write, Files
    <3>4. CASE Complete'
      <4>1. chosen' = h
        BY <3>3, <3>4
      <4>2. Key!Choose(h)
        BY <3>1, <3>2, <4>1 DEF Key!Choose
      <4> QED
        BY <4>2 DEF Key!Next
    <3>5. CASE ~Complete'
      BY <3>1, <3>2, <3>5
    <3> QED
      BY <3>4, <3>5
  <2>7. CASE UNCHANGED keyVars
    BY <2>1, <2>7 DEF keyVars
  <2> QED
    BY <2>3, <2>4, <2>5, <2>6, <2>7 DEF KeyNext, Run, Read, Make, Retry
<1> QED
  BY <1>1, <1>2, SpecKeyInv, PTL DEF IdentitySpec, KeySpec, Key!Spec

-----------------------------------------------------------------------------
(* HistoryFile *)

(* What a process loaded is fit to be saved with a new text, and is the    *)
(* window of the file as long as no other process wrote.                   *)
LoadedIsSound ==
    \A p \in Processes :
        /\ Distinct(loaded[p]) /\ Len(loaded[p]) <= Limit
        /\ step[p] = "saving" =>
             /\ text[p] \in Texts
             /\ \A i \in 1 .. Len(loaded[p]) : loaded[p][i] # text[p]
        /\ step[p] \in {"generating", "saving"} /\ ~raced[p] => loaded[p] = Window(file)
        /\ step[p] = "suspecting" /\ ~raced[p] => kind = "invalid"

HistoryInv == TypeOK /\ HistoryIsSound /\ LoadedIsSound

(* The window is the end of the history, as long as the limit allows. *)
LEMMA WindowIs ==
  ASSUME NEW s \in Seq(Texts)
  PROVE  /\ Window(s) \in Seq(Texts)
         /\ Len(Window(s)) = IF Len(s) > Limit THEN Limit ELSE Len(s)
         /\ \A i \in 1 .. Len(Window(s)) : Window(s)[i] = s[i + Len(s) - Len(Window(s))]
<1> DEFINE m == IF Len(s) > Limit THEN Len(s) - Limit + 1 ELSE 1
<1>1. m \in 1 .. Len(s) + 1 /\ Len(s) \in Nat
  BY HistoryAssumption
<1>2. \A i \in m .. Len(s) : s[i] \in Texts
  BY <1>1
<1>3. Window(s) = SubSeq(s, m, Len(s))
  BY DEF Window
<1> HIDE DEF m
<1>4. /\ Window(s) \in Seq(Texts)
      /\ Len(Window(s)) = IF m <= Len(s) THEN Len(s) - m + 1 ELSE 0
      /\ \A i \in 1 .. Len(s) - m + 1 : Window(s)[i] = s[m + i - 1]
  BY <1>1, <1>2, <1>3, SubSeqProperties
<1>5. Len(Window(s)) = Len(s) - m + 1
  BY <1>1, <1>4
<1>6. Len(s) - m + 1 = IF Len(s) > Limit THEN Limit ELSE Len(s)
  BY <1>1, HistoryAssumption DEF m
<1>7. ASSUME NEW i \in 1 .. Len(Window(s))
      PROVE  Window(s)[i] = s[i + Len(s) - Len(Window(s))]
  <2>1. Window(s)[i] = s[m + i - 1]
    BY <1>4, <1>5
  <2>2. i + Len(s) - Len(Window(s)) = m + i - 1
    BY <1>1, <1>5
  <2>3. QED
    BY <2>1, <2>2
<1>8. QED
  BY <1>4, <1>5, <1>6, <1>7

LEMMA WindowIsDistinct ==
  ASSUME NEW s \in Seq(Texts), Distinct(s)
  PROVE  Distinct(Window(s))
<1> DEFINE n == Len(s) - Len(Window(s))
<1>1. n \in Nat /\ Len(s) \in Nat /\ Len(Window(s)) = Len(s) - n
  BY WindowIs, HistoryAssumption
<1>2. SUFFICES ASSUME NEW i \in 1 .. Len(Window(s)), NEW j \in 1 .. Len(Window(s)),
                      Window(s)[i] = Window(s)[j]
               PROVE  i = j
  BY DEF Distinct
<1>3. s[i + n] = s[j + n] /\ i + n \in 1 .. Len(s) /\ j + n \in 1 .. Len(s)
  <2>1. i + n = i + Len(s) - Len(Window(s)) /\ j + n = j + Len(s) - Len(Window(s))
    BY <1>1
  <2>2. \A k \in 1 .. Len(Window(s)) : Window(s)[k] = s[k + Len(s) - Len(Window(s))]
    BY WindowIs
  <2>3. QED
    BY <1>1, <1>2, <2>1, <2>2
<1>4. QED
  BY <1>1, <1>3 DEF Distinct

LEMMA EmptyIsDistinct == Distinct(<<>>) /\ Len(<<>>) = 0 /\ <<>> \in Seq(Texts)
  BY DEF Distinct

(* A text the history does not have yet can be appended to it. *)
LEMMA AppendIsDistinct ==
  ASSUME NEW s \in Seq(Texts), Distinct(s), NEW t \in Texts,
         \A i \in 1 .. Len(s) : s[i] # t
  PROVE  /\ Append(s, t) \in Seq(Texts)
         /\ Distinct(Append(s, t))
  BY DEF Distinct

-----------------------------------------------------------------------------
LEMMA InitHistoryInv == Init => HistoryInv
<1> SUFFICES ASSUME Init PROVE HistoryInv
  OBVIOUS
<1>1. TypeOK
  BY HistoryAssumption DEF Init, TypeOK, Steps
<1>2. HistoryIsSound
  BY HistoryAssumption, EmptyIsDistinct DEF Init, HistoryIsSound
<1>3. LoadedIsSound
  BY HistoryAssumption, EmptyIsDistinct DEF Init, LoadedIsSound
<1>4. QED
  BY <1>1, <1>2, <1>3 DEF HistoryInv

(* A process that leaves what it was at has nothing loaded. *)
LEMMA LeavingKeeps ==
  ASSUME HistoryInv, NEW p \in Processes, NEW to \in {"off", "idle"},
         Leaves(p, to), UNCHANGED <<kind, file, ours>>
  PROVE  HistoryInv'
<1> USE HistoryAssumption, EmptyIsDistinct DEF HistoryInv, Leaves, Goes, Drops, Looks
<1>1. TypeOK'
  BY DEF TypeOK, Steps
<1>2. HistoryIsSound'
  BY DEF HistoryIsSound
<1>3. LoadedIsSound'
  BY DEF LoadedIsSound, TypeOK
<1>4. QED
  BY <1>1, <1>2, <1>3

LEMMA NextHistoryInv == HistoryInv /\ [Next]_vars => HistoryInv'
<1> SUFFICES ASSUME HistoryInv, [Next]_vars PROVE HistoryInv'
  OBVIOUS
<1> USE HistoryAssumption, EmptyIsDistinct DEF HistoryInv
<1>1. ASSUME NEW p \in Processes, StartDaemon(p) \/ Check(p) PROVE HistoryInv'
  <2> USE <1>1 DEF StartDaemon, Check, Goes, Looks
  <2>1. TypeOK'
    BY DEF TypeOK, Steps
  <2>2. HistoryIsSound'
    BY DEF HistoryIsSound
  <2>3. LoadedIsSound'
    BY DEF LoadedIsSound, TypeOK
  <2>4. QED
    BY <2>1, <2>2, <2>3
<1>2. ASSUME NEW p \in Processes, Quarantine(p) PROVE HistoryInv'
  <2> USE <1>2 DEF Quarantine, Goes, Drops, Looks, Wrote
  <2>1. TypeOK'
    BY DEF TypeOK, Steps
  <2>2. HistoryIsSound'
    BY DEF HistoryIsSound
  <2>3. LoadedIsSound'
    <3>1. CASE kind = "missing"
      <4>1. file' = file /\ kind' = kind
        BY <3>1 DEF HistoryIsSound
      <4>2. QED
        BY <3>1, <4>1 DEF LoadedIsSound, TypeOK
    <3>2. CASE kind # "missing"
      <4>1. ASSUME NEW q \in Processes, q # p, step[q] \notin {"off", "idle"}
            PROVE  raced'[q]
        BY <3>2, <4>1 DEF TypeOK
      <4>2. step'[p] = "idle" /\ loaded'[p] = <<>>
        BY DEF TypeOK
      <4>3. \A q \in Processes : q # p =>
              step'[q] = step[q] /\ loaded'[q] = loaded[q] /\ text'[q] = text[q]
        BY DEF TypeOK
      <4>4. QED
        BY <4>1, <4>2, <4>3 DEF LoadedIsSound
    <3>3. QED
      BY <3>1, <3>2
  <2>4. QED
    BY <2>1, <2>2, <2>3
<1>3. ASSUME NEW p \in Processes, Look(p) PROVE HistoryInv'
  <2> USE <1>3 DEF Look, Goes, Drops, Looks
  <2>1. TypeOK'
    BY DEF TypeOK, Steps
  <2>2. HistoryIsSound'
    BY DEF HistoryIsSound
  <2>3. kind = "missing" => Window(file) = <<>>
    BY DEF HistoryIsSound, Window
  <2>4. LoadedIsSound'
    BY <2>3 DEF LoadedIsSound, TypeOK
  <2>5. QED
    BY <2>1, <2>2, <2>4
<1>4. ASSUME NEW p \in Processes, Load(p) PROVE HistoryInv'
  <2> USE <1>4 DEF Load, Goes, Looks
  <2>1. Window(file) \in Seq(Texts) /\ Len(Window(file)) <= Limit
    BY WindowIs DEF TypeOK
  <2>2. Distinct(Window(file))
    BY WindowIsDistinct DEF TypeOK, HistoryIsSound
  <2>3. TypeOK'
    BY <2>1 DEF TypeOK, Steps
  <2>4. HistoryIsSound'
    BY DEF HistoryIsSound
  <2>5. Window(file)' = Window(file)
    BY DEF Window
  <2>6. \A q \in Processes : Distinct(loaded'[q]) /\ Len(loaded'[q]) <= Limit
    BY <2>1, <2>2 DEF LoadedIsSound, TypeOK
  <2>7. LoadedIsSound'
    BY <2>5, <2>6 DEF LoadedIsSound, TypeOK
  <2>8. QED
    BY <2>3, <2>4, <2>7
<1>5. ASSUME NEW p \in Processes, NEW t \in Texts, Generate(p, t) PROVE HistoryInv'
  <2> USE <1>5 DEF Generate, Goes
  <2>1. TypeOK'
    BY DEF TypeOK, Steps
  <2>2. HistoryIsSound'
    BY DEF HistoryIsSound
  <2>3. LoadedIsSound'
    BY DEF LoadedIsSound, TypeOK
  <2>4. QED
    BY <2>1, <2>2, <2>3
<1>6. ASSUME NEW p \in Processes, Save(p) PROVE HistoryInv'
  <2> USE <1>6 DEF Save, Goes, Drops, Wrote
  <2> DEFINE new == Append(loaded[p], text[p])
  <2>1. new \in Seq(Texts) /\ Distinct(new)
    BY AppendIsDistinct DEF LoadedIsSound, TypeOK
  <2> HIDE DEF new
  <2>2. Window(new) \in Seq(Texts) /\ Len(Window(new)) <= Limit /\ Distinct(Window(new))
    BY <2>1, WindowIs, WindowIsDistinct
  <2>3. file' = Window(new)
    BY DEF new
  <2>4. TypeOK'
    BY <2>2, <2>3 DEF TypeOK, Steps
  <2>5. HistoryIsSound'
    BY <2>2, <2>3 DEF HistoryIsSound
  <2>6. ASSUME NEW q \in Processes, q # p, step[q] \notin {"off", "idle"}
        PROVE  raced'[q]
    BY <2>6 DEF TypeOK
  <2>7. step'[p] = "idle" /\ loaded'[p] = <<>>
    BY DEF TypeOK
  <2>8. \A q \in Processes : q # p =>
          step'[q] = step[q] /\ loaded'[q] = loaded[q] /\ text'[q] = text[q]
    BY DEF TypeOK
  <2>9. LoadedIsSound'
    BY <2>6, <2>7, <2>8 DEF LoadedIsSound
  <2>10. QED
    BY <2>4, <2>5, <2>9
<1>7. ASSUME NEW p \in Processes,
             QuarantineFails(p) \/ LoadFails(p) \/ KeepHistory(p) \/ SaveFails(p) \/ Stop(p)
      PROVE  HistoryInv'
  BY <1>7, LeavingKeeps DEF QuarantineFails, LoadFails, KeepHistory, SaveFails, Stop
<1>8. CASE ForeignFile
  <2> USE <1>8 DEF ForeignFile, Wrote, local
  <2>1. file' \in Seq(Texts)
    <3>1. \A n \in 0 .. MaxForeign : [1 .. n -> Texts] \subseteq Seq(Texts)
      BY SeqDef
    <3>2. QED
      BY <3>1, EmptyIsDistinct
  <2>2. TypeOK'
    BY <2>1 DEF TypeOK
  <2>3. HistoryIsSound'
    BY DEF HistoryIsSound
  <2>4. LoadedIsSound'
    BY DEF LoadedIsSound, TypeOK
  <2>5. QED
    BY <2>2, <2>3, <2>4
<1>9. CASE UNCHANGED vars
  BY <1>9 DEF vars, local, TypeOK, HistoryIsSound, LoadedIsSound, Distinct, Window
<1>10. QED
  BY <1>1, <1>2, <1>3, <1>4, <1>5, <1>6, <1>7, <1>8, <1>9 DEF Next, ProcessStep

LEMMA SpecHistoryInv == Spec => []HistoryInv
  BY InitHistoryInv, NextHistoryInv, PTL DEF Spec

(* The variables keep their types. *)
THEOREM HistoryTypeCorrect == Spec => []TypeOK
<1>1. HistoryInv => TypeOK
  BY DEF HistoryInv
<1>2. QED
  BY SpecHistoryInv, <1>1, PTL

(* The history has no text twice and stays within its limit. *)
THEOREM HistoryStaysSound == Spec => []HistoryIsSound
<1>1. HistoryInv => HistoryIsSound
  BY DEF HistoryInv
<1>2. QED
  BY SpecHistoryInv, <1>1, PTL

(* A window followed by a text, within the limit again: the text, and what *)
(* the limit leaves of the end of the history.                             *)
LEMMA SavedKeepsTheEnd ==
  ASSUME NEW s \in Seq(Texts), NEW t \in Texts, NEW r, r = Window(Append(Window(s), t))
  PROVE  /\ r[Len(r)] = t
         /\ Len(r) = IF Len(s) < Limit THEN Len(s) + 1 ELSE Limit
         /\ \A i \in 1 .. Len(r) - 1 : r[i] = s[Len(s) - Len(r) + 1 + i]
<1> DEFINE w == Window(s)
           a == Append(w, t)
<1>1. /\ w \in Seq(Texts)
      /\ Len(w) = IF Len(s) > Limit THEN Limit ELSE Len(s)
      /\ \A i \in 1 .. Len(w) : w[i] = s[i + Len(s) - Len(w)]
  BY WindowIs
<1> HIDE DEF w
<1>2. /\ a \in Seq(Texts)
      /\ Len(a) = Len(w) + 1
      /\ a[Len(w) + 1] = t
      /\ \A i \in 1 .. Len(w) : a[i] = w[i]
  BY <1>1
<1>3. r = Window(a)
  BY DEF w
<1> HIDE DEF a
<1>4. /\ Len(r) = IF Len(a) > Limit THEN Limit ELSE Len(a)
      /\ \A i \in 1 .. Len(r) : r[i] = a[i + Len(a) - Len(r)]
  <2>1. /\ Len(Window(a)) = IF Len(a) > Limit THEN Limit ELSE Len(a)
        /\ \A i \in 1 .. Len(Window(a)) : Window(a)[i] = a[i + Len(a) - Len(Window(a))]
    BY <1>2, WindowIs
  <2>2. QED
    BY <1>3, <2>1
<1>5. Len(s) \in Nat /\ Len(w) \in Nat /\ Len(r) \in Nat /\ Len(r) >= 1 /\ Len(r) <= Len(w) + 1
  BY <1>1, <1>2, <1>4, HistoryAssumption
<1>6. Len(r) = IF Len(s) < Limit THEN Len(s) + 1 ELSE Limit
  BY <1>1, <1>2, <1>4, <1>5, HistoryAssumption
<1>7. r[Len(r)] = t
  <2> DEFINE n == Len(r)
  <2>0. n \in 1 .. Len(r)
    BY <1>5
  <2> HIDE DEF n
  <2>1. r[n] = a[n + Len(a) - Len(r)]
    BY <1>4, <2>0
  <2>2. n + Len(a) - Len(r) = Len(w) + 1 /\ n = Len(r)
    BY <1>2, <1>5 DEF n
  <2>3. QED
    BY <1>2, <2>1, <2>2
<1>8. ASSUME NEW i \in 1 .. Len(r) - 1
      PROVE  r[i] = s[Len(s) - Len(r) + 1 + i]
  <2> DEFINE k == i + Len(a) - Len(r)
  <2>1. k \in 1 .. Len(w)
    BY <1>2, <1>5
  <2>2. r[i] = a[k]
    BY <1>4, <1>5
  <2>3. k + Len(s) - Len(w) = Len(s) - Len(r) + 1 + i
    BY <1>2, <1>5
  <2> HIDE DEF k
  <2>4. a[k] = w[k] /\ w[k] = s[k + Len(s) - Len(w)]
    BY <1>1, <1>2, <2>1
  <2>5. QED
    BY <2>2, <2>3, <2>4
<1>9. QED
  BY <1>6, <1>7, <1>8

(* Whatever a save or a quarantine takes from the history, another process *)
(* had written since this one looked.                                      *)
THEOREM HistoryOnlyOverlapLoses == Spec => OnlyOverlapLoses
<1>1. ASSUME HistoryInv, NEW p \in Processes, Save(p), ~raced[p]
      PROVE  /\ file'[Len(file')] = text[p]
             /\ Len(file') = IF Len(file) < Limit THEN Len(file) + 1 ELSE Limit
             /\ \A i \in 1 .. Len(file') - 1 :
                  file'[i] = file[Len(file) - Len(file') + 1 + i]
  <2>1. loaded[p] = Window(file) /\ text[p] \in Texts /\ file \in Seq(Texts)
    BY <1>1 DEF HistoryInv, LoadedIsSound, TypeOK, Save
  <2>2. file' = Window(Append(Window(file), text[p]))
    BY <1>1, <2>1 DEF Save
  <2>3. QED
    BY <2>1, <2>2, SavedKeepsTheEnd
<1>2. ASSUME HistoryInv, NEW p \in Processes, Quarantine(p), ~raced[p]
      PROVE  kind = "invalid"
  BY <1>2 DEF HistoryInv, LoadedIsSound, Quarantine
<1>3. HistoryInv =>
        [\A p \in Processes :
            /\ Save(p) /\ ~raced[p] =>
                 /\ file'[Len(file')] = text[p]
                 /\ Len(file') = IF Len(file) < Limit THEN Len(file) + 1 ELSE Limit
                 /\ \A i \in 1 .. Len(file') - 1 :
                      file'[i] = file[Len(file) - Len(file') + 1 + i]
            /\ Quarantine(p) /\ ~raced[p] => kind = "invalid"]_vars
  BY <1>1, <1>2
<1>4. QED
  BY SpecHistoryInv, <1>3, PTL DEF OnlyOverlapLoses

=============================================================================
