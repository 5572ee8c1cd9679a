------------------------- MODULE DaemonRuntimeProofs -------------------------
(***************************************************************************)
(* Proofs about DaemonRuntime, for any cadence, retention, delay and model *)
(* time of others, and any crowds of sessions that DaemonAssumption allows.*)
(*                                                                         *)
(* The display is sound because of facts that last over the calls an       *)
(* iteration waits for, whoever writes the history meanwhile: an entry     *)
(* young enough to fall back on is not due yet (DueLater), so an iteration *)
(* that generates nevertheless does so for another fingerprint than that   *)
(* of the entry it loaded (GenerateIsNeeded); and what it generates for is *)
(* what the debouncer has admitted (ShowsAdmitted).  The hold is bounded   *)
(* because what is left of it and what has passed never add up to more     *)
(* than the longest delay (HoldRunsDown).                                  *)
(***************************************************************************)
EXTENDS DaemonRuntime, TLAPS

DueLater ==
    latest # None =>
        latest.age = AgeCap \/ latest.age + latest.left >= CadenceMin

GenerateIsNeeded ==
    pc = "generate" =>
        snap \in Snaps /\ snap.of \in Crowds /\ snap.fallback # SnapPrint

Settled == {"asleep", "stageOne", "load"}

(* A presence p that came about in way v is of what was admitted. *)
Agrees(p, v) ==
    p # None /\ v # "stageOne" =>
        p.count = stable.count /\ (v # "fallback" => PublicSnapshot(p.text) = stable)

ShowsAdmitted ==
    /\ pc \in Settled => Agrees(published, via)
    /\ pc = "generate" =>
          Count(snap.of) = stable.count /\ PublicSnapshot(SnapPrint) = stable
    /\ pc = "publish" => Agrees(out, via)

HoldRunsDown ==
    /\ holdLeft = None <=> heldFor = None
    /\ holdLeft # None => heldFor + holdLeft <= DelayMax

IInv ==
    /\ TypeOK
    /\ DueLater /\ GenerateIsNeeded /\ FallbackIsOldNews /\ ShowsAdmitted
    /\ HoldRunsDown

-----------------------------------------------------------------------------
LEMMA CountType ==
  ASSUME NEW a \in Aggregates
  PROVE  /\ Count(a) \in Nat
         /\ a.crew # <<>> => a \in Crowds
         /\ a \in Crowds => a.crew # <<>> /\ Count(a) \in Counts
<1>1. ASSUME a \in Crowds
      PROVE  Count(a) \in Nat /\ a.crew # <<>> /\ Count(a) \in Counts
  BY <1>1, DaemonAssumption DEF Count, Counts
<1>2. ASSUME a = Nobody
      PROVE  Count(a) \in Nat /\ a.crew = <<>>
  BY <1>2 DEF Nobody, Count
<1> QED
  BY <1>1, <1>2 DEF Aggregates

LEMMA LoadedType ==
  ASSUME NEW a \in Aggregates, force \in BOOLEAN
  PROVE  /\ Loaded(a) \in Aggregates /\ LoadedMode \in Modes
         /\ PublicSnapshot(Loaded(a)) \in Snapshots
         /\ PublicSnapshot(Fingerprint(Loaded(a), LoadedMode)) = PublicSnapshot(Loaded(a))
<1>1. [a EXCEPT !.context = None] \in Aggregates
  BY DaemonAssumption DEF Aggregates, Nobody
<1>2. /\ Loaded(a) \in Aggregates /\ LoadedMode \in Modes
      /\ LoadedMode = "generic" => Loaded(a).context = None
  <2>1. a.context = a.context /\ [a EXCEPT !.context = None].context = None
    BY DaemonAssumption DEF Aggregates, Nobody
  <2> QED
    BY <1>1, <2>1 DEF Loaded, LoadedMode, Modes
<1>3. Fingerprint(Loaded(a), LoadedMode).context = Loaded(a).context
  BY <1>2 DEF Fingerprint, Modes
<1>4. Fingerprint(Loaded(a), LoadedMode).crew = Loaded(a).crew
  BY DEF Fingerprint
<1> QED
  BY <1>2, <1>3, <1>4 DEF PublicSnapshot, Count, Snapshots

LEMMA SeenType ==
  ASSUME TypeOK
  PROVE  Seen \subseteq Aggregates
  BY DEF TypeOK, Seen, Quiet

LEMMA PresenceType ==
  ASSUME NEW n \in Counts, NEW f \in Fingerprints
  PROVE  /\ [count |-> n, text |-> f] \in Presences
         /\ [count |-> n, text |-> f] # None
         /\ [count |-> n, text |-> f].text = f
         /\ [count |-> n, text |-> f].count = n
  BY NoneAssumption DEF Presences

(* What anybody writes is an entry that falls due no sooner than it should.*)
LEMMA WritableType ==
  ASSUME NEW f \in Fingerprints, NEW t \in Nat, NEW e \in Writable(f, t)
  PROVE  /\ e \in Entries /\ e # None /\ e.fingerprint = f
         /\ e.age = AgeCap \/ e.age + e.left >= CadenceMin
<1> USE DaemonAssumption
<1>1. PICK c \in CadenceMin .. CadenceMax : e = Written(f, t, c)
  BY DEF Writable
<1>2. /\ e.fingerprint = f
      /\ e.age = IF t < AgeCap THEN t ELSE AgeCap
      /\ e.left = IF c > t THEN c - t ELSE 0
  BY <1>1 DEF Written
<1>3. e.age \in 0 .. AgeCap /\ e.left \in 0 .. CadenceMax
  BY <1>2 DEF AgeCap
<1>4. e = [fingerprint |-> f, age |-> e.age, left |-> e.left]
  BY <1>1, <1>2 DEF Written
<1>5. e \in Entries
  BY <1>3, <1>4 DEF Entries
<1>6. e.age = AgeCap \/ e.age + e.left >= CadenceMin
  BY <1>2 DEF AgeCap
<1> QED
  BY <1>2, <1>5, <1>6, NoneAssumption

LEMMA InitIInv == Init => IInv
<1> SUFFICES ASSUME Init PROVE IInv
  OBVIOUS
<1>1. sinceLoad \in 0 .. AgeCap
  BY DaemonAssumption DEF Init, AgeCap
<1>2. TypeOK
  BY <1>1 DEF Init, TypeOK
<1> QED
  BY <1>2 DEF Init, IInv, DueLater, GenerateIsNeeded, FallbackIsOldNews, ShowsAdmitted,
      Agrees, HoldRunsDown

(* Time: ages grow and what is left shrinks, together. *)
LEMMA TickPreserves ==
  ASSUME IInv, Tick
  PROVE  IInv'
<1> USE DaemonAssumption DEF Older, Less, AgeCap
<1>1. /\ UNCHANGED <<pc, live, force, snap, stable, out, via, published>>
      /\ latest = None => latest' = None
      /\ latest # None =>
            latest' = [latest EXCEPT !.age = Older(@), !.left = Less(@)]
  BY DEF Tick
<1>2. /\ latest' \in Entries \cup {None}
      /\ latest # None => latest' # None /\ latest'.fingerprint = latest.fingerprint
      /\ DueLater'
  <2>1. CASE latest = None
    BY <1>1, <2>1 DEF DueLater
  <2>2. CASE latest # None
    <3>1. latest \in Entries
      BY <2>2 DEF IInv, TypeOK
    <3>2. /\ latest.fingerprint \in Fingerprints
          /\ latest.age \in 0 .. AgeCap /\ latest.left \in 0 .. CadenceMax
          /\ latest = [fingerprint |-> latest.fingerprint, age |-> latest.age,
                       left |-> latest.left]
      BY <3>1 DEF Entries
    <3>3. latest' = [fingerprint |-> latest.fingerprint, age |-> Older(latest.age),
                     left |-> Less(latest.left)]
      BY <1>1, <2>2, <3>2
    <3>4. Older(latest.age) \in 0 .. AgeCap /\ Less(latest.left) \in 0 .. CadenceMax
      BY <3>2
    <3>5. latest' \in Entries /\ latest'.fingerprint = latest.fingerprint
      BY <3>2, <3>3, <3>4 DEF Entries
    <3>6. latest' # None
      BY <3>5, NoneAssumption
    <3>7. latest'.age = Older(latest.age) /\ latest'.left = Less(latest.left)
      BY <3>3
    <3>8. DueLater'
      BY <2>2, <3>2, <3>7 DEF IInv, DueLater
    <3> QED
      BY <3>5, <3>6, <3>8
  <2> QED
    BY <2>1, <2>2
<1>3. /\ holdLeft' \in 0 .. DelayMax \cup {None}
      /\ heldFor' \in 0 .. DelayMax \cup {None}
      /\ sinceLoad' \in 0 .. AgeCap
      /\ HoldRunsDown'
  BY NoneAssumption DEF Tick, IInv, TypeOK, HoldRunsDown
<1>4. TypeOK'
  BY <1>1, <1>2, <1>3 DEF IInv, TypeOK
<1>5. GenerateIsNeeded' /\ FallbackIsOldNews' /\ ShowsAdmitted'
  BY <1>1 DEF IInv, GenerateIsNeeded, FallbackIsOldNews, ShowsAdmitted, Agrees,
      SnapPrint, Fingerprint
<1> QED
  BY <1>2, <1>3, <1>4, <1>5 DEF IInv

(* The steps of the world and of a new daemon. *)
LEMMA WorldPreserves ==
  ASSUME IInv, OthersWrite \/ QuietDown \/ Restart \/ UNCHANGED vars
  PROVE  IInv'
<1> USE DEF IInv, TypeOK, DueLater, GenerateIsNeeded, FallbackIsOldNews, ShowsAdmitted,
        Agrees, HoldRunsDown, SnapPrint, Fingerprint, timers
<1>1. CASE OthersWrite
  <2>1. UNCHANGED <<pc, live, force, snap, stable, holdLeft, sinceLoad, out, via,
                    published, heldFor>>
    BY <1>1 DEF OthersWrite
  <2>2. CASE latest' = None
    BY <2>1, <2>2
  <2>3. ASSUME NEW f \in Fingerprints, NEW t \in 0 .. OthersDelay,
               latest' \in Writable(f, t)
        PROVE  IInv'
    <3>1. /\ latest' \in Entries
          /\ latest'.age = AgeCap \/ latest'.age + latest'.left >= CadenceMin
      BY <2>3, WritableType, DaemonAssumption
    <3>2. DueLater'
      BY <3>1 DEF AgeCap
    <3> QED
      BY <2>1, <3>1, <3>2
  <2> QED
    BY <1>1, <2>2, <2>3 DEF OthersWrite
<1>2. CASE QuietDown
  BY <1>2 DEF QuietDown
<1>3. CASE Restart
  <2>1. sinceLoad' \in 0 .. AgeCap
    BY <1>3, DaemonAssumption DEF Restart, AgeCap
  <2>2. /\ pc' = "asleep" /\ force' = FALSE /\ stable' = None /\ snap' = None
        /\ out' = None /\ holdLeft' = None /\ heldFor' = None
        /\ via' = "none" /\ published' = None
        /\ UNCHANGED <<live, latest>>
    BY <1>3 DEF Restart, Forget
  <2> QED
    BY <2>1, <2>2
<1>4. CASE UNCHANGED vars
  BY <1>4 DEF vars
<1> QED
  BY <1>1, <1>2, <1>3, <1>4

(* Stage one. *)
LEMMA StageOnePreserves ==
  ASSUME IInv, \/ Wake \/ StageOneDone \/ StageOneRejects
               \/ StageOneUnreachable \/ StorageFails
  PROVE  IInv'
<1> USE DEF IInv, TypeOK, DueLater, GenerateIsNeeded, FallbackIsOldNews, ShowsAdmitted,
        Agrees, HoldRunsDown, Settled, timers, Unmoved
<1>1. CASE Wake
  BY <1>1 DEF Wake
<1>2. CASE StageOneDone
  BY <1>2 DEF StageOneDone
<1>3. CASE StageOneRejects
  BY <1>3 DEF StageOneRejects
<1>4. CASE StorageFails
  BY <1>4 DEF StorageFails
<1>5. CASE StageOneUnreachable
  <2>1. PICK a \in Seen :
          IF a.crew # <<>> /\ Usable
            THEN /\ via' = "stageOne"
                 /\ out' = [count |-> Count(a), text |-> latest.fingerprint]
            ELSE via' = "none" /\ out' = None
    BY <1>5 DEF StageOneUnreachable
  <2>2. CASE a.crew # <<>> /\ Usable
    <3>1. latest.fingerprint \in Fingerprints
      BY <2>2 DEF Usable, Entries
    <3>2. Count(a) \in Counts
      BY <2>2, SeenType, CountType
    <3>3. out' \in Presences /\ via' = "stageOne"
      BY <2>1, <2>2, <3>1, <3>2, PresenceType
    <3> QED
      BY <1>5, <3>3 DEF StageOneUnreachable
  <2>3. CASE ~(a.crew # <<>> /\ Usable)
    BY <1>5, <2>1, <2>3 DEF StageOneUnreachable
  <2> QED
    BY <2>2, <2>3
<1> QED
  BY <1>1, <1>2, <1>3, <1>4, <1>5

(* An entry that may be fallen back on is not due. *)
LEMMA UsableIsNotDue ==
  ASSUME IInv, Usable
  PROVE  latest # None /\ latest.left > 0
<1>1. latest # None /\ latest \in Entries /\ latest.age <= RetainLast
  BY DEF IInv, TypeOK, Usable
<1>2. latest.age \in Nat /\ latest.left \in Nat
  BY <1>1 DEF Entries
<1>3. latest.age # AgeCap
  BY <1>1, <1>2, DaemonAssumption DEF AgeCap
<1> QED
  BY <1>1, <1>2, <1>3, DaemonAssumption DEF IInv, DueLater

LEMMA HoldPreserves ==
  ASSUME IInv, NEW a \in Seen, Hold(a)
  PROVE  IInv' /\ heldFor' < DelayMax
<1> USE DaemonAssumption
<1>1. /\ holdLeft' \in 0 .. DelayMax /\ holdLeft' # None
      /\ heldFor' \in 0 .. DelayMax /\ heldFor' # None
      /\ heldFor' + holdLeft' <= DelayMax /\ heldFor' < DelayMax
  BY NoneAssumption DEF Hold, Holds, IInv, TypeOK, HoldRunsDown
<1>2. HoldRunsDown'
  BY <1>1 DEF HoldRunsDown
<1>3. /\ pc = "load" /\ pc' = "asleep" /\ force' = FALSE
      /\ UNCHANGED <<live, snap, stable, latest, sinceLoad, out, via, published>>
  BY DEF Hold
<1>4. TypeOK'
  BY <1>1, <1>3 DEF IInv, TypeOK
<1>5. DueLater' /\ GenerateIsNeeded' /\ FallbackIsOldNews' /\ ShowsAdmitted'
  BY <1>3 DEF IInv, DueLater, GenerateIsNeeded, FallbackIsOldNews, ShowsAdmitted, Agrees,
      Settled
<1> QED
  BY <1>1, <1>2, <1>4, <1>5 DEF IInv

(* The debouncer admits what the load has seen, and nothing is held then. *)
LEMMA AdmitType ==
  ASSUME IInv, NEW a \in Seen, Admit(a)
  PROVE  /\ Loaded(a) \in Aggregates /\ LoadedMode \in Modes
         /\ stable' = PublicSnapshot(Loaded(a)) /\ stable' \in Snapshots
         /\ PublicSnapshot(Fingerprint(Loaded(a), LoadedMode)) = stable'
         /\ Count(Loaded(a)) = stable'.count
         /\ pc = "load" /\ holdLeft' = None /\ heldFor' = None
         /\ HoldRunsDown'
<1>1. a \in Aggregates /\ force \in BOOLEAN
  BY SeenType DEF IInv, TypeOK
<1>2. /\ stable' = PublicSnapshot(Loaded(a))
      /\ pc = "load" /\ holdLeft' = None /\ heldFor' = None
  BY DEF Admit
<1>3. PublicSnapshot(Loaded(a)).count = Count(Loaded(a))
  BY DEF PublicSnapshot
<1> QED
  BY <1>1, <1>2, <1>3, LoadedType DEF HoldRunsDown

(* The iteration goes on.  It generates only when no entry fits: the one   *)
(* it could fall back on is not due, so it must be for something else.     *)
LEMMA ProceedPreserves ==
  ASSUME IInv, NEW a \in Seen, Proceed(a)
  PROVE  IInv'
<1> DEFINE agg == Loaded(a)
           fp == Fingerprint(agg, LoadedMode)
<1>1. /\ agg \in Aggregates /\ LoadedMode \in Modes
      /\ stable' \in Snapshots /\ PublicSnapshot(fp) = stable'
      /\ Count(agg) = stable'.count
      /\ holdLeft' = None /\ heldFor' = None /\ HoldRunsDown'
  BY AdmitType DEF Proceed
<1>2. force' = FALSE /\ UNCHANGED <<live, latest, sinceLoad, published>>
  BY DEF Proceed, Refresh
<1>3. DueLater'
  BY <1>2 DEF IInv, DueLater
<1>4. ASSUME agg.crew # <<>>
      PROVE  agg \in Crowds /\ Count(agg) \in Counts /\ fp \in Fingerprints
  BY <1>1, <1>4, CountType DEF Fingerprints
<1>5. CASE agg.crew = <<>>
  <2>1. pc' = "publish" /\ out' = None /\ via' = "none" /\ UNCHANGED snap
    BY <1>5 DEF Proceed, Refresh
  <2>2. TypeOK'
    BY <1>1, <1>2, <2>1 DEF IInv, TypeOK
  <2> QED
    BY <1>1, <1>3, <2>1, <2>2
    DEF IInv, GenerateIsNeeded, FallbackIsOldNews, ShowsAdmitted, Agrees, Settled
<1>6. CASE agg.crew # <<>> /\ Reusable(fp)
  <2>1. /\ pc' = "publish" /\ via' = "exact" /\ UNCHANGED snap
        /\ out' = [count |-> Count(agg), text |-> fp]
    BY <1>6 DEF Proceed, Refresh
  <2>2. out' \in Presences /\ out'.text = fp /\ out'.count = Count(agg)
    BY <1>4, <1>6, <2>1, PresenceType
  <2>3. TypeOK'
    BY <1>1, <1>2, <2>1, <2>2 DEF IInv, TypeOK
  <2>4. Agrees(out, via)'
    BY <1>1, <2>2 DEF Agrees
  <2> QED
    BY <1>1, <1>3, <2>1, <2>3, <2>4
    DEF IInv, GenerateIsNeeded, FallbackIsOldNews, ShowsAdmitted, Settled
<1>7. CASE agg.crew # <<>> /\ ~Reusable(fp)
  <2>1. /\ pc' = "generate" /\ UNCHANGED <<out, via>>
        /\ snap' = [of |-> agg, mode |-> LoadedMode,
                    fallback |-> IF Usable THEN latest.fingerprint ELSE None]
    BY <1>7 DEF Proceed, Refresh, Snap
  <2>2. /\ (IF Usable THEN latest.fingerprint ELSE None) \in Fingerprints \cup {None}
        /\ (IF Usable THEN latest.fingerprint ELSE None) # fp
    <3>1. CASE Usable
      BY <1>7, <3>1, UsableIsNotDue DEF IInv, TypeOK, Entries, Reusable
    <3>2. CASE ~Usable
      BY <1>4, <1>7, <3>2, NoneAssumption
    <3> QED
      BY <3>1, <3>2
  <2>3. /\ snap' \in Snaps /\ snap'.of = agg /\ snap'.mode = LoadedMode
        /\ snap'.fallback # fp
    BY <1>1, <2>1, <2>2 DEF Snaps
  <2>4. SnapPrint' = fp
    BY <2>3 DEF SnapPrint, Fingerprint
  <2>5. TypeOK'
    BY <1>1, <1>2, <2>1, <2>3 DEF IInv, TypeOK
  <2>6. GenerateIsNeeded'
    BY <1>4, <1>7, <2>3, <2>4 DEF GenerateIsNeeded
  <2>7. Count(snap'.of) = stable'.count /\ PublicSnapshot(SnapPrint') = stable'
    BY <1>1, <2>3, <2>4
  <2>8. ShowsAdmitted'
    BY <2>1, <2>7 DEF ShowsAdmitted, Settled
  <2> QED
    BY <1>1, <1>3, <2>1, <2>5, <2>6, <2>8 DEF IInv, FallbackIsOldNews
<1> QED
  BY <1>5, <1>6, <1>7

LEMMA HistoryFailsPreserves ==
  ASSUME IInv, NEW a \in Seen, HistoryFails(a)
  PROVE  IInv'
<1>1. /\ stable' \in Snapshots /\ holdLeft' = None /\ heldFor' = None /\ HoldRunsDown'
  BY AdmitType DEF HistoryFails
<1>2. /\ force' = FALSE /\ pc' = "error"
      /\ UNCHANGED <<live, snap, latest, sinceLoad, out, via, published>>
  BY DEF HistoryFails
<1>3. TypeOK'
  BY <1>1, <1>2 DEF IInv, TypeOK
<1> QED
  BY <1>1, <1>2, <1>3
  DEF IInv, DueLater, GenerateIsNeeded, FallbackIsOldNews, ShowsAdmitted, Settled

LEMMA GeneratePreserves ==
  ASSUME IInv, Generated \/ GenerationFails \/ SaveFails
  PROVE  IInv'
<1>1. /\ pc = "generate" /\ sinceLoad' = 0
      /\ UNCHANGED <<live, force, stable, holdLeft, heldFor, published>>
  BY DEF Generated, GenerationFails, SaveFails
<1>2. /\ snap \in Snaps /\ snap.of \in Crowds /\ snap.fallback # SnapPrint
      /\ Count(snap.of) = stable.count /\ PublicSnapshot(SnapPrint) = stable
  BY <1>1 DEF IInv, GenerateIsNeeded, ShowsAdmitted
<1>3. Count(snap.of) \in Counts /\ SnapPrint \in Fingerprints
  BY <1>2 DEF Snaps, Counts, SnapPrint, Fingerprints
<1>4. HoldRunsDown' /\ sinceLoad' \in 0 .. AgeCap
  BY <1>1, DaemonAssumption DEF IInv, HoldRunsDown, AgeCap
<1>5. ASSUME latest' \in Writable(SnapPrint, sinceLoad)
      PROVE  latest' \in Entries /\ DueLater'
  <2>1. sinceLoad \in Nat
    BY DaemonAssumption DEF IInv, TypeOK, AgeCap
  <2>2. /\ latest' \in Entries
        /\ latest'.age = AgeCap \/ latest'.age + latest'.left >= CadenceMin
    BY <1>3, <1>5, <2>1, WritableType
  <2> QED
    BY <2>2 DEF DueLater, AgeCap
<1>6. CASE Generated
  <2>1. /\ pc' = "publish" /\ via' = "exact" /\ snap' = None
        /\ out' = [count |-> Count(snap.of), text |-> SnapPrint]
        /\ latest' \in Entries /\ DueLater'
    BY <1>5, <1>6 DEF Generated
  <2>2. out' \in Presences /\ out'.text = SnapPrint /\ out'.count = Count(snap.of)
    BY <1>3, <2>1, PresenceType
  <2>3. TypeOK'
    BY <1>1, <1>4, <2>1, <2>2 DEF IInv, TypeOK
  <2>4. Agrees(out, via)'
    BY <1>1, <1>2, <2>2 DEF Agrees
  <2> QED
    BY <1>4, <2>1, <2>3, <2>4
    DEF IInv, GenerateIsNeeded, FallbackIsOldNews, ShowsAdmitted, Settled
<1>7. CASE GenerationFails
  <2>1. pc' = "publish" /\ UNCHANGED <<latest, snap>>
    BY <1>7 DEF GenerationFails
  <2>2. DueLater' /\ SnapPrint' = SnapPrint
    BY <2>1 DEF IInv, DueLater, SnapPrint, Fingerprint
  <2>3. CASE snap.fallback # None
    <3>1. /\ via' = "fallback"
          /\ out' = [count |-> Count(snap.of), text |-> snap.fallback]
      BY <1>7, <2>3 DEF GenerationFails
    <3>2. snap.fallback \in Fingerprints
      BY <1>2, <2>3 DEF Snaps
    <3>3. /\ out' \in Presences /\ out'.text = snap.fallback
          /\ out'.count = Count(snap.of)
      BY <1>3, <3>1, <3>2, PresenceType
    <3>4. TypeOK'
      BY <1>1, <1>4, <2>1, <3>1, <3>3 DEF IInv, TypeOK
    <3>5. Agrees(out, via)' /\ FallbackIsOldNews'
      BY <1>1, <1>2, <2>2, <3>1, <3>3 DEF Agrees, FallbackIsOldNews
    <3> QED
      BY <1>4, <2>1, <2>2, <3>4, <3>5 DEF IInv, GenerateIsNeeded, ShowsAdmitted, Settled
  <2>4. CASE snap.fallback = None
    <3>1. via' = "none" /\ out' = None
      BY <1>7, <2>4 DEF GenerationFails
    <3>2. TypeOK'
      BY <1>1, <1>4, <2>1, <3>1 DEF IInv, TypeOK
    <3> QED
      BY <1>4, <2>1, <2>2, <3>1, <3>2
      DEF IInv, GenerateIsNeeded, FallbackIsOldNews, ShowsAdmitted, Agrees, Settled
  <2> QED
    BY <2>3, <2>4
<1>8. CASE SaveFails
  <2>1. pc' = "error" /\ snap' = None /\ UNCHANGED <<out, via>>
    BY <1>8 DEF SaveFails
  <2>2. latest' \in Entries \cup {None} /\ DueLater'
    <3>1. CASE latest' = latest
      BY <3>1 DEF IInv, TypeOK, DueLater
    <3>2. CASE latest' \in Writable(SnapPrint, sinceLoad)
      BY <1>5, <3>2
    <3> QED
      BY <1>8, <3>1, <3>2 DEF SaveFails
  <2>3. TypeOK'
    BY <1>1, <1>4, <2>1, <2>2 DEF IInv, TypeOK
  <2> QED
    BY <1>4, <2>1, <2>2, <2>3
    DEF IInv, GenerateIsNeeded, FallbackIsOldNews, ShowsAdmitted, Settled
<1> QED
  BY <1>6, <1>7, <1>8

LEMMA PublishPreserves ==
  ASSUME IInv, Publish \/ PublishFails \/ EmitError
  PROVE  IInv'
<1> USE DEF IInv, TypeOK, DueLater, GenerateIsNeeded, FallbackIsOldNews, ShowsAdmitted,
        Agrees, HoldRunsDown, Settled, timers, Unmoved, Forget
<1>1. CASE Publish
  BY <1>1 DEF Publish
<1>2. CASE PublishFails
  BY <1>2 DEF PublishFails
<1>3. CASE EmitError
  BY <1>3 DEF EmitError
<1> QED
  BY <1>1, <1>2, <1>3

LEMMA Inductive == Spec => []IInv
<1>1. ASSUME IInv, [Next]_vars
      PROVE  IInv'
  BY <1>1, TickPreserves, WorldPreserves, StageOnePreserves, HoldPreserves,
     ProceedPreserves, HistoryFailsPreserves, GeneratePreserves, PublishPreserves
  DEF Next, DaemonStep
<1> QED
  BY <1>1, InitIInv, PTL DEF Spec

-----------------------------------------------------------------------------
(* The runtime's fields keep their types (cli.py:140-229, daemon.py). *)
THEOREM DaemonTypeCorrect == Spec => []TypeOK
<1>1. IInv => TypeOK
  BY DEF IInv
<1> QED
  BY <1>1, Inductive, PTL

(* What is displayed is of what the debouncer has admitted, and a fallback *)
(* is never the status of the aggregate it stands in for, whatever others  *)
(* make of the history, for every retention that is shorter than the       *)
(* shortest cadence (daemon.py:72-106, 169-238; cli.py:209-230, 526-547).  *)
THEOREM DaemonDisplayIsSound == Spec => []DisplayIsSound
<1>1. IInv => DisplayIsSound
  BY DEF IInv, DisplayIsSound, AdmittedIsShown, ShowsAdmitted, Agrees, Settled
<1> QED
  BY <1>1, Inductive, PTL

(* Holds follow each other for less than the longest delay                 *)
(* (daemon.py:72-106).                                                     *)
THEOREM DaemonHoldIsBounded == Spec => HoldIsBounded
<1>1. ASSUME IInv, [Next]_vars
      PROVE  [(\E a \in Seen : Hold(a)) => heldFor' < DelayMax]_vars
  BY <1>1, HoldPreserves
<1> QED
  BY <1>1, Inductive, PTL DEF Spec, HoldIsBounded

=============================================================================
