---------------------------- MODULE DaemonRuntime ----------------------------
(***************************************************************************)
(* cli.py _DaemonRuntime and daemon.py: one iteration after another of the *)
(* continuous Discord daemon.                                              *)
(*                                                                         *)
(* An iteration does stage-one work on at most one queued source, loads    *)
(* the exact sessions, asks the count debouncer whether to go on, reuses   *)
(* or generates a status, and publishes.  Model calls take time: sessions  *)
(* come and go and clocks run while the daemon waits for them, and other   *)
(* processes, previews and daemons, replace the history that it has read.  *)
(*                                                                         *)
(* Time is kept in timers rather than in a clock, so that behaviours have  *)
(* no end: the latest history entry has an age and a time left until it is *)
(* due for a refresh, the debouncer a time left of its hold.               *)
(***************************************************************************)
EXTENDS Naturals, Sequences

CONSTANTS
    Harnesses,      \* names of harnesses
    Contexts,       \* sets of approved public phrases, as values
    Crowds,         \* what live sessions may amount to: the sorted list of
                    \* their harness names, and a context or None
    None,
    RetainLast,     \* settings.retain_last_seconds
    CadenceMin,     \* settings.generation_cadence_min_seconds
    CadenceMax,     \* settings.generation_cadence_max_seconds
    DelayMin,       \* CountChangeDebouncer's minimum_seconds
    DelayMax,       \* and maximum_seconds
    OthersDelay     \* longest time another process waits for its model

(* The defaults of config.py have RetainLast (300) below CadenceMin (480). *)
ASSUME DaemonAssumption ==
    /\ Crowds \subseteq
          [crew : Seq(Harnesses) \ {<<>>}, context : Contexts \cup {None}]
    /\ \A a \in Crowds : [a EXCEPT !.context = None] \in Crowds
    /\ OthersDelay \in Nat
    /\ RetainLast \in Nat /\ CadenceMin \in Nat /\ CadenceMax \in Nat
    /\ RetainLast < CadenceMin /\ CadenceMin <= CadenceMax
    /\ DelayMin \in Nat \ {0} /\ DelayMax \in Nat /\ DelayMin <= DelayMax
    /\ None \notin Contexts

VARIABLES
    pc,             \* where the iteration stands
    live,           \* what the sessions amount to from now on, or None
                    \* while they come and go and calls may fail (ghost)
    force,          \* _DaemonRuntime.force_generic
    snap,           \* what refresh was called with and has loaded, or None
    stable,         \* CountChangeDebouncer._stable
    holdLeft,       \* time left until _pending_until, or None
    latest,         \* the last entry of the history file, or None
    sinceLoad,      \* time since `current`, while a status is generated
    out,            \* the presence about to be published
    via,            \* how that presence, and what is shown, came about (ghost)
    published,      \* what the publisher shows
    heldFor         \* time since the debouncer began to hold (ghost)

timers == <<holdLeft, latest, sinceLoad, heldFor>>
vars == <<pc, live, force, snap, stable, timers, out, via, published>>

AgeCap == CadenceMax    \* due and past its retention: ages stop counting here
Older(t) == IF t < AgeCap THEN t + 1 ELSE AgeCap
Less(t) == IF t > 0 THEN t - 1 ELSE 0

Nobody == [crew |-> <<>>, context |-> None]
Aggregates == Crowds \cup {Nobody}
Modes == {"generic", "candid"}
Count(a) == Len(a.crew)
Counts == {Count(a) : a \in Crowds}

(* aggregate_fingerprint: the list of the harnesses and, in candid mode,   *)
(* the context.  A status is known by the fingerprint it was written for.  *)
Fingerprint(a, mode) ==
    [crew |-> a.crew, mode |-> mode,
     context |-> IF mode = "candid" THEN a.context ELSE None]
Fingerprints == {Fingerprint(a, m) : a \in Crowds, m \in Modes}

(* _public_snapshot: the debouncer sees which harnesses there are, and not *)
(* how many of each.                                                       *)
PublicSnapshot(a) ==
    [count |-> Count(a), harnesses |-> {a.crew[i] : i \in DOMAIN a.crew},
     context |-> a.context]
Snapshots == {PublicSnapshot(a) : a \in Aggregates}

Entries == [fingerprint : Fingerprints, age : 0 .. AgeCap, left : 0 .. CadenceMax]
Presences == [count : Counts, text : Fingerprints]
Snaps == [of : Aggregates, mode : Modes, fallback : Fingerprints \cup {None}]

(* None is told from whatever a variable holds otherwise. *)
ASSUME NoneAssumption ==
    /\ None \notin Nat
    /\ \A a \in Aggregates : None # a
    /\ \A f \in Fingerprints : None # f
    /\ \A s \in Snapshots : None # s
    /\ \A s \in Snaps : None # s
    /\ \A e \in Entries : None # e
    /\ \A p \in Presences : None # p

TypeOK ==
    /\ pc \in {"asleep", "stageOne", "load", "generate", "publish", "error"}
    /\ live \in Aggregates \cup {None}
    /\ force \in BOOLEAN
    /\ snap = None \/ snap \in Snaps
    /\ stable \in Snapshots \cup {None}
    /\ holdLeft \in 0 .. DelayMax \cup {None}
    /\ latest \in Entries \cup {None}
    /\ sinceLoad \in 0 .. AgeCap
    /\ out \in Presences \cup {None}
    /\ via \in {"none", "exact", "fallback", "stageOne"}
    /\ published \in Presences \cup {None}
    /\ heldFor \in 0 .. DelayMax \cup {None}

Init ==
    /\ pc = "asleep"
    /\ live = None
    /\ force = FALSE /\ snap = None
    /\ stable = None /\ holdLeft = None
    /\ latest = None /\ sinceLoad = 0
    /\ out = None /\ via = "none" /\ published = None
    /\ heldFor = None

-----------------------------------------------------------------------------
(* The world *)

Unmoved == UNCHANGED <<live, timers>>

(* Sessions start, stop and expire, hints and activities come and go, at   *)
(* any time: a load may see any aggregate until the sessions stay.         *)
Quiet == live # None
Seen == IF Quiet THEN {live} ELSE Aggregates

Tick ==
    /\ latest' = IF latest = None THEN None
                 ELSE [latest EXCEPT !.age = Older(@), !.left = Less(@)]
    /\ holdLeft' = IF holdLeft = None THEN None ELSE Less(holdLeft)
    /\ sinceLoad' = IF pc = "generate" THEN Older(sinceLoad) ELSE sinceLoad
    /\ heldFor' = IF heldFor = None \/ heldFor = DelayMax THEN heldFor ELSE heldFor + 1
    /\ UNCHANGED <<pc, live, force, snap, stable, out, via, published>>

(* What save_history writes of a status that is `age` old by now. *)
Written(fingerprint, age, cadence) ==
    [fingerprint |-> fingerprint, age |-> IF age < AgeCap THEN age ELSE AgeCap,
     left |-> IF cadence > age THEN cadence - age ELSE 0]
Writable(fingerprint, age) ==
    {Written(fingerprint, age, cadence) : cadence \in CadenceMin .. CadenceMax}

(* A preview or another daemon, which waited for its own model for as long *)
(* as it took, replaces the history; or one that quarantines a history it  *)
(* saw invalid moves the one away that is there by now.                    *)
OthersWrite ==
    /\ \/ latest' = None
       \/ \E f \in Fingerprints, age \in 0 .. OthersDelay :
             latest' \in Writable(f, age)
    /\ UNCHANGED <<pc, live, force, snap, stable, holdLeft, sinceLoad, out, via,
                   published, heldFor>>

(* From here on the sessions stay and no call fails.  That begins between  *)
(* two iterations: an earlier end of trouble shows no later.               *)
QuietDown ==
    /\ ~Quiet /\ pc = "asleep"
    /\ live' \in Aggregates
    /\ UNCHANGED <<pc, force, snap, stable, timers, out, via, published>>

-----------------------------------------------------------------------------
(* _DaemonRuntime.step, stage one *)

Wake ==
    /\ pc = "asleep"
    /\ pc' = "stageOne"
    /\ UNCHANGED <<force, snap, stable, out, via, published>> /\ Unmoved

(* No job, an abstention on provisional work, or an activity saved, which  *)
(* a load may show.                                                        *)
StageOneDone ==
    /\ pc = "stageOne"
    /\ pc' = "load"
    /\ UNCHANGED <<force, snap, stable, out, via, published>> /\ Unmoved

(* _reject_context: the turn's activity is removed, which a load may show, *)
(* and generic is forced.                                                  *)
StageOneRejects ==
    /\ pc = "stageOne" /\ ~Quiet
    /\ pc' = "load"
    /\ force' = TRUE
    /\ UNCHANGED <<snap, stable, out, via, published>> /\ Unmoved

(* Mutant of Usable: a fallback has no age bound. *)
UsableForever == latest # None

(* valid_fallback on the history as it is loaded now. *)
Usable == latest # None /\ latest.age <= RetainLast

(* ModelRequestError: _publish_stage_one_fallback shows the exact count    *)
(* beside a recent status, without asking the debouncer.                   *)
StageOneUnreachable ==
    /\ pc = "stageOne" /\ ~Quiet
    /\ pc' = "publish"
    /\ \E a \in Seen :
          IF a.crew # <<>> /\ Usable
            THEN /\ via' = "stageOne"
                 /\ out' = [count |-> Count(a), text |-> latest.fingerprint]
            ELSE via' = "none" /\ out' = None
    /\ UNCHANGED <<force, snap, stable, published>> /\ Unmoved

(* The event store, the activity window or the history cannot be read. *)
StorageFails ==
    /\ pc \in {"stageOne", "load"} /\ ~Quiet
    /\ pc' = "error"
    /\ UNCHANGED <<force, snap, stable, out, via, published>> /\ Unmoved

-----------------------------------------------------------------------------
(* _DaemonRuntime.step, load_active_sessions and CountChangeDebouncer.admit *)

(* The aggregate of one iteration, of what its load has seen. *)
Loaded(a) == IF force THEN [a EXCEPT !.context = None] ELSE a
LoadedMode == IF force THEN "generic" ELSE "candid"

(* The debouncer's verdict on a snapshot, in the order of its tests. *)
Immediate(s) == stable = None \/ s.count = 0
Meaningful(s) == s.harnesses # stable.harnesses \/ s.context # stable.context
SameCount(s) == s.count = stable.count

(* Neither is due: a count-only change is held. *)
Holds(s) ==
    /\ ~Immediate(s) /\ ~Meaningful(s) /\ ~SameCount(s)
    /\ holdLeft # 0

(* Mutant of Hold: a held change counts as admitted. *)
HoldCommits(a) ==
    /\ pc = "load" /\ Holds(PublicSnapshot(Loaded(a)))
    /\ pc' = "asleep"
    /\ force' = FALSE
    /\ stable' = PublicSnapshot(Loaded(a))
    /\ IF holdLeft = None
         THEN holdLeft' \in DelayMin .. DelayMax
         ELSE UNCHANGED holdLeft
    /\ heldFor' = IF heldFor = None THEN 0 ELSE heldFor
    /\ UNCHANGED <<live, snap, latest, sinceLoad, out, via, published>>

(* Mutant of Hold: every held call chooses a new deadline. *)
HoldChoosesAgain(a) ==
    /\ pc = "load" /\ Holds(PublicSnapshot(Loaded(a)))
    /\ pc' = "asleep"
    /\ force' = FALSE
    /\ holdLeft' \in DelayMin .. DelayMax
    /\ heldFor' = IF heldFor = None THEN 0 ELSE heldFor
    /\ UNCHANGED <<live, snap, stable, latest, sinceLoad, out, via, published>>

(* admit returns None: the iteration ends with nothing published. *)
Hold(a) ==
    /\ pc = "load" /\ Holds(PublicSnapshot(Loaded(a)))
    /\ pc' = "asleep"
    /\ force' = FALSE
    /\ IF holdLeft = None
         THEN holdLeft' \in DelayMin .. DelayMax
         ELSE UNCHANGED holdLeft
    /\ heldFor' = IF heldFor = None THEN 0 ELSE heldFor
    /\ UNCHANGED <<live, snap, stable, latest, sinceLoad, out, via, published>>

(* admit returns the sessions. *)
Admit(a) ==
    /\ pc = "load" /\ ~Holds(PublicSnapshot(Loaded(a)))
    /\ stable' = PublicSnapshot(Loaded(a))
    /\ holdLeft' = None /\ heldFor' = None

Reusable(fp) == latest # None /\ latest.fingerprint = fp /\ latest.left > 0

Snap(a) ==
    snap' = [of |-> a, mode |-> LoadedMode,
             fallback |-> IF Usable THEN latest.fingerprint ELSE None]

(* refresh up to generation: nobody is there, or the status loaded still   *)
(* fits and is not due, or one has to be generated.                        *)
Refresh(a) ==
    /\ LET fp == Fingerprint(a, LoadedMode)
       IN  \/ /\ a.crew = <<>>
              /\ pc' = "publish" /\ out' = None /\ via' = "none"
              /\ UNCHANGED snap
           \/ /\ a.crew # <<>> /\ Reusable(fp)
              /\ pc' = "publish" /\ via' = "exact"
              /\ out' = [count |-> Count(a), text |-> fp]
              /\ UNCHANGED snap
           \/ /\ a.crew # <<>> /\ ~Reusable(fp)
              /\ pc' = "generate" /\ Snap(a)
              /\ UNCHANGED <<out, via>>
    /\ UNCHANGED <<live, latest, sinceLoad, published>>

(* Mutant of Proceed: generic stays forced. *)
ProceedKeepsForce(a) == Admit(a) /\ Refresh(Loaded(a)) /\ UNCHANGED force

(* Mutant of Proceed: the early return of refresh is lost. *)
ProceedWithNobody(a) ==
    /\ Admit(a)
    /\ force' = FALSE
    /\ pc' = "generate" /\ Snap(Loaded(a))
    /\ UNCHANGED <<live, latest, sinceLoad, out, via, published>>

Proceed(a) == Admit(a) /\ Refresh(Loaded(a)) /\ force' = FALSE

(* load_history raises in refresh, when the debouncer has admitted the     *)
(* sessions and the forced mode is used up.                                *)
HistoryFails(a) ==
    /\ Admit(a) /\ a.crew # <<>> /\ ~Quiet
    /\ force' = FALSE
    /\ pc' = "error"
    /\ UNCHANGED <<live, snap, latest, sinceLoad, out, via, published>>

-----------------------------------------------------------------------------
(* _generate_or_fallback *)

SnapPrint == Fingerprint(snap.of, snap.mode)

(* The status is stamped with the time of the load, not of the answer, and *)
(* becomes the last entry, whatever others have written meanwhile.         *)
Generated ==
    /\ pc = "generate"
    /\ latest' \in Writable(SnapPrint, sinceLoad)
    /\ pc' = "publish" /\ via' = "exact"
    /\ out' = [count |-> Count(snap.of), text |-> SnapPrint]
    /\ snap' = None /\ sinceLoad' = 0
    /\ UNCHANGED <<live, force, stable, holdLeft, heldFor, published>>

(* The call failed or its reply was refused: the status loaded is shown if *)
(* it was within its retention bound when the iteration loaded.            *)
GenerationFails ==
    /\ pc = "generate" /\ ~Quiet
    /\ pc' = "publish"
    /\ IF snap.fallback # None
         THEN /\ via' = "fallback"
              /\ out' = [count |-> Count(snap.of), text |-> snap.fallback]
         ELSE via' = "none" /\ out' = None
    /\ sinceLoad' = 0
    /\ UNCHANGED <<live, force, snap, stable, holdLeft, latest, heldFor, published>>

(* save_history raises OSError: the reply is lost to this iteration.  The  *)
(* file is as it was, unless it was the last chmod that failed.            *)
SaveFails ==
    /\ pc = "generate" /\ ~Quiet
    /\ pc' = "error"
    /\ latest' = latest \/ latest' \in Writable(SnapPrint, sinceLoad)
    /\ snap' = None /\ sinceLoad' = 0
    /\ UNCHANGED <<live, force, stable, holdLeft, out, via, heldFor, published>>

-----------------------------------------------------------------------------
(* publisher.publish, and the error path of the daemon command *)

(* step has returned or raised: what it held is gone. *)
Forget == snap' = None /\ out' = None

Publish ==
    /\ pc = "publish"
    /\ pc' = "asleep"
    /\ published' = out /\ Forget
    /\ UNCHANGED <<force, stable, via>> /\ Unmoved

(* DiscordPublisher shows nothing after it raised. *)
PublishFails ==
    /\ pc = "publish" /\ ~Quiet
    /\ pc' = "error"
    /\ published' = None /\ via' = "none" /\ Forget
    /\ UNCHANGED <<force, stable>> /\ Unmoved

(* _emit_daemon_error: publish(None), whose own error is swallowed. *)
EmitError ==
    /\ pc = "error"
    /\ pc' = "asleep"
    /\ published' = None /\ via' = "none" /\ Forget
    /\ UNCHANGED <<force, stable>> /\ Unmoved

(* The daemon stops and another one starts; only the history survives. *)
Restart ==
    /\ ~Quiet
    /\ pc' = "asleep"
    /\ force' = FALSE /\ stable' = None /\ Forget
    /\ holdLeft' = None /\ heldFor' = None /\ sinceLoad' = 0
    /\ via' = "none" /\ published' = None
    /\ UNCHANGED <<live, latest>>

DaemonStep ==
    \/ Wake
    \/ StageOneDone \/ StageOneRejects \/ StageOneUnreachable
    \/ StorageFails
    \/ \E a \in Seen : Hold(a) \/ Proceed(a) \/ HistoryFails(a)
    \/ Generated \/ GenerationFails \/ SaveFails
    \/ Publish \/ PublishFails \/ EmitError

Next == DaemonStep \/ OthersWrite \/ Tick \/ QuietDown \/ Restart

Spec == Init /\ [][Next]_vars

(* The loop goes on forever, every call ends by a timeout, time passes.    *)
FairSpec == Spec /\ WF_vars(DaemonStep) /\ WF_vars(Tick)

-----------------------------------------------------------------------------
(* A fallback never repeats the status of the aggregate it stands in for,  *)
(* whoever wrote it and whatever the history has become since: a status    *)
(* falls due after its retention has run out, so a refresh that fails      *)
(* while nothing changed always clears (daemon.py:231 with config.py's     *)
(* defaults; architecture.md, "Failure behavior").                         *)
FallbackIsOldNews ==
    pc = "publish" /\ via = "fallback" => out.text # SnapPrint

(* Between iterations the display is what the debouncer admitted last, and *)
(* no change that it holds back, no failure on the way and no write of     *)
(* another process comes between them: the count is the admitted one, and  *)
(* so is the aggregate the status was written for, unless it is a fallback *)
(* (daemon.py:72-106, 170-199).  Only the fallback of stage one shows a    *)
(* count the debouncer was not asked about (cli.py:209-230).               *)
AdmittedIsShown ==
    pc \in {"asleep", "stageOne", "load"} /\ published # None /\ via # "stageOne" =>
        /\ published.count = stable.count
        /\ via # "fallback" => PublicSnapshot(published.text) = stable

(* What is shown was admitted, and old news never stands in for itself     *)
(* (daemon.py:72-106, 169-238).                                            *)
DisplayIsSound == FallbackIsOldNews /\ AdmittedIsShown

(* A count that keeps changing cannot keep the debouncer from publishing:  *)
(* holds follow each other for less than the longest delay.                *)
HoldIsBounded == [][(\E a \in Seen : Hold(a)) => heldFor' < DelayMax]_vars

(* When the sessions come to rest, so does the display: it ends up showing *)
(* the exact count beside a status written for exactly this aggregate, or  *)
(* nothing when nobody is there, though others go on replacing the history *)
(* (cli.py:149-191, 473-502; daemon.py:151-199).                           *)
Exact ==
    IF live.crew = <<>> THEN published = None
    ELSE published = [count |-> Count(live), text |-> Fingerprint(live, "candid")]
EventuallyExact == <>[](Quiet /\ pc = "asleep" => Exact)

=============================================================================
