---------------------------- MODULE ContextQueue ----------------------------
(***************************************************************************)
(* context.py ContextQueue: the bounded queue of candid sources waiting    *)
(* for stage one.  Settled work supersedes provisional work of its turn,   *)
(* and a settled rejection is remembered for a while so that a late input  *)
(* delivery cannot resurrect the turn.                                     *)
(*                                                                         *)
(* A lock makes each method one step.  A deque is modelled by the set of   *)
(* its jobs, each with the number of its arrival: the left end is the job  *)
(* with the smallest number.                                               *)
(***************************************************************************)
EXTENDS Naturals, Sequences, FiniteSets

CONSTANTS
    Turns,          \* (session, turn token) keys
    Limit,          \* the queue's limit, also of the remembered rejections
    MaxArrivals     \* bound on accepted jobs

ASSUME LimitAssumption == Limit \in Nat \ {0} /\ MaxArrivals \in Nat

Phases == {"provisional", "settled"}
Jobs == [turn : Turns, phase : Phases, arrival : Nat]

VARIABLES
    jobs,           \* ContextQueue._jobs
    rejections,     \* ContextQueue._settled_rejections, oldest first
    arrivals        \* the number of the next arrival

queueVars == <<jobs, rejections, arrivals>>

QueueTypeOK ==
    /\ jobs \subseteq Jobs
    /\ rejections \in Seq(Turns)
    /\ \A i, k \in DOMAIN rejections : rejections[i] = rejections[k] => i = k
    /\ arrivals \in Nat

QueueInit ==
    /\ jobs = {}
    /\ rejections = << >>
    /\ arrivals = 0

-----------------------------------------------------------------------------
RejectedTurns == {rejections[i] : i \in 1 .. Len(rejections)}
OfTurn(t) == {j \in jobs : j.turn = t}
Others(t) == {j \in jobs : j.turn # t}
ProvisionalIn(S) == {j \in S : j.phase = "provisional"}
SettledIn(S) == {j \in S : j.phase = "settled"}
Oldest(S) == CHOOSE j \in S : \A k \in S : j.arrival <= k.arrival

(* Mutant of TooLate: remembered rejections are not consulted. *)
TooLateForgets(t, phase) ==
    phase = "provisional" /\ SettledIn(OfTurn(t)) # {}

(* Provisional work comes too late once its turn's settled work is queued  *)
(* or was rejected.                                                        *)
TooLate(t, phase) ==
    /\ phase = "provisional"
    /\ t \in RejectedTurns \/ SettledIn(OfTurn(t)) # {}

(* Mutant of Replaced: same-turn work is left in the queue. *)
ReplacedNothing(t) == jobs

(* What stays of the queue when work for t comes in: stale work of the     *)
(* same turn is dropped first, before room is looked for.                  *)
Replaced(t) == Others(t)

Full(t) == Cardinality(Replaced(t)) >= Limit

(* Mutant of Evicted: the oldest job goes, settled or not. *)
EvictedAny(t) == IF Full(t) THEN {Oldest(Replaced(t))} ELSE {}

(* A full queue makes room for settled work by its oldest provisional job. *)
Evicted(t) == IF Full(t) THEN {Oldest(ProvisionalIn(Replaced(t)))} ELSE {}

HasRoom(t, phase) ==
    Full(t) => phase = "settled" /\ ProvisionalIn(Replaced(t)) # {}

(* submit returns False without touching the queue. *)
SubmitTooLate(t, phase) ==
    /\ TooLate(t, phase)
    /\ UNCHANGED queueVars

(* submit returns False after the stale work of the turn was dropped. *)
SubmitNoRoom(t, phase) ==
    /\ ~TooLate(t, phase) /\ ~HasRoom(t, phase)
    /\ jobs' = Replaced(t)
    /\ UNCHANGED <<rejections, arrivals>>

SubmitAccepted(t, phase) ==
    /\ ~TooLate(t, phase) /\ HasRoom(t, phase)
    /\ arrivals < MaxArrivals
    /\ jobs' = (Replaced(t) \ Evicted(t))
                 \cup {[turn |-> t, phase |-> phase, arrival |-> arrivals]}
    /\ arrivals' = arrivals + 1
    /\ UNCHANGED rejections

Submit(t, phase) ==
    SubmitTooLate(t, phase) \/ SubmitNoRoom(t, phase) \/ SubmitAccepted(t, phase)

(* deque(maxlen=limit).append drops the oldest rejection of a full memory. *)
Remembered(t) ==
    IF t \in RejectedTurns THEN rejections
    ELSE IF Len(rejections) < Limit THEN Append(rejections, t)
    ELSE Append(Tail(rejections), t)

(* A rejected settled source takes the waiting work of its turn with it. *)
SuppressProvisional(t) ==
    /\ rejections' = Remembered(t)
    /\ jobs' = jobs \ ProvisionalIn(OfTurn(t))
    /\ UNCHANGED arrivals

Take ==
    /\ jobs # {}
    /\ jobs' = jobs \ {Oldest(jobs)}
    /\ UNCHANGED <<rejections, arrivals>>

QueueNext ==
    \/ \E t \in Turns, phase \in Phases : Submit(t, phase)
    \/ \E t \in Turns : SuppressProvisional(t)
    \/ Take

QueueSpec == QueueInit /\ [][QueueNext]_queueVars

-----------------------------------------------------------------------------
(* Neither deque outgrows its limit, although submit rebuilds the deque    *)
(* and appends to it by hand (context.py:64-76).                           *)
Bounded == Cardinality(jobs) <= Limit /\ Len(rejections) <= Limit

(* A turn has at most one job: settled and provisional work of one turn    *)
(* never wait together, in whichever order they arrive (context.py:55-66). *)
OneJobPerTurn == \A j, k \in jobs : j.turn = k.turn => j = k

(* No provisional job waits for a turn whose settled source was rejected   *)
(* and is still remembered, whether it came before the rejection or after. *)
RejectedNotQueued == \A j \in ProvisionalIn(jobs) : j.turn \notin RejectedTurns

(* What the queue holds is bounded, one job per turn, and nothing a        *)
(* remembered rejection has overtaken (context.py:43-87).                  *)
QueueSound == Bounded /\ OneJobPerTurn /\ RejectedNotQueued

(* A settled job leaves the queue only by being taken, or for newer        *)
(* settled work of its own turn: neither late input nor a full queue costs *)
(* the turn its completion.                                                *)
SettledStays ==
    \A j \in SettledIn(jobs) \ jobs' :
        \/ jobs' = jobs \ {j} /\ j = Oldest(jobs)
        \/ \E k \in SettledIn(jobs') : k.turn = j.turn

(* A submit that returns False loses no waiting work, although the deque   *)
(* was already rebuilt without the turn when the room ran out              *)
(* (context.py:64-74).                                                     *)
RefusalLosesNothing ==
    (\E t \in Turns, phase \in Phases : SubmitNoRoom(t, phase)) => jobs' = jobs

(* The queue is gone, with the daemon that had it. *)
Discarded == jobs = {} /\ rejections = << >>

(* No step of a queue that lives on costs a turn its settled work, or any  *)
(* turn its work by a refusal (context.py:58-75).                          *)
QueueKeepsItsWork ==
    [][~Discarded' => SettledStays /\ RefusalLosesNothing]_queueVars

=============================================================================
