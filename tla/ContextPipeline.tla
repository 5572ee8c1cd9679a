--------------------------- MODULE ContextPipeline ---------------------------
(***************************************************************************)
(* From a hook's context packet to public activity: hooks send datagrams   *)
(* (context.py deliver_context), the daemon drains its socket into the     *)
(* queue of module ContextQueue, reduces one job per iteration (cli.py     *)
(* _process_context, context.py process_one), and keeps what it admits in  *)
(* the window of module ActivityWindow.                                    *)
(*                                                                         *)
(* The input hook and the completion hook of a turn are processes of their *)
(* own, so their packets come in either order and at any moment of an      *)
(* iteration; a packet is lost when no socket is bound or its buffer is    *)
(* full.  The two model calls of stage one are one step with any verdict;  *)
(* what an iteration does after stage one is module DaemonRuntime, which   *)
(* also has force_generic, the other effect of a settled rejection.        *)
(***************************************************************************)
EXTENDS ContextQueue, ActivityWindow

CONSTANTS
    WireLimit,      \* packets that fit the socket's buffer
    MaxRestarts,    \* bound on restarts of the daemon
    NoJob           \* stage one is idle

ASSUME WireAssumption == WireLimit \in Nat \ {0} /\ MaxRestarts \in Nat

ASSUME TurnsAssumption == Turns \subseteq WindowTurns

Packets == [turn : Turns, phase : Phases]

VARIABLES
    up,             \* the daemon runs and its socket is bound
    restarts,
    sent,           \* packets the hooks have sent, each at most once
    wire,           \* the socket's buffer
    job,            \* the job in stage one
    window,         \* activity-window.json
    saves,          \* the clock of ActivityRecord.observed_at
    unremoved       \* ghost: rejected turns whose removal failed

daemonVars == <<job, window, saves, unremoved>>
vars == <<queueVars, up, restarts, sent, wire, job, window, saves, unremoved>>

TypeOK ==
    /\ QueueTypeOK
    /\ up \in BOOLEAN /\ restarts \in 0 .. MaxRestarts
    /\ sent \subseteq Packets
    /\ wire \in Seq(Packets) /\ Len(wire) <= WireLimit
    /\ job \in Jobs \cup {NoJob}
    /\ IsWindow(window)
    /\ saves \in Nat
    /\ unremoved \subseteq Turns
    /\ ~up => jobs = {} /\ rejections = << >> /\ wire = << >> /\ job = NoJob

Init ==
    /\ QueueInit
    /\ up = TRUE /\ restarts = 0
    /\ sent = {} /\ wire = << >>
    /\ job = NoJob
    /\ window = << >> /\ saves = 0
    /\ unremoved = {}

-----------------------------------------------------------------------------
(* A hook sends its packet: sendto either fits the buffer or fails, and    *)
(* the hook does not try again.                                            *)
Deliver(t, phase) ==
    LET packet == [turn |-> t, phase |-> phase] IN
    /\ packet \notin sent
    /\ sent' = sent \cup {packet}
    /\ wire' = IF up /\ Len(wire) < WireLimit THEN Append(wire, packet) ELSE wire
    /\ UNCHANGED <<queueVars, up, restarts, daemonVars>>

(* _drain_context_socket: one packet at a time, until the socket is empty. *)
Drain ==
    /\ up /\ job = NoJob /\ wire # << >>
    /\ Submit(Head(wire).turn, Head(wire).phase)
    /\ wire' = Tail(wire)
    /\ UNCHANGED <<up, restarts, sent, daemonVars>>

(* process_one takes a job once the socket is drained. *)
TakeJob ==
    /\ up /\ job = NoJob /\ wire = << >>
    /\ Take
    /\ job' = Oldest(jobs)
    /\ UNCHANGED <<up, restarts, sent, wire, window, saves, unremoved>>

Admit ==
    /\ job # NoJob
    /\ saves' = saves + 1
    /\ window' = Saved(window, [turn |-> job.turn, phase |-> job.phase, seen |-> saves])
    /\ job' = NoJob
    /\ unremoved' = unremoved \ {job.turn}
    /\ UNCHANGED <<queueVars, up, restarts, sent, wire>>

(* _reject_context ignores the rejection of provisional work. *)
RejectProvisional ==
    /\ job # NoJob /\ job.phase = "provisional"
    /\ job' = NoJob
    /\ UNCHANGED <<queueVars, up, restarts, sent, wire, window, saves, unremoved>>

(* _reject_context: first the queue is told, then the window loses the turn. *)
RejectSettled ==
    /\ job # NoJob /\ job.phase = "settled"
    /\ SuppressProvisional(job.turn)
    /\ window' = Removed(window, job.turn)
    /\ job' = NoJob
    /\ UNCHANGED <<up, restarts, sent, wire, saves, unremoved>>

(* The queue is told first; the removal may then fail (cli.py:252-258). *)
RejectSettledNotRemoved ==
    /\ job # NoJob /\ job.phase = "settled" /\ InWindow(window, job.turn)
    /\ SuppressProvisional(job.turn)
    /\ unremoved' = unremoved \cup {job.turn}
    /\ job' = NoJob
    /\ UNCHANGED <<up, restarts, sent, wire, window, saves>>

(* Mutant of Fail: the job is put back, to be tried again. *)
FailRequeues ==
    /\ job # NoJob
    /\ jobs' = jobs \cup {job}
    /\ job' = NoJob
    /\ UNCHANGED <<rejections, arrivals, up, restarts, sent, wire, window, saves,
                   unremoved>>

(* The model request fails, or the save does: the job is lost. *)
Fail ==
    /\ job # NoJob
    /\ job' = NoJob
    /\ UNCHANGED <<queueVars, up, restarts, sent, wire, window, saves, unremoved>>

(* The daemon exits or dies, perhaps in stage one.  Only the window lasts; *)
(* it is replaced by rename, so death during a save keeps old or new.      *)
Stop ==
    /\ up /\ restarts < MaxRestarts
    /\ up' = FALSE
    /\ wire' = << >> /\ job' = NoJob /\ jobs' = {} /\ rejections' = << >>
    /\ UNCHANGED <<arrivals, restarts, sent, window, saves, unremoved>>

Start ==
    /\ ~up
    /\ up' = TRUE /\ restarts' = restarts + 1
    /\ UNCHANGED <<queueVars, sent, wire, daemonVars>>

Reduce == Admit \/ RejectProvisional \/ RejectSettled \/ RejectSettledNotRemoved \/ Fail

Next ==
    \/ \E t \in Turns, phase \in Phases : Deliver(t, phase)
    \/ Drain \/ TakeJob \/ Reduce
    \/ Stop \/ Start

Spec == Init /\ [][Next]_vars

(* The daemon's loop goes on and every model call ends (its deadline is    *)
(* the client's); hooks, crashes and restarts are owed nothing.            *)
FairSpec == Spec /\ WF_vars(Drain \/ TakeJob \/ Reduce)

-----------------------------------------------------------------------------
(* A completion once admitted is not undone: the turn stays settled in the *)
(* window, whatever arrives late and however the queue and the window      *)
(* interleave, unless the limit cuts off the front entry                   *)
(* (generation.py:513-516, context.py:47-61).                              *)
CompletionStays ==
    [][\A i \in DOMAIN window :
          window[i].phase = "settled" =>
             \/ IsSettledIn(window', window[i].turn)
             \/ i = 1 /\ Len(window) = WindowLimit /\ saves' # saves]_vars

(* A turn whose settled source was rejected has no public activity, nor    *)
(* work under way that could give it some, while the rejection is          *)
(* remembered: not from provisional work in the queue, on the wire or      *)
(* late (cli.py:249-259, context.py:47-48).  The exception is a removal    *)
(* that failed.                                                            *)
RejectedStaysOut ==
    \A t \in RejectedTurns :
        /\ InWindow(window, t) => t \in unremoved
        /\ job # NoJob /\ job.turn = t => job.phase = "settled"

(* Settled work that reached the queue is decided in the end: neither      *)
(* newer packets nor failures of other jobs keep it waiting                *)
(* (cli.py:232-247, one job per iteration after a full drain).             *)
CompletionIsDecided ==
    \A t \in Turns :
        SettledIn(OfTurn(t)) # {} ~>
            (SettledIn(OfTurn(t)) = {} /\ (job = NoJob \/ job.turn # t))

=============================================================================
