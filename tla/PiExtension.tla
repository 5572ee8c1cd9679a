----------------------------- MODULE PiExtension -----------------------------
(***************************************************************************)
(* assets/pi-away-message.ts: the extension that runs inside Pi and turns  *)
(* its callbacks into hook processes.  Hooks run one after another on a    *)
(* promise chain; shutdown drains the chain up to the last completion and  *)
(* then runs its own hook beside it.                                       *)
(*                                                                         *)
(* An action is one callback of the event loop with the promise jobs it    *)
(* sets off.  Time counts in units of half a second; a timer that is due   *)
(* fires before time goes on, which takes an event loop that is not        *)
(* blocked.  Pi awaits the shutdown handler before it starts a session.    *)
(***************************************************************************)
EXTENDS Naturals, Sequences, FiniteSetsExt

CONSTANTS
    HookTimeout,    \* HOOK_TIMEOUT_MS
    ShutdownDrain,  \* SHUTDOWN_DRAIN_MS
    MaxSessions,    \* bound on the sessions of the process
    MaxEmits,       \* nothing is emitted once so many items were made,
                    \* shutdown hooks included, which alone may follow
    None

ASSUME PiAssumption ==
    /\ HookTimeout \in Nat \ {0} /\ ShutdownDrain \in Nat
    /\ HookTimeout < ShutdownDrain
    /\ MaxSessions \in Nat /\ MaxEmits \in Nat

(* An item is a call of emit or runHook; a spawn that throws is a process  *)
(* that closes at once.  input, agent_start and tool_call are treated      *)
(* alike and are all called input here; gen is the generation of an        *)
(* agent_end, and no says when the item was made.                          *)
EventNames == {"session_start", "input", "agent_end", "session_shutdown"}
Numbers == 1 .. MaxEmits + MaxSessions
Items == [no : Numbers, session : 1 .. MaxSessions,
          event : EventNames, gen : Numbers \cup {0}]

ASSUME NoneAssumption == None \notin Items

(* A hook process, from spawn to close.  Its promise may be settled before *)
(* it has closed.                                                          *)
Children == [item : Items, left : 0 .. HookTimeout,
             recorded : BOOLEAN, killed : BOOLEAN, settled : BOOLEAN]

VARIABLES
    session,        \* the session's number
    handler,        \* idle, open, or where session_shutdown awaits
    drainLeft,      \* time left to drainTail
    closing,
    hasPendingAgentEnd,
    latestAgentEndGeneration,
    queue,          \* items of the chain whose turn has not come
    chain,          \* the item whose hook the chain awaits, or None
    active,         \* the item of activeChild, or None
    children,
    emits,          \* items made so far
    records,        \* the items whose hooks recorded them, in that order
    completion,     \* the number of each session's newest agent_end (ghost)
    spent,          \* time the shutdown handler has taken so far (ghost)
    spoiled         \* sessions in which a hook hung, failed or outlived its kill (ghost)

hookVars == <<queue, chain, active, children>>
vars == <<session, handler, drainLeft, closing, hasPendingAgentEnd,
          latestAgentEndGeneration, hookVars, emits, records, completion, spent, spoiled>>

TypeOK ==
    /\ session \in 0 .. MaxSessions
    /\ handler \in {"idle", "open", "draining", "stopping"}
    /\ drainLeft \in 0 .. ShutdownDrain
    /\ closing \in BOOLEAN /\ hasPendingAgentEnd \in BOOLEAN
    /\ latestAgentEndGeneration \in Numbers \cup {0}
    /\ queue \in Seq(Items) /\ (chain = None => queue = << >>)
    /\ chain \in Items \cup {None} /\ active \in Items \cup {None}
    /\ children \subseteq Children
    /\ \A c, d \in children : c.item = d.item => c = d
    /\ emits \in Numbers \cup {0}
    /\ records \in Seq(Items)
    /\ completion \in [1 .. MaxSessions -> Numbers \cup {0}]
    /\ spent \in Nat
    /\ spoiled \subseteq 1 .. MaxSessions

Init ==
    /\ session = 0 /\ handler = "idle" /\ drainLeft = 0
    /\ closing = FALSE /\ hasPendingAgentEnd = FALSE
    /\ latestAgentEndGeneration = 0
    /\ queue = << >> /\ chain = None /\ active = None /\ children = {}
    /\ emits = 0 /\ records = << >>
    /\ completion = [s \in 1 .. MaxSessions |-> 0]
    /\ spent = 0 /\ spoiled = {}

-----------------------------------------------------------------------------
(* emit and runHook *)

Spawned(item) == [item |-> item, left |-> HookTimeout,
                  recorded |-> FALSE, killed |-> FALSE, settled |-> FALSE]

(* emit: the item waits for its turn on the chain, which may be now. *)
Emit(item) ==
    /\ emits < MaxEmits
    /\ emits' = emits + 1
    /\ IF chain = None
         THEN /\ chain' = item /\ active' = item
              /\ children' = children \cup {Spawned(item)}
              /\ UNCHANGED queue
         ELSE queue' = Append(queue, item) /\ UNCHANGED <<chain, active, children>>

Item(s, event, gen) == [no |-> emits + 1, session |-> s, event |-> event, gen |-> gen]

(* Mutant of Runs: a closing extension skips completions too. *)
RunsUnlessClosing(item) == ~closing

(* When its turn comes, an item runs unless the extension is closing; the  *)
(* newest completion runs all the same.                                    *)
Runs(item) ==
    \/ ~closing
    \/ item.event = "agent_end" /\ item.gen = latestAgentEndGeneration

(* Mutant of ChainAdvances: an item that does not run ends the chain. *)
ChainStopsAtSkipped(left) ==
    IF queue = << >> \/ (queue # << >> /\ ~Runs(Head(queue)))
    THEN /\ queue' = IF queue = << >> THEN queue ELSE Tail(queue)
         /\ chain' = None /\ active' = None /\ children' = left
    ELSE /\ queue' = Tail(queue)
         /\ chain' = Head(queue) /\ active' = Head(queue)
         /\ children' = left \cup {Spawned(Head(queue))}

(* The awaited hook's promise settled, leaving these processes: the chain  *)
(* goes to the next item that runs, passing over those that do not.        *)
ChainAdvances(left) ==
    LET runnable == {i \in DOMAIN queue : Runs(queue[i])}
    IN  IF runnable = {}
        THEN /\ queue' = << >> /\ chain' = None /\ active' = None
             /\ children' = left
        ELSE LET next == queue[Min(runnable)]
             IN  /\ queue' = SubSeq(queue, Min(runnable) + 1, Len(queue))
                 /\ chain' = next /\ active' = next
                 /\ children' = left \cup {Spawned(next)}

(* finish settles a promise once, and clears activeChild, whosever it is. *)
Finish(c, left) ==
    IF c.item = chain THEN ChainAdvances(left)
    ELSE active' = None /\ children' = left /\ UNCHANGED <<queue, chain>>

(* A hook hangs or fails: the session it does so in is spoiled, and so is  *)
(* one that a killed hook lives on in.                                     *)
Spoil == spoiled' = spoiled \cup {session}
Outlived == IF \E c \in children : c.killed THEN {session} ELSE {}

-----------------------------------------------------------------------------
(* Hook processes *)

HookRecords(c) ==
    /\ ~c.recorded /\ ~c.killed
    /\ records' = Append(records, c.item)
    /\ children' = (children \ {c}) \cup {[c EXCEPT !.recorded = TRUE]}
    /\ UNCHANGED <<session, handler, drainLeft, closing, hasPendingAgentEnd,
                   latestAgentEndGeneration, queue, chain, active, emits, spent, spoiled, completion>>

(* The process ends, having recorded its event or not. *)
HookCloses(c) ==
    /\ IF c.settled
         THEN children' = children \ {c} /\ UNCHANGED <<queue, chain, active>>
         ELSE Finish(c, children \ {c})
    /\ IF ~c.recorded /\ ~c.killed THEN Spoil ELSE UNCHANGED spoiled
    /\ UNCHANGED <<session, handler, drainLeft, closing, hasPendingAgentEnd,
                   latestAgentEndGeneration, emits, records, spent, completion>>

Killed(c) == [c EXCEPT !.killed = TRUE]

(* Mutant of HookTimesOut: the process is left to itself. *)
HookTimesOutUnkilled(c) ==
    /\ ~c.settled /\ c.left = 0
    /\ Finish(c, (children \ {c}) \cup {[c EXCEPT !.settled = TRUE]})
    /\ Spoil
    /\ UNCHANGED <<session, handler, drainLeft, closing, hasPendingAgentEnd,
                   latestAgentEndGeneration, emits, records, spent, completion>>

(* Mutant of HookTimesOut: the killed process is awaited. *)
HookTimesOutAwaited(c) ==
    /\ ~c.settled /\ c.left = 0 /\ ~c.killed
    /\ children' = (children \ {c}) \cup {Killed(c)}
    /\ Spoil
    /\ UNCHANGED <<session, handler, drainLeft, closing, hasPendingAgentEnd, queue, chain,
                   active, latestAgentEndGeneration, emits, records, spent, completion>>

(* The hook's timer: the process is killed and not waited for. *)
HookTimesOut(c) ==
    /\ ~c.settled /\ c.left = 0
    /\ Finish(c, (children \ {c}) \cup {[Killed(c) EXCEPT !.settled = TRUE]})
    /\ Spoil
    /\ UNCHANGED <<session, handler, drainLeft, closing, hasPendingAgentEnd,
                   latestAgentEndGeneration, emits, records, spent, completion>>

-----------------------------------------------------------------------------
(* Pi's callbacks *)

SessionStart ==
    /\ handler = "idle" /\ session < MaxSessions
    /\ session' = session + 1 /\ handler' = "open"
    /\ closing' = FALSE /\ hasPendingAgentEnd' = FALSE
    /\ Emit(Item(session + 1, "session_start", 0))
    /\ spoiled' = spoiled \cup Outlived
    /\ UNCHANGED <<drainLeft, latestAgentEndGeneration, records, spent, completion>>

Input ==
    /\ handler = "open"
    /\ Emit(Item(session, "input", 0))
    /\ UNCHANGED <<session, handler, drainLeft, closing, hasPendingAgentEnd,
                   latestAgentEndGeneration, records, spent, spoiled, completion>>

AgentEnd ==
    /\ handler = "open"
    /\ hasPendingAgentEnd' = TRUE
    /\ UNCHANGED <<session, handler, drainLeft, closing, latestAgentEndGeneration,
                   hookVars, emits, records, spent, spoiled, completion>>

AgentSettled ==
    /\ handler = "open" /\ hasPendingAgentEnd
    /\ hasPendingAgentEnd' = FALSE
    /\ latestAgentEndGeneration' = latestAgentEndGeneration + 1
    /\ Emit(Item(session, "agent_end", latestAgentEndGeneration + 1))
    /\ completion' = [completion EXCEPT ![session] = emits + 1]
    /\ UNCHANGED <<session, handler, drainLeft, closing, records, spent, spoiled>>

(* What becomes of the processes when activeChild is killed. *)
ActiveKilled == {IF c.item = active /\ ~c.settled THEN Killed(c) ELSE c : c \in children}

(* session_shutdown up to its first await: a running hook is killed unless *)
(* it is the newest completion's.                                          *)
Shutdown ==
    /\ handler = "open"
    /\ handler' = "draining" /\ closing' = TRUE
    /\ drainLeft' = ShutdownDrain /\ spent' = 0
    /\ children' =
          IF active # None /\ active.event = "agent_end"
                /\ active.gen = latestAgentEndGeneration
            THEN children ELSE ActiveKilled
    /\ UNCHANGED <<session, hasPendingAgentEnd, latestAgentEndGeneration, queue, chain,
                   active, emits, records, spoiled, completion>>

(* lastAgentEnd is resolved once its item is past. *)
LastAgentEndResolved ==
    \A item \in {queue[i] : i \in DOMAIN queue} \cup ({chain} \ {None}) :
        ~(item.event = "agent_end" /\ item.gen = latestAgentEndGeneration)

(* Mutant of Drained: the drain has no timer. *)
DrainedInTheEnd(resolved) == resolved

Drained(resolved) == resolved \/ drainLeft = 0

(* From the first await to the second: whatever runs is killed, and the    *)
(* shutdown hook runs beside the chain.                                    *)
RunShutdownHook ==
    /\ handler = "draining" /\ Drained(LastAgentEndResolved)
    /\ handler' = "stopping" /\ drainLeft' = ShutdownDrain
    /\ LET item == Item(session, "session_shutdown", 0)
       IN  /\ active' = item
           /\ children' = ActiveKilled \cup {Spawned(item)}
    /\ emits' = emits + 1
    /\ UNCHANGED <<session, closing, hasPendingAgentEnd, latestAgentEndGeneration, queue,
                   chain, records, spent, spoiled, completion>>

Unsettled(event) == {c \in children : ~c.settled /\ c.item.event = event}

ShutdownReturns ==
    /\ handler = "stopping" /\ Drained(Unsettled("session_shutdown") = {})
    /\ handler' = "idle" /\ drainLeft' = 0 /\ spent' = 0
    /\ UNCHANGED <<session, closing, hasPendingAgentEnd, latestAgentEndGeneration,
                   hookVars, emits, records, spoiled, completion>>

(* Half a second passes.  Nothing is due: no timer, and no promise job.    *)
Tick ==
    /\ \E c \in children : ~c.settled
    /\ \A c \in children : c.settled \/ c.left > 0
    /\ handler = "draining" => ~Drained(LastAgentEndResolved)
    /\ handler = "stopping" => ~Drained(Unsettled("session_shutdown") = {})
    /\ children' = {IF c.settled THEN c ELSE [c EXCEPT !.left = @ - 1] : c \in children}
    /\ drainLeft' = IF drainLeft > 0 THEN drainLeft - 1 ELSE 0
    /\ spent' = IF handler \in {"draining", "stopping"} THEN spent + 1 ELSE spent
    /\ spoiled' = spoiled \cup Outlived
    /\ UNCHANGED <<session, handler, closing, hasPendingAgentEnd,
                   latestAgentEndGeneration, queue, chain, active, emits, records, completion>>

HookTimers == \E c \in children : HookTimesOut(c)

Next ==
    \/ \E c \in children : HookRecords(c) \/ HookCloses(c)
    \/ HookTimers
    \/ SessionStart \/ Input \/ AgentEnd \/ AgentSettled
    \/ Shutdown \/ RunShutdownHook \/ ShutdownReturns
    \/ Tick

Spec == Init /\ [][Next]_vars

(* The event loop runs its timers and promise jobs; a hook may hang.       *)
FairSpec ==
    Spec /\ WF_vars(HookTimers) /\ WF_vars(RunShutdownHook)
         /\ WF_vars(ShutdownReturns) /\ WF_vars(Tick)

-----------------------------------------------------------------------------
(* "Presence must never interfere with Pi": session_shutdown returns after *)
(* the drain and one hook's timeout, however many hooks hang               *)
(* (pi-away-message.ts:149-157, 200-213).                                  *)
ShutdownIsBounded == spent <= ShutdownDrain + HookTimeout

(* The events of the chain are recorded in the order in which Pi gave      *)
(* them, although a hook that hangs is given up (lines 104-109, 134-146).  *)
(* Nothing of a session is recorded after its shutdown, which overtakes    *)
(* the chain, unless a hook hung, failed or outlived its kill in it: the   *)
(* next session_start may then let queued events through (line 161).       *)
RecordsInOrder ==
    \A i, k \in DOMAIN records :
        i < k =>
            IF records[i].event = "session_shutdown"
              THEN \/ records[k].session # records[i].session
                   \/ records[i].session \in spoiled
              ELSE \/ records[k].event = "session_shutdown"
                   \/ records[i].no < records[k].no

(* A session whose shutdown was recorded had its last completion recorded  *)
(* before, although shutdown kills and skips other hooks: unless a hook    *)
(* hung, failed or outlived its kill (lines 134-146, 200-213).             *)
CompletionSurvivesShutdown ==
    \A k \in DOMAIN records :
        LET s == records[k].session IN
        records[k].event = "session_shutdown" /\ s \notin spoiled =>
            \/ completion[s] = 0
            \/ \E i \in 1 .. k : records[i].no = completion[s]

(* Once Pi gives no more events every item has had its turn: hooks that    *)
(* hang do not block the chain (lines 80-89, 104-109).                     *)
ChainDrains == chain # None ~> chain = None

=============================================================================
