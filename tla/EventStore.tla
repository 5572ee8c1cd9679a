----------------------------- MODULE EventStore -----------------------------
(***************************************************************************)
(* store.py: the append-only lifecycle log, the hook processes that append *)
(* to it, and its two reductions: active_sessions, by timestamp, and       *)
(* completion_turn_token, by append order.                                 *)
(*                                                                         *)
(* Every native hook is a process of its own (codex-hook, pi-hook).  It    *)
(* stamps its record with the time, appends it, and in candid mode a       *)
(* completion then reads the log back to find the input turn it settles.   *)
(* Nothing orders two processes, so records reach the log in an order that *)
(* need not be that of their stamps; a harness kills a slow hook anywhere. *)
(***************************************************************************)
EXTENDS Naturals, Sequences, FiniteSets, Functions

CONSTANTS
    Sessions,       \* (harness, session digest) pairs
    Hooks,          \* hook processes that can run at the same time
    Hints,          \* public activity hints
    None,           \* Python's None
    TTL,            \* settings.ttl_seconds
    MaxClock,       \* bound on the wall clock
    MaxRecords,     \* bound on the length of the log
    MaxShortWrites  \* bound on appends cut short (a full disk)

ASSUME EventStoreAssumption ==
    /\ TTL \in Nat \ {0}
    /\ MaxClock \in Nat /\ MaxRecords \in Nat /\ MaxShortWrites \in Nat

(* The classes into which the reductions sort LifecycleEvent. *)
Starts == {"start"}             \* started, pi.session_start
Turns == {"turn"}               \* codex.user_prompt_submit, pi.input
Beats == {"beat"}               \* every other heartbeat
Completions == {"complete"}     \* codex.stop, pi.agent_end
Stops == {"stop"}               \* stopped, pi.session_shutdown
Events == Starts \cup Turns \cup Beats \cup Completions \cup Stops

VARIABLES
    log,            \* the records whose append returned, in append order
    broken,         \* the file holds a line that does not parse
    hooks,          \* the hook processes
    open,           \* the input turn each agent is working on (ghost)
    settled,        \* the pairings that hooks delivered (ghost)
    disturbed,      \* the sessions whose turns did not reach the log in order (ghost)
    shortWrites,
    clock

vars == <<log, broken, hooks, open, settled, disturbed, shortWrites, clock>>

Records ==
    [session : Sessions, event : Events, at : 0 .. MaxClock,
     expires : Nat, hint : Hints \cup {None}]

(* An input turn's token is derived from its record; the session and the   *)
(* stamp identify it.                                                      *)
Token(r) == <<r.session, r.at>>
Tokens == Sessions \X (0 .. MaxClock)

(* None is not a hint, a token or a record. *)
ASSUME NoneAssumption == None \notin Hints \cup Tokens \cup Records

Free == [pc |-> "free"]
Running == [pc : {"stamped", "appended"}, of : Tokens \cup {None}, record : Records]

TypeOK ==
    /\ log \in Seq(Records) /\ Len(log) <= MaxRecords
    /\ broken \in BOOLEAN
    /\ hooks \in [Hooks -> {Free} \cup Running]
    /\ open \in [Sessions -> Tokens \cup {None}]
    /\ settled \subseteq [completion : Records, turn : Tokens, of : Tokens \cup {None}]
    /\ disturbed \subseteq Sessions
    /\ shortWrites \in 0 .. MaxShortWrites
    /\ clock \in 0 .. MaxClock

Init ==
    /\ log = << >> /\ broken = FALSE
    /\ hooks = [h \in Hooks |-> Free]
    /\ open = [s \in Sessions |-> None]
    /\ settled = {} /\ disturbed = {}
    /\ shortWrites = 0
    /\ clock = 0

-----------------------------------------------------------------------------
(* EventStore.active_sessions *)

Absent == [record |-> None, hint |-> None, turn |-> None]

NextHint(r, prior) ==
    IF r.event \in Starts \cup Turns \/ r.hint # None THEN r.hint ELSE prior

(* Mutant of NextTurn: a new incarnation keeps the previous turn. *)
NextTurnAcrossStarts(r, prior) == IF r.event \in Turns THEN Token(r) ELSE prior

NextTurn(r, prior) ==
    IF r.event \in Turns THEN Token(r)
    ELSE IF r.event \in Starts \cup Stops THEN None ELSE prior

Reduce(latest, r) ==
    [latest EXCEPT ![r.session] =
        [record |-> r, hint |-> NextHint(r, @.hint), turn |-> NextTurn(r, @.turn)]]

(* Mutant of ByTime: the reduction follows append order. *)
ByTimeUnsorted(records) == records

(* sorted by occurred_at; the order of the log decides between equals. *)
Precedes(records, i, j) ==
    \/ records[i].at < records[j].at
    \/ records[i].at = records[j].at /\ i < j
Rank(records, j) == Cardinality({i \in DOMAIN records : Precedes(records, i, j)})
ByTime(records) ==
    [n \in DOMAIN records |->
        records[CHOOSE j \in DOMAIN records : Rank(records, j) = n - 1]]

(* What latest is after each number of the sorted records. *)
Reductions(sorted) ==
    LET latest[n \in 0 .. Len(sorted)] ==
            IF n = 0 THEN [s \in Sessions |-> Absent]
                     ELSE Reduce(latest[n - 1], sorted[n])
    IN  latest

Latest(records) == Reductions(ByTime(records))[Len(records)]

IsLive(entry, now) ==
    /\ entry.record # None
    /\ entry.record.event \notin Stops
    /\ entry.record.expires > now

ActiveSessions(records, now) ==
    LET latest == Latest(records)
    IN  {[session |-> s, hint |-> latest[s].hint, turn |-> latest[s].turn] :
            s \in {t \in Sessions : IsLive(latest[t], now)}}

Active(records, now) == {a.session : a \in ActiveSessions(records, now)}

-----------------------------------------------------------------------------
(* EventStore.completion_turn_token *)

(* Mutant of Observe: a completion reads the oldest turn without taking it. *)
ObserveKeepsTurn(pending, r) ==
    [pending EXCEPT ![r.session] =
        CASE r.event \in Starts \cup Stops -> << >>
          [] r.event \in Turns -> Append(@, Token(r))
          [] OTHER -> @]

(* Mutant of Observe: a new incarnation inherits the unmatched turns. *)
ObserveAcrossStarts(pending, r) ==
    [pending EXCEPT ![r.session] =
        CASE r.event \in Turns -> Append(@, Token(r))
          [] r.event \in Completions /\ @ # << >> -> Tail(@)
          [] OTHER -> @]

(* The loop's body: the turns of each session that no completion has taken.*)
Observe(pending, r) ==
    [pending EXCEPT ![r.session] =
        CASE r.event \in Starts \cup Stops -> << >>
          [] r.event \in Turns -> Append(@, Token(r))
          [] r.event \in Completions /\ @ # << >> -> Tail(@)
          [] OTHER -> @]

(* What unmatched is after each number of the records. *)
Unmatched(records) ==
    LET unmatched[n \in 0 .. Len(records)] ==
            IF n = 0 THEN [s \in Sessions |-> << >>]
                     ELSE Observe(unmatched[n - 1], records[n])
    IN  unmatched

(* A completion pairs with the oldest turn unmatched where it stands. *)
CompletionTurnToken(records, completion) ==
    LET pending(n) == Unmatched(records)[n - 1][completion.session]
        places == {n \in DOMAIN records : records[n] = completion /\ pending(n) # << >>}
    IN  IF places = {} THEN None ELSE Head(pending(CHOOSE n \in places : TRUE))

-----------------------------------------------------------------------------
(* Hook processes *)

(* adapters._record: the process stamps its record.  Stamps have the       *)
(* resolution of a microsecond: two processes never share one.             *)
Stamp(h, s, e, hint) ==
    /\ hooks[h] = Free
    /\ clock < MaxClock
    /\ hooks' = [hooks EXCEPT ![h] =
            [pc |-> "stamped", of |-> open[s],
             record |-> [session |-> s, event |-> e, at |-> clock,
                         expires |-> clock + TTL, hint |-> hint]]]
    /\ clock' = clock + 1
    /\ UNCHANGED <<log, broken, settled, shortWrites>>

(* What an agent does next: it starts, takes an input, works on it, ends   *)
(* it, stops.                                                              *)
AgentStarts(h, s) ==
    /\ Stamp(h, s, "start", None)
    /\ open' = [open EXCEPT ![s] = None]
    /\ UNCHANGED disturbed
AgentStops(h, s) ==
    /\ Stamp(h, s, "stop", None)
    /\ open' = [open EXCEPT ![s] = None]
    /\ UNCHANGED disturbed
AgentBeats(h, s) ==
    /\ \E hint \in Hints \cup {None} : Stamp(h, s, "beat", hint)
    /\ UNCHANGED <<open, disturbed>>
AgentTakesInput(h, s) ==
    /\ \E hint \in Hints \cup {None} : Stamp(h, s, "turn", hint)
    /\ open' = [open EXCEPT ![s] = <<s, clock>>]
    /\ disturbed' = disturbed \cup {x \in {s} : open[s] # None}
AgentCompletes(h, s) ==
    /\ open[s] # None
    /\ Stamp(h, s, "complete", None)
    /\ open' = [open EXCEPT ![s] = None]
    /\ UNCHANGED disturbed

(* The user interrupts the agent: the turn ends and no completion is sent. *)
AgentInterrupted(s) ==
    /\ open[s] # None
    /\ open' = [open EXCEPT ![s] = None]
    /\ disturbed' = disturbed \cup {s}
    /\ UNCHANGED <<log, broken, hooks, settled, shortWrites, clock>>

(* Ghost: a record that the pairing goes by, and the session it unsettles  *)
(* when it is lost, or passes an older one on the way to the log.          *)
Waiting(h) == hooks[h] # Free /\ hooks[h].pc = "stamped"
Marks(h) == Waiting(h) /\ hooks[h].record.event \notin Beats
LosesMark(h) == {s \in Sessions : Marks(h) /\ hooks[h].record.session = s}
Overtakes(h) ==
    {s \in LosesMark(h) :
        \E k \in Hooks : /\ Marks(k) /\ hooks[k].record.session = s
                         /\ hooks[k].record.at < hooks[h].record.at}

(* append: one O_APPEND write of the whole line. *)
AppendRecord(h) ==
    /\ hooks[h].pc = "stamped"
    /\ Len(log) < MaxRecords
    /\ log' = Append(log, hooks[h].record)
    /\ hooks' = [hooks EXCEPT ![h].pc = "appended"]
    /\ disturbed' = disturbed \cup Overtakes(h)
    /\ UNCHANGED <<broken, open, settled, shortWrites, clock>>

(* The write was cut short: append raises and the prefix stays.  It does   *)
(* not parse, and the next append continues its line.                      *)
AppendShort(h) ==
    /\ hooks[h].pc = "stamped"
    /\ shortWrites < MaxShortWrites
    /\ shortWrites' = shortWrites + 1
    /\ broken' = TRUE
    /\ hooks' = [hooks EXCEPT ![h] = Free]
    /\ disturbed' = disturbed \cup LosesMark(h)
    /\ UNCHANGED <<log, open, settled, clock>>

(* Mutant of Settle: the test that a turn was found is lost. *)
SettleUnpaired(h) ==
    /\ hooks[h].pc = "appended"
    /\ hooks' = [hooks EXCEPT ![h] = Free]
    /\ LET r == hooks[h].record
       IN  settled' =
             IF r.event \in Completions /\ ~broken
               THEN settled \cup {[completion |-> r, of |-> hooks[h].of,
                                   turn |-> CompletionTurnToken(log, r)]}
               ELSE settled
    /\ UNCHANGED <<log, broken, open, disturbed, shortWrites, clock>>

(* A completion finds its turn in the log as it stands now and delivers    *)
(* the settled source for it; other hooks are done.                        *)
Settle(h) ==
    /\ hooks[h].pc = "appended"
    /\ hooks' = [hooks EXCEPT ![h] = Free]
    /\ LET r == hooks[h].record
       IN  settled' =
             IF r.event \in Completions /\ ~broken /\ CompletionTurnToken(log, r) # None
               THEN settled \cup {[completion |-> r, of |-> hooks[h].of,
                                   turn |-> CompletionTurnToken(log, r)]}
               ELSE settled
    /\ UNCHANGED <<log, broken, open, disturbed, shortWrites, clock>>

(* The harness kills the process (the Pi extension does so after a second).*)
Kill(h) ==
    /\ hooks[h] # Free
    /\ hooks' = [hooks EXCEPT ![h] = Free]
    /\ disturbed' = disturbed \cup LosesMark(h)
    /\ UNCHANGED <<log, broken, open, settled, shortWrites, clock>>

Tick ==
    /\ clock < MaxClock
    /\ clock' = clock + 1
    /\ UNCHANGED <<log, broken, hooks, open, settled, disturbed, shortWrites>>

HookStep(h) == AppendRecord(h) \/ AppendShort(h) \/ Settle(h) \/ Kill(h)

Next ==
    \/ \E h \in Hooks, s \in Sessions :
          \/ AgentStarts(h, s) \/ AgentStops(h, s) \/ AgentBeats(h, s)
          \/ AgentTakesInput(h, s) \/ AgentCompletes(h, s)
    \/ \E s \in Sessions : AgentInterrupted(s)
    \/ \E h \in Hooks : HookStep(h)
    \/ Tick

Spec == Init /\ [][Next]_vars

-----------------------------------------------------------------------------
(* What liveness means, said without the fold: a session is active when    *)
(* the newest of its stamps is neither terminal nor expired; its turn is   *)
(* the newest input since its last start or stop; its hint is the newest   *)
(* one since the last input or start.                                      *)
Of(s) == {r \in Range(log) : r.session = s}
Newest(S) == CHOOSE r \in S : \A q \in S : q.at <= r.at
TurnOf(s) ==
    LET T == {r \in Of(s) : r.event \in Starts \cup Stops \cup Turns}
    IN  IF T # {} /\ Newest(T).event \in Turns THEN Token(Newest(T)) ELSE None
HintOf(s) ==
    LET H == {r \in Of(s) : r.event \in Starts \cup Turns \/ r.hint # None}
    IN  IF H # {} THEN Newest(H).hint ELSE None

(* The fold of store.py:130-188 computes exactly that, whatever the order  *)
(* in which concurrent hooks reached the log.                              *)
ReductionIsExact ==
    ActiveSessions(log, clock) =
        {[session |-> s, hint |-> HintOf(s), turn |-> TurnOf(s)] :
            s \in {t \in Sessions :
                     /\ Of(t) # {}
                     /\ Newest(Of(t)).event \notin Stops
                     /\ Newest(Of(t)).expires > clock}}

(* A heartbeat stamped before a stop but appended after it does not bring  *)
(* the session back: an append makes a session active only by a record     *)
(* newer than everything the log held about it (store.py:148).             *)
NoResurrection ==
    [][log' # log =>
          \A s \in Active(log', clock') \ Active(log, clock) :
             \A r \in Of(s) :
                log'[Len(log')].session = s /\ r.at < log'[Len(log')].at]_vars

Between(a, b) == {i \in 1 .. Len(log) : a < i /\ i < b}
IndexOf(r) == CHOOSE i \in 1 .. Len(log) : log[i] = r
TurnIndex(token) ==
    CHOOSE i \in 1 .. Len(log) : log[i].event \in Turns /\ Token(log[i]) = token

(* Two completions never settle the same turn, although each hook pairs    *)
(* against the log as it found it (store.py:86-95).                        *)
SettledOnce ==
    \A d, e \in settled : d.turn = e.turn => d.completion = e.completion

(* The turn settled was this session's, put in the log before the          *)
(* completion with no start or stop between (store.py:79-80).              *)
SettledInIncarnation ==
    \A d \in settled :
        LET t == TurnIndex(d.turn)
            c == IndexOf(d.completion)
        IN  /\ t < c
            /\ log[t].session = d.completion.session
            /\ \A i \in Between(t, c) :
                  log[i].session = d.completion.session =>
                      log[i].event \notin Starts \cup Stops

(* What completions settle, and how often (store.py:64-96).                *)
SettlementIsSound == SettledOnce /\ SettledInIncarnation

(* While a session's turns are orderly - each ends before the next begins, *)
(* none is interrupted, no hook of its marks is lost or overtaken on the   *)
(* way to the log - first in, first out settles exactly the turn the agent *)
(* has completed (store.py:91-93).  In a disturbed session a completion    *)
(* may settle the turn before its own, until a start or stop clears it.    *)
OrderlyTurnsSettleThemselves ==
    \A d \in settled : d.completion.session \notin disturbed => d.turn = d.of

=============================================================================
