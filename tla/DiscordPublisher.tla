-------------------------- MODULE DiscordPublisher --------------------------
(***************************************************************************)
(* publisher.py: DiscordPublisher over PypresenceClient.                   *)
(*                                                                         *)
(* The daemon's one thread calls publish(presence), publish(None) and      *)
(* close().  A call is several calls of the RPC client, and Discord, which *)
(* is another process, may quit or start between any two of them, answer   *)
(* or not answer, and apply an update whose answer never arrives.  Ctrl-C  *)
(* (KeyboardInterrupt, which no handler in publisher.py catches) may end   *)
(* the call anywhere; the daemon then runs close().                        *)
(***************************************************************************)
EXTENDS Naturals

CONSTANTS
    Presences,      \* the payloads refresh() can publish
    None,           \* Python's None
    MaxClock        \* bound on the wall clock

ASSUME MaxClockAssumption == MaxClock \in Nat
ASSUME NoneAssumption ==
    /\ None \notin Presences
    /\ None \notin Nat
    /\ None \notin [presence : Presences, start : Nat]

VARIABLES
    pc,             \* where the current publisher call stands
    arg,            \* the presence of the current or last call, None to clear
    retry,          \* _update's retry argument
    outcome,        \* how the last call ended: "none", "ok" or "raised"
    connected,      \* DiscordPublisher.connected
    last,           \* DiscordPublisher.last_published
    startedAt,      \* DiscordPublisher.started_at
    link,           \* the writer: "none", "open", or "closing" (is_closing())
    peer,           \* is Discord still at the other end of that writer?
    running,        \* is Discord running?
    shown,          \* what Discord displays for this connection
    clock

callVars == <<pc, arg, retry, outcome>>
publisherVars == <<connected, last, startedAt>>
discordVars == <<link, peer, running, shown>>
vars == <<callVars, publisherVars, discordVars, clock>>

Now == 0 .. MaxClock
Shown == [presence : Presences, start : Now]
Busy == {"update", "failed", "clear", "clearFailed"}

TypeOK ==
    /\ pc \in {"idle", "closing", "hangup", "closed"} \cup Busy
    /\ arg \in Presences \cup {None}
    /\ retry \in BOOLEAN
    /\ outcome \in {"none", "ok", "raised"}
    /\ connected \in BOOLEAN
    /\ last \in Presences \cup {None}
    /\ startedAt \in Now \cup {None}
    /\ link \in {"none", "open", "closing"}
    /\ peer \in BOOLEAN
    /\ running \in BOOLEAN
    /\ shown \in Shown \cup {None}
    /\ clock \in Now

Init ==
    /\ pc = "idle" /\ arg = None /\ retry = FALSE /\ outcome = "none"
    /\ connected = FALSE /\ last = None /\ startedAt = None
    /\ link = "none" /\ peer = FALSE /\ running \in BOOLEAN /\ shown = None
    /\ clock = 0

-----------------------------------------------------------------------------
(* The call returns or raises. *)
Return(how) == pc' = "idle" /\ outcome' = how

(* Dropping the writer ends the connection, and Discord clears what that   *)
(* connection displayed.                                                   *)
HangUp ==
    /\ link' = "none"
    /\ peer' = FALSE
    /\ shown' = None
    /\ UNCHANGED running

(* DiscordPublisher._disconnect: errors of the cleanup are swallowed. *)
Disconnect == HangUp /\ connected' = FALSE

(* PypresenceClient.is_connected looks at the writer only.  pypresence's   *)
(* event loop runs inside client calls alone, so a peer that went away     *)
(* between two calls has not closed the writer yet.                        *)
IsConnected == link = "open"

-----------------------------------------------------------------------------
(* publish(presence) *)

IsDuplicate(p) == connected /\ p = last

(* The payload is the one on display and the writer looks healthy: return. *)
PublishDuplicate(p) ==
    /\ pc = "idle"
    /\ IsDuplicate(p) /\ IsConnected
    /\ arg' = p /\ Return("ok")
    /\ UNCHANGED <<retry, publisherVars, discordVars, clock>>

(* Otherwise enter _update(presence, retry=True); a duplicate whose writer *)
(* is closing is disconnected first.                                       *)
Publish(p) ==
    /\ pc = "idle"
    /\ ~(IsDuplicate(p) /\ IsConnected)
    /\ arg' = p /\ retry' = TRUE /\ pc' = "update"
    /\ IF IsDuplicate(p) THEN Disconnect ELSE UNCHANGED <<connected, discordVars>>
    /\ UNCHANGED <<outcome, last, startedAt, clock>>

Connect ==
    /\ pc = "update" /\ ~connected
    /\ running
    /\ connected' = TRUE
    /\ link' = "open" /\ peer' = TRUE
    /\ UNCHANGED <<callVars, last, startedAt, running, shown, clock>>

(* No Discord, or a handshake that failed with the transport half open. *)
ConnectFails ==
    /\ pc = "update" /\ ~connected
    /\ pc' = "failed"
    /\ \/ UNCHANGED <<link, peer>>
       \/ running /\ link' = "open" /\ peer' = TRUE
    /\ UNCHANGED <<arg, retry, outcome, publisherVars, running, shown, clock>>

StampStart ==
    /\ pc = "update" /\ connected /\ startedAt = None
    /\ startedAt' = clock
    /\ UNCHANGED <<callVars, connected, last, discordVars, clock>>

Payload == [presence |-> arg, start |-> startedAt]

(* client.update succeeds.  The loop may see Discord's end close right     *)
(* after the answer: the call has succeeded and the writer is closing.     *)
Update ==
    /\ pc = "update" /\ connected /\ startedAt # None
    /\ peer
    /\ last' = arg /\ Return("ok")
    /\ \/ shown' = Payload /\ UNCHANGED <<link, peer, running>>
       \/ shown' = None /\ link' = "closing" /\ peer' = FALSE /\ running' = FALSE
    /\ UNCHANGED <<arg, retry, connected, startedAt, clock>>

(* client.update raises: the peer is gone, or its answer is an error, or   *)
(* the answer did not come in time although the update was applied.        *)
UpdateFails ==
    /\ pc = "update" /\ connected /\ startedAt # None
    /\ pc' = "failed"
    /\ shown' \in {shown} \cup (IF peer THEN {Payload} ELSE {})
    /\ UNCHANGED <<arg, retry, outcome, publisherVars, link, peer, running, clock>>

(* Mutant of HandleFailure: the recursive call keeps retry=True. *)
HandleFailureRetriesForever ==
    /\ pc = "failed"
    /\ Disconnect
    /\ pc' = "update"
    /\ UNCHANGED <<arg, retry, outcome, last, startedAt, clock>>

(* Mutant of HandleFailure: a reconnection starts a new window. *)
HandleFailureRestartsTimer ==
    /\ pc = "failed"
    /\ Disconnect
    /\ IF retry THEN pc' = "update" /\ UNCHANGED outcome ELSE Return("raised")
    /\ retry' = FALSE /\ startedAt' = None
    /\ UNCHANGED <<arg, last, clock>>

(* except (ConnectionError, OSError): disconnect, then retry once or raise *)
HandleFailure ==
    /\ pc = "failed"
    /\ Disconnect
    /\ IF retry THEN pc' = "update" /\ UNCHANGED outcome ELSE Return("raised")
    /\ retry' = FALSE
    /\ UNCHANGED <<arg, last, startedAt, clock>>

-----------------------------------------------------------------------------
(* publish(None) *)

(* Mutant of Forget: only the timer is reset. *)
ForgetKeepsLast == UNCHANGED last /\ startedAt' = None

(* finally: last_published = started_at = None *)
Forget == last' = None /\ startedAt' = None

PublishNone ==
    /\ pc = "idle"
    /\ arg' = None
    /\ IF connected /\ last # None
         THEN pc' = "clear" /\ UNCHANGED <<outcome, last, startedAt>>
         ELSE Forget /\ Return("ok")
    /\ UNCHANGED <<retry, connected, discordVars, clock>>

Clear ==
    /\ pc = "clear"
    /\ peer
    /\ shown' = None
    /\ Forget /\ Return("ok")
    /\ UNCHANGED <<arg, retry, connected, link, peer, running, clock>>

(* client.clear raises, with or without having taken effect. *)
ClearFails ==
    /\ pc = "clear"
    /\ pc' = "clearFailed"
    /\ shown' \in {shown, None}
    /\ UNCHANGED <<arg, retry, outcome, publisherVars, link, peer, running, clock>>

HandleClearFailure ==
    /\ pc = "clearFailed"
    /\ Disconnect
    /\ Forget /\ Return("raised")
    /\ UNCHANGED <<arg, retry, clock>>

-----------------------------------------------------------------------------
(* close(), reached by an orderly end of the daemon or by Ctrl-C inside a  *)
(* call.  publish(None) resets its fields in a finally clause, so an       *)
(* interrupt there forgets them with the presence still on display.        *)
Interrupt ==
    /\ pc \in {"idle"} \cup Busy
    /\ pc' = "closing" /\ arg' = None
    /\ IF pc \in {"clear", "clearFailed"}
         THEN Forget ELSE UNCHANGED <<last, startedAt>>
    /\ UNCHANGED <<retry, outcome, connected, discordVars, clock>>

(* client.clear inside close; its error is raised after client.close. *)
TeardownClear ==
    /\ pc = "closing"
    /\ pc' = "hangup"
    /\ IF connected /\ last # None THEN shown' \in {shown, None} ELSE UNCHANGED shown
    /\ UNCHANGED <<arg, retry, outcome, publisherVars, link, peer, running, clock>>

(* Mutant of TeardownClose: the transport is closed only after a clear. *)
TeardownCloseIfPublished ==
    /\ pc = "hangup"
    /\ IF connected /\ last # None THEN HangUp ELSE UNCHANGED discordVars
    /\ connected' = FALSE /\ Forget
    /\ pc' = "closed"
    /\ UNCHANGED <<arg, retry, outcome, clock>>

TeardownClose ==
    /\ pc = "hangup"
    /\ IF connected THEN HangUp ELSE UNCHANGED discordVars
    /\ connected' = FALSE /\ Forget
    /\ pc' = "closed"
    /\ UNCHANGED <<arg, retry, outcome, clock>>

(* The process exits, whatever it still holds is closed by the system, and *)
(* a new daemon starts.                                                    *)
Restart ==
    /\ pc = "closed"
    /\ HangUp
    /\ pc' = "idle" /\ arg' = None /\ retry' = FALSE /\ outcome' = "none"
    /\ connected' = FALSE /\ Forget
    /\ UNCHANGED clock

-----------------------------------------------------------------------------
(* Discord and time *)

DiscordQuits ==
    /\ running
    /\ running' = FALSE /\ peer' = FALSE /\ shown' = None
    /\ UNCHANGED <<callVars, publisherVars, link, clock>>

DiscordStarts ==
    /\ ~running
    /\ running' = TRUE
    /\ UNCHANGED <<callVars, publisherVars, link, peer, shown, clock>>

Tick ==
    /\ clock < MaxClock
    /\ clock' = clock + 1
    /\ UNCHANGED <<callVars, publisherVars, discordVars>>

-----------------------------------------------------------------------------
(* The steps of a call that has begun *)
CallStep ==
    \/ Connect \/ ConnectFails \/ StampStart \/ Update \/ UpdateFails
    \/ HandleFailure \/ Clear \/ ClearFails \/ HandleClearFailure
    \/ TeardownClear \/ TeardownClose

Next ==
    \/ \E p \in Presences : PublishDuplicate(p) \/ Publish(p)
    \/ PublishNone
    \/ CallStep
    \/ Interrupt \/ Restart
    \/ DiscordQuits \/ DiscordStarts \/ Tick

Spec == Init /\ [][Next]_vars

(* A client call returns or raises: pypresence bounds every read by its    *)
(* response timeout, and the thread has nothing else to do meanwhile.      *)
FairSpec == Spec /\ WF_vars(CallStep)

-----------------------------------------------------------------------------
(* A publish that returned did its work: the payload is the remembered one *)
(* and, if Discord is still there, it is on display with the window's      *)
(* start.  (publisher.py:423-427, 454: the duplicate check trusts          *)
(* last_published, so that field may never outlive a clear or a failure.)  *)
ReturnedMeansShown ==
    pc = "idle" /\ outcome = "ok" /\ arg # None =>
        /\ connected /\ last = arg
        /\ peer => shown = Payload

(* After publish(None) has ended, even by raising, and after close(),      *)
(* nothing is displayed: a daemon whose count fell to zero or that was     *)
(* interrupted leaves no presence behind, whichever client call failed.    *)
WithdrawnMeansDark ==
    (pc = "idle" /\ arg = None) \/ pc = "closed" => shown = None

(* A publish that raised leaves neither a presence nor a connection whose  *)
(* writer nobody will close.                                               *)
RaisedMeansDark ==
    pc = "idle" /\ outcome = "raised" =>
        shown = None /\ link = "none" /\ ~connected

(* Whatever was not published successfully is not left on display, and no  *)
(* writer is left open for it: after a withdrawal, a teardown or a failure *)
(* (publisher.py:412-422, 429-440, 457-470).                               *)
DarkUnlessShown == WithdrawnMeansDark /\ RaisedMeansDark

(* publish always comes back: the reconnect-once rule cannot loop. *)
CallsReturn == pc \in Busy ~> pc \notin Busy

(* The elapsed-time start is kept through status changes, retries and      *)
(* reconnections and is renewed only after presence was withdrawn (ledger, *)
(* "activity wording and stable elapsed timer").                           *)
Board == INSTANCE PresenceBoard
            WITH Instants <- Now,
                 wanted <- arg, window <- startedAt, visible <- shown
BoardSpec == Board!Spec

=============================================================================
