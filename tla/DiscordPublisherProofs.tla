----------------------- MODULE DiscordPublisherProofs -----------------------
(***************************************************************************)
(* DiscordPublisher keeps its promises for every set of payloads and every *)
(* bound on the clock, and it implements PresenceBoard.                    *)
(***************************************************************************)
EXTENDS DiscordPublisher, TLAPS

(* What is on display belongs to a connection the publisher knows of. *)
LinkInv ==
    /\ shown # None => connected /\ peer
    /\ peer => link = "open" /\ running
    /\ connected => link # "none"
    /\ ~connected /\ pc \in {"idle", "update", "clear", "clearFailed"} => link = "none"

(* Outside teardown, what is on display carries the window's start. *)
WindowInv ==
    shown # None /\ pc \notin {"closing", "hangup"} =>
        startedAt # None /\ shown.start = startedAt

(* Between calls the fields agree with how the last call ended. *)
IdleInv ==
    pc = "idle" =>
        /\ arg = None => last = None /\ startedAt = None /\ shown = None
        /\ outcome # "ok" => ~connected
        /\ outcome = "ok" /\ arg # None =>
              /\ connected /\ last = arg /\ startedAt # None
              /\ peer => shown = Payload

(* Only publish(presence) has a presence, and close() ends unconnected. *)
CallInv ==
    /\ pc \in {"update", "failed"} => arg # None
    /\ pc \in {"clear", "clearFailed", "closing", "hangup", "closed"} => arg = None
    /\ pc = "closed" => ~connected

IInv == TypeOK /\ LinkInv /\ WindowInv /\ IdleInv /\ CallInv

LEMMA InitEstablishes == Init => IInv
<1> SUFFICES ASSUME Init
             PROVE  IInv
  OBVIOUS
<1>1. TypeOK
  <2>1. clock \in Now
    BY MaxClockAssumption DEF Init, Now
  <2>2. connected \in BOOLEAN /\ retry \in BOOLEAN /\ peer \in BOOLEAN
    BY DEF Init
  <2> QED
    BY <2>1, <2>2 DEF Init, TypeOK
<1>2. LinkInv /\ WindowInv
  BY DEF Init, LinkInv, WindowInv
<1>3. IdleInv /\ CallInv
  BY DEF Init, IdleInv, CallInv
<1> QED
  BY <1>1, <1>2, <1>3 DEF IInv

LEMMA NextPreserves == IInv /\ [Next]_vars => IInv'
<1> SUFFICES ASSUME IInv, [Next]_vars
             PROVE  IInv'
  OBVIOUS
<1> USE MaxClockAssumption, NoneAssumption
    DEF IInv, TypeOK, LinkInv, WindowInv, IdleInv, CallInv, Now, Shown, Busy,
        vars, callVars, publisherVars, discordVars, Return, Forget, HangUp,
        Disconnect, Payload, IsDuplicate, IsConnected
<1>1. ASSUME NEW p \in Presences, PublishDuplicate(p)
      PROVE  IInv'
  BY <1>1 DEF PublishDuplicate
<1>2. ASSUME NEW p \in Presences, Publish(p)
      PROVE  IInv'
  BY <1>2 DEF Publish
<1>3. CASE PublishNone
  BY <1>3 DEF PublishNone
<1>4. CASE Connect
  BY <1>4 DEF Connect
<1>5. CASE ConnectFails
  <2>1. TypeOK'
    BY <1>5 DEF ConnectFails
  <2>2. LinkInv'
    BY <1>5 DEF ConnectFails
  <2>3. WindowInv'
    BY <1>5 DEF ConnectFails
  <2>4. IdleInv' /\ CallInv'
    BY <1>5 DEF ConnectFails
  <2> QED
    BY <2>1, <2>2, <2>3, <2>4
<1>6. CASE StampStart
  BY <1>6 DEF StampStart
<1>7. CASE Update
  <2>1. ASSUME shown' = Payload, UNCHANGED <<link, peer, running>>
        PROVE  TypeOK' /\ LinkInv' /\ WindowInv'
    <3>1. shown' \in Shown /\ shown'.start = startedAt
      BY <1>7, <2>1 DEF Update
    <3>2. TypeOK'
      BY <1>7, <2>1, <3>1 DEF Update
    <3>3. LinkInv'
      BY <1>7, <2>1 DEF Update
    <3>4. WindowInv'
      BY <1>7, <2>1, <3>1 DEF Update
    <3> QED
      BY <3>2, <3>3, <3>4
  <2>2. ASSUME shown' = None, link' = "closing", peer' = FALSE, running' = FALSE
        PROVE  TypeOK' /\ LinkInv' /\ WindowInv'
    BY <1>7, <2>2 DEF Update
  <2>3. IdleInv' /\ CallInv'
    BY <1>7 DEF Update
  <2> QED
    BY <1>7, <2>1, <2>2, <2>3 DEF Update
<1>8. CASE UpdateFails
  BY <1>8 DEF UpdateFails
<1>9. CASE HandleFailure
  BY <1>9 DEF HandleFailure
<1>10. CASE Clear
  BY <1>10 DEF Clear
<1>11. CASE ClearFails
  BY <1>11 DEF ClearFails
<1>12. CASE HandleClearFailure
  BY <1>12 DEF HandleClearFailure
<1>13. CASE TeardownClear
  BY <1>13 DEF TeardownClear
<1>14. CASE TeardownClose
  BY <1>14 DEF TeardownClose
<1>15. CASE Interrupt
  BY <1>15 DEF Interrupt
<1>16. CASE Restart
  BY <1>16 DEF Restart
<1>17. CASE DiscordQuits
  BY <1>17 DEF DiscordQuits
<1>18. CASE DiscordStarts
  BY <1>18 DEF DiscordStarts
<1>19. CASE Tick
  BY <1>19 DEF Tick
<1>20. CASE UNCHANGED vars
  BY <1>20
<1> QED
  BY <1>1, <1>2, <1>3, <1>4, <1>5, <1>6, <1>7, <1>8, <1>9, <1>10, <1>11, <1>12,
     <1>13, <1>14, <1>15, <1>16, <1>17, <1>18, <1>19, <1>20 DEF Next, CallStep

LEMMA Inductive == Spec => []IInv
  BY InitEstablishes, NextPreserves, PTL DEF Spec

(* Every variable keeps the type its code gives it; in particular the      *)
(* start is a clock reading and what Discord shows is a published payload. *)
THEOREM TypeCorrect == Spec => []TypeOK
<1>1. IInv => TypeOK
  BY DEF IInv
<1> QED
  BY <1>1, Inductive, PTL

(* publish(presence) that returned has the payload on display, or Discord  *)
(* itself went away (publisher.py:423-454).                                *)
THEOREM ReturnedIsShown == Spec => []ReturnedMeansShown
<1>1. IInv => ReturnedMeansShown
  BY DEF IInv, IdleInv, ReturnedMeansShown
<1> QED
  BY <1>1, Inductive, PTL

(* Nothing that was not published successfully is on display: whichever    *)
(* client calls failed and wherever Ctrl-C fell (publisher.py:412-422,     *)
(* 429-440, 457-470).                                                      *)
THEOREM DarkWhenNotShown == Spec => []DarkUnlessShown
<1>1. IInv => WithdrawnMeansDark
  BY DEF IInv, IdleInv, LinkInv, CallInv, WithdrawnMeansDark
<1>2. IInv => RaisedMeansDark
  BY DEF IInv, IdleInv, LinkInv, RaisedMeansDark
<1>3. IInv => DarkUnlessShown
  BY <1>1, <1>2 DEF DarkUnlessShown
<1> QED
  BY <1>3, Inductive, PTL

LEMMA StepImplementsBoard == IInv /\ [Next]_vars => [Board!Next]_(Board!boardVars)
<1> SUFFICES ASSUME IInv, [Next]_vars
             PROVE  [Board!Next]_(Board!boardVars)
  OBVIOUS
<1> USE DEF Board!Next, Board!boardVars, Forget, HangUp, Disconnect,
            vars, callVars, publisherVars, discordVars, Payload
<1>1. ASSUME NEW p \in Presences, PublishDuplicate(p) \/ Publish(p)
      PROVE  Board!Ask(p)
  BY <1>1 DEF PublishDuplicate, Publish, Board!Ask, IsDuplicate, IsConnected,
              IInv, LinkInv, TypeOK
<1>2. ASSUME \/ PublishNone \/ Clear \/ ClearFails \/ HandleClearFailure
             \/ Interrupt \/ TeardownClear \/ TeardownClose \/ Restart
      PROVE  Board!Withdraw
  BY <1>2 DEF PublishNone, Clear, ClearFails, HandleClearFailure, Interrupt,
              TeardownClear, TeardownClose, Restart, Board!Withdraw, IInv, CallInv
<1>3. CASE StampStart
  <2>1. Board!OpenWindow(clock)
    BY <1>3 DEF StampStart, Board!OpenWindow, IInv, WindowInv, CallInv
  <2> QED
    BY <2>1 DEF IInv, TypeOK
<1>4. CASE Update
  BY <1>4 DEF Update, Board!Show, Board!Hide, IInv, CallInv
<1>5. CASE UpdateFails
  BY <1>5 DEF UpdateFails, Board!Show, IInv, CallInv
<1>6. CASE HandleFailure \/ DiscordQuits
  BY <1>6 DEF HandleFailure, DiscordQuits, Board!Hide
<1>7. CASE Connect \/ ConnectFails \/ DiscordStarts \/ Tick \/ UNCHANGED vars
  BY <1>7 DEF Connect, ConnectFails, DiscordStarts, Tick
<1> QED
  BY <1>1, <1>2, <1>3, <1>4, <1>5, <1>6, <1>7 DEF Next, CallStep

(* One start per publication window: every status, count change, retry and *)
(* reconnection is a step of PresenceBoard, which renews the start only    *)
(* after presence was withdrawn (publisher.py:448-449, 421-422).           *)
THEOREM ImplementsBoard == Spec => BoardSpec
<1>1. Init => Board!Init
  BY DEF Init, Board!Init
<1> QED
  BY <1>1, Inductive, StepImplementsBoard, PTL DEF Spec, BoardSpec, Board!Spec

=============================================================================
