---------------------------- MODULE ClientProofs ----------------------------
(***************************************************************************)
(* What the two clients of other programs promise: the command that runs a *)
(* model, for every request, cap, pipe and timeout, and the connection to  *)
(* Discord, for any number of endpoints and any accounts.                  *)
(***************************************************************************)
EXTENDS CommandExchange, AccountSelection, TLAPS

-----------------------------------------------------------------------------
(* CommandExchange *)

Calling == step \in {"exchange", "wait"}
Answered == outcome = "answered" /\ step \in {"teardown", "judge"}

(* One deadline, fixed when the exchange began. *)
TimeInv == Calling => deadline = Timeout /\ now <= Timeout

(* What was written is in the pipe or collected; after the end nothing     *)
(* more can come.                                                          *)
FlowInv ==
    /\ Calling => collected + outPipe = written
    /\ Calling /\ ~stdoutOpen => outPipe = 0 /\ Holding("out") = {}
    /\ step = "wait" => ~stdoutOpen /\ offset = Request

(* What an answer rests on while the group is torn down. *)
AnswerInv ==
    /\ outcome = "answered" => step \in {"teardown", "judge"}
    /\ outcome = "returned" => step = "idle"
    /\ Answered => /\ offset = Request /\ collected = written
                   /\ life["leader"] = "exited" /\ Holding("out") = {}

(* Only a teardown kills, and it leaves nobody. *)
GroupInv ==
    /\ Calling => life["leader"] \in {"running", "exited"}
    /\ step \in {"judge", "idle"} => \A p \in Group : life[p] # "running" /\ holds[p] = {}

IInv == TypeOK /\ TimeInv /\ FlowInv /\ AnswerInv /\ GroupInv /\ AnswerIsWhole

LEMMA InitIInv == Init => IInv
<1> SUFFICES ASSUME Init PROVE IInv
  OBVIOUS
<1>1. TypeOK
  <2>1. life \in [Group -> {"absent", "running", "exited", "killed"}]
    BY DEF Init
  <2>2. holds \in [Group -> SUBSET Ends]
    BY DEF Init
  <2>3. stdoutOpen \in BOOLEAN
    BY DEF Init
  <2>4. /\ offset \in 0 .. Request /\ collected \in 0 .. MaxOutput
        /\ inPipe \in 0 .. PipeSize /\ outPipe \in 0 .. PipeSize
        /\ written \in Nat /\ now \in Nat /\ deadline \in Nat
    BY CommandAssumption DEF Init
  <2>5. step \in Steps /\ outcome \in Outcomes /\ status \in {"none", "zero", "other"}
    BY DEF Init, Steps, Outcomes
  <2> QED
    BY <2>1, <2>2, <2>3, <2>4, <2>5 DEF TypeOK
<1>2. TimeInv /\ FlowInv /\ AnswerInv /\ GroupInv /\ AnswerIsWhole
  BY CommandAssumption DEF Init, TimeInv, FlowInv, AnswerInv, GroupInv, AnswerIsWhole, Calling, Answered
<1> QED
  BY <1>1, <1>2 DEF IInv

(* The client's steps. *)
LEMMA ClientPreserves ==
    ASSUME IInv, Launch \/ LaunchFails \/ ClientStep \/ Raises
    PROVE  IInv'
<1> USE CommandAssumption DEF IInv, TypeOK, TimeInv, FlowInv, AnswerInv, GroupInv,
        AnswerIsWhole, Calling, Answered, Holding, Group, Ends, Steps, Outcomes,
        group, InTime
<1>1. CASE Launch
  BY <1>1 DEF Launch
<1>2. CASE LaunchFails
  BY <1>2 DEF LaunchFails
<1>3. CASE Send
  BY <1>3 DEF Send, Exchanging
<1>4. CASE SendRefused
  BY <1>4 DEF SendRefused, Exchanging
<1>5. CASE Receive
  BY <1>5 DEF Receive, Exchanging
<1>6. CASE ReceiveEnd
  BY <1>6 DEF ReceiveEnd, Exchanging
<1>7. CASE ExchangeExpires \/ WaitExpires \/ Raises
  BY <1>7 DEF ExchangeExpires, WaitExpires, Raises, Exchanging
<1>8. CASE Exchanged
  BY <1>8 DEF Exchanged, Exchanging
<1>9. CASE LeaderLeft
  BY <1>9 DEF LeaderLeft
<1>10. CASE KillAndReap
  BY <1>10 DEF KillAndReap
<1>11. CASE Judge
  BY <1>11 DEF Judge
<1> QED
  BY <1>1, <1>2, <1>3, <1>4, <1>5, <1>6, <1>7, <1>8, <1>9, <1>10, <1>11 DEF ClientStep

(* The group's steps and time. *)
LEMMA OthersPreserve ==
    ASSUME IInv, GroupStep \/ Tick
    PROVE  IInv'
<1> USE CommandAssumption DEF IInv, TypeOK, TimeInv, FlowInv, AnswerInv, GroupInv,
        AnswerIsWhole, Calling, Answered, Holding, Group, Ends, Steps, Outcomes, client
<1>1. CASE Forks
  BY <1>1 DEF Forks
<1>2. ASSUME NEW p \in Group, Reads(p)
      PROVE  IInv'
  BY <1>2 DEF Reads, group
<1>3. ASSUME NEW p \in Group, Writes(p)
      PROVE  IInv'
  BY <1>3 DEF Writes
<1>4. ASSUME NEW p \in Group, Closes(p)
      PROVE  IInv'
  BY <1>4 DEF Closes
<1>5. ASSUME NEW p \in Group, Exits(p)
      PROVE  IInv'
  BY <1>5 DEF Exits
<1>6. CASE Tick
  BY <1>6 DEF Tick, group, InTime
<1> QED
  BY <1>1, <1>2, <1>3, <1>4, <1>5, <1>6 DEF GroupStep

LEMMA Inductive == Spec => []IInv
<1>1. IInv /\ [Next]_vars => IInv'
  <2> SUFFICES ASSUME IInv, [Next]_vars PROVE IInv'
    OBVIOUS
  <2>1. CASE Launch \/ LaunchFails \/ ClientStep \/ Raises
    BY <2>1, ClientPreserves
  <2>2. CASE GroupStep \/ Tick
    BY <2>2, OthersPreserve
  <2>3. CASE UNCHANGED vars
    BY <2>3 DEF vars, client, group, IInv, TypeOK, TimeInv, FlowInv, AnswerInv, GroupInv,
                AnswerIsWhole, Calling, Answered, Holding
  <2> QED
    BY <2>1, <2>2, <2>3 DEF Next
<1> QED
  BY <1>1, InitIInv, PTL DEF Spec

(* The type invariant of generation.py:175-222. *)
THEOREM CommandTypeCorrect == Spec => []TypeOK
<1>1. IInv => TypeOK
  BY DEF IInv
<1> QED
  BY <1>1, Inductive, PTL

(* A returned completion is the whole output of a command that left with   *)
(* status zero (generation.py:250-281).                                    *)
THEOREM CommandAnswerIsWhole == Spec => []AnswerIsWhole
<1>1. IInv => AnswerIsWhole
  BY DEF IInv
<1> QED
  BY <1>1, Inductive, PTL

(* The exchange and the wait for the exit end within one timeout           *)
(* (generation.py:246, 281).                                               *)
THEOREM CommandEndsInTime == Spec => []EndsInTime
<1>1. IInv => EndsInTime
  BY DEF IInv, TimeInv, Calling, EndsInTime
<1> QED
  BY <1>1, Inductive, PTL

(* Nothing of the group outlives the call (generation.py:283-305).         *)
THEOREM CommandNothingLeft == Spec => []NothingLeft
<1>1. IInv => NothingLeft
  BY DEF IInv, GroupInv, NothingLeft
<1> QED
  BY <1>1, Inductive, PTL

-----------------------------------------------------------------------------
(* AccountSelection *)

(* What is open during a call: the connections that were READY, and the    *)
(* handshake under way.                                                    *)
OpenIsKnown ==
    pc # "idle" =>
        /\ rpc = None /\ result = "none"
        /\ open = Connected \cup (IF probing = None THEN {} ELSE {probing})

(* What the stages of a call still have before them: an endpoint is dialed *)
(* once, so its connection is not known before its handshake is over.      *)
Stages ==
    /\ pc = "ready" <=> probing # None
    /\ probing \notin left
    /\ \A e \in Endpoints : e \in unscanned \/ e \in left \/ e = probing => found[e] = None
    /\ pc # "scan" => unscanned = {}
    /\ pc = "select" => left = {}

(* Where a steady account can be during a call. *)
SteadyIsAhead ==
    pc # "idle" =>
        \A e \in Endpoints : steady[e] # None =>
            /\ answer[e] = steady[e]
            /\ e \in unscanned \/ e \in left \/ probing = e \/ found[e] = steady[e]

AccountInv == AccountTypeOK /\ OpenIsKnown /\ Stages /\ SteadyIsAhead /\ OnlyTheChosen /\ SteadyIsFound

LEMMA AccountInitInv == AccountInit => AccountInv
<1> SUFFICES ASSUME AccountInit PROVE AccountInv
  OBVIOUS
<1> USE AccountAssumption
<1>1. AccountTypeOK
  BY DEF AccountInit, AccountTypeOK, Results
<1>2. OpenIsKnown /\ Stages /\ SteadyIsAhead /\ OnlyTheChosen /\ SteadyIsFound
  BY DEF AccountInit, OpenIsKnown, Stages, SteadyIsAhead, OnlyTheChosen, SteadyIsFound
<1>3. QED
  BY <1>1, <1>2 DEF AccountInv

LEMMA AccountNextInv == AccountInv /\ [AccountNext]_accountVars => AccountInv'
<1> SUFFICES ASSUME AccountInv, [AccountNext]_accountVars PROVE AccountInv'
  OBVIOUS
<1> USE AccountAssumption DEF AccountInv, AccountTypeOK, OpenIsKnown, Stages, SteadyIsAhead,
        OnlyTheChosen, SteadyIsFound, Results, Bad, Connected, Matching, Least, Endpoints
<1>1. ASSUME NEW o \in {"connect", "discover"}, Call(o) PROVE AccountInv'
  BY <1>1 DEF Call
<1>2. ASSUME NEW e \in Endpoints, Scan(e) PROVE AccountInv'
  BY <1>2 DEF Scan
<1>3. CASE Scanned
  BY <1>3 DEF Scanned
<1>4. ASSUME NEW e \in Endpoints, Dial(e) PROVE AccountInv'
  BY <1>4 DEF Dial
<1>5. CASE Ready
  BY <1>5 DEF Ready
<1>6. CASE Skip
  BY <1>6 DEF Skip
<1>7. CASE Refused
  BY <1>7 DEF Refused, EndWithout
<1>8. CASE Crash
  BY <1>8 DEF Crash, EndWithout
<1>9. CASE Interrupt
  BY <1>9 DEF Interrupt, EndWithout
<1>10. CASE Probed
  BY <1>10 DEF Probed
<1>11. CASE Choose
  BY <1>11 DEF Choose
<1>12. CASE Unavailable
  BY <1>12 DEF Unavailable, EndWithout
<1>13. CASE List
  BY <1>13 DEF List, EndWithout
<1>14. CASE Disconnect
  BY <1>14 DEF Disconnect
<1>15. ASSUME NEW e \in Endpoints, DiscordChanges(e) PROVE AccountInv'
  BY <1>15 DEF DiscordChanges, call
<1>16. CASE UNCHANGED accountVars
  BY <1>16 DEF accountVars, call
<1>17. QED
  BY <1>1, <1>2, <1>3, <1>4, <1>5, <1>6, <1>7, <1>8, <1>9, <1>10, <1>11,
     <1>12, <1>13, <1>14, <1>15, <1>16 DEF AccountNext

LEMMA AccountSpecInv == AccountSpec => []AccountInv
  BY AccountInitInv, AccountNextInv, PTL DEF AccountSpec

(* The variables keep their types. *)
THEOREM AccountTypeCorrect == AccountSpec => []AccountTypeOK
<1>1. AccountInv => AccountTypeOK
  BY DEF AccountInv
<1>2. QED
  BY AccountSpecInv, <1>1, PTL

(* Between calls, nothing is open but the first connection of the wanted   *)
(* account.                                                                *)
THEOREM AccountOnlyTheChosen == AccountSpec => []OnlyTheChosen
<1>1. AccountInv => OnlyTheChosen
  BY DEF AccountInv
<1>2. QED
  BY AccountSpecInv, <1>1, PTL

(* A call misses no account that an endpoint answered all through it. *)
THEOREM AccountSteadyIsFound == AccountSpec => []SteadyIsFound
<1>1. AccountInv => SteadyIsFound
  BY DEF AccountInv
<1>2. QED
  BY AccountSpecInv, <1>1, PTL

=============================================================================
