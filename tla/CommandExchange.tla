--------------------------- MODULE CommandExchange ---------------------------
(***************************************************************************)
(* generation.py: CommandClient.complete, the command backend of a         *)
(* generation stage.  The client starts a command as the leader of a       *)
(* process group of its own, sends it the request and reads its output     *)
(* through two pipes in one selector loop under one deadline, waits for    *)
(* its exit, and tears the group down on every path.                       *)
(*                                                                         *)
(* The command may do anything a process can: read or not, write before it *)
(* reads, close its ends early, fork a helper that inherits them, hang,    *)
(* exit with any status.                                                   *)
(***************************************************************************)
EXTENDS Naturals

CONSTANTS
    Request,     \* length of the request
    MaxOutput,   \* _COMMAND_MAX_OUTPUT_BYTES
    PipeSize,    \* what the kernel buffers for a pipe
    Timeout,     \* timeout_seconds
    MaxWritten   \* bound on what the command writes

ASSUME CommandAssumption ==
    /\ Request \in Nat \ {0} /\ MaxOutput \in Nat /\ PipeSize \in Nat \ {0}
    /\ Timeout \in Nat \ {0} /\ MaxWritten \in Nat

Group == {"leader", "helper"}
Ends == {"in", "out"}         \* the command's ends of its stdin and stdout

VARIABLES
    step,        \* where the client is
    outcome,     \* how the exchange, and then the call, came out
    offset,      \* how much of the request is written, or was given up
    collected,   \* the length of output
    stdoutOpen,  \* stdout_open: its end was not seen yet
    inPipe,      \* how full the two pipes are
    outPipe,
    life,        \* what became of each process of the group
    holds,       \* the pipe ends each of them has open
    status,      \* the leader's exit status
    written,     \* what the group has written to its stdout (ghost)
    now,         \* time since the deadline was set
    deadline

client == <<step, outcome, offset, collected, stdoutOpen, deadline>>
group == <<life, holds, status, written>>
vars == <<client, inPipe, outPipe, group, now>>

Steps == {"idle", "exchange", "wait", "teardown", "judge"}
Outcomes == {"none", "answered", "timeout", "overflow", "failed", "returned"}

TypeOK ==
    /\ step \in Steps /\ outcome \in Outcomes
    /\ offset \in 0 .. Request
    /\ collected \in 0 .. MaxOutput
    /\ stdoutOpen \in BOOLEAN
    /\ inPipe \in 0 .. PipeSize /\ outPipe \in 0 .. PipeSize
    /\ life \in [Group -> {"absent", "running", "exited", "killed"}]
    /\ holds \in [Group -> SUBSET Ends]
    /\ status \in {"none", "zero", "other"}
    /\ written \in Nat
    /\ now \in Nat /\ deadline \in Nat

Init ==
    /\ step = "idle" /\ outcome = "none"
    /\ offset = 0 /\ collected = 0 /\ stdoutOpen = FALSE
    /\ inPipe = 0 /\ outPipe = 0
    /\ life = [p \in Group |-> "absent"]
    /\ holds = [p \in Group |-> {}]
    /\ status = "none" /\ written = 0
    /\ now = 0 /\ deadline = 0

Holding(end) == {p \in Group : end \in holds[p]}

-----------------------------------------------------------------------------
(* The client *)

Launch ==
    /\ step = "idle"
    /\ step' = "exchange" /\ outcome' = "none"
    /\ offset' = 0 /\ collected' = 0 /\ stdoutOpen' = TRUE
    /\ inPipe' = 0 /\ outPipe' = 0
    /\ life' = [p \in Group |-> IF p = "leader" THEN "running" ELSE "absent"]
    /\ holds' = [p \in Group |-> IF p = "leader" THEN Ends ELSE {}]
    /\ status' = "none" /\ written' = 0
    /\ now' = 0 /\ deadline' = Timeout

(* popen_factory raises: there is no process, hence nothing to tear down.  *)
LaunchFails ==
    /\ step = "idle"
    /\ outcome' = "failed"
    /\ UNCHANGED <<step, offset, collected, stdoutOpen, deadline, inPipe, outPipe, group, now>>

(* Mutant of Exchanging: the loop ends with the request. *)
ExchangingRequest == step = "exchange" /\ offset < Request

Exchanging == step = "exchange" /\ (stdoutOpen \/ offset < Request)

InTime == now < deadline

(* stdin is ready: a part of the request fits. *)
Send ==
    /\ Exchanging /\ InTime
    /\ offset < Request
    /\ Holding("in") # {}
    /\ \E n \in 1 .. Request - offset :
          /\ inPipe + n <= PipeSize
          /\ inPipe' = inPipe + n
          /\ offset' = offset + n
    /\ UNCHANGED <<step, outcome, collected, stdoutOpen, deadline, outPipe, group, now>>

(* stdin is ready, but nobody holds its other end: BrokenPipeError. *)
SendRefused ==
    /\ Exchanging /\ InTime
    /\ offset < Request
    /\ Holding("in") = {}
    /\ offset' = Request
    /\ UNCHANGED <<step, outcome, collected, stdoutOpen, deadline, inPipe, outPipe, group, now>>

(* stdout is ready: a chunk, within the cap or not. *)
Receive ==
    /\ Exchanging /\ InTime
    /\ stdoutOpen
    /\ \E n \in 1 .. outPipe :
          /\ outPipe' = outPipe - n
          /\ \/ /\ collected + n <= MaxOutput
                /\ collected' = collected + n
                /\ UNCHANGED <<step, outcome>>
             \/ /\ collected + n > MaxOutput
                /\ step' = "teardown" /\ outcome' = "overflow"
                /\ UNCHANGED collected
    /\ UNCHANGED <<offset, stdoutOpen, deadline, inPipe, group, now>>

(* stdout is ready: its end, which comes when the last process of the      *)
(* group that had it open is done with it.                                 *)
ReceiveEnd ==
    /\ Exchanging /\ InTime
    /\ stdoutOpen
    /\ outPipe = 0 /\ Holding("out") = {}
    /\ stdoutOpen' = FALSE
    /\ UNCHANGED <<step, outcome, offset, collected, deadline, inPipe, outPipe, group, now>>

(* Mutant of ExchangeExpires: the request is written before the deadline   *)
(* is looked at.                                                           *)
ExchangeExpiresAfterSending ==
    /\ Exchanging /\ ~InTime
    /\ offset = Request
    /\ step' = "teardown" /\ outcome' = "timeout"
    /\ UNCHANGED <<offset, collected, stdoutOpen, deadline, inPipe, outPipe, group, now>>

ExchangeExpires ==
    /\ Exchanging /\ ~InTime
    /\ step' = "teardown" /\ outcome' = "timeout"
    /\ UNCHANGED <<offset, collected, stdoutOpen, deadline, inPipe, outPipe, group, now>>

(* Mutant of Exchanged: the wait for the exit gets a deadline of its own. *)
ExchangedAnew ==
    /\ step = "exchange" /\ ~Exchanging
    /\ step' = "wait" /\ deadline' = now + Timeout
    /\ UNCHANGED <<outcome, offset, collected, stdoutOpen, inPipe, outPipe, group, now>>

Exchanged ==
    /\ step = "exchange" /\ ~Exchanging
    /\ step' = "wait"
    /\ UNCHANGED <<outcome, offset, collected, stdoutOpen, deadline, inPipe, outPipe, group, now>>

(* process.wait with what is left of the deadline; it looks once even when *)
(* nothing is left.                                                        *)
LeaderLeft ==
    /\ step = "wait" /\ life["leader"] # "running"
    /\ step' = "teardown" /\ outcome' = "answered"
    /\ UNCHANGED <<offset, collected, stdoutOpen, deadline, inPipe, outPipe, group, now>>

WaitExpires ==
    /\ step = "wait" /\ life["leader"] = "running" /\ ~InTime
    /\ step' = "teardown" /\ outcome' = "timeout"
    /\ UNCHANGED <<offset, collected, stdoutOpen, deadline, inPipe, outPipe, group, now>>

(* Mutant of KillAndReap: no kill when the leader has left by itself. *)
KillAndReapLeader ==
    /\ step = "teardown"
    /\ step' = "judge"
    /\ life' = [p \in Group |->
                   IF life[p] = "running" /\ life["leader"] = "running"
                     THEN "killed" ELSE life[p]]
    /\ holds' = [p \in Group |-> IF life'[p] = "running" THEN holds[p] ELSE {}]
    /\ status' = IF status = "none" THEN "other" ELSE status
    /\ UNCHANGED <<outcome, offset, collected, stdoutOpen, deadline, inPipe, outPipe, written, now>>

(* _kill_and_reap: the whole group is killed, also when the leader has     *)
(* left; our ends are closed; the leader is waited for.  SIGKILL is taken  *)
(* to work at once; for a helper, which nobody here reaps, that means that *)
(* its end is sure when the call returns.                                  *)
KillAndReap ==
    /\ step = "teardown"
    /\ step' = "judge"
    /\ life' = [p \in Group |-> IF life[p] = "running" THEN "killed" ELSE life[p]]
    /\ holds' = [p \in Group |-> {}]
    /\ status' = IF status = "none" THEN "other" ELSE status
    /\ UNCHANGED <<outcome, offset, collected, stdoutOpen, deadline, inPipe, outPipe, written, now>>

(* The status and the JSON of a whole answer decide; anything else raised. *)
Judge ==
    /\ step = "judge"
    /\ step' = "idle"
    /\ \/ outcome = "answered" /\ status = "zero" /\ outcome' = "returned"
       \/ outcome' = "failed"
    /\ UNCHANGED <<offset, collected, stdoutOpen, deadline, inPipe, outPipe, group, now>>

(* An OSError on a pipe, or Ctrl-C: the call fails, through the same exit. *)
Raises ==
    /\ step \in {"exchange", "wait"}
    /\ step' = "teardown" /\ outcome' = "failed"
    /\ UNCHANGED <<offset, collected, stdoutOpen, deadline, inPipe, outPipe, group, now>>

ClientStep ==
    \/ Send \/ SendRefused \/ Receive \/ ReceiveEnd \/ ExchangeExpires \/ Exchanged
    \/ LeaderLeft \/ WaitExpires \/ KillAndReap \/ Judge

-----------------------------------------------------------------------------
(* The command and its helper *)

Reads(p) ==
    /\ "in" \in holds[p] /\ inPipe > 0
    /\ inPipe' = inPipe - 1
    /\ UNCHANGED <<client, outPipe, group, now>>

Writes(p) ==
    /\ "out" \in holds[p]
    /\ outPipe < PipeSize /\ written < MaxWritten
    /\ outPipe' = outPipe + 1
    /\ written' = written + 1
    /\ UNCHANGED <<client, inPipe, life, holds, status, now>>

Closes(p) ==
    /\ \E end \in holds[p] : holds' = [holds EXCEPT ![p] = @ \ {end}]
    /\ UNCHANGED <<client, inPipe, outPipe, life, status, written, now>>

Forks ==
    /\ life["leader"] = "running" /\ life["helper"] = "absent"
    /\ life' = [life EXCEPT !["helper"] = "running"]
    /\ holds' = [holds EXCEPT !["helper"] = holds["leader"]]
    /\ UNCHANGED <<client, inPipe, outPipe, status, written, now>>

Exits(p) ==
    /\ life[p] = "running"
    /\ life' = [life EXCEPT ![p] = "exited"]
    /\ holds' = [holds EXCEPT ![p] = {}]
    /\ IF p = "leader" THEN status' \in {"zero", "other"} ELSE UNCHANGED status
    /\ UNCHANGED <<client, inPipe, outPipe, written, now>>

GroupStep == Forks \/ \E p \in Group : Reads(p) \/ Writes(p) \/ Closes(p) \/ Exits(p)

(* Time stands still only for a deadline that has come: select and wait    *)
(* return then, and the client leaves.                                     *)
Tick ==
    /\ step \in {"exchange", "wait"} /\ InTime
    /\ now' = now + 1
    /\ UNCHANGED <<client, inPipe, outPipe, group>>

Next == Launch \/ LaunchFails \/ ClientStep \/ Raises \/ GroupStep \/ Tick

Spec == Init /\ [][Next]_vars

(* The client's thread does nothing else, and time passes.  The group owes *)
(* nothing.                                                                *)
FairSpec == Spec /\ WF_vars(ClientStep) /\ WF_vars(Tick)

-----------------------------------------------------------------------------
(* A completion is returned only when the whole request was sent or        *)
(* refused, everything the group ever wrote was read, and the leader left  *)
(* with status zero (generation.py:250-281, 207): a full pipe, an early    *)
(* close or a helper that still writes never yields half an answer.        *)
AnswerIsWhole ==
    /\ collected <= MaxOutput
    /\ outcome = "returned" => /\ offset = Request
                               /\ collected = written
                               /\ life["leader"] = "exited" /\ status = "zero"

(* Sending, receiving and waiting share one deadline (generation.py:281):  *)
(* the client is never in them beyond it.                                  *)
EndsInTime == step \in {"exchange", "wait"} => now <= Timeout

(* When the call is over, however it ended, no process of the group is     *)
(* alive in the workspace that has been removed (generation.py:203).       *)
NothingLeft == step = "idle" => \A p \in Group : life[p] # "running"

(* A call ends, whatever the command does with its pipes                   *)
(* (generation.py:250-281).                                                *)
CallsEnd == (step # "idle") ~> (step = "idle")

=============================================================================
