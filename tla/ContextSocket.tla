---------------------------- MODULE ContextSocket ----------------------------
(***************************************************************************)
(* cli.py _open_context_socket and OwnedContextSocket: daemons that start, *)
(* stop and die compete for one socket pathname.  A kernel lock covers     *)
(* inspection, unlink, bind and teardown, and is released by the kernel    *)
(* when its holder dies; the pathname outlives the process.                *)
(*                                                                         *)
(* A socket is named by the process that bound it.  The path may be free,  *)
(* left over from a dead process, or bound by a process that does not take *)
(* the lock (a Foreign one), which is why it is probed.  The probe sends   *)
(* an empty datagram: to a foreign socket whose queue is full that waits   *)
(* (Linux) or fails (elsewhere), and every failure counts as a stale path. *)
(***************************************************************************)
CONSTANTS
    Daemons,        \* processes that open the socket
    Foreign,        \* a process that bound the path without the lock
    Nobody          \* no lock holder, no socket at the path

ASSUME PartiesAssumption == Foreign # Nobody /\ {Foreign, Nobody} \cap Daemons = {}

Steps == {"idle", "locked", "probing", "binding", "bound", "serving", "closing",
          "unlinked", "refused"}
Opening == {"locked", "probing", "binding", "bound"}
Closing == {"closing", "unlinked"}

VARIABLES
    lock,           \* the holder of the flock
    path,           \* the process whose socket the pathname names
    open,           \* processes whose bound socket is open
    full,           \* whether the queue of the foreign socket is full
    step            \* where each daemon is

socketVars == <<lock, path, open, full, step>>

SocketTypeOK ==
    /\ lock \in Daemons \cup {Nobody}
    /\ path \in Daemons \cup {Foreign, Nobody}
    /\ open \subseteq Daemons \cup {Foreign}
    /\ full \in BOOLEAN /\ (full => Foreign \in open)
    /\ step \in [Daemons -> Steps]
    /\ \A d \in Daemons : d \in open <=> step[d] \in {"bound", "serving"}

SocketInit ==
    /\ lock = Nobody
    /\ path \in {Nobody, Foreign}
    /\ open \in IF path = Foreign THEN {{}, {Foreign}} ELSE {{}}
    /\ full \in BOOLEAN /\ (full => Foreign \in open)
    /\ step = [d \in Daemons |-> "idle"]

Goto(d, s) == step' = [step EXCEPT ![d] = s]

-----------------------------------------------------------------------------
(* Mutant of Lock: the lock is not tried. *)
LockAlways(d) ==
    /\ step[d] = "idle"
    /\ lock' = d
    /\ Goto(d, "locked")
    /\ UNCHANGED <<path, open, full>>

(* LOCK_EX | LOCK_NB on the lock file. *)
Lock(d) ==
    /\ step[d] = "idle" /\ lock = Nobody
    /\ lock' = d
    /\ Goto(d, "locked")
    /\ UNCHANGED <<path, open, full>>

LockRefused(d) ==
    /\ step[d] = "idle" /\ lock # Nobody
    /\ Goto(d, "refused")
    /\ UNCHANGED <<lock, path, open, full>>

(* path.exists() decides whether the socket there is probed. *)
Inspect(d) ==
    /\ step[d] = "locked"
    /\ Goto(d, IF path = Nobody THEN "binding" ELSE "probing")
    /\ UNCHANGED <<lock, path, open, full>>

(* probe.send blocks: the socket is open and its queue is full.  Only a    *)
(* foreign socket can be met like that; the lock is held meanwhile.        *)
Waits(d) == step[d] = "probing" /\ path = Foreign /\ full

(* Mutant of ProbeAnswered: the lock is kept by the daemon that gives up. *)
ProbeAnsweredKeepsLock(d) ==
    /\ step[d] = "probing" /\ path \in open /\ ~Waits(d)
    /\ Goto(d, "refused")
    /\ UNCHANGED <<lock, path, open, full>>

(* The probe reaches an open socket: whoever has it keeps it. *)
ProbeAnswered(d) ==
    /\ step[d] = "probing" /\ path \in open /\ ~Waits(d)
    /\ lock' = Nobody
    /\ Goto(d, "refused")
    /\ UNCHANGED <<path, open, full>>

(* Any OSError of connect or send counts as unanswered, that of an open    *)
(* socket too: a full queue (ENOBUFS), another type, no permission.        *)
ProbeUnanswered(d) ==
    /\ step[d] = "probing"
    /\ path' = Nobody
    /\ Goto(d, "binding")
    /\ UNCHANGED <<lock, open, full>>

Bind(d) ==
    /\ step[d] = "binding" /\ path = Nobody
    /\ path' = d /\ open' = open \cup {d}
    /\ Goto(d, "bound")
    /\ UNCHANGED <<lock, full>>

(* chmod and setblocking, then the daemon serves. *)
Serve(d) ==
    /\ step[d] = "bound"
    /\ Goto(d, "serving")
    /\ UNCHANGED <<lock, path, open, full>>

(* An OSError in probing, binding or chmod gives the lock back; a socket   *)
(* that is bound already goes with its last reference, its path stays.     *)
OpeningFails(d) ==
    /\ step[d] \in Opening
    /\ lock' = Nobody
    /\ open' = open \ {d}
    /\ Goto(d, "idle")
    /\ UNCHANGED <<path, full>>

(* Mutant of CloseServer: the lock is released before the path is unlinked.*)
CloseReleasesFirst(d) ==
    /\ step[d] = "serving"
    /\ open' = open \ {d}
    /\ lock' = Nobody
    /\ Goto(d, "closing")
    /\ UNCHANGED <<path, full>>

CloseServer(d) ==
    /\ step[d] = "serving"
    /\ open' = open \ {d}
    /\ Goto(d, "closing")
    /\ UNCHANGED <<lock, path, full>>

(* path.unlink(missing_ok=True), whatever socket the path names. *)
Unlink(d) ==
    /\ step[d] = "closing"
    /\ path' = Nobody
    /\ Goto(d, "unlinked")
    /\ UNCHANGED <<lock, open, full>>

(* close or unlink fails: the finally clause still releases the lock. *)
UnlinkFails(d) ==
    /\ step[d] = "closing"
    /\ Goto(d, "unlinked")
    /\ UNCHANGED <<lock, path, open, full>>

Release(d) ==
    /\ step[d] = "unlinked"
    /\ lock' = Nobody
    /\ Goto(d, "idle")
    /\ UNCHANGED <<path, open, full>>

(* The process dies: the kernel closes its socket and drops its lock. *)
Die(d) ==
    /\ step[d] \in Opening \cup Closing \cup {"serving"}
    /\ lock' = Nobody
    /\ open' = open \ {d}
    /\ Goto(d, "idle")
    /\ UNCHANGED <<path, full>>

(* A refused daemon exits; it may be started again. *)
Restart(d) ==
    /\ step[d] = "refused"
    /\ Goto(d, "idle")
    /\ UNCHANGED <<lock, path, open, full>>

(* The process without the lock binds a free path at any time, lets its    *)
(* queue fill and drains it, and ends and leaves its path behind.          *)
ForeignBinds ==
    /\ path = Nobody /\ Foreign \notin open
    /\ path' = Foreign /\ open' = open \cup {Foreign}
    /\ UNCHANGED <<lock, full, step>>

ForeignQueue ==
    /\ Foreign \in open
    /\ full' = ~full
    /\ UNCHANGED <<lock, path, open, step>>

ForeignEnds ==
    /\ Foreign \in open
    /\ open' = open \ {Foreign} /\ full' = FALSE
    /\ UNCHANGED <<lock, path, step>>

Open(d) ==
    Lock(d) \/ LockRefused(d) \/ Inspect(d) \/ ProbeAnswered(d)
      \/ ProbeUnanswered(d) \/ Bind(d) \/ Serve(d) \/ OpeningFails(d)
Close(d) == CloseServer(d) \/ Unlink(d) \/ UnlinkFails(d) \/ Release(d)

SocketNext ==
    \/ \E d \in Daemons : Open(d) \/ Close(d) \/ Die(d) \/ Restart(d)
    \/ ForeignBinds \/ ForeignQueue \/ ForeignEnds

SocketSpec == SocketInit /\ [][SocketNext]_socketVars

(* A daemon that has the lock goes on with opening or closing unless its   *)
(* probe waits; nobody has to start, stop or die, and the foreign process  *)
(* has to do nothing.                                                      *)
Proceed(d) ==
    /\ ~Waits(d)
    /\ \/ Inspect(d) \/ ProbeAnswered(d) \/ ProbeUnanswered(d) \/ Bind(d)
       \/ Serve(d) \/ OpeningFails(d) \/ Unlink(d) \/ UnlinkFails(d) \/ Release(d)

SocketFairSpec == SocketSpec /\ \A d \in Daemons : WF_socketVars(Proceed(d))

-----------------------------------------------------------------------------
(* A daemon that is bound is reached at the path, in every interleaving of *)
(* starts, stops and deaths: no probe or teardown of another daemon ever   *)
(* unlinks its socket, so that at most one serves (decision-ledger.md:128, *)
(* "owned socket recovery"; cli.py:112-121, 617-640).  A foreign socket    *)
(* has no such promise: a probe that fails takes its path.                 *)
ServerIsReachable == \A d \in Daemons \cap open : path = d

(* The path is inspected, changed or served only by the lock's holder.     *)
HolderActs ==
    \A d \in Daemons :
        step[d] \in Opening \cup Closing \cup {"serving"} <=> lock = d

(* The lock ends up with a daemon that serves, or with nobody: no failure  *)
(* in opening, no refusal and no teardown keeps it, so that the next       *)
(* daemon can start (cli.py:110-121, 612-640).  Only a probe that waits on *)
(* a full foreign socket keeps it longer (cli.py:621).                     *)
LockIsNotStuck ==
    lock # Nobody ~> (lock = Nobody \/ step[lock] = "serving" \/ Waits(lock))

=============================================================================
