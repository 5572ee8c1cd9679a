-------------------------- MODULE AccountSelection --------------------------
(***************************************************************************)
(* publisher.py: finding the configured Discord account among the local    *)
(* IPC endpoints (PypresenceClient.connect with a user_id), and listing    *)
(* the reachable accounts (discover_discord_accounts, the CLI's            *)
(* discord-accounts).                                                      *)
(*                                                                         *)
(* Endpoints are probed one after the other while Discord clients start,   *)
(* quit, and change accounts behind them.  They are numbered in the order  *)
(* of _discord_endpoints, (pipe, path); several can reach one account.     *)
(***************************************************************************)
EXTENDS Naturals

CONSTANTS
    N,           \* number of endpoints
    Accounts,    \* user ids
    Wanted,      \* the configured user_id
    None         \* Python's None

(* What is behind an endpoint.  Absent: no socket.  Deaf: a socket without *)
(* a listener, or one whose answer is no READY with a user.  Refusing: an  *)
(* error frame "Invalid Client ID".  CodeOnly: an error frame that has a   *)
(* code and no message.                                                    *)
Bad == {"absent", "deaf", "refusing", "codeonly"}

ASSUME AccountAssumption ==
    /\ N \in Nat
    /\ Wanted \in Accounts
    /\ None \notin Accounts /\ Accounts \cap Bad = {}
    /\ None \notin 1 .. N

Endpoints == 1 .. N

VARIABLES
    answer,     \* what each endpoint answers now
    pc,         \* where the call is
    op,         \* connect or discover
    unscanned,  \* directory entries not yet looked at
    left,       \* endpoints enumerated and not yet probed
    probing,    \* the endpoint whose handshake is under way
    found,      \* connected: the account each open probe is READY for
    open,       \* the transports this process has open
    rpc,        \* PypresenceClient.rpc, by its endpoint
    result,     \* how the last call ended
    steady      \* the account an endpoint answered since the call began (ghost)

call == <<pc, op, unscanned, left, probing, found, open, rpc, result>>
accountVars == <<answer, call, steady>>

Results == {"none", "connected", "unavailable", "listed", "invalid", "crashed", "interrupted"}

AccountTypeOK ==
    /\ answer \in [Endpoints -> Accounts \cup Bad]
    /\ pc \in {"idle", "scan", "probe", "ready", "select"}
    /\ op \in {"connect", "discover"}
    /\ unscanned \subseteq Endpoints /\ left \subseteq Endpoints
    /\ probing \in Endpoints \cup {None}
    /\ found \in [Endpoints -> Accounts \cup {None}]
    /\ open \subseteq Endpoints
    /\ rpc \in Endpoints \cup {None}
    /\ result \in Results
    /\ steady \in [Endpoints -> Accounts \cup {None}]

AccountInit ==
    /\ answer \in [Endpoints -> Accounts \cup Bad]
    /\ pc = "idle" /\ op = "connect"
    /\ unscanned = {} /\ left = {} /\ probing = None
    /\ found = [e \in Endpoints |-> None]
    /\ open = {} /\ rpc = None /\ result = "none"
    /\ steady = [e \in Endpoints |-> None]

-----------------------------------------------------------------------------
(* PypresenceClient.connect: the publisher only calls it without an rpc.   *)
(* discord-accounts is a process of its own, which never has one.          *)
Call(o) ==
    /\ pc = "idle" /\ rpc = None
    /\ pc' = "scan" /\ op' = o /\ result' = "none"
    /\ unscanned' = Endpoints /\ left' = {}
    /\ found' = [e \in Endpoints |-> None]
    /\ steady' = [e \in Endpoints |-> IF answer[e] \in Accounts THEN answer[e] ELSE None]
    /\ UNCHANGED <<answer, probing, open, rpc>>

(* _discord_endpoints: a directory entry is seen if it is there when its   *)
(* directory is read.                                                      *)
Scan(e) ==
    /\ pc = "scan" /\ e \in unscanned
    /\ unscanned' = unscanned \ {e}
    /\ left' = IF answer[e] = "absent" THEN left ELSE left \cup {e}
    /\ UNCHANGED <<answer, pc, op, probing, found, open, rpc, result, steady>>

Scanned ==
    /\ pc = "scan" /\ unscanned = {}
    /\ pc' = "probe"
    /\ UNCHANGED <<answer, op, unscanned, left, probing, found, open, rpc, result, steady>>

Least(S, e) == e \in S /\ \A f \in S : e <= f

(* rpc.connect(): the transport, when the socket is still there. *)
Dial(e) ==
    /\ pc = "probe" /\ Least(left, e)
    /\ left' = left \ {e}
    /\ IF answer[e] = "absent"
         THEN UNCHANGED <<pc, probing, open>>
         ELSE pc' = "ready" /\ probing' = e /\ open' = open \cup {e}
    /\ UNCHANGED <<answer, op, unscanned, found, rpc, result, steady>>

(* READY with a user: the connection is kept for the choice. *)
Ready ==
    /\ pc = "ready" /\ answer[probing] \in Accounts
    /\ found' = [found EXCEPT ![probing] = answer[probing]]
    /\ pc' = "probe" /\ probing' = None
    /\ UNCHANGED <<answer, op, unscanned, left, open, rpc, result, steady>>

(* Mutant of Skip: the first bad endpoint ends the search. *)
SkipRest ==
    /\ pc = "ready" /\ answer[probing] \in {"absent", "deaf"}
    /\ open' = open \ {probing} /\ left' = {}
    /\ pc' = "probe" /\ probing' = None
    /\ UNCHANGED <<answer, op, unscanned, found, rpc, result, steady>>

(* Any other failure of this endpoint is its own: the next one is tried. *)
Skip ==
    /\ pc = "ready" /\ answer[probing] \in {"absent", "deaf"}
    /\ open' = open \ {probing}
    /\ pc' = "probe" /\ probing' = None
    /\ UNCHANGED <<answer, op, unscanned, left, found, rpc, result, steady>>

Connected == {e \in Endpoints : found[e] # None}

(* The call ends without an rpc, having closed some of its transports. *)
EndWithout(how, closed) ==
    /\ pc' = "idle" /\ result' = how
    /\ open' = open \ closed
    /\ probing' = None /\ unscanned' = {} /\ left' = {}
    /\ UNCHANGED <<answer, op, found, rpc, steady>>

(* InvalidID: the client id is wrong everywhere; all probes are closed. *)
Refused ==
    /\ pc = "ready" /\ answer[probing] = "refusing"
    /\ EndWithout("invalid", Connected \cup {probing})

(* data["message"] raises a KeyError, which no caller catches: the process *)
(* ends with a traceback, and the system closes what it had open.          *)
Crash ==
    /\ pc = "ready" /\ answer[probing] = "codeonly"
    /\ EndWithout("crashed", open)

(* Ctrl-C ends the process. *)
Interrupt == pc # "idle" /\ EndWithout("interrupted", open)

Probed ==
    /\ pc = "probe" /\ left = {}
    /\ pc' = "select"
    /\ UNCHANGED <<answer, op, unscanned, left, probing, found, open, rpc, result, steady>>

Matching == {e \in Endpoints : found[e] = Wanted}

(* Mutant of Choose: "selected is None and" is dropped. *)
ChooseLast ==
    /\ pc = "select" /\ op = "connect"
    /\ \E e \in Matching :
          /\ \A f \in Matching : f <= e
          /\ rpc' = e /\ open' = open \ (Connected \ Matching)
    /\ pc' = "idle" /\ result' = "connected"
    /\ UNCHANGED <<answer, op, unscanned, left, probing, found, steady>>

(* The first connection of the wanted account is kept, the rest closed. *)
Choose ==
    /\ pc = "select" /\ op = "connect"
    /\ \E e \in Matching :
          /\ Least(Matching, e)
          /\ rpc' = e /\ open' = open \ (Connected \ {e})
    /\ pc' = "idle" /\ result' = "connected"
    /\ UNCHANGED <<answer, op, unscanned, left, probing, found, steady>>

Unavailable ==
    /\ pc = "select" /\ op = "connect" /\ Matching = {}
    /\ EndWithout("unavailable", Connected)

(* discover_discord_accounts: the accounts are returned, all is closed. *)
List == pc = "select" /\ op = "discover" /\ EndWithout("listed", Connected)

(* PypresenceClient.disconnect and close. *)
Disconnect ==
    /\ pc = "idle" /\ rpc # None
    /\ rpc' = None /\ open' = open \ {rpc} /\ result' = "none"
    /\ UNCHANGED <<answer, pc, op, unscanned, left, probing, found, steady>>

-----------------------------------------------------------------------------
(* A Discord client starts, quits, hangs, or changes its account. *)
DiscordChanges(e) ==
    /\ \E a \in (Accounts \cup Bad) \ {answer[e]} : answer' = [answer EXCEPT ![e] = a]
    /\ steady' = IF pc = "idle" THEN steady ELSE [steady EXCEPT ![e] = None]
    /\ UNCHANGED call

AccountNext ==
    \/ \E o \in {"connect", "discover"} : Call(o)
    \/ \E e \in Endpoints : Scan(e) \/ Dial(e) \/ DiscordChanges(e)
    \/ Scanned \/ Ready \/ Skip \/ Refused \/ Crash \/ Interrupt
    \/ Probed \/ Choose \/ Unavailable \/ List \/ Disconnect

AccountSpec == AccountInit /\ [][AccountNext]_accountVars

-----------------------------------------------------------------------------
(* Between calls the process has at most one connection open, and it is    *)
(* the first endpoint that said it was the wanted account's: a probe of    *)
(* another account, a second socket of the same account or a failed        *)
(* handshake never stays open, whichever way the call ended                *)
(* (publisher.py:193-212, 225-239, 316-324).                               *)
OnlyTheChosen ==
    pc = "idle" =>
        /\ open = IF rpc = None THEN {} ELSE {rpc}
        /\ rpc # None => Least(Matching, rpc)
        /\ result = "connected" <=> rpc # None

(* An account that an endpoint has answered all through the call is not    *)
(* missed by it, whatever the other endpoints did meanwhile: the           *)
(* configured account is not called unavailable, and the listing has it    *)
(* (publisher.py:220-240, 317-323).                                        *)
SteadyIsFound ==
    pc = "idle" =>
        /\ result = "unavailable" => \A e \in Endpoints : steady[e] # Wanted
        /\ result = "listed" => \A e \in Endpoints : steady[e] \in {found[e], None}

(* "One stale or malformed endpoint must not hide a later valid account"   *)
(* (publisher.py:238): the call does not fail because of an error frame    *)
(* when the configured account was there all the time.                     *)
MalformedHidesNothing ==
    pc = "idle" /\ result = "crashed" => \A e \in Endpoints : steady[e] # Wanted

=============================================================================
