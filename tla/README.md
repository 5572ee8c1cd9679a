# agent-away-message: a verification development in TLA+

agent-away-message watches native hooks of coding agents (Pi and Codex), keeps an exact record of
which agent sessions are live, lets models write one sentence about them, and shows count and sentence
as Discord presence. These modules model the parts whose correctness depends on order, failure and
time. TLC checks small instances; TLAPS proves what matters most for every value of the constants.
Line numbers refer to files below `agent_away_message/` unless another directory is named.

## The system

```
Pi (pi-away-message.ts) ─┐ hook processes      events.jsonl ───────────────┐
Codex hooks ─────────────┴─ pi-hook/codex-hook ──► (store.py)              ▼
                              │  identity.key (identity.py)          daemon (cli.py, daemon.py)
                              └─ datagram ► context.sock ► queue ► stage one ► activity-window.json
                                             (context.py)          stage two ► message-history.json
                                                                             ► Discord (publisher.py)
```

| Component | State | Operations | Who touches it |
| --- | --- | --- | --- |
| Event store (`store.py`, `models.py`) | `events.jsonl` | append; `active_sessions`; `completion_turn_token` | hook processes, daemon, status commands |
| Hooks and adapters (`adapters.py`, `cli.py:709-786`) | none of their own | stamp, append, pair a completion, deliver context | started by Codex, or by the Pi extension |
| Pi extension (`assets/pi-away-message.ts`) | promise chain, active child, `closing`, generations | callbacks of Pi, `emit`, `runHook`, `drainTail` | Pi's event loop; spawns hooks |
| Identity key (`identity.py`) | `identity.key` | read, create once, retry | every hook process |
| Context socket (`cli.py:98-121, 603-640`) | lock file, pathname, socket | open, probe, bind, close | daemons |
| Context queue (`context.py:28-103`) | jobs, remembered rejections | submit, suppress, take | daemon |
| Delivery and stage one (`context.py`, `cli.py:232-259`) | datagrams in flight, job under way | deliver, drain, reduce, admit or reject | hooks, daemon |
| Activity window (`generation.py:389-546`) | `activity-window.json` | save, remove, load | daemon |
| Daemon runtime (`cli.py:135-275, 416-506`, `daemon.py`) | `force_generic`, debouncer, history | one iteration after another | daemon |
| Message history (`generation.py:677-770`) | `message-history.json` | quarantine, load, append, fallback | every daemon and preview of the account |
| Discord publisher (`publisher.py:284-470`) | connection, last payload, window start | publish, clear, close | daemon |
| Account selection (`publisher.py:76-257`) | local RPC endpoints | discover, select | publisher, CLI |
| Model clients (`generation.py:117-305`) | one subprocess group with two pipes, or one HTTP request | complete | daemon, preview |
| History simulation (`history_simulation.py`) | intervals, timeline, samples, counters of one replay | read, chart, replay | the user; reads other programs' session files |
| Generation and privacy (`generation.py`, `privacy.py`) | none | prompts, parsing, validators | daemon, preview |
| Configuration, installation, inspector, other commands | config and hook files | merge, read | the user |

What is hard, and what makes each part correct:

- **Event store.** Each hook is a process of its own. Records reach the log in an order that is not that
  of their stamps, and a completion is paired by a process that reads the log at its own moment. Correct:
  liveness is what the newest stamps say, no late record revives a session, no turn is settled twice.
- **Pi extension.** Callbacks, child processes and timers race, and shutdown races all of them. Correct:
  events are recorded in order, shutdown is bounded and keeps the last completion, a hook that hangs
  blocks nothing.
- **Identity key.** Creation is exclusive but not atomic. Correct: one key, for everybody, for good.
- **Context socket.** Probe, unlink and bind are separate steps of competing daemons, and any of them
  may die. Correct: no daemon takes the path of another that is bound, so at most one serves; and the lock ends up
  with a server or with nobody, but for a probe that waits.
- **Queue, pipeline, window.** Input and completion packets of a turn arrive in either order, late or
  never; everything is bounded. Correct: settled beats provisional everywhere, and rejected stays out.
- **Daemon runtime.** What was read before a model call of many seconds is used after it; failures have
  four different exits; other processes replace the history meanwhile. Correct: the display is of what the debouncer
  admitted, and ends up exact.
- **Model command.** A command may do anything with its pipes and leave helpers behind. Correct: a whole
  answer or none, within one deadline, and no process stays.
- **Account selection.** Endpoints appear, vanish and change accounts between enumeration, probe and
  choice. Correct: a steady account is found, and no transport but the chosen one stays open.
- **History file.** Several processes read, generate for seconds, and replace the whole file, with no lock.
  Correct: no text twice, never too long, and nothing lost unless two of them overlap.
- **History simulation.** Half-open intervals, clipping, ties and slices at zero. Correct: the timeline is the
  number of agents alive, and every example stands at a true count.
- **Publisher.** Discord comes and goes between any two client calls. Correct: the presence shown is the
  one asked for, or none, and the elapsed timer starts over only after a withdrawal.

## Modules

| Module | Models | Kind |
| --- | --- | --- |
| `PresenceBoard` | what a publisher promises: one board, one publication window | abstract |
| `DiscordPublisher` | `publisher.py` `DiscordPublisher` over `PypresenceClient`; refines `PresenceBoard` | state machine |
| `EventStore` | `store.py` with hook processes | state machine |
| `PiExtension` | `pi-away-message.ts` | state machine with timers |
| `OneKey` | what `identity.py` promises: one key, chosen once | abstract |
| `IdentityKey` | `identity.py`; refines `OneKey` | state machine |
| `ContextSocket` | socket ownership | state machine |
| `ContextQueue` | `context.py` `ContextQueue` | state machine |
| `ActivityWindow` | `save_candid_status`, `remove_candid_status` on the file's list | operators |
| `ContextPipeline` | hooks → socket → queue → stage one → window; extends `ContextQueue` and `ActivityWindow` | composition |
| `CommandExchange` | `CommandClient.complete` with the command's process group | state machine with a clock |
| `HistoryFile` | `quarantine_invalid_history`, `load_history`, `save_history` under `refresh`, by several processes | state machine |
| `AccountSelection` | `_connected_discord_accounts`, `discover_discord_accounts`, `PypresenceClient.connect` | state machine |
| `HistorySimulation` | `simulate_history`: read, chart, replay | state machine over pure operators |
| `DaemonRuntime` | `_DaemonRuntime.step`, `CountChangeDebouncer`, `refresh`, error path | state machine with timers |
| `*Proofs` | theorems of the modules they extend | proofs |
| `MC*` | values for the constants | model checking |

Names of actions follow the functions they model (`Publish`, `HandleFailure`, `SuppressProvisional`,
`RunShutdownHook`); a function that another process can interrupt is several actions, one per call
that the other process can see. An operator named as a "Mutant of" another is not part of the model: it
is a variant of that definition with a plausible bug, kept to show that a property notices it.

Correspondence worth knowing when reading:

- `EventStore.log` holds what append wrote; `hooks` are processes between stamp and end; `open` and
  `settled` are ghosts that remember what the agents really did and what hooks delivered. A stamp moves
  the clock on, because two processes never stamp the same microsecond. Completions, starts, stops, turns
  and other heartbeats are the classes into which the code sorts `LifecycleEvent`. `broken` stands for a
  line that does not parse, on which `_read_records` raises for every reader. Codex sends a few events of
  its own through the same hook; they are `AgentBeats`.
- `PiExtension` merges `input`, `agent_start` and `tool_call`, which `emit` treats alike. An action is one
  callback with the promise jobs it sets off. The kill takes effect when it is sent (a killed hook records
  nothing more), but the `close` event may come at any later time.
- `IdentityKey` names a key by the hook that drew it and keeps only how much of it is in the file.
- `ContextSocket` names a socket by the process that bound it. A foreign process without the lock may own
  the path at the start or bind it whenever it is free, which is the case the probe is for. The probe of an open foreign
  socket may be answered, may fail with any `OSError` (then its path is unlinked all the same), and waits while `full`.
- `EventStore.disturbed` (ghost) collects the sessions whose turns were not orderly: overlapping turns, an
  interruption, a hook that was killed, could not append, or appended against the order of its session's
  marks. `PiExtension.spoiled` collects the sessions one of whose hooks hung, failed or outlived its kill.
- `ContextQueue` keeps a deque as a set of jobs with arrival numbers. `ContextPipeline` sends each packet
  once; stage one's two model calls are one step with any verdict. A packet that arrives between the drain
  and `take` waits on the wire, which is where it would wait in the kernel.
- `DaemonRuntime` keeps ages and remaining times in place of a clock. A status is known by the fingerprint
  of the aggregate it was written for: the sorted list of the harnesses (`crew`), of which the debouncer's snapshot keeps
  count and set, and the context. What the event store and the window say changes at any time, so a load may see any
  aggregate (`Seen`), until `live` (ghost) holds the one that stays; from then on no call fails. `latest` is the last entry
  of the file that every preview and daemon of the account replaces: `OthersWrite` is one of them (`cli.py:526-547`,
  `daemon.py:232`) or a quarantine (`cli.py:426`), at any moment and for ever. `HistoryFile` has the whole file and
  who loses what; here only the last entry matters.
- `CommandExchange` counts bytes and forgets which they are. The command's process group is a leader and one
  helper it may fork; each may read, write, close and exit at any time or never. `written` (ghost) is what they
  ever wrote. `Tick` lets time pass only up to the deadline, because `select` and `wait` return then. `SIGKILL` is taken
  to work at once, though only the leader is reaped (`generation.py:287-302`): a helper's end is sure, not yet seen.
- `AccountSelection.answer` is what each endpoint would answer at this moment; it may change between any two
  steps of a call. `CodeOnly` is an error frame without a message. `steady` (ghost) holds the account that an
  endpoint has had since the call began.
- `HistoryFile` separates the look at the path, the read, the generation and the replacement, because another
  process may act between any two of them. An entry is its public text; `raced` (ghost) says that another process
  wrote since this one looked. A file of another version may be invalid, or valid and longer than the limit; it
  is assumed to hold no text twice, which `load_history` does not check (`generation.py:703-732`).
- `HistorySimulation` chooses what a session file contains when it is read: recognized time stamps, which of them
  have a text, and the modification time, which is that of the last record or later. Records are parsed by what
  they amount to; both parsers yield the same intervals.
- `DiscordPublisher.shown` is what Discord displays for the connection; Discord may apply an update whose
  answer never arrives. Ctrl-C may end a call anywhere, and the daemon then runs `close`.

## Runs

| Run | Instance | Shows |
| --- | --- | --- |
| `publisher` | two presences, clock to 2 | `ReturnedMeansShown`, `DarkUnlessShown`, `CallsReturn`, refinement of `PresenceBoard` (`BoardSpec`) |
| `store` | two sessions, two hooks, one hint, four records, TTL 3, one short write | `ReductionIsExact`, `NoResurrection`, `SettlementIsSound`, `OrderlyTurnsSettleThemselves` |
| `daemon` | two harnesses, two or three agents, one phrase, retention 1, cadence 2, delays 1 to 2, others' entries up to 1 old | `DisplayIsSound`, `HoldIsBounded`, `EventuallyExact` |
| `pipeline` | three turns, queue, wire and window of 2, six arrivals, one restart | `QueueSound`, `QueueKeepsItsWork`, `RejectedStaysOut`, `CompletionStays`, `CompletionIsDecided` |
| `identity` | three hooks, two bytes, two retries | `OneIdentity`, `HooksEnd`, refinement of `OneKey` (`KeySpec`) |
| `socket` | three daemons, one foreign owner | `HolderActs`, `ServerIsReachable`, `LockIsNotStuck` |
| `pi_extension` | timers of 1 s and 1.5 s in half seconds, two sessions, four events | `ShutdownIsBounded`, `RecordsInOrder`, `CompletionSurvivesShutdown`, `ChainDrains` |
| `exchange` | request 3, output cap 3, pipes of 2, timeout 2, up to 4 bytes written | `AnswerIsWhole`, `EndsInTime`, `NothingLeft`, `CallsEnd` |
| `history` | two daemons, a preview, three texts, limit 2, foreign files up to 3 | `HistoryIsSound`, `OnlyOverlapLoses` |
| `accounts` | three endpoints, two accounts | `OnlyTheChosen`, `SteadyIsFound` |
| `simulation` | a Codex and a Pi file, period 2 to 5, TTL 2, time to 6, three records each, 0 to 2 examples | `TimelineIsExact`, `ExamplesAreTrue` |
| `accounts_malformed` | two endpoints, two accounts | violated: `MalformedHidesNothing` |

The runs of `store`, `daemon`, `pipeline` and `pi_extension` also check their module's type invariant. Every type
invariant is proved.

**Why the bounds are enough.** Two hooks give every inversion of two appends; four records are the
shortest log in which a completion can be paired across a restart of its session (input, start, input,
completion) or a turn be settled twice. A limit of two with three turns makes the queue, the
window and the memory of rejections overflow with both phases in them. For the daemon, one agent more of
a harness that is there changes the count alone, and one more of this harness and one less of the other neither count nor
set but the fingerprint; one phrase more or less is a meaningful change; a retention bound below the
cadence keeps the order that `config.py`'s defaults have (300 s and 480 s). Two key bytes separate an empty,
a partial and a complete file, and two retries separate the first from the last. Three daemons allow an
owner, a successor and a bystander. In the extension, hook and drain timers keep their order and the hook's
is half way through the drain's last unit; two sessions are enough for a session's hooks to run into the next one,
and what a hook does that is killed in the first and closes only in a third is left to the theorems. A request longer than its pipe and an output that can exceed the cap
make both pipes full at once; a timeout of two separates the exchange's part of it from the wait's. Two daemons and
a preview give a writer, an overlapping one and a quarantine; with one text more than the limit generation never
runs dry, and a foreign history can be longer than the limit. With three endpoints one can fail while two reach the
wanted account. A period of four instants with a TTL of two has room for a gap between intervals, for ends and starts
that coincide, for files on either side of the age test and for records after the period.

Clocks, records, arrivals, emits and restarts are bounded in the guards: `EventStore`, `ContextQueue`'s arrivals inside
`ContextPipeline`, and `PiExtension` come to an end there, every hook of `IdentityKey` comes to its own, and a
simulation ends with its report; those configurations switch deadlock off. All others check it.

**Fairness.** `DiscordPublisher`: a client call returns or raises, because pypresence bounds every read and
the thread does nothing else; Discord owes nothing. `IdentityKey`: a hook that is not killed runs on.
`ContextSocket`: a daemon inside `_open_context_socket` or `close` goes on, because the lock is tried with `LOCK_NB` and
only `probe.send` can block (`cli.py:621`): while it waits on a full queue nothing is owed, by the daemon or by the
foreign process; nobody has to start, stop or die. `ContextPipeline`: the daemon's loop
goes on and model calls have deadlines. `DaemonRuntime`: the loop goes on (`while True` with bounded sleeps)
and time passes. `PiExtension`: the event loop fires its timers and runs promise jobs; a child owes nothing,
it may hang for ever. `CommandExchange`: the client's thread goes on whenever a descriptor is ready or the deadline has
come, and time passes; the command owes nothing. The other modules state safety only and no fairness.

**What the violated run shows.** `MalformedHidesNothing` states the comment at `publisher.py:238`: "One stale or
malformed endpoint must not hide a later valid account." `handshake` reads `data["message"]` of an error frame
(`publisher.py:165`) after it has found a code and not the one message it knows; without a message that is a
`KeyError`, which neither the list at `publisher.py:230-237` nor `DiscordPublisher`, the daemon's loop
(`cli.py:477-483`) or `discord-accounts` (`cli.py:378`) catches. The process ends with the account it was looking for
within reach. In `accounts` the same step is part of the model; its properties say what holds all the same.

**Departures worth knowing.** The models have them as the code has them, and the properties are stated around them:

- A short append (`store.py:58`) raises for its own hook but leaves a prefix that the next record continues; from
  then on no reader can read the log. `ReductionIsExact` speaks of readers that get an answer.
- Completions settle turns first in, first out (`store.py:91`). After an interrupted turn, or a hook that was killed,
  the next completion settles the older turn, until a start or stop of the session: the sessions in `disturbed`.
- The window cuts its front, and an update keeps its place (`generation.py:516, 535`), so the freshest entry may go:
  the exception in `CompletionStays`.
- If a killed hook has not closed when the shutdown hook is done, the next `session_start` reopens the extension
  (`pi-away-message.ts:161`) and events queued for the ended session run after its shutdown. Such a hook may live
  through several sessions and spoils each of them: the sessions in `spoiled`.
- The probe counts every `OSError` as a stale path (`cli.py:622-623`): a foreign socket that is open, but full (`ENOBUFS`
  where a full queue is an error), of another type or not permitted, loses its path to the daemon. Daemons are safe from each other by the
  lock and not by the probe, so `ServerIsReachable` speaks of daemons.
- Where a full queue is waited for (Linux), the probe's blocking `send` keeps the lock until the foreign process drains
  it or ends (`cli.py:621`): the exception `Waits` in `LockIsNotStuck`.
- While other processes write the history, its last entry need not be what the daemon displays, and the daemon may show
  an entry of theirs: `DisplayIsSound` relates the display to what the debouncer admitted, and `EventuallyExact`
  holds although they go on writing.
- A process that overlaps another on the history discards the other's entry, and a quarantine that overlaps a save
  moves the new, valid history aside: the `raced` processes of `OnlyOverlapLoses`.

## Proofs

All theorems are safety properties of the specifications without bounds on the sets that are constants:
any number of hooks, daemons, turns, presences, endpoints, any limit, key length, request or timeout.

| Module | Theorems | Inductive invariant |
| --- | --- | --- |
| `DiscordPublisherProofs` | `TypeCorrect`, `ReturnedIsShown`, `DarkWhenNotShown`, `ImplementsBoard` | `TypeOK`, `LinkInv`, `WindowInv`, `IdleInv`, `CallInv` |
| `EventStoreProofs` | `StoreTypeCorrect`, `StoreReductionIsExact`, `StoreSettlementIsSound`, `StoreOrderlyTurnsSettleThemselves`, `StoreNoResurrection` | `StoreInv`: `TypeOK`, `Stamped`, `PairingInv`, `Settlements`, `Orderly`, `OrderlyTurnsSettleThemselves` |
| `PiExtensionProofs` | `PiTypeCorrect`, `PiShutdownIsBounded`, `PiRecordsInOrder`, `PiCompletionSurvivesShutdown` | `PiInv`: `TypeOK`, `Numbered`, `ChainOrder`, `Awaited`, `Stopped`, `Draining`, `Clock`, `Shutdowns`, `Past`, `RecordsBehind`, `Completions`, `RecordsInOrder`, `CompletionSurvivesShutdown` |
| `ContextProofs`, queue | `QueueTypeCorrect`, `QueueIsSound`, `QueueLosesNothing` | the state properties, a finite queue, and `Numbered` |
| `ContextProofs`, pipeline | `PipelineTypeCorrect`, `PipelineQueueIsSound`, `PipelineQueueLosesNothing`, `PipelineRejectedStaysOut`, `PipelineCompletionStays` | `PipeInv`: the queue's, `TypeOK`, `PacketsOnce`, `DecidedIsPast`, `RejectedStaysOut` |
| `ContextProofs`, socket | `SocketTypeCorrect`, `SocketHolderActs`, `SocketServerIsReachable` | the three properties together |
| `FileProofs`, key | `KeyTypeCorrect`, `KeyCreatorOwns`, `KeyOneIdentity`, `KeyIsChosenOnce` | `KeyTypeOK`, `CreatorOwns`, `OneIdentity` |
| `ClientProofs`, command | `CommandTypeCorrect`, `CommandAnswerIsWhole`, `CommandEndsInTime`, `CommandNothingLeft` | `TypeOK`, `TimeInv`, `FlowInv`, `AnswerInv`, `GroupInv` |
| `ClientProofs`, accounts | `AccountTypeCorrect`, `AccountOnlyTheChosen`, `AccountSteadyIsFound` | `AccountTypeOK`, `OpenIsKnown`, `Stages`, `SteadyIsAhead` |
| `FileProofs`, history | `HistoryTypeCorrect`, `HistoryStaysSound`, `HistoryOnlyOverlapLoses` | `TypeOK`, `HistoryIsSound`, `LoadedIsSound` |
| `HistorySimulationProofs` | `SimulationTimelineIsExact`, `SimulationExamplesAreTrue` | `SimInv`: `SessionIntervals`, `SessionSamples`, `Contained`, `Drawn`, `Modes`, `Replaying`, `Counting` |
| `DaemonRuntimeProofs` | `DaemonTypeCorrect`, `DaemonDisplayIsSound`, `DaemonHoldIsBounded` | `TypeOK`, `DueLater`, `GenerateIsNeeded`, `FallbackIsOldNews`, `ShowsAdmitted`, `HoldRunsDown` |

`ContextProofs` extends the pipeline and the socket, `ClientProofs` the command exchange and the account selection,
`FileProofs` the two files that processes share; so the socket, the account selection and the key name their
specification, variables and type invariant `SocketSpec`, `AccountSpec`, `IdentitySpec` and so on. TLC has checked
`StoreInv`, `PiInv` and `SimInv` beforehand, on the instances of their runs or one larger and one smaller in a bound.

- *Publisher.* None of the properties is inductive: between calls they depend on what a call in the
  middle has done. `LinkInv` says when a display can exist at all, `WindowInv` that it carries the window's
  start, `IdleInv` what the fields mean between calls, `CallInv` which calls have a presence. `ImplementsBoard`
  maps `arg`, `startedAt`, `shown` to the board and shows every step to be a board step or a stutter.
- *Queue.* That room is made needs the size of the queue after a drop and an eviction, hence finiteness;
  that the oldest job exists and is unique needs distinct arrival numbers below `arrivals` (`Numbered`) and the
  least-element principle (`NatSetHasMinimum`, from well-foundedness of `<`). The pipeline's theorems reuse the
  step lemmas: each of its steps is a step of the queue, leaves the queue alone, or discards it in a restart.
- *Event store.* That `active_sessions` is exact has no induction over steps: it is a fact about every log in
  which no two stamps are equal (`Stamped`). `Rank`, the number of records before a record, is one-to-one from the places
  of the log into as many numbers, hence onto (`RankIsPlace`), so `ByTime` really is the log in the order of its stamps
  (`SortedRecords`); what its reductions hold after n records follows along n (`ReductionsAreNewest`, `LatestIsNewest`).
  Settlement is sound because a completion is paired with what was in the log when it was appended
  (`PairingAppended`), and turns still to be settled are those of this incarnation of the session, each once
  (`PairingInv`). `Orderly` says what the log of an undisturbed session looks like: its marks stand in the order of
  their stamps (`InOrder`), turns and completions alternate (`Alternate`), the open turn is the pending one and a
  completion under way completes it. That no late record revives a session is a step property that follows from exactness in
  both states and from stamps that only grow.
- *Pi extension.* What order the records get is a matter of the whole chain: items are numbered when they are made
  (`Numbered`), the chain keeps the numbers' order (`ChainOrder`), only the awaited hook can still record
  (`Awaited`), and what has recorded is behind what has not (`RecordsBehind`). The bound on shutdown is an account of
  what the handler has spent and may still spend (`Clock`). The last completion survives because the hook's timer
  is shorter than the drain's: until the drain gives up, the hook before the completion has given up already
  (`Draining`, `Completions`).
- *Pipeline.* A packet is sent once and is in one place at a time: on the wire, in the queue, with stage one, or
  gone (`PacketsOnce`). What a rejection or a completion has decided is gone for good (`DecidedIsPast`), so nothing can come
  and undo it. The window is cut and searched by turn: saving and removing keep each turn at most once
  (`SavedWindow`, `RemovedWindow`).
- *Key.* `CreatorOwns` (only the creator writes, and syncs only a complete file) is what makes
  `OneIdentity` inductive; the refinement maps the file's owner, once complete, to the chosen key.
- *Socket.* Whoever moves the path holds the lock (`HolderActs`), so no other daemon is bound at that moment
  (`HolderIsAlone`) and an unlink hits no daemon's socket, whatever the probe has met; a foreign process binds only a free
  path, which no bound daemon has.
- *Command.* `FlowInv` balances what was written against the pipe and what was collected, and says that after
  the end of stdout nobody can write; `AnswerInv` carries that through the teardown to the verdict.
- *Accounts.* `SteadyIsAhead` says where a steady account is during a call: not yet scanned, not yet probed, in
  its handshake, or found. `OpenIsKnown` accounts for every open transport at every step.
- *History.* `LoadedIsSound`: what a process loaded is duplicate-free, within the limit and without its new text,
  and, unless another process wrote since, it is the window of the file as it is now. What a window is comes from
  the library's `SubSeqProperties` (`WindowIs`).
- *Simulation.* That the timeline is exact is a fact about each file first: the intervals of the first n records
  are apart, the last ends a TTL after the nth record, and together they cover the instants within a TTL of a record
  (`RunsAre`, kept from n to n + 1 by `ExtendKeeps`, hence `IntervalsCover`). Clipping to the period keeps at most one
  interval of a file over an instant of the period (`ClippedCover`); a file left out for its age has none
  (`Contained`), so the chart's difference of starts and ends counts the sessions alive (`ActiveIsAlive`), at the changes
  and, because nothing happens in between, at every instant (`NothingBetween`). The replay keeps what is shown and what is left
  together the newest moments (`Aligned`), and one of them always has somebody alive (`MomentsAlive`), so the
  floor of one agent in `_aggregate_at` is never what is shown. `Counting` carries the counters through stage two.
- *Daemon.* An entry young enough to fall back on is not due yet, whoever wrote it (`DueLater`), so an iteration that
  generates does so for another fingerprint than that of the entry it has loaded (`GenerateIsNeeded`): the fallback is never
  the status of the same aggregate, whatever has become of the history meanwhile. `ShowsAdmitted` carries what was
  admitted through generation and publication to the display, and keeps it there while counts are held and the history
  changes. What is left of a hold and what has passed of it never exceed the longest delay (`HoldRunsDown`).

The assumptions are the `ASSUME`s of the modules: limits are positive; `None`-like values are not members of
the sets they complement (`NoneAssumption` of `EventStore` and `PiExtension`); the turns of the pipeline are turns of the
window (`TurnsAssumption`); the hook's timeout is shorter than the drain's, as `pi-away-message.ts:14-15` has them
(`PiAssumption`); for the daemon the retention is below the cadence, as in the defaults of `config.py`
that no option changes, crowds are not empty, and whoever may be there with a context may be there without
(`DaemonAssumption`); the simulated period is not empty, ends within the bound on time stamps,
and has a positive TTL (`SimulationAssumption`). TLC evaluates all of them.

Recursion over a log or over a file's records is written as recursive functions, and what they compute is proved by
taking the least place at which the claim would fail (`UpTo` in `EventStoreProofs` and `HistorySimulationProofs`),
because the library's induction theorems take the claim as an operator, which no backend here can instantiate.

Three models were wrong or could not be reasoned about before they were proved. An inductive invariant for the Pi
extension failed because `spoiled` named one session too few: with a third session TLC showed a killed hook that closes two
sessions late. `EventStore`'s reductions and `HistorySimulation`'s intervals and order were folds and sorts of
the library, of which no fact could be derived; a stable sort by rank says the same and can be reasoned about.

Every safety property that a passing run checks is proved. Only model-checked is liveness (`CallsReturn`, `HooksEnd`,
`LockIsNotStuck`, `CompletionIsDecided`, `EventuallyExact`, `ChainDrains`, `CallsEnd`), which is out of this prover's reach.

## Not modelled, and why

- Prompts, JSON schemas, validators, sanitising and truncation: functions on text without state. The
  models see their verdict.
- OpenAI-compatible model client: one blocking request with a timeout; its outcome is a verdict of `DaemonRuntime`.
- Session inspector, configuration, other commands: one pass over inputs, no state that others race for.
- Installation: one process merges hook entries into configuration files on the user's command; its cases are those
  of the files' shapes.
- Expiry and quarantine of activity entries; `inspect_fixture`; generic mode without a socket (a subset of
  the candid iteration). A command's descendant that leaves the process group is beyond what `killpg` reaches and
  beyond `CommandExchange`.
- Parsing of session records (`_read_jsonl`, `_timestamp`, `_message_text`) other than by its result.
