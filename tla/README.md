# A TLA+ model of Silicon Omni

Silicon Omni keeps a conversation going across several coding-agent CLIs (Claude Code,
Codex, Antigravity). A daemon holds one *chat* per session. A chat accepts messages,
stores them, hands them to whichever provider is up, records everything the provider
says, and moves to another provider when one fails. What a user relies on is that a
message, once accepted, is neither lost nor delivered twice nor overtaken, whatever
crashes in between.

The modules here model that core and what stands around it: the daemon and its
registry, the client library, the processes and the Codex server behind a chat, and the
logins. TLC checks them on small instances, and TLAPS proves the most important results
about the core, the daemon, its start, the client, the Codex server and the logins for
every instance. Paths below are relative to the
repository; `chat.rs` is `crates/omni-core/src/chat.rs`.

## 1. Inventory

| Part | State it keeps | Operations | What is hard, and what makes it correct |
|---|---|---|---|
| **Conductor** `chat.rs`: one thread per session, `Chat::run` | outbox, `awaiting` (written to a provider, echo not seen), `unanswered` (delivered, turn not ended), `next_turns`, the turn, the runner and its epoch, providers set aside, the recovery | wakes: launch, send, settings, provider event, stop; and a timeout | Handlers of several file writes, any of which may fail; events of replaced runners; two sides that count turns. A message is kept until its opening event is in the log, in order, once; the chat never looks idle while it works and never hangs in busy. |
| **Metadata** `session/meta.rs` | pending messages, recovery, history boundary, settings, native ids and watermarks | `enqueue`, `retry`, `complete`, `recover`, `reconcile`, settings; each an atomic file replacement | Must agree with the log after a crash between two writes. |
| **Log** `session/store.rs`, `shared/jsonl.rs` | the events, with `seq`, `turn`, `late`, message id | `append`, `events`, `turn`, tail repair | Torn last lines, late events of replaced runners. |
| **Runners** `providers/*`, `shared/proc.rs` | a process or a thread on a shared server, a pipe, parser state | `start`, `send`, `compact`, `retune`, `catch_up`, `interrupt`, `stop`; events through a callback | Three ways of taking a message (echo, steering, queueing); death is visible before it is reported; `stop` races with the last END. |
| **Choice** `choose.rs` | none | `resolve` | May find none of the allowed providers acceptable. |
| **Registry** `omni-daemon/src/registry.rs` | live chats, listeners, per-session gates | open, attach, detach, send, set, stop, forget, reap, shutdown | Opens, stops and reaping of one session at the same time; replay against live delivery. One conductor per session, no event between replay and subscription, nobody reaped who is in use. |
| **Wiring** `wiring.rs`, `main.rs`, `serve.rs` | connections with bounded queues, lanes of requests, admission permits, lock and socket of the daemon | read, admit, serve, write, replay, close; signal, shutdown | A client that does not read must not hold up a chat; every request is answered; a shutdown waits for what is in progress. |
| **Client** `omni-client` | pending calls, subscriptions, open sessions; a `Chat` with what it has seen | call, subscribe, open, detach, stop, drop; start the daemon | Late answers, ambiguous calls, threads that share a connection, two programs that start a daemon at once. Calls return, both ends agree on who listens, events come once and in order. |
| **Processes** `shared/proc.rs` | a child and its group, reader threads, reaper, callback gate, guardian | spawn, send a line, stop, run | Death, stop and callbacks race. Nothing survives a stop or the daemon; an exit is reported unless it was asked for. |
| **Codex server** `codex_app_server/*` | a pool of servers, routes per thread, pending calls | get, attach, call, send, compact, interrupt, reap, shutdown | A server that dies or is reaped under a session that is about to use it; turns that are announced before or after they are answered. |
| **Accounts** `providers/login.rs`, `mod.rs`, `*/account.rs` | logins in flight, an epoch, two memories of what a CLI said | start, finish, status, forget, models; a sweep; shutdown | Logins that replace each other, expire or outlive the daemon; answers that are older than what they deny. |
| Formats, paths, CLI, Python package, web registry | none to speak of | | Data, I/O and user interface; not modelled. |

A client's request reaches the registry through a connection, the registry posts a wake
to the conductor, the conductor writes the metadata and answers, then calls the runner.
The runner's threads post events back to the same inbox, each stamped with the runner's
epoch. What the conductor records is published to the listeners the registry attached.

`PROJECT.json` lists the hazards found in the survey, each with its line, the
properties that cover it, or why none does.

## 2. Modules

| Module | What it is |
|---|---|
| `DurableSend` | The promise: a queue of owed messages; accept at the back, hand over from the front, put new attempts in front, replace a replay that recovery made up. No crash, restart or failover is a step of it. |
| `Conductor` | The conductor, its two files, and a runner, in detail. |
| `Jsonl` | The log as a file: complete lines and what stands behind the last newline. Operators only. |
| `Registry` (on `Jsonl`) | The daemon around one session: connections, lanes, gates, chats as the registry sees them, listeners, sweep and shutdown. |
| `Startup` | Programs that look for a daemon or start one; the daemon's lock, socket and exit. |
| `Client` (on `Startup`) | One program's connection: calls, reader, disconnection, subscriptions and the chats of its threads, with the daemon's end of the connection. |
| `Process` | A process that omni starts, its threads, stop and the guardian. |
| `Codex` (on `Process`) | The pool, the JSON-RPC client, the runners of sessions that share a server; the app-server itself as an external part. |
| `Accounts` (on `Process`) | Logins, the memory of who is signed in, the inventory of models, probes. |
| `MCConductor`, `MCRegistry`, `MCClient`, `MCCodex`, `MCAccounts` | Instances for TLC: providers one for each way of taking a message; for the others, scenarios of what each actor is going to ask. |
| `ConductorTypeProofs` | Type correctness of `Conductor`. |
| `ConductorProofs` | No accepted message is lost, none is opened twice; who is set aside stays so; a recovery is carried, and handed over a bounded number of times. |
| `ConductorPromiseProofs` | The queues in memory are the queue on disk; `Conductor` implements `DurableSend`. |
| `ConductorTurnProofs` | Turns begin and end: the accounts of a runner and of the log. |
| `RegistryProofs` | The safety invariants of the daemon. |
| `ClientProofs` | A daemon that serves can be reached; an attachment hands out its events once, in order and without a gap; daemon and client agree on who listens. |
| `CodexProofs` | Unless a sweep takes the server, exits are told and calls return; turns that were announced end. |
| `AccountsProofs` | Logins are kept and put down; what is remembered of a user and of models is not stale. |

### How `Conductor` corresponds to the code

*One handler, several steps.* The thread takes one wake at a time. A handler is cut so
that each step makes at most one durable write, and `pc` says where in the handler the
thread is. `Crash` may happen at every `pc`: it stands for the death of the daemon and
for `persistence_failed`, after which the thread ends. A failed write may leave the old
or the new file, that is the crash before or after the step. Handlers call each other in
tail position, so a single `goal` (what follows a launch or the closing of a turn) is
enough instead of a stack; the one exception, the last look of `finish_turn` at the
queues after `flush`, is the flag `finishing`.

| Variable | In the code |
|---|---|
| `log`, `pending`, `recovery`, `historyStart`, `providers`, `autoremove`, `config` | the two files; the log without `CONFIG`-like events, and all settings but two as a version number |
| `outbox`, `awaiting` | the fields of the same name |
| `answering`, `later` | `unanswered`: its front group (the turn that is running) and the groups behind it, which hold one message each |
| `nextTurns`, `turn`, `inTurn`, `turnRecorded`, `turnFailed`, `stopping`, `launchedOnce` | the fields of the same name |
| `deadline` | `compaction_deadline` is set; when it passes is left open |
| `runner`, `runnerEpoch`, `nextEpoch`, `epochTurns`, `current`, `benched` | the fields of the same name; `current` is a provider and a version of the settings |
| `inbox` | the `Heard` wakes; the order of other wakes is left open, as their senders are different threads |
| `open`, `spoke`, `piped`, `life` | the provider: native turns open or queued, lines on the pipe, the process |
| `nextId`, `accepted`, `withdrawn`, `handoffs` | history: ids handed out (UUIDs in the code), messages whose client was told so, replays that were taken back, handoffs of this recovery, counted over stops and crashes |

Each wake is an action (`LaunchOnce`, `Send`, `SetProviders`, `SetAutoremove`,
`SetOther`, the `Hear...` actions, `Stop`, `CompactionTimeout`), followed by the steps of
what it calls: `Attempt...` (attempt, rebuild, launch, adopt), `Flush` and `Deliver...`
(flush), `CloseTurn`, `CloseTurnEnd`, `Failed`, `Unauthenticated`, and for a full context
`RecoverContext`, `Handoff`, `Continue`, `Replay`, `RecoveryEnded`, `GiveUp`,
`ResumeRecovery`. The `"map"` of `PROJECT.json` has the lines of every definition.

*Providers* are told apart only by how they take a message (`Delivery`): Claude echoes a
line when it reads it; Codex steers it into the running turn or opens one; Antigravity
makes every message a native turn of its own. A runner's own steps are interleaved only
where the conductor reads its inbox or sends, as nothing else depends on them.

*Left out*: watermarks and parked runners (a runner that is replaced is taken to be gone,
one that is put away and taken back at once is kept), the publication of events (which is
in `Registry`), the texts, and the metadata writes that only concern native ids and
watermarks. An append is atomic (`Jsonl` and `Registry` show that a reader finds it so).
Codex's `turn/start` is refused only if it was not taken.

### How `Registry` and `Jsonl` correspond

Threads are the tasks of the connections (`pc`), their readers (`reader`), the sweep, the
main thread, and one thread per chat. A request is read and admitted (`Submit`), waits in
its connection's lane, takes the session's gate (`Begin`, `LockGate`), does its operation
and answers (`Reply`). An open goes on through `OpenWarm`, `OpenStale`, `OpenCold`, `Probed`,
then `Attach`, `Replay`, `AttachEnd`, which hold the lock on the chat's listeners. `Mark`
and `Farewell` are `Live::shut`. `chats` is every chat the daemon has had, because a thread
that was told to stop goes on for a while after it is out of the map.

A chat handles one wake at a time, records at most one event for it (`Logs`) and publishes
it (`Copy`, under the lock; `Deliver`, without). `Fails` is a write that fails: of the
metadata, or of the log at any byte, which `Jsonl!Failures` spells out: nothing, a newline,
half a line, a line without its newline, or a whole line whose sync failed. The next chat
opens that file, repairs its tail and appends.

One session is modelled: sessions share only admission and a map that is locked for a
moment. How full a connection's queue is depends on its reader, so every `Write` may find
it full and close the connection. The `closing` flag of the registry is left out: it is set
when no request is in progress and none can begin, so no test of it fails. Two things the
model shows and no property objects to: a re-open on the same connection may repeat an
event that was in flight, and a chat that the sweep is putting down may still be up when the
daemon exits (`ExitsClean` says so).

### How `Startup` and `Client` correspond

A program looks, starts a daemon (each at most one), polls and connects; a daemon locks,
claims the path, binds, serves, and on its way out unlinks the path and lets the lock go.
A crash lets the lock go and leaves the socket behind; `Litter` is one from earlier times.
`disturbed` marks programs that waited while a daemon was leaving or was killed: the daemon
they started may have found the lock taken and left, or be the one that was killed, so they
may run into their timeout. That is what the code does, and `WaitEnds` excuses no other case.

A call is an id, a slot in `pending` and a line (`Call`, `Write`); it ends with an answer, a
refusal, a timeout or the end of the connection. `disconnect` is two steps (`Cut`, `ClearAll`)
run by whoever swapped `alive`. A failed stop or detach takes the connection down, as its
outcome is unknown. Frames carry the attachment that they were sent for, which the code
does not have: it serves to tell in `foreign` when a frame reached somebody else's
subscription. Several `Chat`s on one session and one connection are the case in which the
threads of a program meet.

A Chat is opened at a `Position`. `Chat::start` asks for the whole history, however often it is
called; `start_since` for what its caller says (below 0: live events only); and `next_event`,
`send` and `refresh`, which attach a Chat that is detached, for the first event that it has not
seen. The daemon keeps the position as the listener's `next` and tells it nothing below it.
So a Chat that is started, detached and started again hands the history out twice, as the
code does. Three history variables say what is owed: `handed` (since the Chat was attached),
`origin` (the position that was asked for, and the one from which no event may be missing)
and `covered` (what was ever handed out, or the owner has asked to pass over). Settings that
are kept for the next open are not tracked.

### How `Process`, `Codex` and `Accounts` correspond

`proc[p]` holds the operating system's view, the `running` flag, the gate, and where the
pump, the reaper and whoever stops the process are. `Noticed` lowers the flag and `ExitCall`
passes the gate, two steps that a stop can come between. `helper` is a process in the CLI's
group; `guardian` watches the daemon's pipe and kills the group at its end.

`Codex`: `Get`, `Boot`, `Booted`, `BootFails` are `Shared::get` with the pool's lock; `OpenThread`
to `Attach` the rest of `start`; `Send`, `Steer`, `OpenTurn`, `Sent` a message with `landed`.
`HearReply`, `HearAsk`, `HearNote` and `Emit` are the pump's callback, `OnExit` and `NotifyExit` the
reaper's. The app-server is external. What is assumed of it is what `landed` and its tests
rely on: turns are numbered; `turn/start` opens one, or is folded into the one that runs; it
may say that a turn began before or after it answers; a steer for another turn is refused;
nothing is compacted during a turn, and nothing is sent while one is compacted. A line can be
written unless the process is dead or its stdin closed. Request ids are per runner instead
of per server. A `turn/start` that timed out although it was taken brings one END more than
was announced; `EndComes` asks for at least as many as were.

`Accounts` has one provider, Antigravity, which has all the mechanisms; a login goes by its
token, `Procs` being the CLIs of logins. A probe's CLI is `probe`, with pipes that may be held
after it is gone. Connections serve their requests one at a time, so a caller is in one
call; two callers race. Whoever comes second to stop a process waits for the first.

## 3. Properties and runs

Of a chat (`Conductor`):

| Property | What it says |
|---|---|
| `NoMessageLost` | every message ever put in the metadata is there or has an opening event in the log; only a replay that recovery made up may be withdrawn |
| `OpenedOnce` | no message has two opening events |
| `KeepsPromise` | `Conductor` implements `DurableSend`: what is owed is `pending` without a head that is already in the log |
| `QueueMatchesDisk` | between wakes, `awaiting` followed by `outbox` is the queue on disk |
| `EndsMatchOpenings` | no turn is ended more often than it was opened: stragglers, synthetic and real ENDs together |
| `NoFalseIdle` | a chat that says it waits has no native turn open and nothing on the pipe |
| `NotOnBench` | the runner that is up was not set aside, nor taken off the list unless that is about to be applied |
| `UnfinishedFirst` | no new runner takes over while unfinished messages are not back in the queue |
| `RecoveryCarried` | the message that a recovery waits for is in the metadata or was opened in the current history; nothing is said of who is working on it |
| `HandoffsBounded` | one handoff per recovery, and at most one more for each time that the session went down |
| `RecoveryEnds`, `BusyEnds`, `AcceptedOpens` | liveness: recoveries end, busy ends, an accepted message is opened |

Of the daemon (`Registry`):

| Property | What it says |
|---|---|
| `OneConductor` | no two threads of one session at the same time, whatever opens, stops and sweeps overlap |
| `LogKept` | wherever a write stopped, the log loads to its end, and what a client was told of is in it |
| `NoGap` | an event in the log that a listener has not had is still to be published to it |
| `ReapedAlone` | the sweep puts down no chat that somebody listens to or waits for |
| `NoneLeft` | a connection that was forgotten listens to nothing |
| `ExitsClean` | at exit every request was served and every chat has ended, but for one the sweep has |
| `Answered`, `EndIsTold`, `PutDown` | liveness: requests are served; listeners are told of the end of a chat; a chat that everyone has left is put down unless it is busy |

Of a program (`Startup`, `Client`):

| Property | What it says |
|---|---|
| `DaemonReachable` | a daemon that serves is at the path: there is one, and nobody took its socket away |
| `WaitEnds` | a program that started a daemon gets to one, past a dead socket too |
| `CallsReturn` | a call ends though nobody's timeout passes, when its connection goes before, during or after its write |
| `ListenersAgree` | at rest, the daemon has a listener exactly if a chat is attached, unless an open timed out |
| `InOrder`, `InOrderUnlessForeign` | an attachment hands out every event once and in order, none below the position that was asked for and none left out from there on; and restarts by the way pass over no event that the owner has not asked to pass over. The second: as long as no frame reached another attachment |

Of the processes (`Process`, `Codex`, `Accounts`):

| Property | What it says |
|---|---|
| `NoOrphans` | nothing in a CLI's group outlives a stop or the daemon |
| `ExitToldUnlessSwept` | a chat that is attached to a server that died is told, unless a sweep took that server |
| `CallsReturnUnlessSwept` | no call waits for a server that is gone, unless a sweep took that server |
| `ExitNoticed` | whatever is swept: a chat that waits for a server that is gone has at least been told that it is; false, a finding |
| `EndComes` | at rest, as many turns have ended as the conductor was told to wait for |
| `AsksDeclined` | every ask of the server is declined; that a write to its pipe may block is not modelled |
| `LoginKept` | the URL a user was given is of a login in flight, unless something ended that very login |
| `NoneAfterShutdown`, `LoginEnds` | no login survives a shutdown it was begun before; every login ends |
| `FinishSeen` | after `finish_auth` confirmed a user, nobody is told the opposite; a probe begun before, a CLI that cannot be asked and a user who signs out are excused, so what it shows is that `finish_auth` forgets what it knew |
| `ModelsFresh` | an inventory is not older than the last `forget` |
| `CallsReturn` (`Accounts`) | every call returns, whatever a CLI and its children do |

| Run | Question | Instance |
|---|---|---|
| `delivery_crash` | delivery, crash and stop at every point; does busy end, is every accepted message opened? | Claude and Antigravity, 3 runners, process exits; 2 sends and 1 crash or stop, or a change of settings in place of one of the three; 520,000 states |
| `failover` | lost logins, limits, full contexts, refusals, providers that do not start | Codex and Antigravity, 2 sends, 3 runners, 1 change of settings; 2,210,000 states |
| `recovery` | is a recovery carried on, handed over a bounded number of times, and does it end, across restarts? | Claude and Codex, which compacts; 1 send, 6 runners, 2 crashes or stops; 194,000 states |
| `daemon` | opens, stops, sweeps, hang-ups, failed writes, shutdown | 2 connections, 4 plans, 2 requests in flight, 1 event, 1 failed write; 270,000 states |
| `client` | starting a daemon; threads that share a connection | 2 programs, 1 crash; 2 threads, 7 scenarios, 3 calls, 2 events, 1 stop by another; 325,000 states |
| `codex` | a shared server through its whole life | 2 sessions, 2 servers, 7 scenarios, 1 timeout, 1 fault; 176,000 states |
| `accounts` | logins, probes and what is remembered | 2 callers, 2 logins, 9 scenarios; 153,000 states |
| `recovery_wedged`, `crash_overtaken`, `turns_left`, `stale_frames`, `exit_untold` | the findings | see below |

*Bounds of `Conductor`.* `MaxSends`, `MaxEpochs` (runners per session), `MaxDowns`,
`MaxChanges` and `MaxInbox` (events a runner may be ahead of the conductor). Two messages
are enough for order and for one to be delivered, echoed or queued while another is; three
runners for a failover and a failover of the failover; two events in the inbox for an error
and its END, and for an END that a send overtakes. When the runners are used up, the next
one "does not start", which the code handles; no behaviour is cut off. `recovery`
goes down twice, which reaches a compaction, a handoff and a retry that are each opened
again, and keeps to one send: with a second native turn queued when a context fills up the
chat stays busy for ever, which is the finding `turns_left`. `BusyEnds` is checked in
`delivery_crash`, where no context fills up; with full contexts it is false in two ways,
`recovery_wedged` and `turns_left`, and what holds of them besides is `RecoveryEnds`.
`MCMixes` starts `delivery_crash` with one of its three bounds used up: with all three left
the state graph is too large for the liveness check, and two at a time are what a delivery
can be disturbed by.

*Bounds of the others.* Each actor carries out a plan from a small set, chosen so that every
pair of operations that can meet does: an open against an open, a stop, a shutdown and a
signal; a drop against an open of the same session; a start against a sweep, a death and
another start; a login against its replacement, its end and a shutdown. Two of everything
that competes are enough to compete: connections, threads, servers, logins. `MaxEvents`
bounds what chats record besides their end, so that the log of a second chat follows the
torn one of a first; `MaxFaults` one failure, at any point, of any kind. A scenario may start
warm (a server that runs, a program that is connected) so that depth is spent on what
follows; a warm state is one that a cold start reaches, but for the
numbering of requests and turns.

All runs allow deadlock: when nobody asks for anything, everything is idle.

*Resolve.* In `MCConductor` an even settings version takes the first usable provider of
the dial; an odd one names the last provider of the session, so a change of settings can
move the chat to another provider and leave it with none that is allowed.

*Fairness.* `Conductor!FairSpec` is weak fairness of the thread's own steps (the operating
system schedules it; every call it makes returns, with a timeout where it waits for a
process), of a provider that reads its pipe and ends its turns, and of the reaper thread. It
asks nothing of clients, of settings, or of what may fail. `ReopenSpec` adds that a session
that is down is opened again, without which nothing can be expected of it. Crashes are
bounded by `MaxDowns`; liveness is about what happens when they stop.

`Registry` asks that the daemon goes on while any of its threads can (`Daemon`), which is less
than that each is scheduled; a client need not ask, read or hang up, and a provider need not
speak. `Client` asks the same of programs and daemons (`System`), and that a daemon that has
exited has closed its connections; no timeout is obliged to pass, so `CallsReturn` does not
rest on one. `Codex` asks it of omni's threads and the guardians, not of the app-server, and
not of a timeout. `Accounts` asks it of every call, the sweep, a process's threads and the
shutdown, and that deadlines and the life of a login (`Expires`) run out, as clocks do; a CLI
need neither exit nor close its pipes.

### Findings

1. `recovery_wedged`: a session that goes down while its provider compacts has no deadline
   when it is opened again. `Chat::run` takes a missing deadline for one that has passed
   and starts the handoff before it reads the `Launch` wake; `launch_once` then finds an
   unfinished recovery. With Claude the first handoff is on the pipe; if the settings of the
   open want another runner, `resume_recovery` replaces it without closing the turn, and the
   message stays in `awaiting` for ever, with everything else held back.
   `docs/ARCHITECTURE.md` says a session never hangs in `busy`. (Without the settings change
   there are two handoffs, where the comment on `recover_context` says one; `recovery` shows
   that every reopening adds one at most.)
2. `crash_overtaken`: the reaper clears `running` before it posts the exit. A send that is
   handled in between sees no live runner and starts one; the exit event is then a
   straggler and the dead runner's messages are not sent again. `CHANGELOG.md` (0.9.2)
   says unfinished messages are sent before newer ones. The other runs leave this window
   out (`"race"` is not in their `Nature`), so that they show what holds besides.
3. `turns_left`: a context fills up, and a message that is sent before the END of that turn is
   heard starts a native turn of its own and is counted in `next_turns`. The first END after
   that is taken for the one of the compaction: `recovery_ended` forgets the unanswered
   messages but not `next_turns`. After the END of the retry `finish_turn` counts down a turn
   as one that now begins, whose END has come already, and the status stays busy.
   `docs/ARCHITECTURE.md` says that it never hangs there.
4. `stale_frames`: an open times out, and the daemon serves it later. A frame names only its
   session, so an event for the first attachment reaches the subscription of the second,
   ahead of the replay that holds it again. The doc of `Session` calls it an ordered stream.
   `client` shows that nothing else disturbs the order.
5. `exit_untold`: a server dies; its reaper has lowered `running` but not passed the callback
   gate; the sweep finds it dead and stops it, which closes the gate, and the exit is
   skipped. The comment there says that the notification is not suppressed. The same callback
   is what releases the calls that wait for the server: one that was made between the death
   and the sweep sits out its minute, where `docs/ARCHITECTURE.md` says that waiters are
   released when their process dies. The run has a chat that gets neither (`ExitNoticed`).
   `codex` shows that only a sweep can do this.

## 4. Proofs

TLAPS proves the following for every value of the constants, from the named assumption of
the module that declares them. Everywhere the proof is of an inductive invariant: one lemma
for an action, or for actions that leave the same variables alone, and one step in it for
each part of the invariant that the action can disturb; facts about sequences, ids and
records are lemmas at the head of the modules.

| Theorem | States | Holds for |
|---|---|---|
| `TypeCorrect`, `Inductive` | `TypeOK`, with `Shape` | every conductor |
| `NothingLost` | `NoMessageLost` | every conductor |
| `NeverTwice` | `OpenedOnce` | every conductor |
| `QueueOnDisk` | `QueueMatchesDisk` | one in which no provider echoes, none compacts, or no context fills up |
| `PromiseKept` | `KeepsPromise`: `Conductor` implements `DurableSend` | one in which no provider echoes, or no context fills up and no send comes between a death and its exit event |
| `BenchRespected` | `NotOnBench` | every conductor |
| `NeverStranded` | `RecoveryCarried` | every conductor |
| `HandoffBounded` | `HandoffsBounded` | every conductor |
| `TurnsMatch`, `IdleIsIdle` | `EndsMatchOpenings`, `NoFalseIdle` | one in which no context fills up, and nothing is echoed or no send comes between a death and its exit event |
| `UnfinishedComeFirst` | `UnfinishedFirst` | one in which no context fills up and no send comes between a death and its exit event |
| `OneAtATime`, `LogReadable`, `NothingMissed`, `SweptAlone`, `ForgottenListens`, `CleanExit` | `OneConductor`, `LogKept`, `NoGap`, `ReapedAlone`, `NoneLeft`, `ExitsClean` | every daemon |
| `ServingIsReachable` | `DaemonReachable` | any programs, any crashes |
| `HandedInOrder`, `ListenersKnown` | `InOrderUnlessForeign`, `ListenersAgree` | any programs, chats, plans and faults |
| `ExitIsTold`, `CallsAnswered` | `ExitToldUnlessSwept`, `CallsReturnUnlessSwept` of `Codex` | any sessions, servers, plans and faults |
| `EndsCome` | `EndComes` of `Codex` | any of these in which no plan sends behind a compaction before the next stop |
| `LoginStays`, `ShutdownLeavesNone`, `FinishIsSeen`, `InventoryFresh` | `LoginKept`, `NoneAfterShutdown`, `FinishSeen`, `ModelsFresh` | any callers, logins and plans |
| `TypesKept` (three modules) | `TypeOK` of `Registry`, `Codex`, `Accounts` | the same |

### The conductor

Assumed (`ConstantsAssumption`): a provider is not called "none", `Resolve` answers with one
of the given providers or "none", only a steering provider compacts, bounds are natural
numbers.

*Types.* `TypeOK` alone is not inductive: a place of the handler reads the head of a queue,
a launch goes on to `goal`, an event is filed under the turn of its runner's epoch. `Shape`
states what those steps rely on, and the two are proved together.

*Nothing is lost.* `Ledger` adds `Bounded` (ids in any queue were handed out; a replay of a
recovery is no message a client was promised, so withdrawing it breaks no promise) and
`Midway` (between the two writes of a handler: what is about to be acknowledged is in the
metadata; what is about to be retired has its opening event in the log; what is loaded on
opening still covers the metadata). The argument is the order of writes: a message leaves
the metadata only in `Complete`, `Confirmed` and `ReconcileCommit`, where `Midway` puts it in
the log, or in `RecoveryMessage`, where `Bounded` says it was made up. The log only grows.

*Nothing is opened twice.* `Single` says that what waits in memory was not opened yet
(`NotYet`). That needs `Apart` (each queue holds a message once, and no message is in two
places), and, to carry it over a reopening and a rebuilt queue, `SameMessages`: memory and
disk hold the same messages. Between the append of an opening event and the retirement of
its message they may differ; these places are `Unsettled`.

*The queue in memory is the one on disk*: not only the same messages but in the same order
(`Order`). This is not true of every conductor. An echoed provider dies with messages in
`awaiting`, and a send comes before its exit event (the window of `crash_overtaken`), so
they stay there; a change of settings moves the chat to a provider that compacts; its
recovery puts a replay in front of the queue on disk, and in memory behind what is left in
`awaiting`. Without the window, a session that is reopened in the middle of a recovery gets
to the same state. Both need a provider that echoes, another that compacts, and a full
context: each hypothesis of `QueueOnDisk` excludes one of the three, and its proof has a
case and a further invariant for each. The first is how a chat with Codex and Antigravity
works, the second a chat with Claude and Antigravity.

*The promise.* A step of the conductor is a step of `DurableSend` or changes nothing it
sees: a send accepts at the back, a retirement hands over the front, a new attempt goes to
the front, a recovery withdraws the replay it made up. What is owed is the queue on disk
without a front message whose opening event is in the log, which makes the append of that
event the handover and a crash right after it a stutter. The proof adds to the above that
at most the oldest message on disk is opened (`OnlyOldest`), that reconciliation finds that
message or nothing (`Reconciling`), and that a provider that takes a message without an
echo has none of an older one on its pipe (`Alone`). The last is what the hypothesis is for:
after an overtaken crash a newer message is opened first, which is the finding
`crash_overtaken`. So the theorem says how far that finding goes: without echoes no
overtaken crash breaks the promise. What lies between the hypothesis and the finding
(echoes with full contexts, but no overtaken crash) is neither proved nor refuted.

*Who is set aside.* `Fit`: a runner that is up is the one its settings were resolved to and is
not set aside, and whoever is about to set a provider aside (`closeEnd`, `auth`, `failed`) has
put its runner down first.

*A recovery is carried.* `Carried` adds to `RecoveryCarried` what makes it inductive: every
opening of the recovery's message is in the history that the recovery goes on with. A handoff
begins a new history, but its message has a new id, which by `Bounded` and `Single` nothing in
the log has; reconciliation takes the message off the queue for an opening that it finds
anywhere in the log, which then is one in that history. The theorem says that the message is
kept, not that a provider has it: in `recovery_wedged` it stays in `awaiting`, and in the
metadata, for ever.

*Handoffs are bounded.* `Rounds` bounds the handoffs of the recovery by its stage and the place
of the handler. A handoff follows a compaction or a replay, when none was made, or an opening
that finds a recovery under way; wherever such an opening may still hand over (before the
launch, while the chat stops, in `resume_recovery`) the handoffs so far are no more than
`downs`. `FirstLife` says that a chat that has not gone down never finds a recovery under way.

*Turns.* What the conductor knows of a runner is what the runner has posted and the
conductor has not heard yet. So the invariant, `Accounts`, counts along the inbox, and it
does so for every prefix of it: what is true when an event is posted has to be true again
when it is at the head. Its parts: `Clock` (whose events these are, and which turn they are
filed under), `Settled` (between turns no native turn is waited for), and one side for each
way of taking messages. `Plain`, for a runner that does not echo: the native turns it has
open and the ENDs it has posted are together no more than the log has running and
`nextTurns` counts. `Echoing`, for one that does: echoes that open and ENDs alternate along
the inbox, echoes come in the order of `awaiting`, and the lines on the pipe are the rest of
it. `Balanced` carries this to the log: every turn has at least as many openings as ENDs,
and the newest as many more as are still to end. From `Balanced` follows
`EndsMatchOpenings`, and from the sides, at a place where the conductor waits without a
turn, `NoFalseIdle`. Where a provider echoes, two more invariants are needed: a runner that
is not up has nothing awaited (`Piped`, of the proof of the promise), and a launch finds no
turn running (`Between`). For `UnfinishedFirst`, `Answered` says where the messages of a turn
are: `answering` is empty unless a turn was opened and has not ended, `later` holds no more
than the native turns that are counted, and neither holds anything where a launch begins.

### The daemon

Assumed (`ConstantsAssumption` of `Registry`): finitely many connections, none called like a
thread; plans no longer than `MaxRequests`; room for at least one request in flight.

`Inv` has a part for each mechanism. `Gated`: all who refer to a session's gate refer to one
gate, and who works on the session holds it. `Owned`: a chat that is up is in the map, or in
the hands of the one thread that took it out. From these two, one conductor. `Closing`:
a daemon that stops admits nothing, has nothing waiting in a lane, and has emptied the map
before it puts the last chat down.
`Awaited`: who waits for a chat waits for the one in the map, once. `Logged`: the log holds
the events in sequence up to what a chat has counted, with at most a torn line behind them,
wherever a write stopped; a chat whose write failed writes no more. `Subscribed`: what a
listener has not had is in the log and still to be published to it, and so for the listener
that an attach is about to add, as it holds the lock from the replay on. `Deserted`:
a connection that is going away is closed for good before its requests have drained, and no
chat in the map has a listener of one that was forgotten.

`Startup` (`StartupAssumption`: the names of nobody and of an old socket are no program's):
`Single` says that a daemon past its start holds the lock (`LockHeld`) and that the path is
its own from `bind` to `unlink` (`PathHeld`). It needs no assumption on who crashes when.

### The client

Assumed: `ClientAssumption`. `Inv` is `Connection` and, until a frame of one attachment has
reached another (the hypothesis of `InOrderUnlessForeign`), `Ordered` for every chat.
`Connection` is the bookkeeping of one connection: calls and answers are joined by ids that
are used once (`Registered`), attachments are numbered as the daemon serves the opens
(`Numbered`), only the newest has a listener (`Listened`), sequence numbers on the way are
those of events that were published (`Known`), and an attachment that a chat has taken over
has set what it has seen (`HasSeen`). `Ordered` follows one attachment over three places: the
answer that tells of it, the wire, and the channel of the chat. Its `Flow` says that the
events of the attachment rise along channel and then wire; that each is above what nothing
may be below any more (`Below`: the position that was asked for, and what was handed out); that
each has its predecessor on the way, or it was handed out or not owed (`Lo`); and that they
reach, while the attachment is on, the next event that the daemon will send (`NextFrame`:
what is in the log, or the position if that is beyond it). It has to hold of the attachment
that the Chat has, of the one that is being served and of one that an answer on the way tells
of, since the frames of the last two arrive before `Started` makes them the first; for these,
`AskedFor` and `LoServed` stand for `Below` and `Lo`. What a Chat has seen is in `covered`, and
so is, for an open that does not ask for live events only, all below its position: a restart
by the way begins right behind what was seen.

`ListenersAgree` speaks of a connection at rest only and is far from inductive: between two
rests an open or a detach may be anywhere between the thread that makes it and the thread
that waits for it. `Agreement` says what holds on the way, while the connection is `Steady`
(alive, not closed, no open given up). One thread at a time has the session or is opening it
(`OneHas`); an id is in one place on its way to the daemon and back (`Once`), and who waits
for one is in `pending` (`Awaited`); every open on its way is that of a thread that waits for
it (`Belongs`); a detach is in front of any open, and whoever has the session is giving it up
(`Behind`). On these rests `Listens`: a listener is that of a chat, of an open whose answer
is still to come, or has a detach on its way; an attachment that is not given up is on, or
its owner is going to hear that it is not. At rest nothing is on the way, and what remains of
`Listens` is the property. An open that is given up breaks it for good: its
answer finds nobody in `pending`, and the daemon goes on listening for nobody.

### The Codex server

Assumed (`CodexAssumption`): servers are numbered from 1, the sweep is no session, scenarios
are of the right types. `Inv` is `Types` with `Core`: `Reaped` (how far pump, reaper and stop of
a process have come, and what that says of its flag), `Used` (who is at which place uses a
server that was started; one that has not answered its handshake is known to its runner
alone; only it or a sweep puts a server down), `Hooked` (a chat that is attached has a route,
and only a sweep silences a server), `Heeded`, `Registered` and `Cleared`.

`ExitIsTold`: `attach` looks at the running flag after it has put its route in, and the
reaper lowers the flag before `notify_exit` goes through the routes; whichever is second sees
the other. `CallsAnswered`: a call is registered before it is written, and written only on
a server that runs; `on_exit` clears what is registered, and a call that comes later is
refused. Both exempt the servers that a sweep took, for which they are false (`exit_untold`).

`EndsCome`: `Books` keeps accounts. `Ledger` says that what a chat is owed, with what the
call at hand is going to make it owed, is covered by the ends that it heard, that the pump
has in hand, that are on the wire, and by the turn that runs. `InTurn`: a server answers a
runner in order; `AtHand`: nothing but the call at hand is pending; `Newest`: the turn that
an answer tells of is the last of its thread, so `landed` does not take an older one for it;
`AtPeace`: whoever compacts sends nothing. The last is the hypothesis `Calm`, which the conductor
keeps: `dispatch_queued` returns while a recovery compacts (`chat.rs:1559`), and a handoff
stops the runner. A plan cannot say "after its end", so `Calm` leaves out a send after
a finished compaction as well, unless a stop is between.

### The accounts

Assumed (`AccountsAssumption`): CLIs are numbered from 1, nobody is called "nobody",
scenarios are of the right types. `Logins`: the login of a caller is its own and unknown to
others until it is in flight (`OwnLogins`, `Unknown`); who stops a login that may have been
handed out has a reason (`Reasons`); one that was handed out or is on the way there runs,
unless there was a reason (`Running`, `Kept`); a CLI that is up is in the slot or in
somebody's hands (`Tended`); after a shutdown nothing of an older epoch gets into the slot
(`DownSince`). `Memory`: once a `finish_auth` knows that the user is signed in, a memory
that says otherwise was left by a probe from before or by a CLI that could not be asked, and
no probe since is about to leave one. `Stock`: an inventory, and one that a probe is about
to leave, is as new as the last `forget`, since a forget waits for the probe.

### What the proofs found in the model

`FinishSeen` was false for plans that no run had: a user who signs out and in again during
one `finish_auth` left its answer about the first login standing. `SignsOut` now voids that
answer, and a scenario covers it. `CodexAssumption` let a scenario start with a warm server
that is not one of the servers. `QueueMatchesDisk`, as a claim about every conductor, is false
(see above); `delivery_crash`, the run that checks it, has no provider that compacts.

Four of the proofs of the conductor failed for a reason, and the hypotheses of the theorems
are these reasons:

* One handoff per recovery, as the comment at `chat.rs:1155` has it ("then a text-only handoff
  once"), is not true of a chat that is opened again while a compaction is under way. The
  deadline of the compaction is gone with the process, so the first wake of `run` takes it
  for timed out and hands over; `launch_once` then runs `resume_recovery`, which hands over
  again. `HandoffsBounded` allows, and `HandoffBounded` proves, one more for each time that
  the session went down.
* The same reopening puts a runner up before an unfinished turn is back in the queue, so
  `UnfinishedComeFirst` supposes that no context fills up.
* `EndsMatchOpenings` is false of an echoing provider that dies with a line unconfirmed, if a
  send comes before its exit event: the send goes to a new runner, whose echo is not that of
  the oldest awaited message and is ignored, and whose END is then recorded for a turn that
  was not opened. This is the window of `crash_overtaken` again.
* `NoFalseIdle` is false if a context fills up while a second native turn waits: the END of
  that turn, during the compaction, is taken for the compaction's, and if then no provider is
  left to hand over to, the chat says that it waits while the turn goes on.

### What is only model-checked

* Liveness, which rests on fairness and is out of the prover's reach.
* Of `Conductor`: `QueueMatchesDisk`, `KeepsPromise`, `EndsMatchOpenings`, `NoFalseIdle` and
  `UnfinishedFirst` in the instances that the hypotheses of their theorems leave out and the
  runs check.
* `EndComes` of `Codex` for plans that are not `Calm`. One that sends right after a compaction
  violates it: its turn is folded into the compaction's before "turn/started" is heard, and two
  turns are announced where one ends. The scenarios of the run are `Calm`; the module does
  not require it.
* The findings, `InOrder` of `Client` among them, which are counterexamples.

## 5. Not modelled

* Watermarks, parked runners and deferred seeds (`chat.rs`, `session/meta.rs`): what a provider
  has been told of a conversation that others continued. Two hazards wait for it.
* The parser of Claude's stream (`claude_code_cli/stream.rs`): echoes that are merged or
  missed are one echo per line in `Conductor`.
* Formats and texts (`events.rs`, `wire.rs`, `translate.rs`), the tables of models and scores
  behind `choose.rs`, environment and paths: data and I/O without state of their own.
* The command line and the Python package, which make the same requests as `Client`; the
  website; the scripted test provider.

## 6. Plan

1. Proofs: the turns of a chat whose context fills up, with what of `NoFalseIdle` is true then.
2. `ProviderSync`: watermarks, parked runners, deferred seeds, the sync ceiling;
   property: a provider is told every event of the current history, once, in order.
3. `ClaudeStream`: echoes that are merged or missed.
