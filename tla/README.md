# TLA+ models of the n1-box integrated relay

The repository joins two programs behind a small deployment layer.

* **openclaw-zero-token** (TypeScript, `src/openclaw-zero-token/`) is a gateway: inbound chat
  messages become agent runs, and their answers are sent back over channels.
* **CLIProxyAPI** (Go, `src/CLIProxyAPI/`) is a proxy that spreads model requests over
  credentials of several providers and over websocket relays.
* HAProxy (`src/haproxy/`), systemd units, scripts and a dashboard hold them together.

These modules model the parts whose correctness depends on the order of steps. Part 1 is the
inventory, part 2 the modules and how they correspond to the code, part 3 what each run checks,
part 4 the proofs, part 5 what the models found, part 6 what is left out and what comes next.
Paths below are relative to `src/openclaw-zero-token/src/` unless they start with `src/`.

## 1. Inventory

| component | state | operations | hard behaviour | what makes it correct |
|---|---|---|---|---|
| Command queue `process/command-queue.ts` | lanes (queue, active task ids, limit, generation), draining flag | enqueue, pump, complete, set concurrency, clear, reset, mark draining, wait for active tasks | resets while tasks run; stale completions; limits lowered under load | no stranded call, exact slots, order, one answer per call, honest drain |
| Agent runs `agents/pi-embedded-runner/{run,runs,lanes}.ts` | registry of active runs, waiters | run on session lane + global lane, register, clear, abort, wait | nested lanes; replaced handles | one run per session, no lane deadlock, registry knows the newest run |
| Gateway run loop `cli/gateway-cli/run-loop.ts` | lock, server, shutting-down flag, start state | SIGTERM, SIGUSR1, drain, close, respawn, restart in process | signals during start(); drain timeouts; hanging close | work refused only with a cause, listens under the lock, shutdown ends |
| Follow-up queue `auto-reply/reply/queue/*` | queue object per session key, drain callback, recent message ids | enqueue with drop policy, drain one by one or collect, clear | awaits in the drain loop; clear while draining; failing runs | nothing forgotten, nothing run twice, one drain, routing kept, cap kept |
| Outbound delivery queue `infra/outbound/delivery-queue-*.ts` | one file per entry, markers, `failed/` | enqueue, ack in two phases, fail, move to failed, recovery scan | crashes between file operations; scan beside live senders; budget and backoff | nothing lost before it is sent, acknowledged stays so, retries bounded |
| Cron service `cron/service/*` | job store on disk and in memory, timer, running markers | tick, manual run, add/update/remove, catch-up at start | reservation in two locks; reload between apply and persist; crash while running | a job runs once at a time; the timer stays armed; no marker blocks for ever |
| Session write lock `agents/session-write-lock.ts` | lock files, table of held locks | reentrant acquire, release, watchdog, reclaim of stale locks | table entry removed before the file; forced release | at most one writer |
| Session store `config/sessions/store.ts` | JSON file, caches, queue of pending changes in each process | locked read-modify-write, save of an older reading, rotation | stale cache; failing writes; rotation before a write that is skipped | no change lost whose caller was told it is made |
| Node registry `gateway/node-registry.ts`, `gateway/server-methods/nodes.ts` | connected nodes, pending invokes | register, unregister, invoke, result, timeout | reconnect before the old connection is gone; late results | a connected node is found; each invoke is answered once |
| Exec approvals `gateway/exec-approval-manager.ts`, `gateway/node-invoke-system-run-approval.ts` | pending approvals, promises, timers | register, wait, resolve, expire, consume, delete after a grace period | decision against expiry and forwarding; reuse of an id | everyone hears the decision; an allow-once is used once |
| ACP control plane `acp/control-plane/` | actor queue, runtime handles | run turn, cancel, close | serialisation of turns | one turn at a time |
| Websocket relay `src/CLIProxyAPI/internal/wsrelay/` | session per provider, pending requests | connect, replace, request, dispatch, cleanup | close of a channel that is being sent to; full buffers | each request ends with one terminal message |
| Credential conductor and scheduler `src/CLIProxyAPI/sdk/cliproxy/auth/` | credentials, cooldowns, cursors | pick, mark result, refresh | selection against cooldown | no credential in cooldown is picked; all are used in turn |
| Model registry `src/CLIProxyAPI/internal/registry/` | reference counts of models | register, reconcile, unregister | concurrent clients | counts equal the clients that offer a model |
| Config and auth watcher `src/CLIProxyAPI/internal/watcher/` | pending updates by id, debounce timers | coalesce, dispatch, reload | update during dispatch | the last state of each id is delivered |
| Usage manager `src/CLIProxyAPI/sdk/cliproxy/usage/` | unbounded queue | publish, dispatch, stop | stop while publishing | records reach all plugins |
| Translators and executors | none | conversions of wire formats | - | data, not order of steps |
| HAProxy, systemd, control center, scripts | - | one request at a time to the gateway | - | external programs and plain I/O |

**How the parts interact.** A message reaches `runReplyAgent`. If no run is active in its session,
`runEmbeddedPiAgent` enqueues a task on the session's lane, and that task enqueues the turn itself
on a global lane (`main`, or `nested` for cron). While a turn runs it is in the registry of
`runs.ts`; messages that come meanwhile go to the follow-up queue, which is drained when the
reply run is finalized. The answers go through the delivery queue, which a start of the gateway
scans. A command for a node (`node.invoke` of `system.run`) needs an approval, which a client asks
for and waits for while approvers are asked. Processes share the session store under a lock file.
A cron job run by hand holds the `cron` lane around its turn. The run loop closes the
command queue, waits for lanes and registry, closes the server, resets all lanes and starts
again. In CLIProxyAPI a model request may be relayed through the websocket of a client; sessions and
calls are goroutines that meet in a map and in channels.

**Steps.** Node runs synchronous code to its end, so one step of a TypeScript model is the stretch of
code between two awaits or timers, or a whole section under a lock where nothing outside it looks at
what it touches (the cron store). In the Go model a step is one operation on a shared map, channel or
variable.

## 2. Modules

| module | code | role |
|---|---|---|
| `CommandLanes` | `process/command-queue.ts:41-287` | a lane as a value; the synchronous functions as operators |
| `CommandQueue` | the whole of `command-queue.ts` | the queue with opaque tasks; EXTENDS `CommandLanes` |
| `LaneService` | - | abstract specification: what a caller of `enqueueCommandInLane` is promised |
| `GatewayRuns` | `run.ts`, `lanes.ts`, `runs.ts`, `cron/service/ops.ts`, `run-loop.ts` | composes lanes, nested runs, registry and run loop; EXTENDS `CommandLanes` |
| `FollowupQueue` | `auto-reply/reply/queue/*`, `utils/queue-helpers.ts`, `agent-runner.ts:213-254` | queue objects, drains, callbacks, runs |
| `DeliveryQueue` | `infra/outbound/delivery-queue-{storage,recovery}.ts`, `deliver.ts:494-554` | senders, recovery and files |
| `CronService` | `cron/service/{timer,ops,jobs,store,locked}.ts`, `gateway/server-reload-handlers.ts` | file, memory, ticks, catch-up, manual runs, edits, reloads, crashes |
| `SessionWriteLock` | `agents/session-write-lock.ts` | the lock file between processes: actions for a module that uses it |
| `SessionStore` | `config/sessions/store.ts` | queue, cache and file under that lock; EXTENDS `SessionWriteLock` |
| `StoreService` | - | abstract specification: what those who change the session store are promised |
| `ExecApprovals` | `gateway/exec-approval-manager.ts`, `gateway/server-methods/exec-approval.ts` | requests, waiting calls, timers and the entry of one approval id |
| `NodeRegistry` | `gateway/node-registry.ts`, `gateway/server-methods/nodes.handlers.invoke-result.ts` | connections of one node and the invokes sent to it |
| `SystemRuns` | `gateway/server-methods/nodes.ts`, `gateway/node-invoke-system-run-approval.ts` | commands that need an approval; composes `ExecApprovals` and `NodeRegistry` |
| `WsRelay` | `src/CLIProxyAPI/internal/wsrelay/{manager,session,http}.go` | one session, its goroutines and its calls |
| `CommandQueueProofs`, `GatewayRunsProofs`, `FollowupQueueProofs`, `DeliveryQueueProofs`, `CronServiceProofs`, `SessionStoreProofs`, `SystemRunsProofs`, `WsRelayProofs` | - | theorems about the module of that name and the modules it extends |
| `MC*` | - | constants for TLC |

`PROJECT.json` maps each definition to its lines. In every model `past` (in `CommandQueue`
`enqueuedAt`, in `FollowupQueue` also `fate`, in the lock `causes` and `faults`, in `SystemRuns`
`grants`, in `ExecApprovals` `granted`, in `NodeRegistry` `overtaken`) is history: no guard of the
code's own behaviour reads it except a named bound. Operators marked `Mutant` are faults of the
operator after them; they are used by no specification and document which property depends on which
piece of code.

**CommandQueue.** `lanes` is `queueState.lanes`. A task id is represented by the call it was issued
for; a task that started and has not settled is in `executing`, and `taskGeneration` is the
generation its closure captured. `RunLanes` is the pump: every step that pumps is a change of
lanes, after which the tasks that took a slot begin in the same step. `draining` of a lane is TRUE
only inside the synchronous pump and is left out. `clearCommandLane` of an empty queue changes
nothing and is not a step. One waiter of `waitForActiveTasks` is modelled; waiters do not
influence each other or the lanes.

**GatewayRuns.** A command is `<<"job" | "session" | "global", run>>`. `RunLanes` here also does what
the pump causes in the same stretch of code: a session task that starts enqueues its global task at
once, or is refused when the gateway drains. Lanes are pumped one after the other, so the order
in which several session tasks enqueue their global tasks is nondeterministic (`Orders`).
`shutdown` is the asynchronous body of `request()`, `drain` its two waits. `loop` is the main
loop. `Exit` forgets the memory of the process; a new process is a new behaviour of the model.
`shutdown.hadLock` is the `hadLock` of `handleRestartAfterServerClose`.

**FollowupQueue.** One session key. `queues` are the objects, `current` the one that is registered:
`clearSessionQueues` deletes the registration while the drain of the object may go on, and this
is why there are several. `drain.at` says at which await the drain loop is. The four actions that
follow `waitForQueueDebounce` are the branches of the loop. `EnqueueFollowupRun` contains the second
look at `isEmbeddedPiRunActive` of `runReplyAgent`, which sees a follow-up run in flight or not,
depending on how far it is. `dropped` stands for `summaryLines`, which keeps the last `cap` lines. `fate` is
what became of each message: "summarized" while its line waits, "dropped" when that was taken out or none was
written.

**DeliveryQueue.** A worker is the sender of one delivery, or a recovery scan. Scans are started without
waiting (`gateway/server.impl.ts:1133-1143`), so an in-process restart may start one beside another. Each file
operation is a step; writes are atomic since the code writes a temporary file and renames it.
`json[d]` is the `retryCount` in `<id>.json`. An entry of `scan` carries the `retryCount` that was
loaded, since the code uses the loaded record, not the file. Whether the backoff of an entry has
elapsed, and whether the time budget of the scan is used up, are nondeterministic. A crash ends all
workers; senders do not come back, a later scan takes up what is on disk. The core may also throw after the
last payload (`onError`, the append to the mirror session), which fails an entry that was sent (`MayThrow`).

**CronService.** `locked()` serialises the sections that touch a store, across the services of a process,
so each section is one step: the ticks take two (`TickCollects`, `TickApplies`), a manual run three
(`Inspect`, `Reserve`, `ManualFinishes`), the start up to four. Runs go on between sections
(`batch`, `manual`). `disk` is the file and `mem[s]` the copy of service `s`; a section that reloads
starts from `disk`, one that does not from `mem[s]`, as in the code. A write may fail in each
section that saves, also in those of `start()`, in edits and in the maintenance of `list` (`StartFails`,
`*Fails`, `Edits`): the file stays as it was and the change stays in memory; a start that fails leaves a
service without a timer. A time-out only races the run (`timer.ts:77`): `TimesOut` and `ManualTimesOut` give
the scheduler an error and leave a run of `Deaf` in `left`, where nothing but `LeftEnds` looks at it. `Deaf`
are the jobs whose runs get no abort signal: CLI turns and heartbeats. `Reload` is a
config reload, which only clears the timer of the old service: if that one is busy it goes on beside
the new one. Schedules are reduced to what the code compares: whether a slot has passed.

**SessionWriteLock and SessionStore.** A claim is one call of `acquireSessionWriteLock`, made for one
change of the store. Creating the file and writing its payload are two steps, as are removing the
entry of `HELD_LOCKS` and removing the file, inspecting a lock and reclaiming it. Whoever removes the
file removes it by its path (`Removes`). `life` stands for the pid with its start time: a restarted
process has another one. The store adds to each claim its place in the queue of its process
(`LOCK_QUEUES`) and what it has in hand; the content of a store is the set of changes in it.
`Saves` writes unless the process has cached the same serialized store, `Rotates` renames a large
file first, and `Finishes` gives the lock back and tells the caller: a process may end between. `SaveThrows`
is a write that fails, `SaveSkips` one that fails and is reported as made. A "save" works on what was read before it was queued (`saveSessionStore`), an "update"
reads under the lock (`updateSessionStore`).

**ExecApprovals, NodeRegistry and SystemRuns.** One approval id and one node, since different ids and
different nodes share nothing. `entry` says whose record the id leads to: an id can be used
again when its entry was deleted, and the timers and promises of the request before may still be
there, so records are kept per request. A promise that is resolved answers those who await it
before anything else runs, hence in the same step. `clock` is where the time is relative to
`expiresAtMs`; the grace timer may end at any time after the entry was settled. A connection is
"lost" while the gateway does not know of its end. A result may come on any connection and after the
time-out. `SystemRuns` adds `node.invoke`: the look at the approval, the consumption of an
allow-once and the sending are one step, since no await is between them (`Forwards`). A command
that asks for no override needs no approval (`ForwardsPlainly`), and `Refuses` is any mismatch of request and
record. A node that is away is woken (`Wakes`); if it stays away the user is nudged before the answer
(`nudging`), and the node may be back by then. `Resolves` always records an approver: a client without an id
does not get connected.

**WsRelay.** One session with its reader, its heartbeat, the only run of `cleanup` (guarded by
`sync.Once`), `Manager.Stop`, the callers and a watcher for each call. `sync.Map` makes each of its
operations atomic, so a step is one operation on it, on a channel or on `closed`. `Range` visits the
entries that were there when it began, unless they were deleted meanwhile, and may visit those that
are added. A send on a closed channel is `crashed`, since no goroutine recovers but the HTTP
handlers'. The assignment of a new map to `session.pending` is a data race and is modelled as a
nondeterministic panic of those who use it (`SwapRace`).

## 3. Runs

| run | instance | question | result |
|---|---|---|---|
| `command_queue` | 1 lane, 3 calls, limits 0 and 2, 2 resets, fairness, ~61k states | stranded calls, leaked slots, honest drain, an answer for every call, refinement of `LaneService` | holds |
| `gateway_runs` | 1 session, a user run and a cron run, 1 restart and another one after a failed start, fairness, ~62k states | session overlap, lock and queue of a gateway that is up, registry, close after turns, lane deadlock, end of a shutdown | holds |
| `followup_queue` | 3 deliveries, one of them a redelivery, 2 routes, 3 settings, clears, foreign runs, ~2.5M states | lost messages, idle queues, second drains, repeated runs | holds |
| `followup_turns` | 3 different messages, 2 routes, 4 settings, no clears or foreign runs, fairness, ~135k states | the cap, also after it was lowered; every queued message gets its turn, is shed, or is lost in a known way | holds |
| `delivery_queue` | 1 delivery of 2 payloads, 2 scans at once (symmetric), 3 retries, 2 crashes, ~328k states | loss, and the return or replay of acknowledged entries | holds |
| `delivery_drains` | 2 deliveries of 1 payload, one bestEffort with `onError`, 1 scan at a time, 1 retry, 1 crash, fairness, ~374k states | every entry leaves the queue | holds |
| `cron_service` | a recurring and a one-shot job, 1 service, 1 manual run, 1 run that goes on after its time-out, 1 edit, 1 failed write, 2 instants, ~2.2M states | one run of a job at a time, edits undone by results | holds |
| `cron_recovery` | 2 recurring jobs, one of them there at first, 3 instants, 1 edit, a reload of an idle service or a crash, fairness, ~34k states | markers without a run, a job that is due is run | holds |
| `session_store` | 2 processes, 3 changes of 3 kinds, 1 fault, 1 rotation, writes that fail or are skipped, symmetry, ~1.1M states | two holders, lock files nobody removes, lost changes, refinement of `StoreService` | holds |
| `system_runs` | 2 requests under one id, 1 waiting call, 2 commands, each with or without an override, 2 connections, symmetry, ~2.2M states | who hears the decision, what runs on it, who is forgotten | holds |
| `ws_relay` | 1 call, channel of 2, 3 chunks, fairness, ~98k states | calls told of the end of a session, whole answers, credentials withdrawn, calls ended by a close | holds |
| `ws_relay_crash` | 2 calls, channel of 2, 2 chunks | neither a session's nor a call's end takes the process down | violated (part 5, 1) |

All runs set `CHECK_DEADLOCK FALSE`: each system really may stop - no more calls, an exited
process, no more messages, or nothing on disk.

**What each property says.**

* `NoStrandedWork`: no call waits while its lane has a free slot. `SlotsExact`: the slots of a lane
  are its running tasks of the current generation. `DrainedIsHonest`: "drained" is answered only if
  the tasks of the snapshot are over or written off. `EveryCallSettles`: every call is answered, and a
  wait for a drain ends. `ImplementsLaneService`: calls start in their order, within the limit of the
  lane, and are answered once.
* `OverlapOnlyAfterTimeout`: two turns meet in a session only if a drain gave up on one of them.
  `UpMeansOpenAndLocked`: a gateway that is up takes work and holds the lock. `RegistryKnowsNewest`:
  an older run that ends late does not remove its successor. `ClosesAfterTurns`: a restart that
  drained closes no server under a turn. `EveryRunIsAnswered`, `ShutdownEnds`: no deadlock of nested
  lanes, no shutdown that hangs.
* `ForgottenOnlyByKnownCauses`, `DrainedByOne`, `FinalFates`, `AcceptedWithinCap`,
  `QueuedGetsTurnOrKnownCause`: what becomes of a message that was accepted while a run was active.
* `KeptUntilSentOrBestEffort`, `AckedNotReplayed`, `EveryEntryLeaves`: a delivery is on disk until it
  was sent, does not come back after it was acknowledged, and is not retried for ever.
* `OneRunAtATime`, `MarkersHaveOwners`, `EditsSurvive`, `DueJobsRun`: a job does not run beside
  itself - a run that outlived its time-out counts, and the scheduler never adds more than one to it -, its
  marker stands for a run, results do not undo what a user changed, and a slot that has come is used.
* `OneHolderButForKnownCauses`, `LockFileHasOwner`, `ChangesKeptButForKnownCauses`: the lock excludes,
  somebody will remove its file, and no change is lost that was reported as made.
  `ImplementsStoreService`: the store gains one change at a time, as a whole, of a caller who still
  waits; he is told so only then, and what was refused is not in the store.
* `EveryoneHearsTheDecision`, `RunsOnlyAsApproved`, `NobodyIsForgotten`: the request and all waiting
  calls get what the approver was told, an allow-once lets one command override the policy of the
  node (what is sent without asking for that is the node's own business), and whoever waits has somebody or
  a timer to answer him.
* `ToldWhenSessionDies`, `TruncatedOnlyByOverflow`, `AuthGoneWithSession`, `CloseEndsCalls`: a call
  does not wait on a session that is gone, a complete answer is complete, a credential goes with its
  session.

**Properties with an exception.** Where the code breaks the promise of a doc or comment, the property
that is checked is the strongest thing the code does guarantee. Its exceptions are events that are
recorded in the history where they happen, and each is described in part 5. A property with an exception
says nothing about the fault that it admits, and the hazard it belongs to says so in `PROJECT.json`; it says
that there is no other way. The promise
itself is kept beside it as a definition where it has one (`OneRunPerSession`, `NothingForgotten`,
`KeptUntilSent`): to see a fault, check the promise in place of the weaker property. The mutants
break the weaker properties without these events.

**Bounds, and why they are enough.**

* *Three calls on one lane.* One runs while two wait in order, so overtaking, the loss of the head
  and of a tail, and a limit of 2 that is lowered under two running tasks all occur. Lanes share
  only the draining flag, the reset and the drain snapshot, each of which treats every lane alike;
  for several lanes the safety properties are proved (part 4) and `GatewayRuns` runs four lanes.
  Part 4 proves the invariants and action properties of all passing runs for every size; the
  sizes below are what the liveness properties and the mutants need.
* *Two resets.* A completion may be one or two generations late, and tasks of three generations
  coexist.
* *Two runs of one session, one restart.* Overlap needs two runs. The second is a cron run, so every
  kind of lane is in use. The restart may come in any phase of the loop, drain or time out, fail or be
  lost; after a failed start, which has given the lock back, another restart may follow
  (`BeginRestart`). The run has also passed with two restarts of any kind (155k states, five minutes).
* *Three messages, cap 1 or 2.* The batch in flight, the overflow and the message that is lost
  need three; a redelivered message and its original are two of them. Two queue objects allow one
  orphaned drain beside the registered queue; with both in use an enqueue waits.
* *One failing follow-up run.* It is enough for a drain that must be scheduled again.
* *One or two deliveries, one or two crashes.* Entries do not influence each other but through the
  list of a scan (order, budget, deferral), for which two are enough: `delivery_drains`. What several
  workers do to one entry needs one entry, its sender and two scans: `delivery_queue`. A crash
  separates a life before from a life after; a scan may also run many times without any crash, as
  in-process restarts do. `retryCount` is counted up to `MaxRetries` (1 to 3, in the code 5), where the
  code only compares it.
* *Two jobs, one event of each kind.* Ticks and manual runs of one job conflict over its marker, which two
  instants show: `cron_service` has the second one for what falls due during a run. The other job gives a
  batch more than one result and a catch-up something to defer (`MaxImmediate` is 1). With one run that outlives
  its time-out another one may start beside it, by hand or by a tick. `cron_recovery` has three instants, so
  that with `Stuck` = 1 a run can outlast it, a job can be due, stuck and due again, and one job can
  fall due while the batch of the other runs; a second service comes after a crash at any point or the reload
  of an idle one. No run replaces a busy service (`MaxZombies` is 0, so the first branch of `Reload` is
  never taken): the invariants are proved with it, and admit what it does.
* *Two processes, three changes, one fault.* One holds, one contends, and one takes the lock between
  inspection and reclaim. The run has also passed with two faults (3.5 million states, longer than a
  run of the project should take).
* *Two requests under one id, two commands, two connections.* The second request uses the id again
  while timers and callers of the first may still be there; the second command finds an allow-once
  consumed or not; the second connection overtakes the first.
* *One call, three chunks, a channel of two.* The channel overflows, with room for the message that
  ends the call or without. Calls of a session meet only in the reader and in `cleanup`; that they do
  not disturb each other is proved. The crash needs two: one is told while the other ends.

**Fairness, and why the code justifies it.**

* *Tasks settle* (`TaskSettles`, `RunStep`, follow-up runs, `RunEnds` of cron jobs): every agent run
  and every job has a timeout, except a job whose `timeoutSeconds` is zero or negative
  (`timeout-policy.ts:16-25`), of which nothing is promised. A failed follow-up run is repeated; runs fail at most `MaxFailures`
  times, else a message could be retried for ever and be right.
* *Timers and continuations run* (`PollActiveTasks`, `ShutdownStep`, `DrainStep`,
  `FinalizeWithFollowup`, the sections and the timer of a cron service): Node fires timers and resumes
  awaits, and `locked()` runs its sections in order. The watchdog `ForceExit` has weak
  fairness of its own: it must race the steps it guards.
* *Goroutines run* (`WsRelay`): the callers, the reader and the cleanup. None for the network, the
  client, cancellations and `Stop`.
* *`server.close()` has none*: it may hang for ever, which is why the watchdog exists.
* *The recovery*: a scan starts with each start of the gateway, again and again
  (`WF(StartRecovery)`), since nothing else looks at the queue. `SF(Replay(d))` says that not every
  scan comes within the backoff of entry `d`; the backoff is bounded by its longest delay. Nothing is
  assumed about sends that succeed. The liveness run has one scan at a time.
* Nobody has to enqueue, clear, restart, reload, edit, abort or crash. `SessionStore` and `SystemRuns`
  state safety only.

## 4. Proofs

**The command queue.** `CommandQueueProofs` proves, for any set of lanes, finite set of calls, limits and number of
resets (`ConstantsAssumption`):

| theorem | statement |
|---|---|
| `TypeCorrect`, `NothingStranded`, `SlotsAreExact`, `QueueMatches` | `Spec => []Inv` for `TypeOK`, `NoStrandedWork`, `SlotsExact` and `QueueMatchesPromises` |
| `StartsAreWithinLimit`, `DrainedHonestly` | the action properties `StartsWithinLimit` and `DrainedIsHonest` |
| `Refinement` | `Spec => ImplementsLaneService` |

The argument. `NoStrandedWork` is not inductive: the pump moves `StartCount` calls from the head of
the queue to `active`, and "the lane is full afterwards" holds only if each of them takes a *new*
slot. So a call must not wait twice and must not wait while it runs. The first needs the queue to
be strictly ordered by `enqueuedAt` (`QueueMatchesPromises`), the second that `active` is exactly
the running tasks of the generation (`SlotsExact`) and that a new call gets a later place than all
others (`PlacesMatchPromises`). A stale completion must not free a slot of a new task:
`GenerationsPast` says a generation can only lie behind. `StartedFirst` carries the order of starts
over to the refinement. Their conjunction is `IInv`. Every pumping step is "change the lanes to some
`mid`, then drain every lane" (draining a full lane does nothing), so the lemmas `PumpBegins` and
`PumpStep` serve all the actions that pump, and each action has to show only that its `mid` is
`Prepared`. Before them come the facts about one lane: what `DrainLane` does to a well-formed lane,
that it ends full or empty, and what it starts.

**Agent runs and the run loop.** `GatewayRunsProofs` proves, for any sessions and lane arguments, any finite set
of runs, and any limits and number of restarts (`RunsAssumption`):

| theorem | statement |
|---|---|
| `TypeCorrect`, `NoOverlap`, `UpIsOpenAndLocked`, `RegistryIsExact` | `Spec => []Inv` for `TypeOK`, `OverlapOnlyAfterTimeout`, `UpMeansOpenAndLocked` and `RegistryKnowsNewest` |
| `ClosesWithoutTurns` | the action property `ClosesAfterTurns` |

`OverlapOnlyAfterTimeout` speaks of turns that execute, and is not inductive: a turn that waits in a global
lane may begin later. So the invariant follows a turn from its promise: as long as no drain has timed out,
the session task that asked for it holds the slot of its session lane (`TurnsHoldTheirSession`), and a
session lane has one slot (`SessionLanesHaveOneSlot`). Completions leave that alone, because a slot belongs
to a task of the present generation (`SlotsKnow`) and a call waits once (`QueuesKnow`). The one step that
takes slots away without ending tasks is the reset after a restart. It comes after a drain, and a drain that
did not time out has seen every session task of its snapshot leave (`DrainWaitsForTurns`), while the closed
queue let no new turn be promised (`RestartsCloseTheQueue`); hence no turn is promised when it closes
(`DrainedOfTurns`), which is also `ClosesAfterTurns`. `LiveUnderLock` carries the lock through the
windows in which the server is not up yet or not closed yet.

**The follow-up queue.** `FollowupQueueProofs` proves, for any finite set of deliveries of any messages and
routes, any settings, any number of queue objects and of failures (`FollowupAssumption`):

| theorem | statement |
|---|---|
| `TypeCorrect`, `ForgottenOnly`, `OneDrains` | `Spec => []Inv` for `TypeOK`, `ForgottenOnlyByKnownCauses` and `DrainedByOne` |
| `FatesStay`, `AcceptedFitsTheCap` | the action properties `FinalFates` and `AcceptedWithinCap` |

That a message is handled once has nothing to do with orphaned drains or heads that were taken: it must hold
also then. The reason is that a delivery has one place (`OnePlace`: it waits once, in one queue object, or was
dropped from it) and is in the batch of one run at most (`OneRun`), and that the fate of a message fits its
place (`FateFits`); together they are `Sound`. A result or a clear therefore never meets a message whose
fate is final. That nothing is forgotten holds only while the queue is `Orderly`, neither a head taken under a
run nor a drain left behind by a clear. Then what waits is in the registered queue (`WaitsInRegistered`),
drains are drains of it (`DrainsAreRegistered`), and what a run removes when it ends is what it handled
(`RunsTakeTheHead`). All steps of a drain are one `Moved` of its queue object, and all enqueues an
`Arrives`, so most of the proof is about these two, and each action shows only that it is one of them.

**The delivery queue.** `DeliveryQueueProofs` proves, for any numbers of deliveries, payloads, retries and crashes
and any set of scans at once (`DeliveryAssumption`), `TypeCorrect` (`TypeOK`), `KeptUntilSentTheorem`
(`KeptUntilSentOrBestEffort`) and the action property `AckedStaysGone` (`AckedNotReplayed`). An entry leaves the
disk through a rename, and whoever is about to rename has seen all payloads accepted or belongs to a sender
that was aborted (`AckedWhenSent`); the loop over the payloads keeps that account (`SentSoFar`). That an
acknowledged entry stays gone rests on `OneUser`: an entry that no scan has loaded while it was in use has one
worker at it, or is in the rest of one list, never both. So when that worker acknowledges, nobody is left who
could write it back (`AckedIsGone`). A scan takes its head and forgets it, which needs that a list names an
entry once (`ListsAreSorted`); that a delivery starts with nobody at it needs `FreshIsUnknown`.

**The cron service.** `CronServiceProofs` proves, for any finite or infinite set of jobs and any bounds
(`CronAssumption`: there is a job, a service, a run at a time and an instant):

| theorem | statement |
|---|---|
| `TypeCorrect`, `OneRun`, `Markers` | `Spec => []Inv` for `TypeOK`, `OneRunAtATime` and `MarkersHaveOwners` |
| `Edited` | the action property `EditsSurvive` |

A job is protected by its marker alone, and markers are in two stores, the file and the memory of the
service, which replace each other: a tick and the end of a manual run start from the file, everything else
from memory. So the invariant says the same of both (`Sound`): whoever is about to run a job, runs it or
waits to apply its result (`Owned`) has a marker there that maintenance leaves alone (`Held`: the job is
enabled, and the run is not older than `Stuck`), unless the history excuses the job; a recurring job that
somebody runs has not got lost, unless its addition was not saved (`past.unsaved`); no job is back that was
removed; and, as long as all writes have succeeded, every marker has an owner. Then any section may start from either, and a starter that sees no marker knows
that nobody runs the job (`Excluded`). Results must not enable what was disabled, which needs that memory
is never ahead of the file but for edits that were not saved (`MemoryFitsFile`). A run that outlived its
time-out has no owner and no marker: the theorem counts it, and what it says of the runs the scheduler waits
for does not depend on it. All of it holds only for one service at a time (`OneService`,
unless `past.zombies`) and only after its first section (`Loaded`): before, the file may have the markers of a
process that died, and `UnloadedAreIdle`, `BatchesEnd` and `LaterAreNone` say that nothing is going on then.
`InspectedInTime` gives the marker of a manual run, which is the time of its inspection, a past instant.
What each section does to a store is a lemma about the operator (`MaintainedStore`, `AppliedStore`,
`MarkedStore`, ...), so each action shows only which store it starts from and what it changes in it.

The attempt corrected the model: `EditsSurvive` is not kept by a crash after a replaced service has written
back a job that was removed, since the crash forgets the service but kept the job in `past.gone`. No run has such a
behaviour, since in none a busy service is replaced; the theorem is about all. `Crash` now takes
the jobs that are in the file out of `past.gone`.

**The session lock and the store.** `SessionStoreProofs` proves, for any processes, claims, kinds of changes
and bounds (`LockAssumption`, `StoreAssumption`):

| theorem | statement |
|---|---|
| `TypeCorrect`, `OneHolder`, `EveryLockIsReleased`, `ChangesKept` | `Spec => []Inv` for `TypeOK`, `OneHolderButForKnownCauses`, `LockFileHasOwner` and `ChangesKeptButForKnownCauses` |
| `Refinement` | `Spec => ImplementsStoreService` |

The lock: as long
as no cause of two holders has come up, a claim that has created the file owns it until it has removed it
(`OwnersOwn`), so two owners would be the same. What endangers that is the reclaim, which removes a
file judged stale some steps ago: `JudgedIsStale` says that if the file at the path is still that one, it is
still stale, because a life never comes back (`FileOfCreator`, `LivesAreFaults`). That a file has an owner
holds whatever has happened, and needs that the entry of `HELD_LOCKS` is the claim at work (`HeldByWorker`).
The store: what a change has read is still in the file while it holds the lock (`ReadUnderLock`), so what it
writes contains all changes that were made, told or not (`MadeIsKept`), and its own (`CarriesItself`). Nor is
its write skipped because the store equals the cached one: a change that is not made is in no store but the one
in its own hand (`UnmadeIsNowhere`). A write that is skipped leaves all that as it was (`SavedKeeps`), and what
it should have written counts as lost.

The refinement says more than `ChangesKept`. In `StoreService` there are only callers and the changes made: a
change is made in one step, before its caller is told, if he ever is, and what was refused is not made.
`Saves` is that step: what it writes is what was made before and the change itself, nothing
of another caller (`StoreInHand`) and nothing for a touch (`TouchesMakeNothing`). A process that ends after it
leaves a change that is made and not confirmed, so `Unmade` leaves out the dead. `Finishes` confirms, the three
failures refuse, `Enqueue` asks. All else changes nothing that a caller sees (`NothingIsSeen`): a rotation takes
the changes out of the file, but counts them as lost. When the exclusion breaks, the service promises nothing
more about what is made (`Break`); answers are still given once.

**The websocket relay.** `WsRelayProofs` proves `TypeCorrect`, `NobodyForgotten` (`ToldWhenSessionDies`),
`AnswersAreWhole` (`TruncatedOnlyByOverflow`) and `CredentialsWithdrawn` (`AuthGoneWithSession`) for any
calls, channel size and number of chunks (`RelayAssumption`). That a call is told of the end of its
session rests on the order of two pairs of steps: the call stores its channel and then looks at
`closed`, the cleanup closes and then ranges. So a call past its look at `closed` is in the map
unless somebody has told it (`Entered`), and while the cleanup ranges it is told or still to be
visited (`Visiting`), also if it was stored under a `Range` that need not yield it - such a call saw
`closed`. That an answer is whole is an account of every chunk the client sent: until something ends
the call they are with the reader, in the channel or received (`Flowing`), and after it the channel has
a first message that ends the call, with all chunks before it (`EndsAt`). `Fresh` says that a call
nobody knows yet has nothing in flight, `Held` whom reader and cleanup hold.

**Approvals and nodes.** `SystemRunsProofs` proves `TypeCorrect` (`TypeOK`), `DecisionHeard`
(`EveryoneHearsTheDecision`), `RunsAsApproved` (`RunsOnlyAsApproved`) and `NobodyForgotten`
(`NobodyIsForgotten`) for any requests under the id, waiting calls, commands and connections. The
assumptions are that `None` is not a request (`ApprovalsAssumption`) and that the number of connections
is a natural number (`RegistryAssumption`). The properties speak of answers, the invariant follows the
life of an entry: it is registered for a fresh record (`Untouched`); its expiry timer is armed exactly
while it is open (`Armed`); whoever waits waits for the open entry (`Attended`); a promise is open
exactly while its record is not resolved, and only a resolved one has a grace timer (`Settled`). What
the record of the entry says is what the approver was told, or has been consumed (`Told`); answers
agree with it for good, since nobody settles a record twice (`Heard`); and a command that used an
allow-once leaves the record of the entry without a decision, so no second one finds it
(`Granted`). Commands that ask for no override consume nothing. That needs to outlive the entry: the record of a request whose entry was
deleted is never found again, because an id that is used again has a new request. For the nodes,
connections follow one another (`InOrder`), so the newest is the one in the table, unless the close of
an older one removed it.

TLC's runs check the same formulas on the instances of part 3, except `TypeOK` of `SessionStore`, which is
proved and no run repeats.

**Only model-checked.** Liveness under fairness (`EveryCallSettles`, `EveryRunIsAnswered`, `ShutdownEnds`,
`QueuedGetsTurnOrKnownCause`, `EveryEntryLeaves`, `DueJobsRun`, `CloseEndsCalls`): `ENABLED` and fairness
are beyond the provers. Inductions over data and RECURSIVE operators would be too; the models have
neither. `NeverCrashes` of `WsRelay` does not hold (part 5, 1). All other properties of the runs are proved.

## 5. What the models found

The first is a counterexample that a run prints. Most of the others are exceptions of properties that
hold: TLC finds each of them when its cause, named in parentheses, is taken out of the property.

1. *A send on a closed channel* (`ws_relay_crash`). `src/CLIProxyAPI/internal/wsrelay/session.go:176`: the
   cleanup holds an entry that `Range` gave it; a request whose write fails, whose context ends or whose
   last message is dispatched deletes the entry and closes its channel; the send in the cleanup panics in
   a goroutine that nobody recovers. `dispatch` (110) has the same gap. The new map is assigned to
   `session.pending` without a lock.
2. *A session with two runs* (`past.timedOut`). A drain that times out aborts what is left without
   waiting, and `resetAllLanes` forgets its slots. `docs/concepts/queue.md:83` promises one run per
   session.
3. *A queue that stays closed* (`past.lostRestart`). A SIGUSR1 while `start()` is pending resolves no
   waiter, so `onIteration` does not run and the command queue refuses work until the next restart.
   Likewise (`past.failedStart`) a start that fails gives the lock back (`run-loop.ts:247`), and the
   restart after it takes none (`hadLock` is false), so the gateway then listens without it.
4. *A batch on the wrong route.* `drain.ts:102` checks the routes, 104 awaits, 117 copies the items: what
   arrives in between is collected too. No weaker promise about routes is left to check.
5. *A message removed unread by an overflow* (`past.headTaken`). After the run `drain.ts:138` removes
   as many items as the batch had, although the head may have been shed meanwhile.
6. *The head consumed by a summary* (`past.headTaken`). `drain.ts:152` takes the head for its routing
   and removes it without running its prompt.
7. *A drain left behind by a clear* (`past.orphaned`). It goes on with the old object, and its `finally`
   deletes whatever queue is registered under the key by then (`drain.ts:180`).
8. *A bestEffort payload dropped by the recovery* (`BestEffort`). The replay passes no `onError`, so a
   failure is swallowed and the entry acknowledged.
9. *An acknowledged delivery that comes back* (`past.overlapped`). `failDelivery` of one worker reads the
   entry before, and writes it after, the `ackDelivery` of another.
10. *Slots skipped at startup.* `start()` keeps the slots that come due during the catch-up, and its last
    section moves all slots that have passed (`ops.ts:124`). `DueJobsRun` is about services that have
    started.
11. *Two runs of a job* (`past.unguarded`, `past.zombies`, `left`). Disabling a job clears its marker while it
    runs, also the marker of a forced manual run; a run longer than two hours loses it; a reload starts a
    service that takes the marker of a run of the old service for stale; and a time-out only stops waiting
    for the run (`timer.ts:77`): a CLI turn (`cron/isolated-agent/run.ts:475`) and a heartbeat
    (`timer.ts:1075`) get no abort signal and go on, while the result clears the marker and the next slot
    may start beside them. Such runs escape `maxConcurrentRuns`, too. The old service of a reload may also
    write back a job that was removed meanwhile.
12. *Two holders of the session lock* (`causes`). The watchdog and the signal handler take a lock from a
    holder that goes on working; a lock that is alive is judged too old; and a contender removes by its
    path a lock other than the one it inspected (`session-write-lock.ts:558`).
13. *A change undone by a snapshot* (`past.lost`). `saveSessionStore` writes what was read before the
    lock was taken, as `infra/heartbeat-runner.ts:599` and 920-928 use it, although `store.ts:603` says
    "re-read inside the lock to avoid clobbering concurrent writers".
14. *A store that is missing after a rotation* (`past.lost`). The rotation (`store.ts:511`) renames the
    file, and a store that equals the cached one is not written (534). Likewise a write that fails twice with
    ENOENT (567-579), or five times on Windows (554-559), is reported as made. The comment "the next save will
    retry with fresh data" (555-556) is right about the next change only: it reads the file again, without the
    change that was skipped.
15. *A decision answered with null* (`granted.unrouted`). A request is decided while it is forwarded to
    approvers; if none was reached, the answer is null all the same (`exec-approval.ts:205`).
16. *A node that is connected and not found* (`overtaken`). The late close of an old connection removes
    the session that the new one registered, and rejects its invokes (`node-registry.ts:81-97`).
17. *A fallback that hardly exists.* A run on a request that timed out (`askFallback`,
    `node-invoke-system-run-approval.ts:287-299`) is reached only when the time is exactly
    `expiresAtMs`, since line 160 refuses a later one. The model has the instant (`clock = "at"`).
18. *A message that waits for the next one* (`past.leftIdle`). A message is queued behind any run that
    `isEmbeddedPiRunActive` sees (`runs.ts:135`), but only a reply run drains the queue when it ends. Behind a
    run of another kind (a cron run, say) it stays until another message of its session comes.
19. *A truncated answer* (`past.overflow`). `dispatch` drops a message when the channel of the call is full
    (`session.go:110`), also the last one: the channel is then closed without it.
20. *A credential without a session* (`past.early`). A session is in the map before it is announced
    (`manager.go:155`). If `Stop` cleans it up in between, `onConnected` comes after `onDisconnected`,
    and the credential it registers stays.
21. *A cron write that fails* (`past.faults`, `past.unsaved`). The marker of a run whose result could not be
    saved stays in the file, and blocks the job for two hours. An edit that could not be saved is answered with
    an error and is in memory all the same (`ops.ts:254`, 321, 342): it is used, and saved with the next
    write.
22. *A summary that forgets.* `summaryLines` keeps the last `cap` lines (`queue-helpers.ts:103-106`), so of the
    older messages that were shed the prompt has only the number. `docs/concepts/queue.md:68` speaks of "a
    short bullet list of dropped messages". `fate` is "dropped" for them, as for those the policy "old" drops.

## 6. What is not modelled, and the plan

*Left out of the modelled components.* Log lines and wait warnings of the command queue. Steering,
snapshots, model-switch requests and per-session waiters of `runs.ts`. Debounce lengths, prompts and
`refreshQueuedFollowupSession` of the follow-up queue; the starvation of the event loop by a drain that
reschedules itself in microtasks. Migration of legacy delivery entries, the parsing of damaged ones,
and I/O errors other than a missing file or a failed first write. `enqueueRun`, `wake`, schedules that
cannot be computed, alerts and the delivery of results of the cron service. Nested holds of one
process, the reclaim of a process's own orphaned file, and `cleanStaleLockFiles` of the write lock;
`plugin-sdk/file-lock.ts` is another lock. What maintenance prunes, hits of the object cache and the
single attempts of a write on Windows of the session store. Approval ids that are given by a prefix, and the text of
requests. Events sent to nodes without an answer and the wake-up by push messages. A `ProviderFactory`
of the relay, with which sessions would be replaced: the service passes none.

*Not modelled at all.*

| component | why |
|---|---|
| ACP control plane | its actor queue serialises turns as a command lane does; the rest drives external runtimes |
| Credential conductor and scheduler, model registry | not yet: mostly sequential under one mutex each, with long decisions about data |
| Config and auth watcher, usage manager | not yet: small queues with one consumer |
| Translators and executors | conversions between wire formats: data, not order |
| HAProxy, systemd units, control center, scripts | configuration of external programs, and I/O |
| The remaining TypeScript: channels, plugins, providers, UI, CLI commands | adapters to services, whose state is elsewhere, and generated data; the bulk of the repository's lines |

Order of the further modules: `AuthScheduler` (cooldown, rotation, the optimistic refresh),
`ModelRegistry` (reference counts, suspended clients), `Watcher` (coalesced updates), and `AcpTurns` on
top of `CommandLanes`.

Theorems to prove next: an abstract specification of the delivery queue (an entry is pending, sent or given
up, and recovered until then) that `DeliveryQueue` is shown to implement.
