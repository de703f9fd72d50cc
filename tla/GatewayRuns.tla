------------------------------- MODULE GatewayRuns -------------------------------
(***************************************************************************)
(* Agent runs on command lanes, under a gateway that restarts in process.  *)
(* Composes the lanes (CommandLanes) with                                  *)
(*   agents/pi-embedded-runner/run.ts    a run holds its session lane and, *)
(*                                       inside it, a global lane          *)
(*   agents/pi-embedded-runner/lanes.ts  which lanes these are             *)
(*   agents/pi-embedded-runner/runs.ts   the registry of active runs       *)
(*   cron/service/ops.ts                 a manual cron run holds the cron  *)
(*                                       lane around its agent run         *)
(*   cli/gateway-cli/run-loop.ts         SIGUSR1, drain, close, restart    *)
(*                                                                         *)
(* A command in a lane is <<stage, run>>, stage being "job" (the cron      *)
(* task), "session" (the outer task of a run) or "global" (its inner task, *)
(* the agent turn itself).                                                 *)
(***************************************************************************)
EXTENDS CommandLanes, SequencesExt

CONSTANTS
  Runs,             \* agent runs
  CronRuns,         \* the runs that a manual cron run wraps
  Sessions,         \* session lanes, disjoint from GlobalLanes
  SessionOf,        \* the session lane of each run
  LaneArg,          \* params.lane of each run; "" when it is absent
  MainConcurrency,  \* agents.defaults.maxConcurrent
  MaxRestarts       \* bound: in-process restarts explored, and one more after a start that failed

GlobalLanes == {"main", "cron", "nested"}

ASSUME RunsAssumption ==
  /\ IsFiniteSet(Runs) /\ "none" \notin Runs
  /\ CronRuns \subseteq Runs
  /\ Sessions \cap GlobalLanes = {}
  /\ SessionOf \in [Runs -> Sessions]
  /\ LaneArg \in [Runs -> GlobalLanes \cup {""}]
  /\ MainConcurrency \in Nat \ {0}
  /\ MaxRestarts \in Nat

VARIABLES
  lanes, gatewayDraining, executing, taskGeneration, promise, \* as in CommandQueue
  activeRuns,       \* ACTIVE_EMBEDDED_RUNS: the registered run of each session, or NoRun
  registration,     \* what became of the entry of each run: "no" entry yet, "yes", it was
                    \* "replaced" by a run of the same session, or "over"
  loop,             \* the main loop: "starting", "waiting" for a restart, or "exited"
  listening,        \* server # null
  lockHeld,         \* the gateway lock
  firstStart,       \* isFirstStart
  shutdown,         \* the task of request(): its phase and action, and hadLock
  drain,            \* its two waits: activeAtStart, tasks and runs
  past              \* history: what has ever happened, for the properties

queueVars == <<lanes, gatewayDraining, executing, taskGeneration, promise>>
registryVars == <<activeRuns, registration>>
loopVars == <<loop, listening, lockHeld, firstStart, shutdown, drain, past>>
vars == <<queueVars, registryVars, loopVars>>

NoRun == "none"
Lanes == GlobalLanes \cup Sessions
Commands == {"job", "session", "global"} \X Runs
Settled == {"settled", "refused"}   \* a result or an error; GatewayDrainingError

ResolveSessionLane(r) == SessionOf[r]

\* Mutant: an agent turn of a cron job queues behind the job.  Breaks EveryRunIsAnswered.
GlobalLaneAsGiven(lane) == IF lane = "" THEN "main" ELSE lane

\* Cron jobs hold the cron lane; what they run inside must use another lane.
ResolveGlobalLane(lane) ==
  IF lane = "cron" THEN "nested" ELSE IF lane = "" THEN "main" ELSE lane

LaneOf(command) ==
  CASE command[1] = "job" -> "cron"
    [] command[1] = "session" -> ResolveSessionLane(command[2])
    [] command[1] = "global" -> ResolveGlobalLane(LaneArg[command[2]])

TypeOK ==
  /\ lanes \in [Lanes -> [queue : Seq(Commands), active : SUBSET Commands,
                          maxConcurrent : Nat \ {0}, generation : Nat]]
  /\ gatewayDraining \in BOOLEAN
  /\ executing \subseteq Commands
  /\ taskGeneration \in [Commands -> Nat]
  /\ promise \in [Commands -> {"none", "pending"} \cup Settled]
  /\ activeRuns \in [Sessions -> Runs \cup {NoRun}]
  /\ registration \in [Runs -> {"no", "yes", "replaced", "over"}]
  /\ loop \in {"starting", "waiting", "exited"}
  /\ {listening, lockHeld, firstStart} \subseteq BOOLEAN
  /\ shutdown \in [phase : {"idle", "draining", "closing", "closed", "reacquiring"},
                   action : {"none", "stop", "restart"}, hadLock : BOOLEAN]
  /\ drain \in [activeAtStart : SUBSET Commands,
                tasks : {"drained", "polling", "timedOut"},
                runs : {"drained", "polling", "timedOut"}]
  /\ past \in [timedOut : BOOLEAN, lostRestart : BOOLEAN, failedStart : BOOLEAN]

ShuttingDown == shutdown.phase # "idle"
NoDrain == [activeAtStart |-> {}, tasks |-> "drained", runs |-> "drained"]

\* start() has just been called for the first time.  applyGatewayLaneConcurrency runs
\* early in each start with the same configuration, so its limits are there from the outset.
NewLanes ==
  [l \in Lanes |-> IF l = "main" THEN SetMaxConcurrent(NewLane, MainConcurrency) ELSE NewLane]
NoTasks == [c \in Commands |-> 0]
NoPromises == [c \in Commands |-> "none"]
EmptyRegistry == [s \in Sessions |-> NoRun]
NoRegistrations == [r \in Runs |-> "no"]
NoShutdown == [phase |-> "idle", action |-> "none", hadLock |-> FALSE]
NoPast == [timedOut |-> FALSE, lostRestart |-> FALSE, failedStart |-> FALSE]

Init ==
  /\ lanes = NewLanes
  /\ gatewayDraining = FALSE
  /\ executing = {}
  /\ taskGeneration = NoTasks
  /\ promise = NoPromises
  /\ activeRuns = EmptyRegistry
  /\ registration = NoRegistrations
  /\ loop = "starting"
  /\ listening = FALSE
  /\ lockHeld = TRUE
  /\ firstStart = TRUE
  /\ shutdown = NoShutdown
  /\ drain = NoDrain
  /\ past = NoPast

--------------------------------------------------------------------------------
(* Commands.                                                                *)

ActiveIn(state) == {c \in Commands : c \in state[LaneOf(c)].active}
Opened(state) == {c \in ActiveIn(state) \ executing : c[1] = "session"}
\* The command that a request for r puts in a lane.
Request(r) == <<IF r \in CronRuns THEN "job" ELSE "session", r>>
Inner(command) == <<"global", command[2]>>

\* For each lane that `commands` go to: the order in which they come there, which is any.
Orders(commands) ==
  LET to == {LaneOf(c) : c \in commands}
      orders == [l \in to |-> SetToSeqs({c \in commands : LaneOf(c) = l})]
  IN {order \in [to -> UNION {orders[l] : l \in to}] : \A l \in to : order[l] \in orders[l]}

PushAll(state, order) ==
  [l \in Lanes |-> IF l \in DOMAIN order
                     THEN DrainLane([state[l] EXCEPT !.queue = @ \o order[l]])
                     ELSE state[l]]

\* The step leaves the lanes in `next`, then every session task that a pump started
\* enqueues its global task in the same synchronous stretch of code - or is refused
\* when the gateway drains.  `answers` are the promises the step itself settles or makes.
RunLanes(next, settled, answers) ==
  LET inner == {Inner(c) : c \in Opened(next)} IN
  \E order \in Orders(IF gatewayDraining' THEN {} ELSE inner) :
    LET final == PushAll(next, order)
        begun == ActiveIn(final) \ executing
    IN
    /\ lanes' = final
    /\ executing' = (executing \ settled) \cup begun
    /\ taskGeneration' = [c \in Commands |-> IF c \in begun THEN final[LaneOf(c)].generation
                                             ELSE IF c \in settled THEN 0 ELSE taskGeneration[c]]
    /\ promise' = [c \in Commands |-> IF c \in inner
                                        THEN IF gatewayDraining' THEN "refused" ELSE "pending"
                                        ELSE answers[c]]

EnqueueCommandInLane(c) ==
  /\ promise[c] = "none"
  /\ UNCHANGED gatewayDraining
  /\ IF gatewayDraining
       THEN /\ promise' = [promise EXCEPT ![c] = "refused"]
            /\ UNCHANGED <<lanes, executing, taskGeneration>>
       ELSE RunLanes([lanes EXCEPT ![LaneOf(c)] = DrainLane(Push(@, c))], {},
                     [promise EXCEPT ![c] = "pending"])

TaskSettles(c) ==
  /\ c \in executing
  /\ UNCHANGED gatewayDraining
  /\ RunLanes([lanes EXCEPT ![LaneOf(c)] = CompleteTask(@, c, taskGeneration[c])], {c},
              [promise EXCEPT ![c] = "settled"])

Alive == loop # "exited"

\* runEmbeddedPiAgent for an inbound message, or enqueueRun for a cron job.
RequestRun(r) ==
  /\ Alive
  /\ EnqueueCommandInLane(Request(r))
  /\ UNCHANGED <<registryVars, loopVars>>

\* The cron task has prepared its job and calls runEmbeddedPiAgent.
JobDispatches(r) ==
  /\ Alive
  /\ <<"job", r>> \in executing
  /\ EnqueueCommandInLane(<<"session", r>>)
  /\ UNCHANGED <<registryVars, loopVars>>

\* The cron task ends: with its run, or without one because the job was not runnable.
JobEnds(r) ==
  /\ Alive
  /\ promise[<<"session", r>>] \in Settled \cup {"none"}
  /\ TaskSettles(<<"job", r>>)
  /\ UNCHANGED <<registryVars, loopVars>>

\* The timeout of the job abandons a run that is still going (timeout-policy.ts:18-26);
\* a job may be configured without one.
JobTimesOut(r) ==
  /\ Alive
  /\ promise[<<"session", r>>] = "pending"
  /\ TaskSettles(<<"job", r>>)
  /\ UNCHANGED <<registryVars, loopVars>>

\* The agent turn ends; its finally block has left the registry.
TurnEnds(r) ==
  /\ Alive
  /\ registration[r] \in {"no", "over"}
  /\ TaskSettles(<<"global", r>>)
  /\ UNCHANGED <<registryVars, loopVars>>

\* The outer task of a run awaits the inner one.
SessionTaskEnds(r) ==
  /\ Alive
  /\ promise[<<"global", r>>] \in Settled
  /\ TaskSettles(<<"session", r>>)
  /\ UNCHANGED <<registryVars, loopVars>>

SetActiveEmbeddedRun(r) ==
  /\ Alive
  /\ <<"global", r>> \in executing
  /\ registration[r] = "no"
  /\ registration' = [q \in Runs |-> IF q = r THEN "yes"
                                    ELSE IF activeRuns[SessionOf[r]] = q THEN "replaced"
                                    ELSE registration[q]]
  /\ activeRuns' = [activeRuns EXCEPT ![SessionOf[r]] = r]
  /\ UNCHANGED <<queueVars, loopVars>>

\* Mutant: the handle is not compared.  Breaks RegistryKnowsNewest.
ClearAnyHandle(r) ==
  /\ Alive
  /\ registration[r] \in {"yes", "replaced"}
  /\ registration' = [registration EXCEPT ![r] = "over"]
  /\ activeRuns' = [activeRuns EXCEPT ![SessionOf[r]] = NoRun]
  /\ UNCHANGED <<queueVars, loopVars>>

\* Mutant: the entry is blanked, not deleted.  Breaks TypeOK.
ClearToUndefined(r) ==
  /\ Alive
  /\ registration[r] \in {"yes", "replaced"}
  /\ registration' = [registration EXCEPT ![r] = "over"]
  /\ activeRuns' = [activeRuns EXCEPT ![SessionOf[r]] = IF @ = r THEN "undefined" ELSE @]
  /\ UNCHANGED <<queueVars, loopVars>>

\* Only the handle that is registered is removed.
ClearActiveEmbeddedRun(r) ==
  /\ Alive
  /\ registration[r] \in {"yes", "replaced"}
  /\ registration' = [registration EXCEPT ![r] = "over"]
  /\ activeRuns' = [activeRuns EXCEPT ![SessionOf[r]] = IF @ = r THEN NoRun ELSE @]
  /\ UNCHANGED <<queueVars, loopVars>>

--------------------------------------------------------------------------------
(* The run loop.                                                            *)

RegistryEmpty == \A s \in Sessions : activeRuns[s] = NoRun

BeginRestart(closesQueue, waitsForTasks) ==
  /\ Alive /\ ~ShuttingDown
  /\ lanes["main"].generation < MaxRestarts + (IF past.failedStart THEN 1 ELSE 0)
  /\ gatewayDraining' = (gatewayDraining \/ closesQueue)
  /\ drain' = [activeAtStart |-> ActiveIn(lanes),
               tasks |-> IF waitsForTasks /\ ActiveIn(lanes) # {} THEN "polling" ELSE "drained",
               runs |-> IF RegistryEmpty THEN "drained" ELSE "polling"]
  /\ shutdown' = [NoShutdown EXCEPT !.phase = "draining", !.action = "restart"]
  /\ UNCHANGED <<lanes, executing, taskGeneration, promise, registryVars,
                 loop, listening, lockHeld, firstStart, past>>

\* Mutant: work is still accepted while the gateway drains.  Breaks ClosesAfterTurns.
RequestRestartOpenQueue == BeginRestart(FALSE, TRUE)

\* Mutant: only registered runs are waited for.  Breaks OverlapOnlyAfterTimeout.
RequestRestartIgnoringTasks == BeginRestart(TRUE, FALSE)

\* request("restart"): the queue is closed and the two waits begin, each only if there
\* is something to wait for.
RequestRestart == BeginRestart(TRUE, TRUE)

RequestStop ==
  /\ Alive /\ ~ShuttingDown
  /\ shutdown' = [NoShutdown EXCEPT !.phase = "closing", !.action = "stop"]
  /\ UNCHANGED <<queueVars, registryVars, loop, listening, lockHeld, firstStart, drain, past>>

\* waitForActiveTasks polls, or reaches DRAIN_TIMEOUT_MS.
WaitForActiveTasks ==
  /\ Alive /\ shutdown.phase = "draining" /\ drain.tasks = "polling"
  /\ drain' = [drain EXCEPT !.tasks =
                 IF drain.activeAtStart \cap ActiveIn(lanes) = {} THEN "drained" ELSE "timedOut"]
  /\ UNCHANGED <<queueVars, registryVars, loop, listening, lockHeld, firstStart, shutdown, past>>

WaitForActiveEmbeddedRuns ==
  /\ Alive /\ shutdown.phase = "draining" /\ drain.runs = "polling"
  /\ drain' = [drain EXCEPT !.runs = IF RegistryEmpty THEN "drained" ELSE "timedOut"]
  /\ UNCHANGED <<queueVars, registryVars, loop, listening, lockHeld, firstStart, shutdown, past>>

\* Both waits are over.  A run that is aborted after a timeout ends in its own time.
DrainEnds ==
  /\ Alive /\ shutdown.phase = "draining"
  /\ "polling" \notin {drain.tasks, drain.runs}
  /\ shutdown' = [shutdown EXCEPT !.phase = "closing"]
  /\ past' = [past EXCEPT !.timedOut = @ \/ "timedOut" \in {drain.tasks, drain.runs}]
  /\ drain' = NoDrain
  /\ UNCHANGED <<queueVars, registryVars, loop, listening, lockHeld, firstStart>>

\* server.close() returns or throws; the watchdog is cleared.
ServerCloses ==
  /\ Alive /\ shutdown.phase = "closing"
  /\ listening' = FALSE
  /\ shutdown' = [shutdown EXCEPT !.phase = "closed"]
  /\ UNCHANGED <<queueVars, registryVars, loop, lockHeld, firstStart, drain, past>>

\* The process ends, and what it had in memory with it.
Exit ==
  /\ loop' = "exited"
  /\ lanes' = NewLanes
  /\ gatewayDraining' = FALSE
  /\ executing' = {}
  /\ taskGeneration' = NoTasks
  /\ promise' = NoPromises
  /\ activeRuns' = EmptyRegistry
  /\ registration' = NoRegistrations
  /\ listening' = FALSE
  /\ lockHeld' = FALSE
  /\ firstStart' = FALSE
  /\ shutdown' = NoShutdown
  /\ drain' = NoDrain
  /\ past' = NoPast

\* Mutant: the watchdog is cleared when the drain ends.  Breaks ShutdownEnds.
ForceExitOfDrain == Alive /\ shutdown.phase = "draining" /\ Exit

\* The watchdog of request(): it runs until the server has closed.
ForceExit == Alive /\ shutdown.phase \in {"draining", "closing"} /\ Exit

\* A stop, or a restart by another process, ends this one.
ExitAfterClose == Alive /\ shutdown.phase = "closed" /\ Exit

\* The child could not be spawned, or is not wanted.  The lock was released for it, and is
\* taken back if it was held.
FallBackInProcess ==
  /\ Alive /\ shutdown.phase = "closed" /\ shutdown.action = "restart"
  /\ shutdown' = [shutdown EXCEPT !.phase = "reacquiring", !.hadLock = lockHeld]
  /\ lockHeld' = FALSE
  /\ UNCHANGED <<queueVars, registryVars, loop, listening, firstStart, drain, past>>

LockReacquireFails == Alive /\ shutdown.hadLock /\ Exit

\* Mutant: the lanes are reset but stay closed.  Breaks UpMeansOpenAndLocked.
FinishRestartClosed ==
  /\ Alive /\ shutdown.phase = "reacquiring" /\ loop = "waiting"
  /\ shutdown' = NoShutdown
  /\ loop' = "starting"
  /\ lockHeld' = (lockHeld \/ shutdown.hadLock)
  /\ UNCHANGED <<gatewayDraining, registryVars, listening, firstStart, drain, past>>
  /\ RunLanes([l \in Lanes |-> ResetLane(lanes[l])], {}, promise)

\* shuttingDown = false; restartResolver?.().  If the main loop waits, it goes round:
\* onIteration resets the lanes and start() is called.  If start() is still pending there
\* is no waiter, or an old one, and nothing happens.
FinishRestart ==
  /\ Alive /\ shutdown.phase = "reacquiring"
  /\ shutdown' = NoShutdown
  /\ IF loop = "waiting"
       THEN /\ loop' = "starting"
            /\ gatewayDraining' = FALSE
            /\ RunLanes([l \in Lanes |-> ResetLane(lanes[l])], {}, promise)
            /\ UNCHANGED past
       ELSE /\ past' = [past EXCEPT !.lostRestart = TRUE]
            /\ UNCHANGED <<queueVars, loop>>
  /\ lockHeld' = (lockHeld \/ shutdown.hadLock)
  /\ UNCHANGED <<registryVars, listening, firstStart, drain>>

StartSucceeds ==
  /\ loop = "starting"
  /\ loop' = "waiting"
  /\ listening' = TRUE
  /\ firstStart' = FALSE
  /\ UNCHANGED <<queueVars, registryVars, lockHeld, shutdown, drain, past>>

\* The first failure is thrown out of the loop and ends the process.
FirstStartFails == loop = "starting" /\ firstStart /\ Exit

\* A later one gives the lock back and waits for the next restart.
StartFails ==
  /\ loop = "starting" /\ ~firstStart
  /\ loop' = "waiting"
  /\ listening' = FALSE
  /\ lockHeld' = FALSE
  /\ past' = [past EXCEPT !.failedStart = TRUE]
  /\ UNCHANGED <<queueVars, registryVars, firstStart, shutdown, drain>>

Next ==
  \/ \E r \in Runs : RequestRun(r) \/ JobDispatches(r) \/ JobEnds(r) \/ JobTimesOut(r)
  \/ \E r \in Runs : TurnEnds(r) \/ SessionTaskEnds(r) \/ SetActiveEmbeddedRun(r) \/ ClearActiveEmbeddedRun(r)
  \/ RequestRestart \/ RequestStop
  \/ WaitForActiveTasks \/ WaitForActiveEmbeddedRuns \/ DrainEnds
  \/ ServerCloses \/ ForceExit \/ ExitAfterClose
  \/ FallBackInProcess \/ LockReacquireFails \/ FinishRestart
  \/ StartSucceeds \/ FirstStartFails \/ StartFails

Spec == Init /\ [][Next]_vars

\* Runs end (each has a timeout), tasks await what they started, and the timers of the
\* run loop fire.  No fairness for requests, for job timeouts, or for server.close().
RunStep(r) ==
  \/ JobDispatches(r) \/ JobEnds(r) \/ SessionTaskEnds(r)
  \/ ClearActiveEmbeddedRun(r) \/ TurnEnds(r)

ShutdownStep ==
  \/ WaitForActiveTasks \/ WaitForActiveEmbeddedRuns \/ DrainEnds
  \/ ExitAfterClose \/ FallBackInProcess \/ LockReacquireFails \/ FinishRestart

Fairness ==
  /\ \A r \in Runs : WF_vars(RunStep(r))
  /\ WF_vars(ShutdownStep)
  /\ WF_vars(ForceExit)

FairSpec == Spec /\ Fairness

--------------------------------------------------------------------------------
(* Safety.                                                                  *)

Turns(s) == {r \in Runs : <<"global", r>> \in executing /\ SessionOf[r] = s}

\* docs/concepts/queue.md:83: "Per-session lanes guarantee that only one agent run touches
\* a given session at a time."
OneRunPerSession == \A s \in Sessions : Cardinality(Turns(s)) <= 1

\* What the code does guarantee: two turns meet in a session only after a drain gave up on
\* one of them, so a restart that drains hands no session to a second run.
OverlapOnlyAfterTimeout == OneRunPerSession \/ past.timedOut

\* The queue refuses work while a restart is under way (command-queue.ts:172-175), and never
\* after it, but for a restart that finished while start() was pending: it leaves the queue
\* closed behind it.
ClosedQueueHasACause == gatewayDraining => ShuttingDown \/ past.lostRestart

\* A gateway that listens holds the lock, unless a failed start gave it back or a restart
\* that came while start() was pending is about to take it again.
ListensUnderLock ==
  listening => lockHeld \/ past.failedStart \/ shutdown.hadLock

\* A gateway that is up takes work, and is the one that holds the lock, but for these causes.
UpMeansOpenAndLocked == ClosedQueueHasACause /\ ListensUnderLock

\* The registry holds a run exactly from its registration until it ends or is replaced: an
\* older run that ends late does not remove its successor (runs.ts:302-319), which a
\* restart must still be able to abort.
RegistryKnowsNewest ==
  \A r \in Runs : registration[r] = "yes" <=> activeRuns[SessionOf[r]] = r

\* A restart that drained closes the server with no turn in flight, so buffered messages
\* are delivered (run-loop.ts:124-125).
ClosesAfterTurns ==
  [][ ServerCloses /\ shutdown.action = "restart" =>
        past.timedOut \/ \A s \in Sessions : Turns(s) = {} ]_vars

--------------------------------------------------------------------------------
(* Liveness.                                                                *)

\* Every requested run is answered, whatever lanes it and its cron job hold.
EveryRunIsAnswered ==
  \A r \in Runs : promise[Request(r)] = "pending" ~> promise[Request(r)] # "pending"

\* A restart or stop, once begun, is over at some time, even if server.close() hangs.
ShutdownEnds == ShuttingDown ~> ~ShuttingDown \/ ~Alive
================================================================================
