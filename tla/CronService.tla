----------------------------- MODULE CronService -----------------------------
(***************************************************************************)
(* openclaw-zero-token/src/cron/service: the scheduler of the gateway.     *)
(*                                                                         *)
(* Jobs live in a file and in the memory of a service.  A timer starts a   *)
(* tick, which marks the due jobs as running, runs them and then applies   *)
(* their results; a job can also be run by hand, and jobs are added,       *)
(* edited and removed.  locked() lets one section at a time touch a store, *)
(* across services, so a section is a step.  Runs go on between sections.  *)
(*                                                                         *)
(* A config reload stops the service and starts another one on the same    *)
(* file (gateway/server-reload-handlers.ts); stop() only clears the timer, *)
(* so what the old service was doing goes on.  A crash ends all services.  *)
(*                                                                         *)
(* Time is a counter.  Recurring jobs have a slot at every instant, the    *)
(* slot of a one-shot job is instant 1, and 0 stands for "undefined".      *)
(***************************************************************************)
EXTENDS Integers, FiniteSets

CONSTANTS
  Jobs,
  OneShot,         \* jobs of schedule kind "at"
  DeleteAfterRun,  \* one-shot jobs with deleteAfterRun
  Deaf,            \* jobs whose runs are not told of their time-out: runCliAgent, runHeartbeatOnce
  Initial,         \* jobs in the file at first; the others may be added
  Stuck,           \* STUCK_RUN_MS
  MaxImmediate,    \* maxMissedJobsPerRestart
  Concurrency,     \* maxConcurrentRuns
  MaxServices,     \* bound: services started, in turn
  MaxTime,         \* bound: the clock
  MaxManual,       \* bound: runs by hand
  MaxEdits,        \* bound: jobs added, updated, removed
  MaxFaults,       \* bound: failed writes
  MaxZombies,      \* bound: reloads while the service is busy
  MaxLeft          \* bound: runs of a job that go on after their time-out

Services == 1..MaxServices

ASSUME CronAssumption ==
  /\ OneShot \subseteq Jobs /\ DeleteAfterRun \subseteq OneShot /\ Initial \subseteq Jobs
  /\ Deaf \subseteq Jobs
  /\ Jobs # {}
  /\ {Stuck, MaxManual, MaxEdits, MaxFaults, MaxZombies, MaxLeft, MaxImmediate} \subseteq Nat
  /\ {MaxServices, Concurrency, MaxTime} \subseteq Nat \ {0}

VARIABLES
  now,      \* the clock
  disk,     \* the store file: a record for each job in it
  mem,      \* state.store of each service
  svc,      \* each service: how far start() is, its timer, state.running, its catch-up plan
  batch,    \* the runs of each tick and of each catch-up
  manual,   \* each run by hand
  current,  \* the service that callers reach; older ones have been stopped
  past,     \* history: counts, and the events that excuse a second run of a job
  left      \* the runs of each job that nobody waits for any more, since they have timed out

vars == <<now, disk, mem, svc, batch, manual, current, past, left>>

Time == 0..MaxTime
Statuses == {"ok", "retry", "error"}
Record == [enabled : BOOLEAN, next : 0..(MaxTime + 2), running : Time, lastRun : Time, failed : BOOLEAN]
Stores == UNION {[J -> Record] : J \in SUBSET Jobs}
Parts == Services \X {"tick", "boot"}
Manuals == 1..MaxManual

NoRuns == [todo |-> {}, going |-> {}, from |-> [j \in Jobs |-> 0],
           status |-> [j \in Jobs |-> "none"], till |-> [j \in Jobs |-> 0]]
NewService == [start |-> "loading", tick |-> "idle", timer |-> FALSE, attached |-> FALSE,
               interrupted |-> {}, deferred |-> {}]
NoService == [NewService EXCEPT !.start = "none"]
NoManual == [at |-> "idle", job |-> CHOOSE j \in Jobs : TRUE, svc |-> 1,
             from |-> 0, status |-> "none", till |-> 0]
ManualOver == [NoManual EXCEPT !.at = "over"]

NewJob == [enabled |-> TRUE, next |-> 1, running |-> 0, lastRun |-> 0, failed |-> FALSE]
Nothing == [j \in {} |-> NewJob]

TypeOK ==
  /\ now \in 1..MaxTime
  /\ disk \in Stores
  /\ mem \in [Services -> Stores]
  /\ svc \in [Services -> [start : {"none", "loading", "planning", "running", "arming", "up", "failed"},
                           tick : {"idle", "collecting", "running", "ending"},
                           timer : BOOLEAN, attached : BOOLEAN,
                           interrupted : SUBSET Jobs, deferred : SUBSET Jobs]]
  /\ batch \in [Parts -> [todo : SUBSET Jobs, going : SUBSET Jobs, from : [Jobs -> Time],
                          status : [Jobs -> Statuses \cup {"none"}], till : [Jobs -> Time]]]
  /\ manual \in [Manuals -> [at : {"idle", "inspected", "running", "ended", "over"}, job : Jobs,
                             svc : Services, from : Time,
                             status : Statuses \cup {"none"}, till : Time]]
  /\ current \in Services
  /\ past \in [edits : 0..MaxEdits, faults : 0..MaxFaults, unguarded : SUBSET Jobs,
               gone : SUBSET Jobs, unsaved : SUBSET Jobs, zombies : 0..MaxZombies]
  /\ left \in [Jobs -> 0..MaxLeft]

Init ==
  /\ now = 1
  /\ disk = [j \in Initial |-> NewJob]
  /\ mem = [s \in Services |-> Nothing]
  /\ svc = [s \in Services |-> IF s = 1 THEN NewService ELSE NoService]
  /\ batch = [p \in Parts |-> NoRuns]
  /\ manual = [m \in Manuals |-> NoManual]
  /\ current = 1
  /\ past = [edits |-> 0, faults |-> 0, unguarded |-> {}, gone |-> {}, unsaved |-> {},
              zombies |-> 0]
  /\ left = [j \in Jobs |-> 0]

--------------------------------------------------------------------------------
(* Schedules and results, as functions of a job's record.                   *)

\* Mutant: the interval is counted from twice the clock, an anchor that is added to now.
NextRunUnbounded(j, r, t) ==
  IF ~r.enabled \/ (j \in OneShot /\ r.lastRun > 0 /\ ~r.failed) THEN 0
  ELSE IF j \in OneShot THEN 1 ELSE t + t + 1

\* computeJobNextRunAtMs at time t.
NextRun(j, r, t) ==
  IF ~r.enabled \/ (j \in OneShot /\ r.lastRun > 0 /\ ~r.failed) THEN 0
  ELSE IF j \in OneShot THEN 1 ELSE t + 1

Due(r) == r.enabled /\ r.next \in 1..now

\* normalizeJobTickState: a disabled job has no slot and no marker; an old marker is cleared.
Normalized(r) ==
  IF ~r.enabled THEN [r EXCEPT !.next = 0, !.running = 0]
  ELSE IF r.running > 0 /\ now - r.running > Stuck THEN [r EXCEPT !.running = 0]
  ELSE r

\* recomputeNextRuns moves every slot that has passed.
Recomputed(store) ==
  [j \in DOMAIN store |->
     LET r == Normalized(store[j]) IN
       IF r.enabled /\ r.next <= now THEN [r EXCEPT !.next = NextRun(j, r, now)] ELSE r]

\* recomputeNextRunsForMaintenance moves a slot only if it is missing or, with recomputeExpired,
\* if the job has run since.
Maintained(store, recomputeExpired) ==
  [j \in DOMAIN store |->
     LET r == Normalized(store[j])
         expired == recomputeExpired /\ r.running = 0 /\ r.lastRun >= r.next
     IN  IF r.enabled /\ (r.next = 0 \/ (r.next <= now /\ expired))
           THEN [r EXCEPT !.next = NextRun(j, r, now)] ELSE r]

Without(store, j) == [k \in DOMAIN store \ {j} |-> store[k]]
Deletes(j, status) == j \in DeleteAfterRun /\ status = "ok"

\* applyJobResult: "retry" is an error after which a one-shot job is tried again.
Result(j, r, from, till, status) ==
  LET ran == [r EXCEPT !.running = 0, !.lastRun = from, !.failed = status # "ok"] IN
    IF j \in OneShot
      THEN IF status = "retry" THEN [ran EXCEPT !.next = till + 1]
                               ELSE [ran EXCEPT !.enabled = FALSE, !.next = 0]
    ELSE IF ~r.enabled THEN [ran EXCEPT !.next = 0]
    ELSE [ran EXCEPT !.next = IF status = "ok" THEN till + 1 ELSE till + 2]

\* applyOutcomeToStoredJob for each run of a batch; the result of a job that is gone is discarded.
Applied(store, b) ==
  [j \in {k \in DOMAIN store : ~Deletes(k, b.status[k])} |->
     IF b.status[j] = "none" THEN store[j]
                             ELSE Result(j, store[j], b.from[j], b.till[j], b.status[j])]

Marked(store, J) == [j \in DOMAIN store |-> IF j \in J THEN [store[j] EXCEPT !.running = now] ELSE store[j]]

\* armTimer of a service with this store: whether it sets a timer.
Arms(store) == \E j \in DOMAIN store : store[j].enabled /\ store[j].next > 0

\* History: jobs that have left the store.
Gone(J) == [past EXCEPT !.gone = @ \cup J]

Saves(s, store) == mem' = [mem EXCEPT ![s] = store] /\ disk' = store

\* The file cannot be written: what should have been saved stays in memory until it is reloaded.
Fails == past.faults < MaxFaults /\ past' = [past EXCEPT !.faults = @ + 1]

--------------------------------------------------------------------------------
(* Runs.                                                                    *)

\* The runs of a job that the scheduler waits for.
Going(j) ==
  {p \in Parts : j \in batch[p].going}
    \cup {<<m, "hand">> : m \in {n \in Manuals : manual[n].at = "running" /\ manual[n].job = j}}

\* Those that a marker stands for: also runs that are about to start, or wait for their results.
Owners(j) ==
  {p \in Parts : j \in batch[p].todo \cup batch[p].going \/ batch[p].status[j] # "none"}
    \cup {<<m, "hand">> : m \in {n \in Manuals : manual[n].at \in {"running", "ended"} /\ manual[n].job = j}}

Busy(s) ==
  \/ svc[s].start \notin {"none", "up", "failed"} \/ svc[s].tick # "idle"
  \/ \E m \in Manuals : manual[m].svc = s /\ manual[m].at \in {"inspected", "running", "ended"}

Limit(p) == IF p[2] = "boot" THEN 1 ELSE Concurrency

\* runDueJob, runStartupCatchupCandidate: the next job of a batch begins.  A tick sets the marker
\* once more on the object it collected, which may be in memory still.
RunStarts(p, j) ==
  /\ j \in batch[p].todo /\ Cardinality(batch[p].going) < Limit(p)
  /\ batch' = [batch EXCEPT ![p].todo = @ \ {j}, ![p].going = @ \cup {j}, ![p].from[j] = now]
  /\ mem' = IF p[2] = "tick" /\ svc[p[1]].attached
              THEN [mem EXCEPT ![p[1]] = Marked(@, {j})] ELSE mem
  /\ UNCHANGED <<now, disk, svc, manual, current, past, left>>

\* executeJobCoreWithTimeout returns.
Returns(p, j, status) ==
  /\ j \in batch[p].going
  /\ status = "retry" => j \in OneShot
  /\ batch' = [batch EXCEPT ![p].going = @ \ {j}, ![p].status[j] = status, ![p].till[j] = now]
  /\ UNCHANGED <<now, disk, mem, svc, manual, current, past>>

\* With the outcome of the run, or with the time-out of a run that heeds it and ends.
RunEnds(p, j, status) == Returns(p, j, status) /\ UNCHANGED left

\* The time-out only races the run: one that is not told goes on, although an error is taken for its
\* outcome, a transient one perhaps.
Leaves(j, status) ==
  /\ j \in Deaf /\ status # "ok" /\ left[j] < MaxLeft
  /\ left' = [left EXCEPT ![j] = @ + 1]

TimesOut(p, j, status) == Returns(p, j, status) /\ Leaves(j, status)

\* Such a run ends, and what it came to is ignored.
LeftEnds(j) ==
  /\ left[j] > 0
  /\ left' = [left EXCEPT ![j] = @ - 1]
  /\ UNCHANGED <<now, disk, mem, svc, batch, manual, current, past>>

--------------------------------------------------------------------------------
(* Starting a service.                                                      *)

\* Mutant: only markers that are old are cleared at startup, as maintenance does.
StartKeepsMarkers(s) ==
  /\ svc[s].start = "loading"
  /\ Saves(s, disk)
  /\ svc' = [svc EXCEPT ![s].start = "planning",
                        ![s].interrupted = {j \in DOMAIN disk : disk[j].running > 0}]
  /\ UNCHANGED <<now, batch, manual, current, past, left>>

Cleared(store) == [j \in DOMAIN store |-> [store[j] EXCEPT !.running = 0]]

\* start(), first section: the file is loaded, and the markers in it are cleared as stale.
StartLoads(s) ==
  /\ svc[s].start = "loading"
  /\ Saves(s, Cleared(disk))
  /\ svc' = [svc EXCEPT ![s].start = "planning",
                        ![s].interrupted = {j \in DOMAIN disk : disk[j].running > 0}]
  /\ UNCHANGED <<now, batch, manual, current, past, left>>

\* isRunnableJob for the catch-up: a one-shot job that has run is taken only for its retry; a
\* recurring job also if its last slot came after its last run, unless it is backing off.
Missed(s, j, r) ==
  /\ r.enabled /\ j \notin svc[s].interrupted /\ r.running = 0
  /\ IF j \in OneShot /\ r.lastRun > 0
       THEN r.failed /\ r.next > r.lastRun /\ Due(r)
       ELSE \/ Due(r)
            \/ j \notin OneShot /\ r.lastRun \in 1..(now - 1) /\ ~(r.failed /\ now < r.lastRun + 2)

AllMissed(s) == {j \in DOMAIN mem[s] : Missed(s, j, mem[s][j])}

\* The oldest of them, as many as may be run at once.
Oldest(s) ==
  {first \in SUBSET AllMissed(s) :
     /\ \/ Cardinality(first) = MaxImmediate
        \/ first = AllMissed(s) /\ Cardinality(first) < MaxImmediate
     /\ \A j \in first, k \in AllMissed(s) \ first : mem[s][j].next <= mem[s][k].next}

\* planStartupCatchup: the oldest are run at once, the others are deferred.
StartPlans(s) ==
  /\ svc[s].start = "planning"
  /\ \/ /\ AllMissed(s) = {}
        /\ svc' = [svc EXCEPT ![s].start = "arming"]
        /\ UNCHANGED <<mem, disk, batch>>
     \/ /\ AllMissed(s) # {}
        /\ \E first \in Oldest(s) :
             /\ svc' = [svc EXCEPT ![s].start = "running", ![s].deferred = AllMissed(s) \ first]
             /\ Saves(s, Marked(mem[s], first))
             /\ batch' = [batch EXCEPT ![<<s, "boot">>] = [NoRuns EXCEPT !.todo = first]]
  /\ UNCHANGED <<now, manual, current, past, left>>

\* The catch-up is over: results, a later slot for deferred jobs, maintenance.
CaughtUp(s) ==
  LET applied == Applied(mem[s], batch[<<s, "boot">>])
      staggered == [j \in DOMAIN applied |-> IF j \in svc[s].deferred /\ applied[j].enabled
                                               THEN [applied[j] EXCEPT !.next = now + 1]
                                               ELSE applied[j]]
  IN  Maintained(staggered, FALSE)

RunsOver(p) == batch[p].todo \cup batch[p].going = {}

\* applyStartupCatchupOutcomes.
StartApplies(s) ==
  /\ svc[s].start = "running" /\ RunsOver(<<s, "boot">>)
  /\ Saves(s, CaughtUp(s))
  /\ batch' = [batch EXCEPT ![<<s, "boot">>] = NoRuns]
  /\ svc' = [svc EXCEPT ![s].start = "arming", ![s].deferred = {}]
  /\ past' = Gone(DOMAIN mem[s] \ DOMAIN disk')
  /\ UNCHANGED <<now, manual, current, left>>

\* Saves only if the store has changed.
SavesChanges(s, store) ==
  \/ store # mem[s] /\ Saves(s, store)
  \/ store = mem[s] /\ UNCHANGED <<mem, disk>>

\* The last section of start() moves the slots that have passed, and arms the timer.
StartArms(s) ==
  /\ svc[s].start = "arming"
  /\ SavesChanges(s, Recomputed(mem[s]))
  /\ svc' = [svc EXCEPT ![s].start = "up", ![s].timer = Arms(mem'[s]), ![s].interrupted = {}]
  /\ UNCHANGED <<now, batch, manual, current, past, left>>

\* What a section of start() leaves in memory when it cannot save it.
Unsaved(s) ==
  CASE svc[s].start = "loading" -> {Cleared(disk)} \ {disk}
    [] svc[s].start = "planning" /\ AllMissed(s) # {} -> {Marked(mem[s], first) : first \in Oldest(s)}
    [] svc[s].start = "running" /\ RunsOver(<<s, "boot">>) -> {CaughtUp(s)}
    [] svc[s].start = "arming" -> {Recomputed(mem[s])} \ {mem[s]}
    [] OTHER -> {}

\* start() rejects, which is only logged: the service is there for callers, but has no timer.
StartFails(s) ==
  /\ Fails
  /\ \E store \in Unsaved(s) : mem' = [mem EXCEPT ![s] = store]
  /\ batch' = [batch EXCEPT ![<<s, "boot">>] = NoRuns]
  /\ svc' = [svc EXCEPT ![s].start = "failed", ![s].interrupted = {}, ![s].deferred = {}]
  /\ UNCHANGED <<now, disk, manual, current, left>>

--------------------------------------------------------------------------------
(* Ticks.                                                                   *)

\* onTimer while a tick is running only sets the timer again.
TickSkips(s) ==
  /\ svc[s].timer /\ svc[s].tick # "idle"
  /\ svc' = [svc EXCEPT ![s].timer = TRUE]
  /\ UNCHANGED <<now, disk, mem, batch, manual, current, past, left>>

\* onTimer begins a tick, with a watchdog timer armed meanwhile.
TickStarts(s) ==
  /\ svc[s].timer /\ svc[s].tick = "idle"
  /\ svc' = [svc EXCEPT ![s].tick = "collecting", ![s].timer = TRUE]
  /\ UNCHANGED <<now, disk, mem, batch, manual, current, past, left>>

\* collectRunnableJobs of a tick.
RunnableNow(store) == {j \in DOMAIN store : Due(store[j]) /\ store[j].running = 0}

\* First section: the file is read again; due jobs are marked and saved before they run.
TickCollects(s) ==
  /\ svc[s].tick = "collecting"
  /\ LET due == RunnableNow(disk)
         store == Maintained(disk, TRUE)
     IN  \/ /\ due = {}
            /\ mem' = [mem EXCEPT ![s] = store] /\ disk' = store
            /\ svc' = [svc EXCEPT ![s].tick = "ending", ![s].attached = FALSE]
            /\ UNCHANGED batch
         \/ /\ due # {}
            /\ Saves(s, Marked(disk, due))
            /\ svc' = [svc EXCEPT ![s].tick = "running", ![s].attached = TRUE]
            /\ batch' = [batch EXCEPT ![<<s, "tick">>] = [NoRuns EXCEPT !.todo = due]]
  /\ UNCHANGED <<now, manual, current, past, left>>

\* Mutant: with the results, the slots that have passed meanwhile are moved, as start() does.
TickAppliesRecomputes(s) ==
  /\ svc[s].tick = "running" /\ RunsOver(<<s, "tick">>)
  /\ Saves(s, Recomputed(Applied(disk, batch[<<s, "tick">>])))
  /\ batch' = [batch EXCEPT ![<<s, "tick">>] = NoRuns]
  /\ svc' = [svc EXCEPT ![s].tick = "ending", ![s].attached = FALSE]
  /\ past' = Gone(DOMAIN disk \ DOMAIN disk')
  /\ UNCHANGED <<now, manual, current, left>>

\* Last section, when all runs of the batch are over: results are applied to a fresh copy.
TickApplies(s) ==
  /\ svc[s].tick = "running" /\ RunsOver(<<s, "tick">>)
  /\ Saves(s, Maintained(Applied(disk, batch[<<s, "tick">>]), FALSE))
  /\ batch' = [batch EXCEPT ![<<s, "tick">>] = NoRuns]
  /\ svc' = [svc EXCEPT ![s].tick = "ending", ![s].attached = FALSE]
  /\ past' = Gone(DOMAIN disk \ DOMAIN disk')
  /\ UNCHANGED <<now, manual, current, left>>

\* The finally block, after the session reaper.  It arms the timer of a stopped service, too.
TickEnds(s) ==
  /\ svc[s].tick = "ending"
  /\ svc' = [svc EXCEPT ![s].tick = "idle", ![s].timer = Arms(mem[s])]
  /\ UNCHANGED <<now, disk, mem, batch, manual, current, past, left>>

\* The marks, or the results, cannot be written.
TickCollectFails(s) ==
  /\ svc[s].tick = "collecting" /\ RunnableNow(disk) # {} /\ Fails
  /\ mem' = [mem EXCEPT ![s] = Marked(disk, RunnableNow(disk))]
  /\ svc' = [svc EXCEPT ![s].tick = "ending", ![s].attached = FALSE]
  /\ UNCHANGED <<now, disk, batch, manual, current, left>>

TickApplyFails(s) ==
  /\ svc[s].tick = "running" /\ RunsOver(<<s, "tick">>) /\ Fails
  /\ mem' = [mem EXCEPT ![s] = Maintained(Applied(disk, batch[<<s, "tick">>]), FALSE)]
  /\ batch' = [batch EXCEPT ![<<s, "tick">>] = NoRuns]
  /\ svc' = [svc EXCEPT ![s].tick = "ending", ![s].attached = FALSE]
  /\ UNCHANGED <<now, disk, manual, current, left>>

--------------------------------------------------------------------------------
(* Runs by hand.                                                            *)

Loaded(s) == svc[s].start \notin {"none", "loading"}
Free(s, j) == j \in DOMAIN mem[s] /\ mem[s][j].running = 0
Runs(m) == manual' = [manual EXCEPT ![m].at = "running"]
Over(m) == manual' = [manual EXCEPT ![m] = ManualOver]

\* inspectManualRunPreflight, in a section of its own.
Inspect(m, j, force) ==
  LET s == current
      store == Maintained(mem[s], FALSE)
  IN  /\ manual[m].at = "idle" /\ Loaded(s) /\ j \in DOMAIN mem[s]
      /\ mem' = [mem EXCEPT ![s] = store]
      /\ \/ /\ store[j].running > 0 \/ (~force /\ ~Due(store[j]))
            /\ Over(m)
         \/ /\ store[j].running = 0 /\ (force \/ Due(store[j]))
            /\ manual' = [manual EXCEPT ![m] = [NoManual EXCEPT !.at = "inspected", !.job = j,
                                                  !.svc = s, !.from = now]]
      /\ UNCHANGED <<now, disk, svc, batch, current, past, left>>

\* Mutant: what the inspection saw is not looked at again.
ReserveUnchecked(m) ==
  LET s == manual[m].svc
      j == manual[m].job
  IN  /\ manual[m].at = "inspected" /\ j \in DOMAIN mem[s]
      /\ Saves(s, [mem[s] EXCEPT ![j].running = manual[m].from])
      /\ Runs(m)
      /\ UNCHANGED <<now, svc, batch, current, past, left>>

\* prepareManualRun, second section: a tick may have taken the job in between.
Reserve(m) ==
  LET s == manual[m].svc
      j == manual[m].job
  IN  /\ manual[m].at = "inspected"
      /\ \/ /\ ~Free(s, j)
            /\ Over(m)
            /\ UNCHANGED <<mem, disk, past>>
         \/ /\ Free(s, j)
            /\ Saves(s, [mem[s] EXCEPT ![j].running = manual[m].from])
            /\ Runs(m)
            /\ past' = IF now - manual[m].from > Stuck \/ ~mem[s][j].enabled
                         THEN [past EXCEPT !.unguarded = @ \cup {j}] ELSE past
      /\ UNCHANGED <<now, svc, batch, current, left>>

\* The marker cannot be saved; it stays in memory although nothing runs.
ReserveFails(m) ==
  LET s == manual[m].svc
      j == manual[m].job
  IN  /\ manual[m].at = "inspected" /\ Free(s, j) /\ Fails
      /\ mem' = [mem EXCEPT ![s][j].running = manual[m].from]
      /\ Over(m)
      /\ UNCHANGED <<now, disk, svc, batch, current, left>>

ManualReturns(m, status) ==
  /\ manual[m].at = "running"
  /\ status = "retry" => manual[m].job \in OneShot
  /\ manual' = [manual EXCEPT ![m].at = "ended", ![m].status = status, ![m].till = now]
  /\ UNCHANGED <<now, disk, mem, svc, batch, current, past>>

ManualEnds(m, status) == ManualReturns(m, status) /\ UNCHANGED left
ManualTimesOut(m, status) == ManualReturns(m, status) /\ Leaves(manual[m].job, status)

\* Mutant: the record merged has the value of enabled that the run began with.
MergedAsItWas(m, r) ==
  LET j == manual[m].job IN
    IF Deletes(j, manual[m].status) THEN Without(disk, j)
    ELSE [k \in DOMAIN disk |-> IF k = j THEN [r EXCEPT !.enabled = TRUE] ELSE disk[k]]

\* finishPreparedManualRun: the result goes to the copy in memory, the file is read again, and the
\* job's record in it is replaced (mergeManualRunSnapshotAfterReload).
Merged(m, r) ==
  LET j == manual[m].job IN
    IF Deletes(j, manual[m].status) THEN Without(disk, j)
    ELSE [k \in DOMAIN disk |-> IF k = j THEN r ELSE disk[k]]

ManualFinishes(m) ==
  LET s == manual[m].svc
      j == manual[m].job
      r == Result(j, mem[s][j], manual[m].from, manual[m].till, manual[m].status)
  IN  /\ manual[m].at = "ended"
      /\ \/ j \notin DOMAIN mem[s] /\ UNCHANGED <<disk, mem, svc, past>>
         \/ /\ j \in DOMAIN mem[s]
            /\ Saves(s, Maintained(Merged(m, r), TRUE))
            /\ svc' = [svc EXCEPT ![s].timer = Arms(disk'), ![s].attached = FALSE]
            /\ past' = Gone(DOMAIN disk \ DOMAIN disk')
      /\ Over(m)
      /\ UNCHANGED <<now, batch, current, left>>

\* The result cannot be saved: it stays in memory, and the file keeps the marker.
ManualFinishFails(m) ==
  LET s == manual[m].svc
      j == manual[m].job
  IN  /\ manual[m].at = "ended" /\ j \in DOMAIN mem[s] /\ Fails
      /\ LET r == Result(j, mem[s][j], manual[m].from, manual[m].till, manual[m].status)
         IN  mem' = [mem EXCEPT ![s] = Maintained(Merged(m, r), TRUE)]
      /\ svc' = [svc EXCEPT ![s].attached = FALSE]
      /\ Over(m)
      /\ UNCHANGED <<now, disk, batch, current, left>>

--------------------------------------------------------------------------------
(* Edits, which go to the memory of the current service and from there to the file.         *)

\* An edit of job j: what becomes of the store, whose marker it clears, and which jobs have left.  If
\* the write fails, the caller gets an error, but the edit stays in memory, and a later write saves
\* it unless the file is reloaded before.
Edits(j, store, unguarded, gone) ==
  /\ past.edits < MaxEdits /\ Loaded(current)
  /\ mem' = [mem EXCEPT ![current] = store]
  /\ \/ /\ disk' = store
        /\ svc' = [svc EXCEPT ![current].timer = Arms(store)]
        /\ past' = [past EXCEPT !.edits = @ + 1, !.unguarded = @ \cup unguarded, !.gone = @ \cup gone]
     \/ /\ past.faults < MaxFaults
        /\ past' = [past EXCEPT !.edits = @ + 1, !.unguarded = @ \cup unguarded,
                                !.faults = @ + 1, !.unsaved = @ \cup {j}]
        /\ UNCHANGED <<disk, svc>>
  /\ UNCHANGED <<now, batch, manual, current, left>>

\* add: a recurring job; the slots of all jobs that have passed are moved.
Add(j) ==
  /\ j \notin OneShot \cup past.gone \cup past.unsaved \cup DOMAIN disk \cup DOMAIN mem[current]
  /\ Edits(j, Recomputed([k \in DOMAIN mem[current] \cup {j} |->
                             IF k = j THEN [NewJob EXCEPT !.next = now + 1] ELSE mem[current][k]]),
           {}, {})

\* update with a new value of enabled: a disabled job loses its slot and its marker.
Update(j, enabled) ==
  LET r == [mem[current][j] EXCEPT !.enabled = enabled] IN
    /\ j \in DOMAIN mem[current]
    /\ Edits(j, [mem[current] EXCEPT ![j] =
                    IF enabled THEN [r EXCEPT !.next = NextRun(j, r, now)]
                               ELSE [r EXCEPT !.next = 0, !.running = 0]],
             IF ~enabled /\ Owners(j) # {} THEN {j} ELSE {}, {})

Remove(j) ==
  /\ j \in DOMAIN mem[current]
  /\ Edits(j, Without(mem[current], j), {}, {j})

\* list, status: maintenance of what is in memory.
Read ==
  /\ Loaded(current)
  /\ SavesChanges(current, Maintained(mem[current], FALSE))
  /\ UNCHANGED <<now, svc, batch, manual, current, past, left>>

ReadFails ==
  /\ Loaded(current) /\ Maintained(mem[current], FALSE) # mem[current] /\ Fails
  /\ mem' = [mem EXCEPT ![current] = Maintained(@, FALSE)]
  /\ UNCHANGED <<now, disk, svc, batch, manual, current, left>>

--------------------------------------------------------------------------------
(* Time, reloads and crashes.                                               *)

\* A run that outlasts STUCK_RUN_MS loses its marker at the next maintenance.
ClockTicks ==
  /\ now < MaxTime
  /\ now' = now + 1
  /\ past' = [past EXCEPT !.unguarded = @ \cup
                {j \in Jobs : /\ Owners(j) # {}
                              /\ \E store \in {disk} \cup {mem[s] : s \in Services} :
                                   j \in DOMAIN store /\ store[j].running \in 1..(now - Stuck)}]
  /\ UNCHANGED <<disk, mem, svc, batch, manual, current, left>>

\* A config reload: stop() the service, build and start another one.  Nothing reaches an old
\* service that is idle; one that is busy goes on.
Reload ==
  /\ current < MaxServices
  /\ current' = current + 1
  /\ \/ /\ Busy(current) /\ past.zombies < MaxZombies
        /\ svc' = [svc EXCEPT ![current].timer = FALSE, ![current + 1] = NewService]
        /\ past' = [past EXCEPT !.zombies = @ + 1]
        /\ UNCHANGED mem
     \/ /\ ~Busy(current)
        /\ svc' = [svc EXCEPT ![current] = NoService, ![current + 1] = NewService]
        /\ mem' = [mem EXCEPT ![current] = Nothing]
        /\ UNCHANGED past
  /\ UNCHANGED <<now, disk, batch, manual, left>>

\* The process dies, and the next one starts a service.  It finds the jobs again that a replaced
\* service has written back.
Crash ==
  /\ current < MaxServices
  /\ current' = current + 1
  /\ svc' = [s \in Services |-> IF s = current + 1 THEN NewService ELSE NoService]
  /\ mem' = [s \in Services |-> Nothing]
  /\ batch' = [p \in Parts |-> NoRuns]
  /\ manual' = [m \in Manuals |-> IF manual[m].at = "idle" THEN manual[m] ELSE ManualOver]
  /\ past' = [past EXCEPT !.unguarded = {}, !.zombies = 0, !.unsaved = {}, !.gone = @ \ DOMAIN disk]
  /\ left' = [j \in Jobs |-> 0]
  /\ UNCHANGED <<now, disk>>

--------------------------------------------------------------------------------

ServiceStep(s) ==
  \/ StartLoads(s) \/ StartPlans(s) \/ StartApplies(s) \/ StartArms(s) \/ StartFails(s)
  \/ TickSkips(s) \/ TickStarts(s) \/ TickCollects(s) \/ TickApplies(s) \/ TickEnds(s)
  \/ TickCollectFails(s) \/ TickApplyFails(s)

ManualStep(m) ==
  \/ \E j \in Jobs, force \in BOOLEAN : Inspect(m, j, force)
  \/ Reserve(m) \/ ReserveFails(m) \/ ManualFinishes(m) \/ ManualFinishFails(m)
  \/ \E status \in Statuses : ManualEnds(m, status) \/ ManualTimesOut(m, status)

RunStep(p, j) ==
  \/ RunStarts(p, j)
  \/ \E status \in Statuses : RunEnds(p, j, status) \/ TimesOut(p, j, status)

Caller ==
  \/ \E j \in Jobs : Add(j) \/ Remove(j) \/ \E enabled \in BOOLEAN : Update(j, enabled)
  \/ Read \/ ReadFails

Next ==
  \/ \E s \in Services : ServiceStep(s)
  \/ \E m \in Manuals : ManualStep(m)
  \/ \E p \in Parts, j \in Jobs : RunStep(p, j)
  \/ \E j \in Jobs : LeftEnds(j)
  \/ Caller \/ ClockTicks \/ Reload \/ Crash

Spec == Init /\ [][Next]_vars

\* Sections of live services get their turn, runs end, timers fire.
Fairness ==
  /\ \A s \in Services :
       /\ WF_vars(StartLoads(s) \/ StartPlans(s) \/ StartApplies(s) \/ StartArms(s))
       /\ WF_vars(TickStarts(s) \/ TickCollects(s) \/ TickApplies(s) \/ TickEnds(s))
  /\ \A p \in Parts : WF_vars(\E j \in Jobs : RunStep(p, j))

FairSpec == Spec /\ Fairness

--------------------------------------------------------------------------------
(* Properties.                                                              *)

\* Two runs of a job are never under way at once, in whatever order ticks, runs by hand and the
\* catch-up take the lock.  The code lets it happen in four cases: the job was disabled, which
\* clears its marker; the run outlasted STUCK_RUN_MS; the service was replaced by a reload while it
\* was busy, and the new one took the marker for a stale one; or a run that has timed out goes on,
\* beside which the scheduler begins one more, and one only.
OneRunAtATime ==
  \A j \in Jobs :
    Cardinality(Going(j)) + left[j] > 1 =>
      past.zombies > 0 \/ j \in past.unguarded \/ (left[j] > 0 /\ Cardinality(Going(j)) <= 1)

\* A marker in the file stands for a run that will clear it: otherwise the job is blocked for
\* STUCK_RUN_MS.  Only a failed write, or a replaced service, leaves one behind; what a crash
\* leaves is cleared at the next start.
MarkersHaveOwners ==
  svc[current].start = "up" /\ past.faults = 0 /\ past.zombies = 0 =>
    \A j \in DOMAIN disk : disk[j].running > 0 => Owners(j) # {}

\* Results applied after an edit do not undo it: a job that was removed or that completed is not
\* written back, and a disabled one is not enabled, unless a replaced service is still at work, or
\* an edit of the job is written late, after its own write has failed.
EditsSurvive ==
  [][past.zombies = 0 =>
       /\ DOMAIN disk' \cap past.gone = {}
       /\ \A j \in DOMAIN disk \cap DOMAIN disk' :
            ~disk[j].enabled /\ disk'[j].enabled => past'.edits # past.edits \/ j \in past.unsaved]_vars

\* A job that is due, in the file and in memory, and not running is run by the tick that the timer
\* starts, also if it fell due during a batch of other jobs, whatever else the service does, unless
\* a job is edited or the service is replaced, which then starts anew.
DueJobsRun ==
  \A j \in Jobs, n \in 0..MaxEdits :
    /\ svc[current].start = "up" /\ past.edits = n /\ past.zombies = 0
    /\ mem[current] = disk /\ j \in DOMAIN disk /\ Due(disk[j]) /\ disk[j].running = 0 /\ Owners(j) = {}
    ~> Going(j) # {} \/ svc[current].start # "up" \/ past.edits # n
================================================================================
