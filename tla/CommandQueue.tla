------------------------------ MODULE CommandQueue ------------------------------
(***************************************************************************)
(* openclaw-zero-token/src/process/command-queue.ts: the in-process queue  *)
(* that every agent run, cron job and subagent call goes through.          *)
(*                                                                         *)
(* A call is one invocation of enqueueCommandInLane.  Its task is opaque   *)
(* here: it runs from the pump that starts it until its promise settles,   *)
(* and nothing the queue does can interrupt it - resetAllLanes only        *)
(* forgets that it holds a slot.                                           *)
(***************************************************************************)
EXTENDS CommandLanes

CONSTANTS
  Lanes,            \* lane names
  Calls,            \* calls of enqueueCommandInLane
  LaneOf,           \* the lane a call names
  ConcurrencyArgs,  \* arguments given to setCommandLaneConcurrency
  MaxGeneration     \* bound: resets explored

ASSUME ConstantsAssumption ==
  /\ IsFiniteSet(Calls)
  /\ LaneOf \in [Calls -> Lanes]
  /\ ConcurrencyArgs \subseteq Int
  /\ MaxGeneration \in Nat

VARIABLES
  lanes,            \* queueState.lanes
  gatewayDraining,  \* queueState.gatewayDraining
  executing,        \* calls whose task has started and has not settled
  taskGeneration,   \* the generation captured by the closure of a started task
  promise,          \* the promise each caller holds
  enqueuedAt,       \* QueueEntry.enqueuedAt, as a place in the order of enqueueing
  drain             \* the waiter of waitForActiveTasks

vars == <<lanes, gatewayDraining, executing, taskGeneration, promise, enqueuedAt, drain>>

Promises == {"none", "pending", "resolved", "rejected", "cleared", "refused"}
DrainStates == {"idle", "polling", "drained", "timedOut"}

TypeOK ==
  /\ lanes \in [Lanes -> [queue : Seq(Calls), active : SUBSET Calls,
                          maxConcurrent : Nat \ {0}, generation : Nat]]
  /\ gatewayDraining \in BOOLEAN
  /\ executing \in SUBSET Calls
  /\ taskGeneration \in [Calls -> Nat]
  /\ promise \in [Calls -> Promises]
  /\ enqueuedAt \in [Calls -> Nat]
  /\ drain \in [state : DrainStates, activeAtStart : SUBSET Calls]

Init ==
  /\ lanes = [l \in Lanes |-> NewLane]
  /\ gatewayDraining = FALSE
  /\ executing = {}
  /\ taskGeneration = [c \in Calls |-> 0]
  /\ promise = [c \in Calls |-> "none"]
  /\ enqueuedAt = [c \in Calls |-> 0]
  /\ drain = [state |-> "idle", activeAtStart |-> {}]

\* Calls that hold a slot in the lanes `state`.
ActiveIn(state) == {c \in Calls : c \in state[LaneOf[c]].active}

\* The step leaves the lanes in `next`; the tasks that pump() put in active begin
\* in this very step, and the tasks in `settled` are over.
RunLanes(next, settled) ==
  LET begun == ActiveIn(next) \ executing IN
  /\ lanes' = next
  /\ executing' = (executing \ settled) \cup begun
  /\ taskGeneration' = [c \in Calls |-> IF c \in begun THEN next[LaneOf[c]].generation
                                        ELSE IF c \in settled THEN 0 ELSE taskGeneration[c]]

\* Later than every call enqueued so far.
NextPlace == Cardinality({c \in Calls : enqueuedAt[c] # 0}) + 1

EnqueueRefused(c) ==
  /\ promise[c] = "none"
  /\ gatewayDraining
  /\ promise' = [promise EXCEPT ![c] = "refused"]
  /\ UNCHANGED <<lanes, gatewayDraining, executing, taskGeneration, enqueuedAt, drain>>

EnqueueCommandInLane(c) ==
  /\ promise[c] = "none"
  /\ ~gatewayDraining
  /\ promise' = [promise EXCEPT ![c] = "pending"]
  /\ enqueuedAt' = [enqueuedAt EXCEPT ![c] = NextPlace]
  /\ RunLanes([lanes EXCEPT ![LaneOf[c]] = DrainLane(Push(@, c))], {})
  /\ UNCHANGED <<gatewayDraining, drain>>

\* The task of c resolves or throws: completeTask, pump, then the caller's promise.
TaskSettles(c, result) ==
  /\ c \in executing
  /\ promise' = [promise EXCEPT ![c] = result]
  /\ RunLanes([lanes EXCEPT ![LaneOf[c]] = CompleteTask(@, c, taskGeneration[c])], {c})
  /\ UNCHANGED <<gatewayDraining, enqueuedAt, drain>>

ClearCommandLane(l) ==
  /\ lanes[l].queue # <<>>
  /\ promise' = [c \in Calls |-> IF c \in Waiting(lanes[l]) THEN "cleared" ELSE promise[c]]
  /\ lanes' = [lanes EXCEPT ![l] = ClearLane(@)]
  /\ UNCHANGED <<gatewayDraining, executing, taskGeneration, enqueuedAt, drain>>

SetCommandLaneConcurrency(l, n) ==
  /\ RunLanes([lanes EXCEPT ![l] = SetMaxConcurrent(@, n)], {})
  /\ UNCHANGED <<gatewayDraining, promise, enqueuedAt, drain>>

MarkGatewayDraining ==
  /\ gatewayDraining' = TRUE
  /\ UNCHANGED <<lanes, executing, taskGeneration, promise, enqueuedAt, drain>>

ResetAllLanes ==
  /\ \A l \in Lanes : lanes[l].generation < MaxGeneration
  /\ gatewayDraining' = FALSE
  /\ RunLanes([l \in Lanes |-> ResetLane(lanes[l])], {})
  /\ UNCHANGED <<promise, enqueuedAt, drain>>

\* waitForActiveTasks takes its snapshot; a snapshot with nothing in it, and one
\* that is finished at a poll, resolves {drained: true}.
WaitForActiveTasks ==
  /\ drain.state # "polling"
  /\ drain' = [state |-> IF ActiveIn(lanes) = {} THEN "drained" ELSE "polling",
               activeAtStart |-> ActiveIn(lanes)]
  /\ UNCHANGED <<lanes, gatewayDraining, executing, taskGeneration, promise, enqueuedAt>>

\* Mutant: every() for some().  Breaks DrainedIsHonest.
AllPending == drain.activeAtStart \subseteq ActiveIn(lanes)

HasPending == drain.activeAtStart \cap ActiveIn(lanes) # {}

PollActiveTasks ==
  /\ drain.state = "polling"
  /\ ~HasPending
  /\ drain' = [state |-> "drained", activeAtStart |-> {}]
  /\ UNCHANGED <<lanes, gatewayDraining, executing, taskGeneration, promise, enqueuedAt>>

DrainDeadline ==
  /\ drain.state = "polling"
  /\ HasPending
  /\ drain' = [state |-> "timedOut", activeAtStart |-> {}]
  /\ UNCHANGED <<lanes, gatewayDraining, executing, taskGeneration, promise, enqueuedAt>>

Next ==
  \/ \E c \in Calls : EnqueueRefused(c) \/ EnqueueCommandInLane(c)
  \/ \E c \in Calls, result \in {"resolved", "rejected"} : TaskSettles(c, result)
  \/ \E l \in Lanes : ClearCommandLane(l)
  \/ \E l \in Lanes, n \in ConcurrencyArgs : SetCommandLaneConcurrency(l, n)
  \/ MarkGatewayDraining
  \/ ResetAllLanes
  \/ WaitForActiveTasks
  \/ PollActiveTasks
  \/ DrainDeadline

Spec == Init /\ [][Next]_vars

\* Each task settles (the embedded runner gives every run a timeout); nobody has to
\* enqueue, clear, resize, drain or reset.  The poll is a setTimeout that rearms itself.
Fairness ==
  /\ \A c \in Calls : WF_vars(\E result \in {"resolved", "rejected"} : TaskSettles(c, result))
  /\ WF_vars(PollActiveTasks)

FairSpec == Spec /\ Fairness

--------------------------------------------------------------------------------
(* Safety.                                                                  *)

\* A call waits only while its lane is full.  No event of the queue can be the last
\* one that would have pumped a lane: not a stale completion, not a reset, not a
\* raised limit (the worry of the comment at command-queue.ts:267-269).
NoStrandedWork ==
  \A l \in Lanes : lanes[l].queue # <<>> => Cardinality(lanes[l].active) >= lanes[l].maxConcurrent

\* The slots of a lane are exactly its running tasks of the current generation: no
\* slot leaks, and a late completion of an old generation frees none
\* (command-queue.ts:94-100, 262-264).
SlotsExact ==
  \A l \in Lanes : lanes[l].active =
    {c \in executing : LaneOf[c] = l /\ taskGeneration[c] = lanes[l].generation}

\* Every call is in one place that fits its promise, and its queue keeps the order of
\* enqueueing: what `entry` closures and `queue.shift()` rely on.
QueueMatchesPromises ==
  /\ \A l \in Lanes : \A i, j \in 1..Len(lanes[l].queue) :
       i < j => enqueuedAt[lanes[l].queue[i]] < enqueuedAt[lanes[l].queue[j]]
  /\ \A l \in Lanes : \A c \in Waiting(lanes[l]) : LaneOf[c] = l /\ c \notin executing
  /\ \A c \in Calls : promise[c] = "pending" <=>
                        c \in executing \/ c \in Waiting(lanes[LaneOf[c]])

--------------------------------------------------------------------------------
(* Action properties.                                                       *)

\* waitForActiveTasks answers {drained: true} only if every task of its snapshot is
\* over, or was written off by a reset since (command-queue.ts:302-309).
DrainedIsHonest ==
  [][ drain.state = "polling" /\ drain'.state = "drained" =>
        \A c \in drain.activeAtStart :
          c \in executing => taskGeneration[c] # lanes[LaneOf[c]].generation ]_vars

\* A task starts only into a free slot of its lane: whatever the limit was lowered to
\* and however many tasks a reset left behind, a step that starts one ends within the limit.
StartsWithinLimit ==
  [][ \A c \in executing' \ executing :
        Cardinality(lanes'[LaneOf[c]].active) <= lanes'[LaneOf[c]].maxConcurrent ]_vars

--------------------------------------------------------------------------------
(* Liveness.                                                                *)

\* An accepted call is answered, across drains, resets and resizes, and waitForActiveTasks
\* returns, even if its deadline is far away: neither tasks that start later nor tasks that a
\* reset wrote off keep it waiting.
EveryCallSettles ==
  /\ \A c \in Calls : promise[c] = "pending" ~> promise[c] \in {"resolved", "rejected", "cleared"}
  /\ drain.state = "polling" ~> drain.state # "polling"

--------------------------------------------------------------------------------
(* Refinement.                                                              *)

phase ==
  [c \in Calls |->
    IF promise[c] = "none" THEN "new"
    ELSE IF promise[c] # "pending" THEN promise[c]
    ELSE IF c \in executing THEN "executing" ELSE "waiting"]

Service == INSTANCE LaneService WITH phase <- phase, acceptedAt <- enqueuedAt

\* The queue is a lane service: each call runs at most once, in order, and gets one answer.
ImplementsLaneService == Service!Spec
================================================================================
