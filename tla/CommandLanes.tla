------------------------------ MODULE CommandLanes ------------------------------
(***************************************************************************)
(* One command lane as a value: the LaneState record of                    *)
(* openclaw-zero-token/src/process/command-queue.ts and the synchronous    *)
(* functions that change it.  Node runs each of these functions to its end *)
(* without interleaving, so each is an operator from lane to lane.         *)
(*                                                                         *)
(* A lane is a record                                                      *)
(*   queue          the calls that wait, in the order they were enqueued   *)
(*   active         activeTaskIds: the calls that hold a slot              *)
(*   maxConcurrent  the number of slots                                    *)
(*   generation     bumped by every reset                                  *)
(* The draining flag of the source is TRUE only inside the synchronous     *)
(* pump loop, so it is FALSE in every state between two steps and is left  *)
(* out; a task id is represented by the call it was issued for.            *)
(***************************************************************************)
EXTENDS Integers, Sequences, FiniteSets

(* The definitions marked `Mutant` are faults of the operator that follows them: each *)
(* breaks the property named, which shows that the property depends on that code.    *)

NewLane == [queue |-> <<>>, active |-> {}, maxConcurrent |-> 1, generation |-> 0]

FreeSlots(lane) ==
  IF Cardinality(lane.active) < lane.maxConcurrent
    THEN lane.maxConcurrent - Cardinality(lane.active)
    ELSE 0

\* How many calls the while loop of pump() shifts off the queue.
StartCount(lane) ==
  IF FreeSlots(lane) < Len(lane.queue) THEN FreeSlots(lane) ELSE Len(lane.queue)

Started(lane) == {lane.queue[i] : i \in 1..StartCount(lane)}

\* drainLane: start calls from the head while a slot is free.
DrainLane(lane) ==
  [lane EXCEPT !.queue  = SubSeq(lane.queue, StartCount(lane) + 1, Len(lane.queue)),
               !.active = lane.active \cup Started(lane)]

\* Mutant: unshift for push.  Breaks ImplementsLaneService.
PushFirst(lane, call) == [lane EXCEPT !.queue = <<call>> \o lane.queue]

Push(lane, call) == [lane EXCEPT !.queue = Append(lane.queue, call)]

\* Mutant: the slot is freed but the lane is not pumped.  Breaks EveryCallSettles.
CompleteTaskWithoutPump(lane, call, taskGeneration) ==
  IF taskGeneration = lane.generation THEN [lane EXCEPT !.active = lane.active \ {call}] ELSE lane

\* completeTask: a completion of an older generation changes nothing.
CompleteTask(lane, call, taskGeneration) ==
  IF taskGeneration = lane.generation
    THEN DrainLane([lane EXCEPT !.active = lane.active \ {call}])
    ELSE lane

\* Mutant: no Math.max(1, ...).  Breaks TypeOK.
SetMaxConcurrentUnclamped(lane, n) == DrainLane([lane EXCEPT !.maxConcurrent = n])

SetMaxConcurrent(lane, n) ==
  DrainLane([lane EXCEPT !.maxConcurrent = IF n < 1 THEN 1 ELSE n])

\* Mutant: lanes are reset but not drained again.  Breaks NoStrandedWork.
ResetLaneWithoutPump(lane) == [lane EXCEPT !.generation = lane.generation + 1, !.active = {}]

\* Mutant: the task ids of the old generation stay.  Breaks SlotsExact.
ResetLaneKeepingActive(lane) == DrainLane([lane EXCEPT !.generation = lane.generation + 1])

ResetLane(lane) ==
  DrainLane([lane EXCEPT !.generation = lane.generation + 1, !.active = {}])

ClearLane(lane) == [lane EXCEPT !.queue = <<>>]

Waiting(lane) == {lane.queue[i] : i \in 1..Len(lane.queue)}
================================================================================
