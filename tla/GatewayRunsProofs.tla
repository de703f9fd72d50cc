---------------------------- MODULE GatewayRunsProofs ----------------------------
(***************************************************************************)
(* Proofs about agent runs and the run loop of the gateway, for any runs,  *)
(* sessions, limits and number of restarts.                                *)
(*                                                                         *)
(* That two turns meet in a session only after a drain has timed out is    *)
(* argued so.  As long as none has, a turn that is promised belongs to a   *)
(* session task that holds the one slot of its session lane.  Only a       *)
(* restart takes slots away, and it comes after a drain that has seen all  *)
(* those tasks leave the lanes, while the closed queue let no turn begin.  *)
(***************************************************************************)
EXTENDS GatewayRuns, FiniteSetTheorems, TLAPS

--------------------------------------------------------------------------------
(* The inductive invariant.                                                 *)

Distinct(queue) == \A i, j \in 1..Len(queue) : queue[i] = queue[j] => i = j

\* What waits was promised and does not run yet, and waits once, in its lane.
QueuesKnow ==
  \A l \in Lanes :
    /\ Distinct(lanes[l].queue)
    /\ \A c \in Waiting(lanes[l]) : LaneOf(c) = l /\ promise[c] = "pending" /\ c \notin executing

\* What holds a slot runs, and was started in the present generation of its lane.
SlotsKnow ==
  \A l \in Lanes : \A c \in lanes[l].active :
    LaneOf(c) = l /\ c \in executing /\ taskGeneration[c] = lanes[l].generation

ExecutingIsPromised == \A c \in executing : promise[c] = "pending"

\* The turn of a run is asked for by its session task.
TurnsComeFromSessionTasks ==
  \A r \in Runs : promise[<<"global", r>>] # "none" =>
    <<"session", r>> \in executing \/ promise[<<"session", r>>] = "settled"

SessionLanesHaveOneSlot ==
  \A s \in Sessions : /\ lanes[s].maxConcurrent = 1
                      /\ \A c, d \in lanes[s].active : c = d

Promised(r) == promise[<<"global", r>>] = "pending"
HoldsSession(r) == <<"session", r>> \in lanes[SessionOf[r]].active

TurnsHoldTheirSession == past.timedOut \/ \A r \in Runs : Promised(r) => HoldsSession(r)

\* A restart closes the queue, and the lock is given up for it at its end only.
RestartsCloseTheQueue ==
  /\ shutdown.phase \in {"draining", "reacquiring"} => shutdown.action = "restart"
  /\ shutdown.action = "restart" => gatewayDraining
  /\ shutdown.hadLock => shutdown.phase = "reacquiring"

\* A drain waits for the session task of every turn that is promised.
DrainWaitsForTurns ==
  shutdown.phase = "draining" /\ ~past.timedOut =>
    \A r \in Runs : Promised(r) => drain.tasks # "drained" /\ <<"session", r>> \in drain.activeAtStart

\* After a drain that did not time out no turn is promised.
DrainedOfTurns ==
  shutdown.action = "restart" /\ shutdown.phase # "draining" /\ ~past.timedOut =>
    \A r \in Runs : ~Promised(r)

\* The lock is lost by a failed start only.
LiveUnderLock ==
  /\ Alive => lockHeld \/ past.failedStart \/ shutdown.hadLock
  /\ listening => Alive

\* The registry holds a run under its own session.
EntriesInTheirSession == \A s \in Sessions : activeRuns[s] \in Runs => SessionOf[activeRuns[s]] = s

IInv ==
  /\ TypeOK
  /\ QueuesKnow
  /\ SlotsKnow
  /\ ExecutingIsPromised
  /\ TurnsComeFromSessionTasks
  /\ SessionLanesHaveOneSlot
  /\ TurnsHoldTheirSession
  /\ RestartsCloseTheQueue
  /\ DrainWaitsForTurns
  /\ DrainedOfTurns
  /\ LiveUnderLock
  /\ ClosedQueueHasACause
  /\ EntriesInTheirSession
  /\ RegistryKnowsNewest

--------------------------------------------------------------------------------
(* Commands and lanes.                                                      *)

LaneType(S) == [queue : Seq(S), active : SUBSET S, maxConcurrent : Nat \ {0}, generation : Nat]

\* The pump starts at most as many calls as wait and as there are free slots.
LEMMA StartCountBounds ==
  ASSUME NEW S, IsFiniteSet(S), NEW lane \in LaneType(S)
  PROVE  /\ Cardinality(lane.active) \in Nat
         /\ IsFiniteSet(lane.active)
         /\ StartCount(lane) \in 0..Len(lane.queue)
         /\ StartCount(lane) > 0 => Cardinality(lane.active) + StartCount(lane) <= lane.maxConcurrent
         /\ StartCount(lane) < Len(lane.queue) =>
              Cardinality(lane.active) + StartCount(lane) >= lane.maxConcurrent
<1>1. lane.active \in SUBSET S /\ lane.maxConcurrent \in Nat \ {0} /\ Len(lane.queue) \in Nat
  BY DEF LaneType
<1>2. IsFiniteSet(lane.active) /\ Cardinality(lane.active) \in Nat
  BY <1>1, FS_Subset, FS_CardinalityType
<1>. QED BY <1>1, <1>2 DEF StartCount, FreeSlots

\* drainLane keeps the lane's type, limit and generation.
LEMMA DrainLaneType ==
  ASSUME NEW S, IsFiniteSet(S), NEW lane \in LaneType(S)
  PROVE  /\ DrainLane(lane) \in LaneType(S)
         /\ DrainLane(lane).queue = SubSeq(lane.queue, StartCount(lane) + 1, Len(lane.queue))
         /\ DrainLane(lane).active = lane.active \cup Started(lane)
         /\ DrainLane(lane).maxConcurrent = lane.maxConcurrent
         /\ DrainLane(lane).generation = lane.generation
         /\ Started(lane) \subseteq Waiting(lane)
         /\ Waiting(lane) \subseteq S
<1>1. StartCount(lane) \in 0..Len(lane.queue)
  BY StartCountBounds
<1>2. lane.queue \in Seq(S) /\ Len(lane.queue) \in Nat
  BY DEF LaneType
<1>3. SubSeq(lane.queue, StartCount(lane) + 1, Len(lane.queue)) \in Seq(S)
  BY <1>1, <1>2
<1>4. Started(lane) \subseteq Waiting(lane) /\ Waiting(lane) \subseteq S
  BY <1>1, <1>2 DEF Started, Waiting
<1>. QED BY <1>3, <1>4 DEF DrainLane, LaneType

\* What stays in the queue is its tail, at indices shifted by the calls that started.
LEMMA DrainLaneQueue ==
  ASSUME NEW S, IsFiniteSet(S), NEW lane \in LaneType(S)
  PROVE  /\ StartCount(lane) \in 0..Len(lane.queue)
         /\ Len(lane.queue) \in Nat
         /\ Len(DrainLane(lane).queue) = Len(lane.queue) - StartCount(lane)
         /\ \A i \in 1..Len(DrainLane(lane).queue) :
              /\ i + StartCount(lane) \in 1..Len(lane.queue)
              /\ DrainLane(lane).queue[i] = lane.queue[i + StartCount(lane)]
<1>1. StartCount(lane) \in 0..Len(lane.queue)
  BY StartCountBounds
<1>2. lane.queue \in Seq(S) /\ Len(lane.queue) \in Nat
  BY DEF LaneType
<1>3. DrainLane(lane).queue = SubSeq(lane.queue, StartCount(lane) + 1, Len(lane.queue))
  BY DrainLaneType
<1>4. Len(DrainLane(lane).queue) = Len(lane.queue) - StartCount(lane)
  <2>1. \A q \in Seq(S) : \A k \in 0..Len(q) : Len(SubSeq(q, k + 1, Len(q))) = Len(q) - k
    OBVIOUS
  <2>. QED BY <1>1, <1>2, <1>3, <2>1
<1>5. ASSUME NEW i \in 1..Len(DrainLane(lane).queue)
      PROVE  /\ i + StartCount(lane) \in 1..Len(lane.queue)
             /\ DrainLane(lane).queue[i] = lane.queue[i + StartCount(lane)]
  <2>1. i \in Nat /\ 1 <= i /\ i <= Len(lane.queue) - StartCount(lane)
    BY <1>1, <1>2, <1>4, <1>5
  <2>2. i + StartCount(lane) \in 1..Len(lane.queue)
    BY <1>1, <1>2, <2>1
  <2>. QED BY <1>1, <1>2, <1>3, <2>1, <2>2
<1>. QED BY <1>1, <1>2, <1>4, <1>5

Lane == LaneType(Commands)
Promises == {"none", "pending"} \cup Settled

\* The commands of a run, and the lanes they go to.
LEMMA CommandFacts ==
  /\ IsFiniteSet(Commands)
  /\ \A r \in Runs : /\ <<"job", r>> \in Commands
                     /\ <<"session", r>> \in Commands
                     /\ <<"global", r>> \in Commands
                     /\ LaneOf(<<"session", r>>) = SessionOf[r]
                     /\ Inner(<<"session", r>>) = <<"global", r>>
  /\ \A c \in Commands : /\ c[1] \in {"job", "session", "global"} /\ c[2] \in Runs
                         /\ c = <<c[1], c[2]>>
                         /\ LaneOf(c) \in Lanes
                         /\ c[1] = "session" => LaneOf(c) \in Sessions
                         /\ c[1] # "session" => LaneOf(c) \notin Sessions
  /\ \A r \in Runs : SessionOf[r] \in Sessions
  /\ Sessions \subseteq Lanes /\ GlobalLanes \subseteq Lanes
<1>1. IsFiniteSet(Commands)
  <2>1. IsFiniteSet({"job", "session", "global"})
    <3>1. IsFiniteSet({"job"}) /\ IsFiniteSet({"session"}) /\ IsFiniteSet({"global"})
      BY FS_Singleton
    <3>2. IsFiniteSet({"job"} \cup {"session"})
      BY <3>1, FS_Union
    <3>3. IsFiniteSet(({"job"} \cup {"session"}) \cup {"global"})
      BY <3>1, <3>2, FS_Union
    <3>4. ({"job"} \cup {"session"}) \cup {"global"} = {"job", "session", "global"}
      OBVIOUS
    <3>. QED BY <3>3, <3>4
  <2>. QED BY <2>1, FS_Product, RunsAssumption DEF Commands
<1>2. \A c \in Commands : /\ c[1] \in {"job", "session", "global"} /\ c[2] \in Runs
                          /\ c = <<c[1], c[2]>>
  BY DEF Commands
<1>3. \A r \in Runs : SessionOf[r] \in Sessions
  BY RunsAssumption
<1>4. \A r \in Runs : ResolveGlobalLane(LaneArg[r]) \in GlobalLanes
  <2>1. \A r \in Runs : LaneArg[r] \in GlobalLanes \cup {""}
    BY RunsAssumption
  <2>. QED BY <2>1 DEF ResolveGlobalLane, GlobalLanes
<1>5. \A c \in Commands : /\ c[1] = "session" => LaneOf(c) = SessionOf[c[2]]
                          /\ c[1] # "session" => LaneOf(c) \in GlobalLanes
  <2>1. SUFFICES ASSUME NEW c \in Commands
                 PROVE  /\ c[1] = "session" => LaneOf(c) = SessionOf[c[2]]
                        /\ c[1] # "session" => LaneOf(c) \in GlobalLanes
    OBVIOUS
  <2>2. CASE c[1] = "job"
    BY <2>2 DEF LaneOf, GlobalLanes
  <2>3. CASE c[1] = "session"
    BY <2>3 DEF LaneOf, ResolveSessionLane
  <2>4. CASE c[1] = "global"
    <3>1. LaneOf(c) = ResolveGlobalLane(LaneArg[c[2]])
      BY <2>4 DEF LaneOf
    <3>. QED BY <1>2, <1>4, <2>4, <3>1
  <2>. QED BY <1>2, <2>2, <2>3, <2>4
<1>6. Sessions \subseteq Lanes /\ GlobalLanes \subseteq Lanes /\ Sessions \cap GlobalLanes = {}
  BY RunsAssumption DEF Lanes
<1>7. \A r \in Runs : /\ <<"job", r>> \in Commands
                      /\ <<"session", r>> \in Commands
                      /\ <<"global", r>> \in Commands
  BY DEF Commands
<1>8. \A r \in Runs : LaneOf(<<"session", r>>) = SessionOf[r]
  BY <1>5, <1>7
<1>9. \A r \in Runs : Inner(<<"session", r>>) = <<"global", r>>
  BY DEF Inner
<1>10. \A c \in Commands : /\ LaneOf(c) \in Lanes
                           /\ c[1] = "session" => LaneOf(c) \in Sessions
                           /\ c[1] # "session" => LaneOf(c) \notin Sessions
  BY <1>2, <1>3, <1>5, <1>6
<1>. QED BY <1>1, <1>2, <1>3, <1>6, <1>7, <1>8, <1>9, <1>10

\* TypeOK, component by component.
LEMMA Types ==
  ASSUME TypeOK
  PROVE  /\ lanes \in [Lanes -> Lane]
         /\ \A l \in Lanes : /\ lanes[l] \in Lane
                             /\ lanes[l].active \subseteq Commands
                             /\ Waiting(lanes[l]) \subseteq Commands
         /\ gatewayDraining \in BOOLEAN
         /\ executing \subseteq Commands
         /\ taskGeneration \in [Commands -> Nat]
         /\ promise \in [Commands -> Promises]
         /\ activeRuns \in [Sessions -> Runs \cup {NoRun}]
         /\ registration \in [Runs -> {"no", "yes", "replaced", "over"}]
<1>1. /\ lanes \in [Lanes -> Lane]
      /\ gatewayDraining \in BOOLEAN
      /\ executing \subseteq Commands
      /\ taskGeneration \in [Commands -> Nat]
      /\ promise \in [Commands -> Promises]
      /\ activeRuns \in [Sessions -> Runs \cup {NoRun}]
      /\ registration \in [Runs -> {"no", "yes", "replaced", "over"}]
  BY DEF TypeOK, Lane, LaneType, Promises
<1>2. \A l \in Lanes : /\ lanes[l] \in Lane
                       /\ lanes[l].active \subseteq Commands
                       /\ Waiting(lanes[l]) \subseteq Commands
  <2>1. \A l \in Lanes : lanes[l] \in Lane
    BY <1>1
  <2>. QED BY <2>1, DrainLaneType, CommandFacts DEF Lane, LaneType
<1>. QED BY <1>1, <1>2

\* A pump takes calls from the queue to the slots, and no call is in both or in the queue twice.
LEMMA DrainKeepsDistinct ==
  ASSUME NEW lane \in Lane, Distinct(lane.queue)
  PROVE  /\ DrainLane(lane) \in Lane
         /\ Distinct(DrainLane(lane).queue)
         /\ Waiting(DrainLane(lane)) \subseteq Waiting(lane)
         /\ lane.active \subseteq DrainLane(lane).active
         /\ \A c \in DrainLane(lane).active : c \notin lane.active =>
              c \in Waiting(lane) /\ c \notin Waiting(DrainLane(lane))
         /\ DrainLane(lane).maxConcurrent = lane.maxConcurrent
         /\ DrainLane(lane).generation = lane.generation
<1>. DEFINE n == StartCount(lane)
            rest == DrainLane(lane).queue
<1>1. /\ DrainLane(lane) \in Lane
      /\ DrainLane(lane).active = lane.active \cup Started(lane)
      /\ DrainLane(lane).maxConcurrent = lane.maxConcurrent
      /\ DrainLane(lane).generation = lane.generation
      /\ Started(lane) \subseteq Waiting(lane)
  BY DrainLaneType, CommandFacts DEF Lane
<1>2. /\ n \in 0..Len(lane.queue) /\ Len(lane.queue) \in Nat
      /\ Len(rest) = Len(lane.queue) - n
      /\ \A i \in 1..Len(rest) : i + n \in 1..Len(lane.queue) /\ rest[i] = lane.queue[i + n]
  BY DrainLaneQueue, CommandFacts DEF Lane
<1>3. Started(lane) = {lane.queue[i] : i \in 1..n}
  BY DEF Started
<1>. HIDE DEF n, rest
<1>4. Distinct(rest)
  <2>1. SUFFICES ASSUME NEW i \in 1..Len(rest), NEW j \in 1..Len(rest), rest[i] = rest[j]
                 PROVE  i = j
    BY DEF Distinct
  <2>2. i + n = j + n
    BY <1>2, <2>1 DEF Distinct
  <2>. QED BY <1>2, <2>2
<1>5. Waiting(DrainLane(lane)) = {rest[i] : i \in 1..Len(rest)}
  BY DEF Waiting, rest
<1>6. Waiting(DrainLane(lane)) \subseteq Waiting(lane)
  <2>1. SUFFICES ASSUME NEW i \in 1..Len(rest)  PROVE rest[i] \in Waiting(lane)
    BY <1>5
  <2>2. i + n \in 1..Len(lane.queue) /\ rest[i] = lane.queue[i + n]
    BY <1>2
  <2>. QED BY <2>2 DEF Waiting
<1>7. \A c \in Started(lane) : c \notin Waiting(DrainLane(lane))
  <2>1. SUFFICES ASSUME NEW i \in 1..n, NEW j \in 1..Len(rest), lane.queue[i] = rest[j]
                 PROVE  FALSE
    BY <1>3, <1>5
  <2>2. i \in 1..Len(lane.queue) /\ j + n \in 1..Len(lane.queue)
    BY <1>2
  <2>3. i = j + n
    BY <1>2, <2>1, <2>2 DEF Distinct
  <2>. QED BY <1>2, <2>3
<1>. QED BY <1>1, <1>4, <1>6, <1>7 DEF rest

\* A pump of a lane with one slot leaves at most one call in it.
LEMMA DrainKeepsOneSlot ==
  ASSUME NEW lane \in Lane, lane.maxConcurrent = 1, \A c, d \in lane.active : c = d
  PROVE  \A c, d \in DrainLane(lane).active : c = d
<1>1. /\ Cardinality(lane.active) \in Nat /\ IsFiniteSet(lane.active)
      /\ StartCount(lane) \in 0..Len(lane.queue) /\ Len(lane.queue) \in Nat
      /\ StartCount(lane) > 0 => Cardinality(lane.active) + StartCount(lane) <= 1
  BY StartCountBounds, CommandFacts DEF Lane, LaneType
<1>2. DrainLane(lane).active = lane.active \cup Started(lane)
  BY DrainLaneType, CommandFacts DEF Lane
<1>3. CASE StartCount(lane) = 0
  <2>1. Started(lane) = {}
    BY <1>3 DEF Started
  <2>. QED BY <1>2, <2>1
<1>4. CASE StartCount(lane) > 0
  <2>1. Cardinality(lane.active) = 0 /\ StartCount(lane) = 1
    BY <1>1, <1>4
  <2>2. lane.active = {}
    BY <1>1, <2>1, FS_EmptySet
  <2>3. Started(lane) = {lane.queue[1]}
    BY <2>1 DEF Started
  <2>. QED BY <1>2, <2>2, <2>3
<1>. QED BY <1>1, <1>3, <1>4

\* Calls that come to a lane, each once, and that do not wait in it yet.
LEMMA MoreAreDistinct ==
  ASSUME NEW lane \in Lane, Distinct(lane.queue),
         NEW more \in Seq(Commands), Distinct(more),
         \A i \in 1..Len(more) : more[i] \notin Waiting(lane),
         NEW longer \in Lane, longer.queue = lane.queue \o more
  PROVE  /\ Distinct(longer.queue)
         /\ \A c \in Waiting(longer) : c \in Waiting(lane) \/ \E i \in 1..Len(more) : c = more[i]
<1>. DEFINE q == lane.queue \o more
<1>1. /\ lane.queue \in Seq(Commands) /\ Len(lane.queue) \in Nat /\ Len(more) \in Nat
      /\ q \in Seq(Commands)
      /\ Len(q) = Len(lane.queue) + Len(more)
  BY DEF Lane, LaneType
<1>2. \A i \in 1..Len(q) :
        \/ i \in 1..Len(lane.queue) /\ q[i] = lane.queue[i]
        \/ i - Len(lane.queue) \in 1..Len(more) /\ q[i] = more[i - Len(lane.queue)]
  BY <1>1
<1>3. longer.queue = q
  OBVIOUS
<1>. HIDE DEF q
<1>5. Distinct(q)
  <2>1. ASSUME NEW i \in 1..Len(q), NEW j \in 1..Len(q), q[i] = q[j], i < j
        PROVE  FALSE
    <3>1. CASE j \in 1..Len(lane.queue) /\ q[j] = lane.queue[j]
      <4>1. i \in 1..Len(lane.queue) /\ ~(i - Len(lane.queue) \in 1..Len(more))
        BY <1>1, <2>1, <3>1
      <4>2. q[i] = lane.queue[i]
        BY <1>2, <2>1, <4>1
      <4>. QED BY <2>1, <3>1, <4>1, <4>2 DEF Distinct
    <3>2. CASE j - Len(lane.queue) \in 1..Len(more) /\ q[j] = more[j - Len(lane.queue)]
      <4>1. CASE i \in 1..Len(lane.queue) /\ q[i] = lane.queue[i]
        BY <2>1, <3>2, <4>1 DEF Waiting
      <4>2. CASE i - Len(lane.queue) \in 1..Len(more) /\ q[i] = more[i - Len(lane.queue)]
        <5>1. i - Len(lane.queue) = j - Len(lane.queue)
          BY <2>1, <3>2, <4>2 DEF Distinct
        <5>. QED BY <1>1, <2>1, <5>1
      <4>. QED BY <1>2, <4>1, <4>2
    <3>. QED BY <1>2, <3>1, <3>2
  <2>2. \A i, j \in 1..Len(q) : i = j \/ i < j \/ j < i
    BY <1>1
  <2>. QED BY <2>1, <2>2 DEF Distinct
<1>6. \A c \in Waiting(longer) : c \in Waiting(lane) \/ \E i \in 1..Len(more) : c = more[i]
  BY <1>2, <1>3 DEF Waiting
<1>. QED BY <1>3, <1>5, <1>6

\* A call that comes to a lane.
LEMMA PushFacts ==
  ASSUME NEW lane \in Lane, Distinct(lane.queue), NEW c \in Commands, c \notin Waiting(lane)
  PROVE  /\ Push(lane, c) \in Lane
         /\ Distinct(Push(lane, c).queue)
         /\ \A d \in Waiting(Push(lane, c)) : d \in Waiting(lane) \/ d = c
         /\ Push(lane, c).active = lane.active
         /\ Push(lane, c).maxConcurrent = lane.maxConcurrent
         /\ Push(lane, c).generation = lane.generation
<1>. DEFINE q == Append(lane.queue, c)
<1>1. lane.queue \in Seq(Commands) /\ Len(lane.queue) \in Nat
  BY DEF Lane, LaneType
<1>2. /\ q \in Seq(Commands) /\ Len(q) = Len(lane.queue) + 1
      /\ \A i \in 1..Len(lane.queue) : q[i] = lane.queue[i]
      /\ q[Len(lane.queue) + 1] = c
  BY <1>1
<1>3. Push(lane, c) = [lane EXCEPT !.queue = q]
  BY DEF Push
<1>. HIDE DEF q
<1>4. /\ Push(lane, c).queue = q
      /\ Push(lane, c).active = lane.active
      /\ Push(lane, c).maxConcurrent = lane.maxConcurrent
      /\ Push(lane, c).generation = lane.generation
      /\ Push(lane, c) \in Lane
  BY <1>2, <1>3 DEF Lane, LaneType
<1>5. \A i \in 1..Len(q) : i \in 1..Len(lane.queue) \/ i = Len(lane.queue) + 1
  BY <1>1, <1>2
<1>6. Distinct(q)
  BY <1>1, <1>2, <1>5 DEF Distinct, Waiting
<1>7. \A d \in Waiting(Push(lane, c)) : d \in Waiting(lane) \/ d = c
  BY <1>2, <1>4, <1>5 DEF Waiting
<1>. QED BY <1>4, <1>6, <1>7

--------------------------------------------------------------------------------
(* A step that runs the lanes.                                              *)

\* What a step must leave before the session tasks that it started enqueue their turns:
\* the lanes `next`, the tasks `settled` and the promises `answers`.
Ready(next, settled, answers) ==
  /\ next \in [Lanes -> Lane]
  /\ answers \in [Commands -> Promises]
  /\ \A l \in Lanes :
       /\ Distinct(next[l].queue)
       /\ \A c \in Waiting(next[l]) : /\ LaneOf(c) = l /\ answers[c] = "pending"
                                      /\ c \notin executing /\ c \notin next[l].active
       /\ \A c \in next[l].active : /\ LaneOf(c) = l /\ answers[c] = "pending" /\ c \notin settled
                                    /\ c \in executing => taskGeneration[c] = next[l].generation
  /\ \A c \in settled : answers[c] = "settled"
  /\ \A c \in executing \ settled : answers[c] = "pending"
  /\ \A r \in Runs : answers[<<"global", r>>] # "none" =>
       <<"session", r>> \in executing \ settled \/ answers[<<"session", r>>] = "settled"
  /\ \A s \in Sessions : /\ next[s].maxConcurrent = 1
                         /\ \A c, d \in next[s].active : c = d

\* The orders in which commands may come to their lanes.
LEMMA OrderFacts ==
  ASSUME NEW commands \in SUBSET Commands, NEW order \in Orders(commands)
  PROVE  /\ DOMAIN order = {LaneOf(c) : c \in commands}
         /\ \A l \in DOMAIN order :
              /\ order[l] \in Seq(Commands) /\ Distinct(order[l])
              /\ \A i \in 1..Len(order[l]) : order[l][i] \in commands /\ LaneOf(order[l][i]) = l
<1>. DEFINE to == {LaneOf(c) : c \in commands}
            in(l) == {c \in commands : LaneOf(c) = l}
            orders == [l \in to |-> SetToSeqs(in(l))]
<1>1. order \in [to -> UNION {orders[l] : l \in to}] /\ \A l \in to : order[l] \in orders[l]
  BY DEF Orders
<1>2. ASSUME NEW l \in to
      PROVE  /\ order[l] \in Seq(Commands) /\ Distinct(order[l])
             /\ \A i \in 1..Len(order[l]) : order[l][i] \in commands /\ LaneOf(order[l][i]) = l
  <2>1. order[l] \in SetToSeqs(in(l))
    BY <1>1
  <2>2. in(l) \subseteq commands /\ \A c \in in(l) : LaneOf(c) = l
    OBVIOUS
  <2>. HIDE DEF in
  <2>3. /\ order[l] \in [1..Cardinality(in(l)) -> in(l)]
        /\ \A i, j \in 1..Cardinality(in(l)) : i # j => order[l][i] # order[l][j]
    BY <2>1 DEF SetToSeqs
  <2>4. Cardinality(in(l)) \in Nat
    <3>1. IsFiniteSet(in(l))
      BY <2>2, CommandFacts, FS_Subset
    <3>. QED BY <3>1, FS_CardinalityType
  <2>5. Len(order[l]) = Cardinality(in(l)) /\ order[l] \in Seq(Commands)
    BY <2>2, <2>3, <2>4
  <2>. QED BY <2>2, <2>3, <2>5 DEF Distinct
<1>. QED BY <1>1, <1>2

\* RunLanes keeps what the invariant says of the lanes.  The promises of turns that it adds are
\* those of session tasks that hold their slot, and none when the queue is closed.
LEMMA RunLanesKeeps ==
  ASSUME NEW next, NEW settled, NEW answers,
         executing \subseteq Commands, taskGeneration \in [Commands -> Nat],
         settled \subseteq executing,
         Ready(next, settled, answers),
         RunLanes(next, settled, answers)
  PROVE  /\ lanes' \in [Lanes -> Lane]
         /\ executing' \subseteq Commands
         /\ taskGeneration' \in [Commands -> Nat]
         /\ promise' \in [Commands -> Promises]
         /\ QueuesKnow' /\ SlotsKnow' /\ ExecutingIsPromised'
         /\ TurnsComeFromSessionTasks' /\ SessionLanesHaveOneSlot'
         /\ \A l \in Lanes : next[l].active \subseteq lanes'[l].active
         /\ \A r \in Runs : promise'[<<"global", r>>] = "pending" =>
              \/ answers[<<"global", r>>] = "pending"
              \/ ~gatewayDraining' /\ <<"session", r>> \in next[SessionOf[r]].active
<1>. DEFINE inner == {Inner(c) : c \in Opened(next)}
            sent == IF gatewayDraining' THEN {} ELSE inner
<1>1. PICK order \in Orders(sent) :
        LET final == PushAll(next, order)
            begun == ActiveIn(final) \ executing
        IN
        /\ lanes' = final
        /\ executing' = (executing \ settled) \cup begun
        /\ taskGeneration' = [c \in Commands |-> IF c \in begun THEN final[LaneOf(c)].generation
                                                 ELSE IF c \in settled THEN 0 ELSE taskGeneration[c]]
        /\ promise' = [c \in Commands |-> IF c \in inner
                                            THEN IF gatewayDraining' THEN "refused" ELSE "pending"
                                            ELSE answers[c]]
  BY DEF RunLanes
<1>. DEFINE final == PushAll(next, order)
            begun == ActiveIn(final) \ executing
<1>2. /\ lanes' = final
      /\ executing' = (executing \ settled) \cup begun
      /\ taskGeneration' = [c \in Commands |-> IF c \in begun THEN final[LaneOf(c)].generation
                                               ELSE IF c \in settled THEN 0 ELSE taskGeneration[c]]
      /\ promise' = [c \in Commands |-> IF c \in inner
                                          THEN IF gatewayDraining' THEN "refused" ELSE "pending"
                                          ELSE answers[c]]
  BY <1>1
<1>3. /\ next \in [Lanes -> Lane]
      /\ answers \in [Commands -> Promises]
      /\ \A l \in Lanes :
           /\ next[l] \in Lane
           /\ Distinct(next[l].queue)
           /\ \A c \in Waiting(next[l]) : /\ LaneOf(c) = l /\ answers[c] = "pending"
                                          /\ c \notin executing /\ c \notin next[l].active
           /\ \A c \in next[l].active : /\ LaneOf(c) = l /\ answers[c] = "pending" /\ c \notin settled
                                        /\ c \in executing => taskGeneration[c] = next[l].generation
           /\ Waiting(next[l]) \subseteq Commands /\ next[l].active \subseteq Commands
      /\ \A c \in settled : answers[c] = "settled"
      /\ \A c \in executing \ settled : answers[c] = "pending"
  <2>1. next \in [Lanes -> Lane]
    BY DEF Ready
  <2>2. \A l \in Lanes : next[l] \in Lane
    BY <2>1
  <2>3. \A l \in Lanes : Waiting(next[l]) \subseteq Commands /\ next[l].active \subseteq Commands
    BY <2>2, DrainLaneType, CommandFacts DEF Lane, LaneType
  <2>. QED BY <2>1, <2>2, <2>3 DEF Ready
<1>4. \A r \in Runs : answers[<<"global", r>>] # "none" =>
        <<"session", r>> \in executing \ settled \/ answers[<<"session", r>>] = "settled"
  BY DEF Ready
<1>5. \A s \in Sessions : next[s].maxConcurrent = 1 /\ \A c, d \in next[s].active : c = d
  BY DEF Ready
<1>6. \A c \in ActiveIn(next) : c \in Commands /\ c \in next[LaneOf(c)].active
  BY DEF ActiveIn
<1>7. \A c \in inner : \E r \in Runs :
        /\ c = <<"global", r>> /\ <<"session", r>> \in ActiveIn(next) \ executing
  <2>1. SUFFICES ASSUME NEW d \in Opened(next)
                 PROVE  \E r \in Runs : /\ Inner(d) = <<"global", r>>
                                        /\ <<"session", r>> \in ActiveIn(next) \ executing
    OBVIOUS
  <2>2. d \in ActiveIn(next) \ executing /\ d[1] = "session"
    BY DEF Opened
  <2>3. d[2] \in Runs /\ d = <<"session", d[2]>>
    BY <1>6, <2>2, CommandFacts
  <2>. QED BY <2>2, <2>3 DEF Inner
<1>. HIDE DEF inner
<1>8. \A c \in inner : /\ c \in Commands /\ c[1] = "global" /\ answers[c] = "none"
                       /\ LaneOf(c) \in Lanes /\ LaneOf(c) \notin Sessions
  <2>1. SUFFICES ASSUME NEW r \in Runs, <<"session", r>> \in ActiveIn(next) \ executing
                 PROVE  /\ <<"global", r>> \in Commands /\ <<"global", r>>[1] = "global"
                        /\ answers[<<"global", r>>] = "none"
                        /\ LaneOf(<<"global", r>>) \in Lanes
                        /\ LaneOf(<<"global", r>>) \notin Sessions
    BY <1>7
  <2>2. answers[<<"session", r>>] = "pending"
    BY <1>3, <1>6, <2>1, CommandFacts
  <2>3. answers[<<"global", r>>] = "none"
    BY <1>4, <2>1, <2>2
  <2>4. <<"global", r>> \in Commands /\ <<"global", r>>[1] = "global"
    BY CommandFacts
  <2>. QED BY <2>3, <2>4, CommandFacts
<1>9. \A c \in inner : /\ c \notin executing
                       /\ \A l \in Lanes : c \notin Waiting(next[l]) /\ c \notin next[l].active
  BY <1>3, <1>8
<1>10. \A r \in Runs : <<"session", r>> \notin inner
  BY <1>8
<1>11. sent \subseteq Commands /\ sent \subseteq inner /\ (gatewayDraining' => sent = {})
  BY <1>8
<1>. HIDE DEF sent
<1>12. /\ DOMAIN order = {LaneOf(c) : c \in sent}
       /\ \A l \in DOMAIN order :
            /\ order[l] \in Seq(Commands) /\ Distinct(order[l])
            /\ \A i \in 1..Len(order[l]) : order[l][i] \in sent /\ LaneOf(order[l][i]) = l
  BY <1>1, <1>11, OrderFacts
<1>13. ASSUME NEW l \in Lanes
       PROVE  /\ final[l] \in Lane
              /\ Distinct(final[l].queue)
              /\ \A c \in Waiting(final[l]) :
                   /\ c \in Waiting(next[l]) \/ (c \in sent /\ LaneOf(c) = l)
                   /\ c \notin final[l].active
              /\ next[l].active \subseteq final[l].active
              /\ \A c \in final[l].active :
                   c \in next[l].active \/ c \in Waiting(next[l]) \/ (c \in sent /\ LaneOf(c) = l)
              /\ final[l].generation = next[l].generation
              /\ l \in Sessions => final[l] = next[l]
  <2>1. CASE l \notin DOMAIN order
    <3>1. final[l] = next[l]
      BY <2>1 DEF PushAll
    <3>. QED BY <1>3, <3>1
  <2>2. CASE l \in DOMAIN order
    <3>0. PICK longer : longer = [next[l] EXCEPT !.queue = @ \o order[l]]
      OBVIOUS
    <3>1. final[l] = DrainLane(longer)
      BY <2>2, <3>0 DEF PushAll
    <3>2. \A i \in 1..Len(order[l]) : order[l][i] \in sent /\ LaneOf(order[l][i]) = l
      BY <1>12, <2>2
    <3>3. \A i \in 1..Len(order[l]) : order[l][i] \notin Waiting(next[l])
      BY <1>9, <1>11, <3>2
    <3>4. /\ longer \in Lane
          /\ Distinct(longer.queue)
          /\ \A c \in Waiting(longer) : c \in Waiting(next[l]) \/ \E i \in 1..Len(order[l]) : c = order[l][i]
          /\ longer.active = next[l].active
          /\ longer.generation = next[l].generation
      <4>1. /\ next[l] \in Lane /\ Distinct(next[l].queue)
            /\ order[l] \in Seq(Commands) /\ Distinct(order[l])
        BY <1>3, <1>12, <2>2
      <4>2. /\ longer \in Lane /\ longer.queue = next[l].queue \o order[l]
            /\ longer.active = next[l].active
            /\ longer.generation = next[l].generation
        <5>1. next[l].queue \o order[l] \in Seq(Commands)
          BY <4>1 DEF Lane, LaneType
        <5>2. PICK q : q = next[l].queue \o order[l]
          OBVIOUS
        <5>3. longer = [next[l] EXCEPT !.queue = q] /\ q \in Seq(Commands)
          BY <3>0, <5>1, <5>2
        <5>4. longer.queue = q /\ longer.active = next[l].active /\ longer.generation = next[l].generation
          BY <4>1, <5>3 DEF Lane, LaneType
        <5>5. longer \in Lane
          BY <4>1, <5>3 DEF Lane, LaneType
        <5>. QED BY <5>2, <5>4, <5>5
      <4>. QED BY <3>3, <4>1, <4>2, MoreAreDistinct
    <3>5. \A c \in Waiting(longer) : c \in Waiting(next[l]) \/ (c \in sent /\ LaneOf(c) = l)
      BY <3>2, <3>4
    <3>6. /\ DrainLane(longer) \in Lane
          /\ Distinct(DrainLane(longer).queue)
          /\ Waiting(DrainLane(longer)) \subseteq Waiting(longer)
          /\ longer.active \subseteq DrainLane(longer).active
          /\ \A c \in DrainLane(longer).active : c \notin longer.active =>
               c \in Waiting(longer) /\ c \notin Waiting(DrainLane(longer))
          /\ DrainLane(longer).generation = longer.generation
      BY <3>4, DrainKeepsDistinct
    <3>7. l \notin Sessions
      BY <1>8, <1>11, <1>12, <2>2
    <3>8. \A c \in Waiting(DrainLane(longer)) : c \notin next[l].active
      BY <1>3, <1>9, <1>11, <3>5, <3>6
    <3>. HIDE DEF final
    <3>9. /\ final[l] \in Lane /\ Distinct(final[l].queue)
          /\ next[l].active \subseteq final[l].active
          /\ final[l].generation = next[l].generation
      BY <3>1, <3>4, <3>6
    <3>10. \A c \in Waiting(final[l]) :
             /\ c \in Waiting(next[l]) \/ (c \in sent /\ LaneOf(c) = l)
             /\ c \notin final[l].active
      BY <3>1, <3>4, <3>5, <3>6, <3>8
    <3>11. \A c \in final[l].active :
             c \in next[l].active \/ c \in Waiting(next[l]) \/ (c \in sent /\ LaneOf(c) = l)
      BY <3>1, <3>4, <3>5, <3>6
    <3>. QED BY <3>7, <3>9, <3>10, <3>11
  <2>. QED BY <2>1, <2>2
<1>14. /\ final \in [Lanes -> Lane]
       /\ \A l \in Lanes : Waiting(final[l]) \subseteq Commands /\ final[l].active \subseteq Commands
  <2>1. final = [l \in Lanes |-> final[l]]
    BY DEF PushAll
  <2>. HIDE DEF final
  <2>2. final \in [Lanes -> Lane]
    BY <1>13, <2>1
  <2>. QED BY <1>13, <2>2, DrainLaneType, CommandFacts DEF Lane, LaneType
<1>15. \A c \in begun : /\ c \in Commands /\ c \in final[LaneOf(c)].active /\ c \notin executing
  BY DEF ActiveIn
<1>16. \A l \in Lanes : \A c \in final[l].active : LaneOf(c) = l /\ (c \in executing \/ c \in begun)
  <2>1. \A l \in Lanes : \A c \in final[l].active : LaneOf(c) = l /\ c \in Commands
    BY <1>3, <1>13, <1>14
  <2>. QED BY <2>1 DEF ActiveIn
<1>17. \A c \in Commands : c \in final[LaneOf(c)].active /\ c \notin executing => c \in begun
  BY DEF ActiveIn
<1>. HIDE DEF final, begun
<1>18. \A c \in Commands : /\ c \in inner => promise'[c] = IF gatewayDraining' THEN "refused" ELSE "pending"
                           /\ c \notin inner => promise'[c] = answers[c]
                           /\ c \in begun => taskGeneration'[c] = final[LaneOf(c)].generation
                           /\ c \notin begun /\ c \notin settled => taskGeneration'[c] = taskGeneration[c]
  BY <1>2
<1>19. \A c \in sent : promise'[c] = "pending"
  BY <1>8, <1>11, <1>18
<1>20. promise' \in [Commands -> Promises]
  <2>1. \A c \in Commands : (IF gatewayDraining' THEN "refused" ELSE "pending") \in Promises
                            /\ answers[c] \in Promises
    BY <1>3 DEF Promises, Settled
  <2>. QED BY <1>2, <2>1
<1>21. taskGeneration' \in [Commands -> Nat]
  <2>1. \A c \in Commands : final[LaneOf(c)].generation \in Nat
    BY <1>14, CommandFacts DEF Lane, LaneType
  <2>. QED BY <1>2, <2>1
<1>22. executing' \subseteq Commands
  BY <1>2, <1>15
<1>23. QueuesKnow'
  <2>1. SUFFICES ASSUME NEW l \in Lanes
                 PROVE  /\ Distinct(final[l].queue)
                        /\ \A c \in Waiting(final[l]) :
                             LaneOf(c) = l /\ promise'[c] = "pending" /\ c \notin executing'
    <3>1. \A k \in Lanes : lanes'[k] = final[k]
      BY <1>2
    <3>. QED BY <3>1 DEF QueuesKnow, Distinct, Waiting
  <2>2. SUFFICES ASSUME NEW c \in Waiting(final[l])
                 PROVE  LaneOf(c) = l /\ promise'[c] = "pending" /\ c \notin executing'
    BY <1>13
  <2>3. c \in Commands /\ c \notin final[l].active
    BY <1>13, <1>14
  <2>4. LaneOf(c) = l /\ promise'[c] = "pending" /\ c \notin executing
    <3>1. CASE c \in Waiting(next[l])
      BY <1>3, <1>9, <1>18, <2>3, <3>1
    <3>2. CASE c \in sent /\ LaneOf(c) = l
      BY <1>9, <1>11, <1>19, <3>2
    <3>. QED BY <1>13, <3>1, <3>2
  <2>5. c \notin begun
    BY <1>15, <2>3, <2>4
  <2>. QED BY <1>2, <2>4, <2>5
<1>24. SlotsKnow'
  <2>1. SUFFICES ASSUME NEW l \in Lanes, NEW c \in final[l].active
                 PROVE  LaneOf(c) = l /\ c \in executing' /\ taskGeneration'[c] = final[l].generation
    BY <1>2 DEF SlotsKnow
  <2>2. c \in Commands /\ LaneOf(c) = l
    BY <1>14, <1>16
  <2>3. CASE c \in begun
    BY <1>2, <1>18, <2>2, <2>3
  <2>4. CASE c \notin begun
    <3>1. c \in executing
      BY <1>16, <2>4
    <3>2. c \in next[l].active
      BY <1>3, <1>9, <1>11, <1>13, <3>1
    <3>3. c \notin settled /\ taskGeneration[c] = next[l].generation
      BY <1>3, <3>1, <3>2
    <3>. QED BY <1>2, <1>13, <1>18, <2>2, <2>4, <3>1, <3>3
  <2>. QED BY <2>3, <2>4
<1>25. ExecutingIsPromised'
  <2>1. SUFFICES ASSUME NEW c \in executing'
                 PROVE  promise'[c] = "pending"
    BY DEF ExecutingIsPromised
  <2>2. CASE c \in executing \ settled
    BY <1>3, <1>9, <1>18, <2>2
  <2>3. CASE c \in begun
    <3>1. c \in Commands /\ LaneOf(c) \in Lanes /\ c \in final[LaneOf(c)].active
      BY <1>15, <2>3, CommandFacts
    <3>2. c \in next[LaneOf(c)].active \/ c \in Waiting(next[LaneOf(c)]) \/ c \in sent
      BY <1>13, <3>1
    <3>3. CASE c \in next[LaneOf(c)].active \/ c \in Waiting(next[LaneOf(c)])
      BY <1>3, <1>9, <1>18, <3>1, <3>3
    <3>. QED BY <1>19, <3>2, <3>3
  <2>. QED BY <1>2, <2>1, <2>2, <2>3
<1>26. TurnsComeFromSessionTasks'
  <2>1. SUFFICES ASSUME NEW r \in Runs, promise'[<<"global", r>>] # "none"
                 PROVE  <<"session", r>> \in executing' \/ promise'[<<"session", r>>] = "settled"
    BY DEF TurnsComeFromSessionTasks
  <2>2. <<"global", r>> \in Commands /\ <<"session", r>> \in Commands
    BY CommandFacts
  <2>3. CASE <<"global", r>> \in inner
    <3>1. <<"session", r>> \in ActiveIn(next) \ executing
      BY <1>7, <2>3
    <3>2. <<"session", r>> \in begun
      BY <1>6, <1>13, <1>17, <2>2, <3>1, CommandFacts
    <3>. QED BY <1>2, <3>2
  <2>4. CASE <<"global", r>> \notin inner
    BY <1>2, <1>4, <1>10, <1>18, <2>1, <2>2, <2>4
  <2>. QED BY <2>3, <2>4
<1>27. SessionLanesHaveOneSlot'
  <2>1. \A s \in Sessions : final[s] = next[s]
    BY <1>13, CommandFacts
  <2>. QED BY <1>2, <1>5, <2>1 DEF SessionLanesHaveOneSlot
<1>28. \A r \in Runs : promise'[<<"global", r>>] = "pending" =>
         \/ answers[<<"global", r>>] = "pending"
         \/ ~gatewayDraining' /\ <<"session", r>> \in next[SessionOf[r]].active
  <2>1. SUFFICES ASSUME NEW r \in Runs, promise'[<<"global", r>>] = "pending",
                        answers[<<"global", r>>] # "pending"
                 PROVE  ~gatewayDraining' /\ <<"session", r>> \in next[SessionOf[r]].active
    OBVIOUS
  <2>2. <<"global", r>> \in inner /\ ~gatewayDraining'
    BY <1>18, <2>1, CommandFacts
  <2>3. <<"session", r>> \in ActiveIn(next)
    BY <1>7, <2>2
  <2>. QED BY <1>6, <2>2, <2>3, CommandFacts
<1>. QED BY <1>2, <1>13, <1>14, <1>20, <1>21, <1>22, <1>23, <1>24, <1>25, <1>26, <1>27, <1>28

--------------------------------------------------------------------------------
(* What keeps the invariant.                                                *)

Phases == {"idle", "draining", "closing", "closed", "reacquiring"}
Waits == {"drained", "polling", "timedOut"}
Shutdowns == [phase : Phases, action : {"none", "stop", "restart"}, hadLock : BOOLEAN]
Drains == [activeAtStart : SUBSET Commands, tasks : Waits, runs : Waits]
Pasts == [timedOut : BOOLEAN, lostRestart : BOOLEAN, failedStart : BOOLEAN]

QueueTypes ==
  /\ lanes \in [Lanes -> Lane]
  /\ gatewayDraining \in BOOLEAN
  /\ executing \subseteq Commands
  /\ taskGeneration \in [Commands -> Nat]
  /\ promise \in [Commands -> Promises]

RegistryTypes ==
  /\ activeRuns \in [Sessions -> Runs \cup {NoRun}]
  /\ registration \in [Runs -> {"no", "yes", "replaced", "over"}]

LoopTypes ==
  /\ loop \in {"starting", "waiting", "exited"}
  /\ listening \in BOOLEAN /\ lockHeld \in BOOLEAN /\ firstStart \in BOOLEAN
  /\ shutdown \in Shutdowns
  /\ drain \in Drains
  /\ past \in Pasts

\* TypeOK by the component that the variables belong to.
LEMMA TypeParts == TypeOK <=> QueueTypes /\ RegistryTypes /\ LoopTypes
BY DEF TypeOK, QueueTypes, RegistryTypes, LoopTypes, Lane, LaneType, Promises, Phases, Waits,
       Shutdowns, Drains, Pasts

RegistryInv == RegistryTypes /\ EntriesInTheirSession /\ RegistryKnowsNewest

QueueInv ==
  /\ QueueTypes
  /\ QueuesKnow
  /\ SlotsKnow
  /\ ExecutingIsPromised
  /\ TurnsComeFromSessionTasks
  /\ SessionLanesHaveOneSlot

LoopInv ==
  /\ RestartsCloseTheQueue
  /\ DrainWaitsForTurns
  /\ DrainedOfTurns
  /\ LiveUnderLock
  /\ ClosedQueueHasACause

\* The invariant as the lanes, the registry and the run loop contribute to it.
LEMMA Parts ==
  IInv <=> QueueInv /\ RegistryInv /\ LoopTypes /\ LoopInv /\ TurnsHoldTheirSession
BY TypeParts DEF IInv, QueueInv, RegistryInv, LoopInv

\* The same in the next state.
LEMMA NextParts ==
  ASSUME QueueInv', RegistryInv', LoopTypes', LoopInv', TurnsHoldTheirSession'
  PROVE  IInv'
<1>1. TypeOK'
  BY DEF TypeOK, QueueInv, QueueTypes, RegistryInv, RegistryTypes, LoopTypes, Lane, LaneType, Promises,
         Phases, Waits, Shutdowns, Drains, Pasts
<1>. QED BY <1>1 DEF IInv, QueueInv, RegistryInv, LoopInv

\* Every promised turn was promised before, or its session task holds its slot; and the turns
\* of a closed queue were all promised before.
TurnsAreFew ==
  \A r \in Runs : promise'[<<"global", r>>] = "pending" =>
    \/ /\ promise[<<"global", r>>] = "pending"
       /\ <<"session", r>> \in lanes[SessionOf[r]].active =>
            <<"session", r>> \in lanes'[SessionOf[r]].active
    \/ ~gatewayDraining /\ <<"session", r>> \in lanes'[SessionOf[r]].active

\* A step of the runs keeps what concerns the run loop.
LEMMA RunsKeep ==
  ASSUME IInv, QueueInv', RegistryInv', TurnsAreFew,
         gatewayDraining' = gatewayDraining, UNCHANGED loopVars
  PROVE  IInv'
<1>. USE Parts
<1>1. /\ loop' = loop /\ listening' = listening /\ lockHeld' = lockHeld
      /\ firstStart' = firstStart /\ shutdown' = shutdown /\ drain' = drain /\ past' = past
  BY DEF loopVars
<1>2. LoopTypes'
  BY <1>1 DEF LoopTypes
<1>3. TurnsHoldTheirSession'
  BY <1>1 DEF TurnsHoldTheirSession, Promised, HoldsSession, TurnsAreFew
<1>4. RestartsCloseTheQueue' /\ LiveUnderLock' /\ ClosedQueueHasACause'
  BY <1>1 DEF LoopInv, RestartsCloseTheQueue, LiveUnderLock, ClosedQueueHasACause, Alive, ShuttingDown
<1>5. shutdown.action = "restart" => \A r \in Runs : promise'[<<"global", r>>] = "pending" => Promised(r)
  BY DEF LoopInv, RestartsCloseTheQueue, TurnsAreFew, Promised
<1>6. DrainWaitsForTurns'
  <2>1. shutdown.phase = "draining" => shutdown.action = "restart"
    BY DEF LoopInv, RestartsCloseTheQueue
  <2>. QED BY <1>1, <1>5, <2>1 DEF LoopInv, DrainWaitsForTurns, Promised
<1>7. DrainedOfTurns'
  <2>1. SUFFICES ASSUME shutdown.action = "restart", shutdown.phase # "draining", ~past.timedOut,
                        NEW r \in Runs
                 PROVE  ~(promise'[<<"global", r>>] = "pending")
    BY <1>1 DEF DrainedOfTurns, Promised
  <2>2. ~Promised(r)
    BY <2>1 DEF LoopInv, DrainedOfTurns
  <2>. QED BY <1>5, <2>1, <2>2 DEF Promised
<1>8. LoopInv'
  BY <1>4, <1>6, <1>7 DEF LoopInv
<1>. QED BY <1>2, <1>3, <1>8, NextParts

\* A step that leaves the lanes alone.
LEMMA QueueStays ==
  ASSUME QueueInv, UNCHANGED <<lanes, executing, taskGeneration, promise>>, gatewayDraining' \in BOOLEAN
  PROVE  QueueInv'
BY DEF QueueInv, QueueTypes, QueuesKnow, Distinct, Waiting, SlotsKnow, ExecutingIsPromised,
       TurnsComeFromSessionTasks, SessionLanesHaveOneSlot

\* A step that leaves the registry alone.
LEMMA RegistryStays ==
  ASSUME RegistryInv, UNCHANGED registryVars
  PROVE  RegistryInv'
BY DEF RegistryInv, RegistryTypes, EntriesInTheirSession, RegistryKnowsNewest, registryVars

\* A step of the run loop that leaves both alone.
LEMMA LoopKeeps ==
  ASSUME IInv, UNCHANGED <<lanes, executing, taskGeneration, promise>>, gatewayDraining' \in BOOLEAN,
         UNCHANGED registryVars, past.timedOut => past'.timedOut, LoopTypes', LoopInv'
  PROVE  IInv'
<1>1. QueueInv' /\ RegistryInv'
  BY Parts, QueueStays, RegistryStays
<1>2. TurnsHoldTheirSession'
  BY Parts DEF TurnsHoldTheirSession, Promised, HoldsSession
<1>. QED BY <1>1, <1>2, NextParts

--------------------------------------------------------------------------------
(* Commands.                                                                *)

\* The lanes as they are between two steps, as the lemma on RunLanes needs them.
LEMMA LaneFacts ==
  ASSUME QueueInv
  PROVE  /\ \A l \in Lanes :
              /\ lanes[l] \in Lane
              /\ Distinct(lanes[l].queue)
              /\ \A c \in Waiting(lanes[l]) :
                   /\ c \in Commands /\ LaneOf(c) = l /\ promise[c] = "pending"
                   /\ c \notin executing /\ c \notin lanes[l].active
              /\ \A c \in lanes[l].active :
                   /\ c \in Commands /\ LaneOf(c) = l /\ promise[c] = "pending"
                   /\ c \in executing /\ taskGeneration[c] = lanes[l].generation
         /\ \A c \in executing : c \in Commands /\ promise[c] = "pending"
         /\ executing \subseteq Commands /\ taskGeneration \in [Commands -> Nat]
         /\ promise \in [Commands -> Promises]
         /\ lanes \in [Lanes -> Lane]
<1>1. /\ lanes \in [Lanes -> Lane] /\ executing \subseteq Commands
      /\ taskGeneration \in [Commands -> Nat] /\ promise \in [Commands -> Promises]
  BY DEF QueueInv, QueueTypes
<1>2. \A l \in Lanes : lanes[l] \in Lane
  BY <1>1
<1>3. \A l \in Lanes : Waiting(lanes[l]) \subseteq Commands /\ lanes[l].active \subseteq Commands
  BY <1>2, DrainLaneType, CommandFacts DEF Lane, LaneType
<1>. QED BY <1>1, <1>2, <1>3 DEF QueueInv, QueuesKnow, SlotsKnow, ExecutingIsPromised

\* enqueueCommandInLane, for a task that is not a turn.
LEMMA EnqueueKeeps ==
  ASSUME IInv, NEW c \in Commands, c[1] # "global", EnqueueCommandInLane(c)
  PROVE  QueueInv' /\ TurnsAreFew /\ gatewayDraining' = gatewayDraining
<1>. USE Parts
<1>1. promise[c] = "none" /\ gatewayDraining' = gatewayDraining
  BY DEF EnqueueCommandInLane
<1>2. /\ c \notin executing
      /\ \A l \in Lanes : c \notin Waiting(lanes[l]) /\ c \notin lanes[l].active
      /\ \A r \in Runs : c # <<"global", r>>
      /\ \A r \in Runs : promise[<<"global", r>>] # "none" => c # <<"session", r>>
  <2>1. /\ c \notin executing
        /\ \A l \in Lanes : c \notin Waiting(lanes[l]) /\ c \notin lanes[l].active
    BY <1>1, LaneFacts
  <2>2. \A r \in Runs : c # <<"global", r>>
    OBVIOUS
  <2>3. \A r \in Runs : promise[<<"global", r>>] # "none" => c # <<"session", r>>
    BY <1>1, <2>1 DEF QueueInv, TurnsComeFromSessionTasks
  <2>. QED BY <2>1, <2>2, <2>3
<1>3. CASE gatewayDraining
  <2>1. /\ promise' = [promise EXCEPT ![c] = "refused"]
        /\ lanes' = lanes /\ executing' = executing /\ taskGeneration' = taskGeneration
    BY <1>3 DEF EnqueueCommandInLane
  <2>2. /\ promise' \in [Commands -> Promises]
        /\ \A d \in Commands : d # c => promise'[d] = promise[d]
    BY <2>1, LaneFacts DEF Promises, Settled
  <2>3. QueueTypes'
    BY <1>1, <2>1, <2>2 DEF QueueInv, QueueTypes
  <2>4. QueuesKnow'
    <3>1. \A l \in Lanes : \A d \in Waiting(lanes[l]) : promise'[d] = "pending"
      BY <1>2, <2>2, LaneFacts
    <3>. QED BY <2>1, <3>1 DEF QueueInv, QueuesKnow, Distinct, Waiting
  <2>5. SlotsKnow'
    BY <2>1 DEF QueueInv, SlotsKnow
  <2>6. ExecutingIsPromised'
    BY <1>2, <2>1, <2>2, LaneFacts DEF ExecutingIsPromised
  <2>7. TurnsComeFromSessionTasks'
    <3>1. \A r \in Runs : promise'[<<"global", r>>] = promise[<<"global", r>>]
      BY <1>2, <2>2, CommandFacts
    <3>2. \A r \in Runs : promise[<<"global", r>>] # "none" =>
            promise'[<<"session", r>>] = promise[<<"session", r>>]
      BY <1>2, <2>2, CommandFacts
    <3>. QED BY <2>1, <3>1, <3>2 DEF QueueInv, TurnsComeFromSessionTasks
  <2>8. SessionLanesHaveOneSlot'
    BY <2>1 DEF QueueInv, SessionLanesHaveOneSlot
  <2>9. TurnsAreFew
    BY <1>2, <2>1, <2>2, CommandFacts DEF TurnsAreFew
  <2>. QED BY <1>1, <2>3, <2>4, <2>5, <2>6, <2>7, <2>8, <2>9 DEF QueueInv
<1>4. CASE ~gatewayDraining
  <2>. DEFINE home == LaneOf(c)
  <2>1. PICK next, answers : /\ next = [lanes EXCEPT ![home] = DrainLane(Push(@, c))]
                             /\ answers = [promise EXCEPT ![c] = "pending"]
    OBVIOUS
  <2>2. RunLanes(next, {}, answers)
    BY <1>4, <2>1 DEF EnqueueCommandInLane
  <2>3. home \in Lanes
    BY CommandFacts
  <2>. HIDE DEF home
  <2>4. /\ \A l \in Lanes : l # home => next[l] = lanes[l]
        /\ next[home] = DrainLane(Push(lanes[home], c))
        /\ \A d \in Commands : d # c => answers[d] = promise[d]
        /\ answers[c] = "pending"
        /\ answers \in [Commands -> Promises]
    BY <2>1, <2>3, LaneFacts DEF Promises
  <2>5. /\ Push(lanes[home], c) \in Lane
        /\ Distinct(Push(lanes[home], c).queue)
        /\ \A d \in Waiting(Push(lanes[home], c)) : d \in Waiting(lanes[home]) \/ d = c
        /\ Push(lanes[home], c).active = lanes[home].active
        /\ Push(lanes[home], c).maxConcurrent = lanes[home].maxConcurrent
        /\ Push(lanes[home], c).generation = lanes[home].generation
    BY <1>2, <2>3, LaneFacts, PushFacts
  <2>6. PICK pushed : pushed = Push(lanes[home], c)
    OBVIOUS
  <2>7. /\ next[home] \in Lane
        /\ Distinct(next[home].queue)
        /\ Waiting(next[home]) \subseteq Waiting(pushed)
        /\ lanes[home].active \subseteq next[home].active
        /\ \A d \in next[home].active : d \notin lanes[home].active =>
             d \in Waiting(pushed) /\ d \notin Waiting(next[home])
        /\ next[home].maxConcurrent = lanes[home].maxConcurrent
        /\ next[home].generation = lanes[home].generation
    BY <2>4, <2>5, <2>6, DrainKeepsDistinct
  <2>8. \A d \in Waiting(pushed) : /\ d \in Commands /\ LaneOf(d) = home /\ answers[d] = "pending"
                                   /\ d \notin executing /\ d \notin lanes[home].active
    BY <1>2, <2>3, <2>4, <2>5, <2>6, LaneFacts DEF home
  <2>9. ASSUME NEW l \in Lanes
        PROVE  /\ next[l] \in Lane
               /\ Distinct(next[l].queue)
               /\ \A d \in Waiting(next[l]) : /\ LaneOf(d) = l /\ answers[d] = "pending"
                                              /\ d \notin executing /\ d \notin next[l].active
               /\ \A d \in next[l].active : /\ LaneOf(d) = l /\ answers[d] = "pending" /\ d \notin {}
                                            /\ d \in executing => taskGeneration[d] = next[l].generation
               /\ lanes[l].active \subseteq next[l].active
    <3>1. CASE l = home
      <4>1. \A d \in Waiting(next[l]) : /\ LaneOf(d) = l /\ answers[d] = "pending"
                                        /\ d \notin executing /\ d \notin next[l].active
        BY <2>7, <2>8, <3>1
      <4>2. \A d \in next[l].active : \/ d \in lanes[l].active
                                      \/ d \in Waiting(pushed)
        BY <2>7, <3>1
      <4>3. \A d \in lanes[l].active : /\ LaneOf(d) = l /\ answers[d] = "pending"
                                       /\ d \in executing => taskGeneration[d] = next[l].generation
        BY <1>2, <2>4, <2>7, <3>1, LaneFacts
      <4>. QED BY <2>7, <2>8, <3>1, <4>1, <4>2, <4>3
    <3>2. CASE l # home
      <4>1. next[l] = lanes[l]
        BY <2>4, <3>2
      <4>2. \A d \in Commands : d \in Waiting(lanes[l]) \/ d \in lanes[l].active => answers[d] = promise[d]
        BY <1>2, <2>4
      <4>. QED BY <4>1, <4>2, LaneFacts
    <3>. QED BY <3>1, <3>2
  <2>10. next \in [Lanes -> Lane]
    BY <2>1, <2>9, LaneFacts
  <2>11. \A d \in executing : answers[d] = "pending"
    BY <1>2, <2>4, LaneFacts
  <2>12. \A r \in Runs : answers[<<"global", r>>] # "none" =>
           <<"session", r>> \in executing \/ answers[<<"session", r>>] = "settled"
    <3>1. \A r \in Runs : answers[<<"global", r>>] = promise[<<"global", r>>]
      BY <1>2, <2>4, CommandFacts
    <3>2. \A r \in Runs : promise[<<"global", r>>] # "none" =>
            answers[<<"session", r>>] = promise[<<"session", r>>]
      BY <1>2, <2>4, CommandFacts
    <3>. QED BY <3>1, <3>2 DEF QueueInv, TurnsComeFromSessionTasks
  <2>13. \A s \in Sessions : next[s].maxConcurrent = 1 /\ \A d, e \in next[s].active : d = e
    <3>1. SUFFICES ASSUME NEW s \in Sessions
                   PROVE  next[s].maxConcurrent = 1 /\ \A d, e \in next[s].active : d = e
      OBVIOUS
    <3>2. s \in Lanes /\ lanes[s].maxConcurrent = 1 /\ \A d, e \in lanes[s].active : d = e
      BY CommandFacts DEF QueueInv, SessionLanesHaveOneSlot
    <3>3. CASE s # home
      BY <2>4, <3>2, <3>3
    <3>4. CASE s = home
      <4>1. pushed.maxConcurrent = 1 /\ \A d, e \in pushed.active : d = e
        BY <2>5, <2>6, <3>2, <3>4
      <4>2. \A d, e \in DrainLane(pushed).active : d = e
        BY <2>5, <2>6, <4>1, DrainKeepsOneSlot
      <4>. QED BY <2>4, <2>6, <2>7, <3>2, <3>4, <4>2
    <3>. QED BY <3>3, <3>4
  <2>14. Ready(next, {}, answers)
    BY <2>4, <2>9, <2>10, <2>11, <2>12, <2>13 DEF Ready
  <2>15. /\ lanes' \in [Lanes -> Lane]
         /\ executing' \subseteq Commands
         /\ taskGeneration' \in [Commands -> Nat]
         /\ promise' \in [Commands -> Promises]
         /\ QueuesKnow' /\ SlotsKnow' /\ ExecutingIsPromised'
         /\ TurnsComeFromSessionTasks' /\ SessionLanesHaveOneSlot'
         /\ \A l \in Lanes : next[l].active \subseteq lanes'[l].active
         /\ \A r \in Runs : promise'[<<"global", r>>] = "pending" =>
              \/ answers[<<"global", r>>] = "pending"
              \/ ~gatewayDraining' /\ <<"session", r>> \in next[SessionOf[r]].active
    BY <2>2, <2>14, LaneFacts, RunLanesKeeps
  <2>16. QueueInv'
    BY <1>1, <2>15 DEF QueueInv, QueueTypes
  <2>17. TurnsAreFew
    <3>1. \A r \in Runs : SessionOf[r] \in Lanes /\ answers[<<"global", r>>] = promise[<<"global", r>>]
      BY <1>2, <2>4, CommandFacts
    <3>2. \A l \in Lanes : lanes[l].active \subseteq lanes'[l].active
      BY <2>9, <2>15
    <3>. QED BY <1>1, <2>15, <3>1, <3>2 DEF TurnsAreFew
  <2>. QED BY <1>1, <2>16, <2>17
<1>. QED BY <1>3, <1>4

\* What waits in a lane depends on its queue alone.
LEMMA FreedFacts ==
  ASSUME NEW lane \in Lane, NEW freed \in Lane, freed.queue = lane.queue, Distinct(lane.queue)
  PROVE  Waiting(freed) = Waiting(lane) /\ Distinct(freed.queue)
BY DEF Waiting

\* completeTask: the task gives up its slot, if it still has it, and calls that wait may start.
LEMMA CompleteFacts ==
  ASSUME NEW lane \in Lane, Distinct(lane.queue), NEW c \in Commands, NEW g \in Nat,
         c \in lane.active => g = lane.generation
  PROVE  /\ CompleteTask(lane, c, g) \in Lane
         /\ Distinct(CompleteTask(lane, c, g).queue)
         /\ Waiting(CompleteTask(lane, c, g)) \subseteq Waiting(lane)
         /\ lane.active \ {c} \subseteq CompleteTask(lane, c, g).active
         /\ \A d \in CompleteTask(lane, c, g).active :
              \/ d \in lane.active /\ d # c
              \/ d \in Waiting(lane) /\ d \notin Waiting(CompleteTask(lane, c, g))
         /\ CompleteTask(lane, c, g).maxConcurrent = lane.maxConcurrent
         /\ CompleteTask(lane, c, g).generation = lane.generation
         /\ lane.maxConcurrent = 1 /\ (\A d, e \in lane.active : d = e) =>
              \A d, e \in CompleteTask(lane, c, g).active : d = e
<1>1. CASE g # lane.generation
  BY <1>1 DEF CompleteTask
<1>2. CASE g = lane.generation
  <2>1. PICK freed : freed = [lane EXCEPT !.active = lane.active \ {c}]
    OBVIOUS
  <2>2. /\ freed \in Lane
        /\ freed.queue = lane.queue
        /\ freed.active = lane.active \ {c}
        /\ freed.maxConcurrent = lane.maxConcurrent
        /\ freed.generation = lane.generation
    BY <2>1 DEF Lane, LaneType
  <2>3. Waiting(freed) = Waiting(lane) /\ Distinct(freed.queue)
    BY <2>2, FreedFacts
  <2>4. CompleteTask(lane, c, g) = DrainLane(freed)
    BY <1>2, <2>1 DEF CompleteTask
  <2>6. /\ DrainLane(freed) \in Lane
        /\ Distinct(DrainLane(freed).queue)
        /\ Waiting(DrainLane(freed)) \subseteq Waiting(freed)
        /\ freed.active \subseteq DrainLane(freed).active
        /\ \A d \in DrainLane(freed).active : d \notin freed.active =>
             d \in Waiting(freed) /\ d \notin Waiting(DrainLane(freed))
        /\ DrainLane(freed).maxConcurrent = freed.maxConcurrent
        /\ DrainLane(freed).generation = freed.generation
    BY <2>2, <2>3, DrainKeepsDistinct
  <2>7. lane.maxConcurrent = 1 /\ (\A d, e \in lane.active : d = e) =>
          \A d, e \in DrainLane(freed).active : d = e
    BY <2>2, DrainKeepsOneSlot
  <2>. QED BY <2>2, <2>3, <2>4, <2>6, <2>7
<1>. QED BY <1>1, <1>2

\* resetAllLanes: every slot is free again, and calls that wait take them.
LEMMA ResetFacts ==
  ASSUME NEW lane \in Lane, Distinct(lane.queue)
  PROVE  /\ ResetLane(lane) \in Lane
         /\ Distinct(ResetLane(lane).queue)
         /\ Waiting(ResetLane(lane)) \subseteq Waiting(lane)
         /\ \A d \in ResetLane(lane).active :
              d \in Waiting(lane) /\ d \notin Waiting(ResetLane(lane))
         /\ ResetLane(lane).maxConcurrent = lane.maxConcurrent
         /\ lane.maxConcurrent = 1 => \A d, e \in ResetLane(lane).active : d = e
<1>1. PICK freed : freed = [lane EXCEPT !.generation = lane.generation + 1, !.active = {}]
  OBVIOUS
<1>2. /\ freed \in Lane
      /\ freed.queue = lane.queue
      /\ freed.active = {}
      /\ freed.maxConcurrent = lane.maxConcurrent
  <2>1. lane.generation + 1 \in Nat
    BY DEF Lane, LaneType
  <2>2. PICK generation : generation = lane.generation + 1
    OBVIOUS
  <2>3. freed = [queue |-> lane.queue, active |-> {}, maxConcurrent |-> lane.maxConcurrent,
                 generation |-> generation]
    BY <1>1, <2>2 DEF Lane, LaneType
  <2>4. lane.queue \in Seq(Commands) /\ lane.maxConcurrent \in Nat \ {0} /\ generation \in Nat
    BY <2>1, <2>2 DEF Lane, LaneType
  <2>. QED BY <2>3, <2>4 DEF Lane, LaneType
<1>3. Waiting(freed) = Waiting(lane) /\ Distinct(freed.queue)
  BY <1>2, FreedFacts
<1>4. ResetLane(lane) = DrainLane(freed)
  BY <1>1 DEF ResetLane
<1>6. /\ DrainLane(freed) \in Lane
      /\ Distinct(DrainLane(freed).queue)
      /\ Waiting(DrainLane(freed)) \subseteq Waiting(freed)
      /\ \A d \in DrainLane(freed).active : d \notin freed.active =>
           d \in Waiting(freed) /\ d \notin Waiting(DrainLane(freed))
      /\ DrainLane(freed).maxConcurrent = freed.maxConcurrent
  BY <1>2, <1>3, DrainKeepsDistinct
<1>7. lane.maxConcurrent = 1 => \A d, e \in DrainLane(freed).active : d = e
  BY <1>2, DrainKeepsOneSlot
<1>. QED BY <1>2, <1>3, <1>4, <1>6, <1>7

\* A task ends: its promise settles, and its session holds no turn that is still promised.
LEMMA SettleKeeps ==
  ASSUME IInv, NEW c \in Commands, TaskSettles(c),
         c[1] = "session" => promise[<<"global", c[2]>>] # "pending"
  PROVE  QueueInv' /\ TurnsAreFew /\ gatewayDraining' = gatewayDraining
<1>. USE Parts
<1>. DEFINE home == LaneOf(c)
<1>1. /\ c \in executing /\ gatewayDraining' = gatewayDraining
      /\ promise[c] = "pending" /\ home \in Lanes
  BY LaneFacts, CommandFacts DEF TaskSettles
<1>2. PICK next, answers, settled :
        /\ next = [lanes EXCEPT ![home] = CompleteTask(@, c, taskGeneration[c])]
        /\ answers = [promise EXCEPT ![c] = "settled"]
        /\ settled = {c}
  OBVIOUS
<1>3. RunLanes(next, settled, answers)
  BY <1>2 DEF TaskSettles
<1>4. c \in lanes[home].active => taskGeneration[c] = lanes[home].generation
  BY <1>1, LaneFacts
<1>5. \A r \in Runs : promise[<<"global", r>>] = "pending" => c # <<"session", r>>
  BY CommandFacts
<1>. HIDE DEF home
<1>6. /\ \A l \in Lanes : l # home => next[l] = lanes[l]
      /\ next[home] = CompleteTask(lanes[home], c, taskGeneration[c])
      /\ \A d \in Commands : d # c => answers[d] = promise[d]
      /\ answers[c] = "settled"
      /\ answers \in [Commands -> Promises]
  BY <1>1, <1>2, LaneFacts DEF Promises, Settled
<1>7. /\ lanes[home] \in Lane /\ Distinct(lanes[home].queue) /\ taskGeneration[c] \in Nat
  BY <1>1, LaneFacts
<1>8. /\ next[home] \in Lane
      /\ Distinct(next[home].queue)
      /\ Waiting(next[home]) \subseteq Waiting(lanes[home])
      /\ lanes[home].active \ {c} \subseteq next[home].active
      /\ \A d \in next[home].active :
           \/ d \in lanes[home].active /\ d # c
           \/ d \in Waiting(lanes[home]) /\ d \notin Waiting(next[home])
      /\ next[home].maxConcurrent = lanes[home].maxConcurrent
      /\ next[home].generation = lanes[home].generation
      /\ lanes[home].maxConcurrent = 1 /\ (\A d, e \in lanes[home].active : d = e) =>
           \A d, e \in next[home].active : d = e
  BY <1>4, <1>6, <1>7, CompleteFacts
<1>9. ASSUME NEW l \in Lanes
      PROVE  /\ next[l] \in Lane
             /\ Distinct(next[l].queue)
             /\ \A d \in Waiting(next[l]) : /\ LaneOf(d) = l /\ answers[d] = "pending"
                                            /\ d \notin executing /\ d \notin next[l].active
             /\ \A d \in next[l].active : /\ LaneOf(d) = l /\ answers[d] = "pending" /\ d \notin settled
                                          /\ d \in executing => taskGeneration[d] = next[l].generation
             /\ \A d \in lanes[l].active : d # c => d \in next[l].active
  <2>1. \A d \in Waiting(lanes[l]) : /\ d \in Commands /\ LaneOf(d) = l /\ answers[d] = "pending"
                                     /\ d \notin executing /\ d \notin lanes[l].active /\ d # c
    BY <1>1, <1>6, LaneFacts
  <2>2. \A d \in lanes[l].active : d # c =>
          /\ d \in Commands /\ LaneOf(d) = l /\ answers[d] = "pending"
          /\ taskGeneration[d] = lanes[l].generation
    BY <1>6, LaneFacts
  <2>3. CASE l = home
    BY <1>2, <1>8, <2>1, <2>2, <2>3
  <2>4. CASE l # home
    <3>1. next[l] = lanes[l] /\ c \notin lanes[l].active
      BY <1>1, <1>6, <2>4, LaneFacts DEF home
    <3>. QED BY <1>2, <2>1, <2>2, <3>1, LaneFacts
  <2>. QED BY <2>3, <2>4
<1>10. next \in [Lanes -> Lane]
  BY <1>2, <1>9, LaneFacts
<1>11. /\ \A d \in executing \ settled : answers[d] = "pending"
       /\ \A d \in settled : answers[d] = "settled"
  BY <1>2, <1>6, LaneFacts
<1>12. \A r \in Runs : answers[<<"global", r>>] # "none" =>
         <<"session", r>> \in executing \ settled \/ answers[<<"session", r>>] = "settled"
  <2>1. SUFFICES ASSUME NEW r \in Runs, answers[<<"global", r>>] # "none"
                 PROVE  <<"session", r>> \in executing \ settled \/ answers[<<"session", r>>] = "settled"
    OBVIOUS
  <2>2. promise[<<"global", r>>] # "none"
    BY <1>1, <1>6, <2>1, CommandFacts
  <2>3. <<"session", r>> \in executing \/ promise[<<"session", r>>] = "settled"
    BY <2>2 DEF QueueInv, TurnsComeFromSessionTasks
  <2>. QED BY <1>2, <1>6, <2>3, CommandFacts
<1>13. \A s \in Sessions : next[s].maxConcurrent = 1 /\ \A d, e \in next[s].active : d = e
  <2>1. SUFFICES ASSUME NEW s \in Sessions
                 PROVE  next[s].maxConcurrent = 1 /\ \A d, e \in next[s].active : d = e
    OBVIOUS
  <2>2. s \in Lanes /\ lanes[s].maxConcurrent = 1 /\ \A d, e \in lanes[s].active : d = e
    BY CommandFacts DEF QueueInv, SessionLanesHaveOneSlot
  <2>. QED BY <1>6, <1>8, <2>2
<1>14. Ready(next, settled, answers)
  BY <1>6, <1>9, <1>10, <1>11, <1>12, <1>13 DEF Ready
<1>15. /\ lanes' \in [Lanes -> Lane]
       /\ executing' \subseteq Commands
       /\ taskGeneration' \in [Commands -> Nat]
       /\ promise' \in [Commands -> Promises]
       /\ QueuesKnow' /\ SlotsKnow' /\ ExecutingIsPromised'
       /\ TurnsComeFromSessionTasks' /\ SessionLanesHaveOneSlot'
       /\ \A l \in Lanes : next[l].active \subseteq lanes'[l].active
       /\ \A r \in Runs : promise'[<<"global", r>>] = "pending" =>
            \/ answers[<<"global", r>>] = "pending"
            \/ ~gatewayDraining' /\ <<"session", r>> \in next[SessionOf[r]].active
  <2>1. settled \subseteq executing
    BY <1>1, <1>2
  <2>. QED BY <1>3, <1>14, <2>1, LaneFacts, RunLanesKeeps
<1>16. QueueInv'
  BY <1>1, <1>15 DEF QueueInv, QueueTypes
<1>17. TurnsAreFew
  <2>1. \A r \in Runs : SessionOf[r] \in Lanes
    BY CommandFacts
  <2>2. \A r \in Runs : answers[<<"global", r>>] = "pending" => promise[<<"global", r>>] = "pending"
    BY <1>6, CommandFacts
  <2>3. \A r \in Runs : promise[<<"global", r>>] = "pending" /\ <<"session", r>> \in lanes[SessionOf[r]].active
          => <<"session", r>> \in lanes'[SessionOf[r]].active
    BY <1>5, <1>9, <1>15, <2>1
  <2>. QED BY <1>1, <1>15, <2>1, <2>2, <2>3 DEF TurnsAreFew
<1>. QED BY <1>1, <1>16, <1>17

\* The lanes are reset: what waits starts again, and no turn is promised that was not, unless
\* its session task has just started.
LEMMA ResetKeeps ==
  ASSUME QueueInv, gatewayDraining' = FALSE,
         RunLanes([l \in Lanes |-> ResetLane(lanes[l])], {}, promise)
  PROVE  /\ QueueInv'
         /\ \A r \in Runs : promise'[<<"global", r>>] = "pending" =>
              \/ promise[<<"global", r>>] = "pending"
              \/ <<"session", r>> \in lanes'[SessionOf[r]].active
<1>1. PICK next : next = [l \in Lanes |-> ResetLane(lanes[l])]
  OBVIOUS
<1>2. RunLanes(next, {}, promise)
  BY <1>1
<1>3. ASSUME NEW l \in Lanes
      PROVE  /\ next[l] \in Lane
             /\ Distinct(next[l].queue)
             /\ \A d \in Waiting(next[l]) : /\ LaneOf(d) = l /\ promise[d] = "pending"
                                            /\ d \notin executing /\ d \notin next[l].active
             /\ \A d \in next[l].active : /\ LaneOf(d) = l /\ promise[d] = "pending" /\ d \notin {}
                                          /\ d \in executing => taskGeneration[d] = next[l].generation
             /\ next[l].maxConcurrent = lanes[l].maxConcurrent
             /\ lanes[l].maxConcurrent = 1 => \A d, e \in next[l].active : d = e
  <2>1. next[l] = ResetLane(lanes[l])
    BY <1>1
  <2>2. /\ lanes[l] \in Lane /\ Distinct(lanes[l].queue)
        /\ \A d \in Waiting(lanes[l]) : LaneOf(d) = l /\ promise[d] = "pending" /\ d \notin executing
    BY LaneFacts
  <2>3. /\ next[l] \in Lane
        /\ Distinct(next[l].queue)
        /\ Waiting(next[l]) \subseteq Waiting(lanes[l])
        /\ \A d \in next[l].active : d \in Waiting(lanes[l]) /\ d \notin Waiting(next[l])
        /\ next[l].maxConcurrent = lanes[l].maxConcurrent
        /\ lanes[l].maxConcurrent = 1 => \A d, e \in next[l].active : d = e
    BY <2>1, <2>2, ResetFacts
  <2>. QED BY <2>2, <2>3
<1>4. next \in [Lanes -> Lane]
  BY <1>1, <1>3
<1>5. \A s \in Sessions : next[s].maxConcurrent = 1 /\ \A d, e \in next[s].active : d = e
  BY <1>3, CommandFacts DEF QueueInv, SessionLanesHaveOneSlot
<1>6. Ready(next, {}, promise)
  BY <1>3, <1>4, <1>5, LaneFacts DEF Ready, QueueInv, TurnsComeFromSessionTasks
<1>7. /\ lanes' \in [Lanes -> Lane]
      /\ executing' \subseteq Commands
      /\ taskGeneration' \in [Commands -> Nat]
      /\ promise' \in [Commands -> Promises]
      /\ QueuesKnow' /\ SlotsKnow' /\ ExecutingIsPromised'
      /\ TurnsComeFromSessionTasks' /\ SessionLanesHaveOneSlot'
      /\ \A l \in Lanes : next[l].active \subseteq lanes'[l].active
      /\ \A r \in Runs : promise'[<<"global", r>>] = "pending" =>
           \/ promise[<<"global", r>>] = "pending"
           \/ ~gatewayDraining' /\ <<"session", r>> \in next[SessionOf[r]].active
  <2>1. PICK settled : settled = {}
    OBVIOUS
  <2>2. Ready(next, settled, promise) /\ RunLanes(next, settled, promise) /\ settled \subseteq executing
    BY <1>2, <1>6, <2>1
  <2>3. executing \subseteq Commands /\ taskGeneration \in [Commands -> Nat]
    BY LaneFacts
  <2>. QED BY <2>2, <2>3, RunLanesKeeps
<1>8. QueueInv'
  BY <1>7 DEF QueueInv, QueueTypes
<1>. QED BY <1>7, <1>8, CommandFacts

--------------------------------------------------------------------------------
(* The steps of the runs.                                                   *)

\* A step that enqueues or settles a task of a run.
LEMMA CommandSteps ==
  ASSUME IInv, NEW r \in Runs,
         RequestRun(r) \/ JobDispatches(r) \/ JobEnds(r) \/ JobTimesOut(r) \/ TurnEnds(r) \/ SessionTaskEnds(r)
  PROVE  IInv'
<1>1. UNCHANGED registryVars /\ UNCHANGED loopVars
  BY DEF RequestRun, JobDispatches, JobEnds, JobTimesOut, TurnEnds, SessionTaskEnds
<1>2. /\ <<"job", r>> \in Commands /\ <<"session", r>> \in Commands /\ <<"global", r>> \in Commands
      /\ Request(r) \in Commands /\ Request(r)[1] # "global"
  BY CommandFacts DEF Request
<1>3. QueueInv' /\ TurnsAreFew /\ gatewayDraining' = gatewayDraining
  <2>1. CASE RequestRun(r)
    BY <1>2, <2>1, EnqueueKeeps DEF RequestRun
  <2>2. CASE JobDispatches(r)
    BY <1>2, <2>2, EnqueueKeeps DEF JobDispatches
  <2>3. CASE JobEnds(r)
    BY <1>2, <2>3, SettleKeeps DEF JobEnds
  <2>4. CASE JobTimesOut(r)
    BY <1>2, <2>4, SettleKeeps DEF JobTimesOut
  <2>5. CASE TurnEnds(r)
    BY <1>2, <2>5, SettleKeeps DEF TurnEnds
  <2>6. CASE SessionTaskEnds(r)
    <3>1. TaskSettles(<<"session", r>>) /\ promise[<<"global", r>>] # "pending"
      BY <2>6 DEF SessionTaskEnds, Settled
    <3>. QED BY <1>2, <3>1, SettleKeeps
  <2>. QED BY <2>1, <2>2, <2>3, <2>4, <2>5, <2>6
<1>4. RegistryInv'
  BY <1>1, Parts, RegistryStays
<1>. QED BY <1>1, <1>3, <1>4, RunsKeep

\* A step of the registry.
LEMMA RegistrySteps ==
  ASSUME IInv, NEW r \in Runs, SetActiveEmbeddedRun(r) \/ ClearActiveEmbeddedRun(r)
  PROVE  IInv'
<1>1. /\ lanes' = lanes /\ gatewayDraining' = gatewayDraining /\ executing' = executing
      /\ taskGeneration' = taskGeneration /\ promise' = promise /\ UNCHANGED loopVars
  BY DEF SetActiveEmbeddedRun, ClearActiveEmbeddedRun, queueVars
<1>2. QueueInv'
  <2>1. gatewayDraining' \in BOOLEAN
    BY <1>1, Parts DEF QueueInv, QueueTypes
  <2>. QED BY <1>1, <2>1, Parts, QueueStays
<1>3. TurnsAreFew
  BY <1>1 DEF TurnsAreFew
<1>4. /\ activeRuns \in [Sessions -> Runs \cup {NoRun}]
      /\ registration \in [Runs -> {"no", "yes", "replaced", "over"}]
      /\ \A s \in Sessions : activeRuns[s] \in Runs => SessionOf[activeRuns[s]] = s
      /\ \A q \in Runs : registration[q] = "yes" <=> activeRuns[SessionOf[q]] = q
      /\ NoRun \notin Runs /\ \A q \in Runs : SessionOf[q] \in Sessions
  BY Parts, RunsAssumption DEF RegistryInv, RegistryTypes, EntriesInTheirSession, RegistryKnowsNewest, NoRun
<1>. DEFINE home == SessionOf[r]
<1>5. RegistryInv'
  <2>1. CASE SetActiveEmbeddedRun(r)
    <3>1. /\ activeRuns' = [activeRuns EXCEPT ![home] = r]
          /\ registration' = [q \in Runs |-> IF q = r THEN "yes"
                                            ELSE IF activeRuns[home] = q THEN "replaced"
                                            ELSE registration[q]]
      BY <2>1 DEF SetActiveEmbeddedRun
    <3>2. activeRuns'[home] = r /\ \A s \in Sessions : s # home => activeRuns'[s] = activeRuns[s]
      BY <1>4, <3>1
    <3>3. RegistryTypes'
      BY <1>4, <3>1 DEF RegistryTypes
    <3>4. EntriesInTheirSession'
      BY <1>4, <3>2 DEF EntriesInTheirSession
    <3>5. ASSUME NEW q \in Runs  PROVE registration'[q] = "yes" <=> activeRuns'[SessionOf[q]] = q
      <4>1. CASE q = r
        BY <3>1, <3>2, <4>1
      <4>2. CASE q # r /\ SessionOf[q] = home
        BY <1>4, <3>1, <3>2, <4>2
      <4>3. CASE q # r /\ SessionOf[q] # home
        <5>1. activeRuns[home] # q
          BY <1>4, <4>3
        <5>. QED BY <1>4, <3>1, <3>2, <4>3, <5>1
      <4>. QED BY <4>1, <4>2, <4>3
    <3>. QED BY <3>3, <3>4, <3>5 DEF RegistryInv, RegistryKnowsNewest
  <2>2. CASE ClearActiveEmbeddedRun(r)
    <3>1. /\ activeRuns' = [activeRuns EXCEPT ![home] = IF @ = r THEN NoRun ELSE @]
          /\ registration' = [registration EXCEPT ![r] = "over"]
      BY <2>2 DEF ClearActiveEmbeddedRun
    <3>2. /\ activeRuns'[home] = IF activeRuns[home] = r THEN NoRun ELSE activeRuns[home]
          /\ \A s \in Sessions : s # home => activeRuns'[s] = activeRuns[s]
          /\ registration'[r] = "over"
          /\ \A q \in Runs : q # r => registration'[q] = registration[q]
      BY <1>4, <3>1
    <3>3. RegistryTypes'
      BY <1>4, <3>1 DEF RegistryTypes
    <3>4. EntriesInTheirSession'
      BY <1>4, <3>2 DEF EntriesInTheirSession
    <3>5. ASSUME NEW q \in Runs  PROVE registration'[q] = "yes" <=> activeRuns'[SessionOf[q]] = q
      BY <1>4, <3>2
    <3>. QED BY <3>3, <3>4, <3>5 DEF RegistryInv, RegistryKnowsNewest
  <2>. QED BY <2>1, <2>2
<1>. QED BY <1>1, <1>2, <1>3, <1>5, RunsKeep

--------------------------------------------------------------------------------
(* A process that has just begun, or ended.                                 *)

\* The lanes of a new process are empty, and those of sessions have one slot.
LEMMA NewLanesFacts ==
  /\ NewLanes \in [Lanes -> Lane]
  /\ \A l \in Lanes : /\ NewLanes[l].active = {}
                      /\ Distinct(NewLanes[l].queue) /\ Waiting(NewLanes[l]) = {}
  /\ \A s \in Sessions : NewLanes[s].maxConcurrent = 1
<1>1. /\ NewLane \in Lane /\ NewLane.queue = <<>> /\ NewLane.active = {}
      /\ NewLane.maxConcurrent = 1
  <2>1. <<>> \in Seq(Commands)
    OBVIOUS
  <2>. QED BY <2>1 DEF NewLane, Lane, LaneType
<1>2. PICK limited : limited = [NewLane EXCEPT !.maxConcurrent = IF MainConcurrency < 1 THEN 1 ELSE MainConcurrency]
  OBVIOUS
<1>3. /\ limited \in Lane /\ limited.queue = <<>> /\ limited.active = {}
      /\ SetMaxConcurrent(NewLane, MainConcurrency) = DrainLane(limited)
  <2>1. <<>> \in Seq(Commands)
    OBVIOUS
  <2>2. PICK n : n = IF MainConcurrency < 1 THEN 1 ELSE MainConcurrency
    OBVIOUS
  <2>3. n \in Nat \ {0}
    <3>1. MainConcurrency \in Nat \ {0}
      BY RunsAssumption
    <3>. QED BY <2>2, <3>1
  <2>4. limited = [NewLane EXCEPT !.maxConcurrent = n]
    BY <1>2, <2>2
  <2>5. limited = [queue |-> <<>>, active |-> {}, maxConcurrent |-> n, generation |-> 0]
    BY <2>4 DEF NewLane
  <2>6. limited \in Lane /\ limited.queue = <<>> /\ limited.active = {}
    BY <2>1, <2>3, <2>5 DEF Lane, LaneType
  <2>7. SetMaxConcurrent(NewLane, MainConcurrency) = DrainLane(limited)
    BY <1>2 DEF SetMaxConcurrent
  <2>. QED BY <2>6, <2>7
<1>4. Distinct(limited.queue) /\ Waiting(limited) = {}
  BY <1>3 DEF Distinct, Waiting
<1>5. /\ DrainLane(limited) \in Lane
      /\ Distinct(DrainLane(limited).queue)
      /\ Waiting(DrainLane(limited)) \subseteq Waiting(limited)
      /\ \A c \in DrainLane(limited).active : c \notin limited.active => c \in Waiting(limited)
  BY <1>3, <1>4, DrainKeepsDistinct
<1>6. DrainLane(limited).active = {} /\ Waiting(DrainLane(limited)) = {}
  BY <1>3, <1>4, <1>5
<1>7. Distinct(NewLane.queue) /\ Waiting(NewLane) = {}
  BY <1>1 DEF Distinct, Waiting
<1>8. \A l \in Lanes : NewLanes[l] = NewLane \/ NewLanes[l] = DrainLane(limited)
  BY <1>3 DEF NewLanes
<1>9. \A l \in Lanes : NewLanes[l] \in Lane
  BY <1>1, <1>5, <1>8
<1>10. \A s \in Sessions : s \in Lanes /\ s # "main"
  BY RunsAssumption DEF Lanes, GlobalLanes
<1>11. \A s \in Sessions : NewLanes[s].maxConcurrent = 1
  BY <1>1, <1>10 DEF NewLanes
<1>12. NewLanes \in [Lanes -> Lane]
  BY <1>9 DEF NewLanes
<1>. QED BY <1>1, <1>5, <1>6, <1>7, <1>8, <1>11, <1>12

\* What else a process has in memory when it begins.
LEMMA FreshFacts ==
  /\ NoTasks \in [Commands -> Nat]
  /\ NoPromises \in [Commands -> Promises] /\ \A c \in Commands : NoPromises[c] = "none"
  /\ EmptyRegistry \in [Sessions -> Runs \cup {NoRun}] /\ \A s \in Sessions : EmptyRegistry[s] = NoRun
  /\ NoRegistrations \in [Runs -> {"no", "yes", "replaced", "over"}]
  /\ \A r \in Runs : NoRegistrations[r] = "no"
  /\ NoShutdown \in Shutdowns /\ NoDrain \in Drains /\ NoPast \in Pasts
  /\ NoShutdown.phase = "idle" /\ NoShutdown.action = "none" /\ NoShutdown.hadLock = FALSE
<1>1. {} \in SUBSET Commands
  OBVIOUS
<1>. QED BY <1>1 DEF NoTasks, NoPromises, Promises, EmptyRegistry, NoRegistrations, NoShutdown, NoDrain,
                     NoPast, Shutdowns, Drains, Pasts, Phases, Waits

\* The first start is about to be called.
LEMMA InitIInv == Init => IInv
<1>. SUFFICES ASSUME Init PROVE IInv
  OBVIOUS
<1>1. QueueInv
  <2>1. QueueTypes
    BY NewLanesFacts, FreshFacts DEF Init, QueueTypes
  <2>2. QueuesKnow /\ SlotsKnow /\ ExecutingIsPromised
    BY NewLanesFacts DEF Init, QueuesKnow, SlotsKnow, ExecutingIsPromised
  <2>3. TurnsComeFromSessionTasks
    BY FreshFacts, CommandFacts DEF Init, TurnsComeFromSessionTasks
  <2>4. SessionLanesHaveOneSlot
    BY NewLanesFacts, CommandFacts DEF Init, SessionLanesHaveOneSlot
  <2>. QED BY <2>1, <2>2, <2>3, <2>4 DEF QueueInv
<1>2. RegistryInv
  <2>1. NoRun \notin Runs
    BY RunsAssumption DEF NoRun
  <2>. QED BY <2>1, FreshFacts, CommandFacts
           DEF Init, RegistryInv, RegistryTypes, EntriesInTheirSession, RegistryKnowsNewest
<1>3. LoopTypes
  BY FreshFacts DEF Init, LoopTypes
<1>4. \A r \in Runs : ~Promised(r)
  BY FreshFacts, CommandFacts DEF Init, Promised
<1>5. LoopInv
  BY <1>4, FreshFacts DEF Init, LoopInv, RestartsCloseTheQueue, DrainWaitsForTurns, DrainedOfTurns,
                          LiveUnderLock, ClosedQueueHasACause, Alive, ShuttingDown
<1>6. TurnsHoldTheirSession
  BY <1>4 DEF TurnsHoldTheirSession
<1>. QED BY <1>1, <1>2, <1>3, <1>5, <1>6, Parts

\* The process ends.
LEMMA ExitKeeps ==
  ASSUME Exit
  PROVE  IInv'
<1>1. QueueInv'
  <2>1. QueueTypes'
    BY NewLanesFacts, FreshFacts DEF Exit, QueueTypes
  <2>2. QueuesKnow' /\ SlotsKnow' /\ ExecutingIsPromised'
    BY NewLanesFacts DEF Exit, QueuesKnow, SlotsKnow, ExecutingIsPromised
  <2>3. TurnsComeFromSessionTasks'
    BY FreshFacts, CommandFacts DEF Exit, TurnsComeFromSessionTasks
  <2>4. SessionLanesHaveOneSlot'
    BY NewLanesFacts, CommandFacts DEF Exit, SessionLanesHaveOneSlot
  <2>. QED BY <2>1, <2>2, <2>3, <2>4 DEF QueueInv
<1>2. RegistryInv'
  <2>1. NoRun \notin Runs
    BY RunsAssumption DEF NoRun
  <2>. QED BY <2>1, FreshFacts, CommandFacts
           DEF Exit, RegistryInv, RegistryTypes, EntriesInTheirSession, RegistryKnowsNewest
<1>3. LoopTypes'
  BY FreshFacts DEF Exit, LoopTypes
<1>4. \A r \in Runs : ~(promise'[<<"global", r>>] = "pending")
  BY FreshFacts, CommandFacts DEF Exit
<1>5. LoopInv'
  BY <1>4, FreshFacts DEF Exit, LoopInv, RestartsCloseTheQueue, DrainWaitsForTurns, DrainedOfTurns, Promised,
                          LiveUnderLock, ClosedQueueHasACause, Alive, ShuttingDown
<1>6. TurnsHoldTheirSession'
  BY <1>4 DEF TurnsHoldTheirSession, Promised
<1>. QED BY <1>1, <1>2, <1>3, <1>5, <1>6, NextParts

--------------------------------------------------------------------------------
(* The steps of the run loop.                                               *)

\* The records of the run loop, field by field.
LEMMA LoopFacts ==
  ASSUME IInv
  PROVE  /\ shutdown \in Shutdowns /\ drain \in Drains /\ past \in Pasts
         /\ shutdown.phase \in Phases /\ shutdown.action \in {"none", "stop", "restart"}
         /\ shutdown.hadLock \in BOOLEAN
         /\ drain.activeAtStart \in SUBSET Commands /\ drain.tasks \in Waits /\ drain.runs \in Waits
         /\ past.timedOut \in BOOLEAN /\ past.lostRestart \in BOOLEAN /\ past.failedStart \in BOOLEAN
         /\ loop \in {"starting", "waiting", "exited"}
         /\ listening \in BOOLEAN /\ lockHeld \in BOOLEAN /\ firstStart \in BOOLEAN
         /\ gatewayDraining \in BOOLEAN
<1>1. /\ shutdown \in Shutdowns /\ drain \in Drains /\ past \in Pasts
      /\ loop \in {"starting", "waiting", "exited"}
      /\ listening \in BOOLEAN /\ lockHeld \in BOOLEAN /\ firstStart \in BOOLEAN
      /\ gatewayDraining \in BOOLEAN
  BY Parts DEF LoopTypes, QueueInv, QueueTypes
<1>. QED BY <1>1 DEF Shutdowns, Drains, Pasts

\* The tasks of turns in the lanes: a session task that holds its slot is active.
LEMMA HoldersAreActive ==
  ASSUME NEW r \in Runs, HoldsSession(r)
  PROVE  <<"session", r>> \in ActiveIn(lanes)
BY CommandFacts DEF HoldsSession, ActiveIn

\* request("restart"): the queue closes, and the drain waits for every turn.
LEMMA RequestRestartKeeps ==
  ASSUME IInv, RequestRestart
  PROVE  IInv'
<1>1. /\ loop' = loop /\ loop # "exited" /\ listening' = listening /\ lockHeld' = lockHeld
      /\ firstStart' = firstStart /\ past' = past
      /\ UNCHANGED <<lanes, executing, taskGeneration, promise>> /\ UNCHANGED registryVars
      /\ shutdown.phase = "idle" /\ gatewayDraining' = TRUE
  BY DEF RequestRestart, BeginRestart, Alive, ShuttingDown
<1>2. /\ drain' = [activeAtStart |-> ActiveIn(lanes),
                   tasks |-> IF ActiveIn(lanes) # {} THEN "polling" ELSE "drained",
                   runs |-> IF RegistryEmpty THEN "drained" ELSE "polling"]
      /\ shutdown' = [phase |-> "draining", action |-> "restart", hadLock |-> FALSE]
  BY DEF RequestRestart, BeginRestart, NoShutdown
<1>3. /\ shutdown'.phase = "draining" /\ shutdown'.action = "restart" /\ shutdown'.hadLock = FALSE
      /\ shutdown' \in Shutdowns
  BY <1>2 DEF Shutdowns, Phases
<1>4. /\ drain'.activeAtStart = ActiveIn(lanes)
      /\ ActiveIn(lanes) # {} => drain'.tasks = "polling"
      /\ drain' \in Drains
  BY <1>2 DEF Drains, Waits, ActiveIn
<1>5. LoopTypes'
  BY <1>1, <1>3, <1>4, LoopFacts DEF LoopTypes
<1>6. DrainWaitsForTurns'
  <2>1. SUFFICES ASSUME ~past.timedOut, NEW r \in Runs, promise'[<<"global", r>>] = "pending"
                 PROVE  drain'.tasks # "drained" /\ <<"session", r>> \in drain'.activeAtStart
    BY <1>1 DEF DrainWaitsForTurns, Promised
  <2>2. HoldsSession(r)
    BY <1>1, <2>1, Parts DEF TurnsHoldTheirSession, Promised
  <2>. QED BY <1>4, <2>2, HoldersAreActive
<1>7. DrainedOfTurns'
  BY <1>3 DEF DrainedOfTurns
<1>8. RestartsCloseTheQueue' /\ LiveUnderLock' /\ ClosedQueueHasACause'
  BY <1>1, <1>3, Parts DEF LoopInv, RestartsCloseTheQueue, LiveUnderLock, ClosedQueueHasACause, Alive,
                           ShuttingDown
<1>9. LoopInv'
  BY <1>6, <1>7, <1>8 DEF LoopInv
<1>. QED BY <1>1, <1>5, <1>9, LoopKeeps

\* request("stop").
LEMMA RequestStopKeeps ==
  ASSUME IInv, RequestStop
  PROVE  IInv'
<1>1. /\ loop' = loop /\ listening' = listening /\ lockHeld' = lockHeld /\ drain' = drain
      /\ firstStart' = firstStart /\ past' = past /\ gatewayDraining' = gatewayDraining
      /\ UNCHANGED <<lanes, executing, taskGeneration, promise>> /\ UNCHANGED registryVars
      /\ shutdown.phase = "idle"
  BY DEF RequestStop, queueVars, Alive, ShuttingDown
<1>2. shutdown' = [phase |-> "closing", action |-> "stop", hadLock |-> FALSE]
  BY DEF RequestStop, NoShutdown
<1>3. /\ shutdown'.phase = "closing" /\ shutdown'.action = "stop" /\ shutdown'.hadLock = FALSE
      /\ shutdown' \in Shutdowns
  BY <1>2 DEF Shutdowns, Phases
<1>4. LoopTypes'
  BY <1>1, <1>3, LoopFacts DEF LoopTypes
<1>5. LoopInv'
  BY <1>1, <1>3, Parts DEF LoopInv, RestartsCloseTheQueue, DrainWaitsForTurns, DrainedOfTurns, LiveUnderLock,
                           ClosedQueueHasACause, Alive, ShuttingDown
<1>. QED BY <1>1, <1>4, <1>5, LoopFacts, LoopKeeps

\* The waits of a drain: that for the tasks ends drained only when no turn is promised.
LEMMA WaitsKeep ==
  ASSUME IInv, WaitForActiveTasks \/ WaitForActiveEmbeddedRuns
  PROVE  IInv'
<1>1. /\ loop' = loop /\ listening' = listening /\ lockHeld' = lockHeld /\ shutdown' = shutdown
      /\ firstStart' = firstStart /\ past' = past /\ gatewayDraining' = gatewayDraining
      /\ UNCHANGED <<lanes, executing, taskGeneration, promise>> /\ UNCHANGED registryVars
      /\ shutdown.phase = "draining"
  BY DEF WaitForActiveTasks, WaitForActiveEmbeddedRuns, queueVars
<1>2. /\ drain' \in Drains /\ drain'.activeAtStart = drain.activeAtStart
      /\ \/ drain'.tasks = drain.tasks
         \/ drain'.tasks = IF drain.activeAtStart \cap ActiveIn(lanes) = {} THEN "drained" ELSE "timedOut"
  <2>1. CASE WaitForActiveTasks
    <3>1. PICK tasks : tasks = IF drain.activeAtStart \cap ActiveIn(lanes) = {} THEN "drained" ELSE "timedOut"
      OBVIOUS
    <3>2. drain' = [drain EXCEPT !.tasks = tasks] /\ tasks \in Waits
      BY <2>1, <3>1 DEF WaitForActiveTasks, Waits
    <3>. QED BY <3>1, <3>2, LoopFacts DEF Drains
  <2>2. CASE WaitForActiveEmbeddedRuns
    <3>1. PICK runs : runs = IF RegistryEmpty THEN "drained" ELSE "timedOut"
      OBVIOUS
    <3>2. drain' = [drain EXCEPT !.runs = runs] /\ runs \in Waits
      BY <2>2, <3>1 DEF WaitForActiveEmbeddedRuns, Waits
    <3>. QED BY <3>2, LoopFacts DEF Drains
  <2>. QED BY <2>1, <2>2
<1>3. LoopTypes'
  BY <1>1, <1>2, LoopFacts DEF LoopTypes
<1>4. DrainWaitsForTurns'
  <2>1. SUFFICES ASSUME ~past.timedOut, NEW r \in Runs, promise'[<<"global", r>>] = "pending"
                 PROVE  drain'.tasks # "drained" /\ <<"session", r>> \in drain'.activeAtStart
    BY <1>1 DEF DrainWaitsForTurns, Promised
  <2>2. Promised(r)
    BY <1>1, <2>1 DEF Promised
  <2>3. HoldsSession(r)
    BY <2>1, <2>2, Parts DEF TurnsHoldTheirSession
  <2>4. drain.tasks # "drained" /\ <<"session", r>> \in drain.activeAtStart
    BY <1>1, <2>1, <2>2, Parts DEF LoopInv, DrainWaitsForTurns
  <2>5. <<"session", r>> \in drain.activeAtStart \cap ActiveIn(lanes)
    BY <2>3, <2>4, HoldersAreActive
  <2>. QED BY <1>2, <2>4, <2>5
<1>5. DrainedOfTurns'
  BY <1>1 DEF DrainedOfTurns
<1>6. RestartsCloseTheQueue' /\ LiveUnderLock' /\ ClosedQueueHasACause'
  BY <1>1, Parts DEF LoopInv, RestartsCloseTheQueue, LiveUnderLock, ClosedQueueHasACause, Alive, ShuttingDown
<1>7. LoopInv'
  BY <1>4, <1>5, <1>6 DEF LoopInv
<1>. QED BY <1>1, <1>3, <1>7, LoopFacts, LoopKeeps

\* The drain is over, and no turn is left or one of its waits has timed out.
LEMMA DrainEndsKeeps ==
  ASSUME IInv, DrainEnds
  PROVE  IInv'
<1>1. /\ loop' = loop /\ listening' = listening /\ lockHeld' = lockHeld
      /\ firstStart' = firstStart /\ gatewayDraining' = gatewayDraining
      /\ UNCHANGED <<lanes, executing, taskGeneration, promise>> /\ UNCHANGED registryVars
      /\ shutdown.phase = "draining" /\ drain' = NoDrain
      /\ "polling" \notin {drain.tasks, drain.runs}
  BY DEF DrainEnds, queueVars
<1>2. /\ shutdown' \in Shutdowns /\ shutdown'.phase = "closing"
      /\ shutdown'.action = shutdown.action /\ shutdown'.hadLock = shutdown.hadLock
  <2>1. shutdown' = [shutdown EXCEPT !.phase = "closing"] /\ "closing" \in Phases
    BY DEF DrainEnds, Phases
  <2>. QED BY <2>1, LoopFacts DEF Shutdowns
<1>3. /\ past' \in Pasts
      /\ past'.timedOut = TRUE <=> past.timedOut = TRUE \/ drain.tasks = "timedOut" \/ drain.runs = "timedOut"
      /\ past'.lostRestart = past.lostRestart /\ past'.failedStart = past.failedStart
      /\ past'.timedOut \in BOOLEAN
  <2>1. PICK timedOut : timedOut = (past.timedOut \/ "timedOut" \in {drain.tasks, drain.runs})
    OBVIOUS
  <2>2. past' = [past EXCEPT !.timedOut = timedOut] /\ timedOut \in BOOLEAN
    BY <2>1, LoopFacts DEF DrainEnds
  <2>3. /\ past' \in Pasts /\ past'.timedOut = timedOut
        /\ past'.lostRestart = past.lostRestart /\ past'.failedStart = past.failedStart
    BY <2>2, LoopFacts DEF Pasts
  <2>. QED BY <2>1, <2>2, <2>3, LoopFacts
<1>4. LoopTypes'
  BY <1>1, <1>2, <1>3, FreshFacts, LoopFacts DEF LoopTypes
<1>5. DrainedOfTurns'
  <2>1. SUFFICES ASSUME ~past'.timedOut, NEW r \in Runs
                 PROVE  ~(promise'[<<"global", r>>] = "pending")
    BY DEF DrainedOfTurns, Promised
  <2>2. ~past.timedOut /\ drain.tasks = "drained"
    BY <1>1, <1>3, <2>1, LoopFacts DEF Waits
  <2>3. ~Promised(r)
    BY <1>1, <2>2, Parts DEF LoopInv, DrainWaitsForTurns
  <2>. QED BY <1>1, <2>3 DEF Promised
<1>6. DrainWaitsForTurns'
  BY <1>2 DEF DrainWaitsForTurns
<1>7. RestartsCloseTheQueue' /\ LiveUnderLock' /\ ClosedQueueHasACause'
  BY <1>1, <1>2, <1>3, LoopFacts, Parts
     DEF LoopInv, RestartsCloseTheQueue, LiveUnderLock, ClosedQueueHasACause, Alive, ShuttingDown
<1>8. LoopInv'
  BY <1>5, <1>6, <1>7 DEF LoopInv
<1>9. past.timedOut => past'.timedOut
  BY <1>3, LoopFacts
<1>. QED BY <1>1, <1>4, <1>8, <1>9, LoopFacts, LoopKeeps

\* server.close() is over.
LEMMA ServerClosesKeeps ==
  ASSUME IInv, ServerCloses
  PROVE  IInv'
<1>1. /\ loop' = loop /\ listening' = FALSE /\ lockHeld' = lockHeld /\ drain' = drain
      /\ firstStart' = firstStart /\ past' = past /\ gatewayDraining' = gatewayDraining
      /\ UNCHANGED <<lanes, executing, taskGeneration, promise>> /\ UNCHANGED registryVars
      /\ shutdown.phase = "closing"
  BY DEF ServerCloses, queueVars
<1>2. /\ shutdown' \in Shutdowns /\ shutdown'.phase = "closed"
      /\ shutdown'.action = shutdown.action /\ shutdown'.hadLock = shutdown.hadLock
  <2>1. shutdown' = [shutdown EXCEPT !.phase = "closed"] /\ "closed" \in Phases
    BY DEF ServerCloses, Phases
  <2>. QED BY <2>1, LoopFacts DEF Shutdowns
<1>3. LoopTypes'
  BY <1>1, <1>2, LoopFacts DEF LoopTypes
<1>4. LoopInv'
  BY <1>1, <1>2, Parts DEF LoopInv, RestartsCloseTheQueue, DrainWaitsForTurns, DrainedOfTurns, LiveUnderLock,
                           ClosedQueueHasACause, Alive, ShuttingDown, Promised
<1>. QED BY <1>1, <1>3, <1>4, LoopFacts, LoopKeeps

\* No child takes over: the lock is given back, and remembered.
LEMMA FallBackKeeps ==
  ASSUME IInv, FallBackInProcess
  PROVE  IInv'
<1>1. /\ loop' = loop /\ listening' = listening /\ lockHeld' = FALSE /\ drain' = drain
      /\ firstStart' = firstStart /\ past' = past /\ gatewayDraining' = gatewayDraining
      /\ UNCHANGED <<lanes, executing, taskGeneration, promise>> /\ UNCHANGED registryVars
      /\ shutdown.phase = "closed" /\ shutdown.action = "restart"
  BY DEF FallBackInProcess, queueVars
<1>2. /\ shutdown' \in Shutdowns /\ shutdown'.phase = "reacquiring"
      /\ shutdown'.action = shutdown.action /\ shutdown'.hadLock = lockHeld
  <2>1. shutdown' = [shutdown EXCEPT !.phase = "reacquiring", !.hadLock = lockHeld] /\ "reacquiring" \in Phases
    BY DEF FallBackInProcess, Phases
  <2>. QED BY <2>1, LoopFacts DEF Shutdowns
<1>3. LoopTypes'
  BY <1>1, <1>2, LoopFacts DEF LoopTypes
<1>4. LoopInv'
  BY <1>1, <1>2, Parts DEF LoopInv, RestartsCloseTheQueue, DrainWaitsForTurns, DrainedOfTurns, LiveUnderLock,
                           ClosedQueueHasACause, Alive, ShuttingDown, Promised
<1>. QED BY <1>1, <1>3, <1>4, LoopFacts, LoopKeeps

\* The restart is over.  If the main loop waits, the lanes are reset; no turn is promised then,
\* unless a drain has timed out, so each turn that begins holds its session.
LEMMA FinishRestartKeeps ==
  ASSUME IInv, FinishRestart
  PROVE  IInv'
<1>1. /\ listening' = listening /\ drain' = drain /\ firstStart' = firstStart /\ UNCHANGED registryVars
      /\ loop # "exited" /\ shutdown.phase = "reacquiring" /\ shutdown' = NoShutdown
      /\ lockHeld' = (lockHeld \/ shutdown.hadLock)
  BY DEF FinishRestart, Alive
<1>2. lockHeld' \in BOOLEAN
  BY <1>1, LoopFacts
<1>3. CASE loop = "waiting"
  <2>1. /\ loop' = "starting" /\ gatewayDraining' = FALSE /\ past' = past
        /\ RunLanes([l \in Lanes |-> ResetLane(lanes[l])], {}, promise)
    BY <1>3 DEF FinishRestart
  <2>2. /\ QueueInv'
        /\ \A r \in Runs : promise'[<<"global", r>>] = "pending" =>
             \/ promise[<<"global", r>>] = "pending"
             \/ <<"session", r>> \in lanes'[SessionOf[r]].active
    BY <2>1, Parts, ResetKeeps
  <2>3. past.timedOut \/ \A r \in Runs : ~Promised(r)
    BY <1>1, Parts DEF LoopInv, RestartsCloseTheQueue, DrainedOfTurns
  <2>4. TurnsHoldTheirSession'
    BY <2>1, <2>2, <2>3 DEF TurnsHoldTheirSession, Promised, HoldsSession
  <2>5. LoopTypes'
    BY <1>1, <1>2, <2>1, FreshFacts, LoopFacts DEF LoopTypes
  <2>6. LoopInv'
    BY <1>1, <1>3, <2>1, FreshFacts, Parts
       DEF LoopInv, RestartsCloseTheQueue, DrainWaitsForTurns, DrainedOfTurns, LiveUnderLock,
           ClosedQueueHasACause, Alive, ShuttingDown
  <2>7. RegistryInv'
    BY <1>1, Parts, RegistryStays
  <2>. QED BY <2>2, <2>4, <2>5, <2>6, <2>7, NextParts
<1>4. CASE loop # "waiting"
  <2>1. /\ loop' = loop /\ gatewayDraining' = gatewayDraining
        /\ UNCHANGED <<lanes, executing, taskGeneration, promise>>
    BY <1>4 DEF FinishRestart, queueVars
  <2>2. /\ past' \in Pasts /\ past'.lostRestart = TRUE
        /\ past'.timedOut = past.timedOut /\ past'.failedStart = past.failedStart
    <3>1. past' = [past EXCEPT !.lostRestart = TRUE]
      BY <1>4 DEF FinishRestart
    <3>. QED BY <3>1, LoopFacts DEF Pasts
  <2>3. LoopTypes'
    BY <1>1, <1>2, <2>1, <2>2, FreshFacts, LoopFacts DEF LoopTypes
  <2>4. LoopInv'
    BY <1>1, <2>1, <2>2, FreshFacts, Parts
       DEF LoopInv, RestartsCloseTheQueue, DrainWaitsForTurns, DrainedOfTurns, LiveUnderLock,
           ClosedQueueHasACause, Alive, ShuttingDown
  <2>. QED BY <1>1, <2>1, <2>2, <2>3, <2>4, LoopFacts, LoopKeeps
<1>. QED BY <1>3, <1>4

\* start() returns, or throws after the first time.
LEMMA StartsKeep ==
  ASSUME IInv, StartSucceeds \/ StartFails
  PROVE  IInv'
<1>1. /\ gatewayDraining' = gatewayDraining /\ shutdown' = shutdown /\ drain' = drain
      /\ UNCHANGED <<lanes, executing, taskGeneration, promise>> /\ UNCHANGED registryVars
      /\ loop = "starting" /\ loop' = "waiting"
      /\ listening' \in BOOLEAN /\ firstStart' \in BOOLEAN
  BY LoopFacts DEF StartSucceeds, StartFails, queueVars
<1>2. /\ past' \in Pasts /\ past'.timedOut = past.timedOut /\ past'.lostRestart = past.lostRestart
      /\ past.failedStart => past'.failedStart
      /\ lockHeld' \in BOOLEAN
      /\ lockHeld' = lockHeld \/ past'.failedStart = TRUE
  <2>1. CASE StartSucceeds
    BY <2>1, LoopFacts DEF StartSucceeds
  <2>2. CASE StartFails
    <3>1. past' = [past EXCEPT !.failedStart = TRUE] /\ lockHeld' = FALSE
      BY <2>2 DEF StartFails
    <3>. QED BY <3>1, LoopFacts DEF Pasts
  <2>. QED BY <2>1, <2>2
<1>3. LoopTypes'
  BY <1>1, <1>2, LoopFacts DEF LoopTypes
<1>4. LoopInv'
  <2>1. RestartsCloseTheQueue' /\ DrainWaitsForTurns' /\ DrainedOfTurns'
    BY <1>1, <1>2, Parts DEF LoopInv, RestartsCloseTheQueue, DrainWaitsForTurns, DrainedOfTurns, Promised
  <2>2. LiveUnderLock' /\ ClosedQueueHasACause'
    BY <1>1, <1>2, Parts DEF LoopInv, LiveUnderLock, ClosedQueueHasACause, Alive, ShuttingDown
  <2>. QED BY <2>1, <2>2 DEF LoopInv
<1>. QED BY <1>1, <1>2, <1>3, <1>4, LoopFacts, LoopKeeps

--------------------------------------------------------------------------------
(* The theorems.                                                            *)

\* A stuttering step.
LEMMA StutterKeeps ==
  ASSUME IInv, UNCHANGED vars
  PROVE  IInv'
<1>1. /\ UNCHANGED <<lanes, executing, taskGeneration, promise>> /\ UNCHANGED registryVars
      /\ gatewayDraining' = gatewayDraining /\ UNCHANGED loopVars
  BY DEF vars, queueVars
<1>2. /\ loop' = loop /\ listening' = listening /\ lockHeld' = lockHeld
      /\ firstStart' = firstStart /\ shutdown' = shutdown /\ drain' = drain /\ past' = past
  BY <1>1 DEF loopVars
<1>3. QueueInv' /\ RegistryInv'
  BY <1>1, LoopFacts, Parts, QueueStays, RegistryStays
<1>4. TurnsAreFew
  BY <1>1 DEF TurnsAreFew
<1>. QED BY <1>1, <1>3, <1>4, RunsKeep

\* Every step keeps the invariant.
LEMMA NextIInv ==
  ASSUME IInv, [Next]_vars
  PROVE  IInv'
<1>1. CASE \E r \in Runs : RequestRun(r) \/ JobDispatches(r) \/ JobEnds(r) \/ JobTimesOut(r)
  BY <1>1, CommandSteps
<1>2. CASE \E r \in Runs : TurnEnds(r) \/ SessionTaskEnds(r) \/ SetActiveEmbeddedRun(r) \/ ClearActiveEmbeddedRun(r)
  BY <1>2, CommandSteps, RegistrySteps
<1>3. CASE RequestRestart
  BY <1>3, RequestRestartKeeps
<1>4. CASE RequestStop
  BY <1>4, RequestStopKeeps
<1>5. CASE WaitForActiveTasks \/ WaitForActiveEmbeddedRuns
  BY <1>5, WaitsKeep
<1>6. CASE DrainEnds
  BY <1>6, DrainEndsKeeps
<1>7. CASE ServerCloses
  BY <1>7, ServerClosesKeeps
<1>8. CASE ForceExit \/ ExitAfterClose \/ LockReacquireFails \/ FirstStartFails
  BY <1>8, ExitKeeps DEF ForceExit, ExitAfterClose, LockReacquireFails, FirstStartFails
<1>9. CASE FallBackInProcess
  BY <1>9, FallBackKeeps
<1>10. CASE FinishRestart
  BY <1>10, FinishRestartKeeps
<1>11. CASE StartSucceeds \/ StartFails
  BY <1>11, StartsKeep
<1>12. CASE UNCHANGED vars
  BY <1>12, StutterKeeps
<1>. QED BY <1>1, <1>2, <1>3, <1>4, <1>5, <1>6, <1>7, <1>8, <1>9, <1>10, <1>11, <1>12 DEF Next

\* The invariant holds throughout.
LEMMA Invariance == Spec => []IInv
<1>1. IInv /\ [Next]_vars => IInv'
  BY NextIInv
<1>. QED BY <1>1, InitIInv, PTL DEF Spec

\* Every variable keeps its type: above all, each lane stays a queue of commands with a limit
\* of at least one, and the registry maps sessions to runs.
THEOREM TypeCorrect == Spec => []TypeOK
<1>1. IInv => TypeOK
  BY DEF IInv
<1>. QED BY <1>1, Invariance, PTL

\* Two agent turns run in one session at the same time only after the drain of a restart has
\* timed out (run.ts enqueues a turn in its global lane from inside its session lane; the reset
\* of the lanes at a restart hands the slots out again).
THEOREM NoOverlap == Spec => []OverlapOnlyAfterTimeout
<1>1. ASSUME IInv  PROVE OverlapOnlyAfterTimeout
  <2>1. SUFFICES ASSUME ~past.timedOut, NEW s \in Sessions
                 PROVE  Cardinality(Turns(s)) <= 1
    BY DEF OverlapOnlyAfterTimeout, OneRunPerSession
  <2>2. \A r \in Turns(s) : r \in Runs /\ <<"session", r>> \in lanes[s].active
    <3>1. SUFFICES ASSUME NEW r \in Turns(s)
                   PROVE  r \in Runs /\ <<"session", r>> \in lanes[s].active
      OBVIOUS
    <3>2. r \in Runs /\ <<"global", r>> \in executing /\ SessionOf[r] = s
      BY DEF Turns
    <3>3. Promised(r)
      BY <1>1, <3>2, Parts DEF QueueInv, ExecutingIsPromised, Promised
    <3>4. HoldsSession(r)
      BY <1>1, <2>1, <3>2, <3>3, Parts DEF TurnsHoldTheirSession
    <3>. QED BY <3>2, <3>4 DEF HoldsSession
  <2>3. \A q, r \in Turns(s) : q = r
    <3>1. SUFFICES ASSUME NEW q \in Turns(s), NEW r \in Turns(s)
                   PROVE  q = r
      OBVIOUS
    <3>2. <<"session", q>> = <<"session", r>>
      BY <1>1, <2>2, Parts DEF QueueInv, SessionLanesHaveOneSlot
    <3>. QED BY <3>2
  <2>4. CASE Turns(s) = {}
    BY <2>4, FS_EmptySet
  <2>5. CASE Turns(s) # {}
    <3>1. PICK r : r \in Turns(s)
      BY <2>5
    <3>2. Turns(s) = {r}
      BY <2>3, <3>1
    <3>. QED BY <3>2, FS_Singleton
  <2>. QED BY <2>4, <2>5
<1>. QED BY <1>1, Invariance, PTL

\* A gateway whose queue is closed is shutting down or has lost a restart, and one that listens
\* holds the lock or has a failed start or a restart under way to blame.
THEOREM UpIsOpenAndLocked == Spec => []UpMeansOpenAndLocked
<1>1. ASSUME IInv  PROVE UpMeansOpenAndLocked
  <2>1. ClosedQueueHasACause /\ LiveUnderLock
    BY <1>1 DEF IInv
  <2>. QED BY <2>1 DEF UpMeansOpenAndLocked, LiveUnderLock, ListensUnderLock
<1>. QED BY <1>1, Invariance, PTL

\* The registry holds a run exactly from its registration until it ends or is replaced.
THEOREM RegistryIsExact == Spec => []RegistryKnowsNewest
<1>1. IInv => RegistryKnowsNewest
  BY DEF IInv
<1>. QED BY <1>1, Invariance, PTL

\* A restart whose drain did not time out closes the server when no agent turn runs.
THEOREM ClosesWithoutTurns == Spec => ClosesAfterTurns
<1>. DEFINE A == ServerCloses /\ shutdown.action = "restart" =>
                   past.timedOut \/ \A s \in Sessions : Turns(s) = {}
<1>1. ASSUME IInv, [Next]_vars  PROVE [A]_vars
  <2>1. SUFFICES ASSUME ServerCloses, shutdown.action = "restart", ~past.timedOut, NEW s \in Sessions
                 PROVE  Turns(s) = {}
    OBVIOUS
  <2>2. shutdown.phase = "closing"
    BY <2>1 DEF ServerCloses
  <2>3. \A r \in Runs : ~Promised(r)
    BY <1>1, <2>1, <2>2, Parts DEF LoopInv, DrainedOfTurns
  <2>4. \A r \in Runs : <<"global", r>> \notin executing
    BY <1>1, <2>3, Parts DEF QueueInv, ExecutingIsPromised, Promised
  <2>. QED BY <2>4 DEF Turns
<1>. QED BY <1>1, Invariance, PTL DEF Spec, ClosesAfterTurns
================================================================================
