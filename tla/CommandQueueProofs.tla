--------------------------- MODULE CommandQueueProofs ---------------------------
(***************************************************************************)
(* Proofs about CommandQueue, for any set of lanes, calls and limits.      *)
(*                                                                         *)
(* NoStrandedWork is not inductive: that a pump stops only when the lane   *)
(* is full needs every started call to take a new slot, so a call may not  *)
(* wait twice, nor wait and run - which needs the order of the queue, the  *)
(* promises and the slots.  IInv is that conjunction.                      *)
(*                                                                         *)
(* Every step that starts tasks is a change of the lanes to some `mid`     *)
(* followed by DrainLane on all lanes (on a full lane it does nothing), so *)
(* one lemma about the pump, PumpStep, serves four actions.                *)
(***************************************************************************)
EXTENDS CommandQueue, FiniteSetTheorems, TLAPS

--------------------------------------------------------------------------------
(* What the operators of CommandLanes do to any lane.  The pump loop is a   *)
(* closed form there (StartCount calls leave the head of the queue); these  *)
(* lemmas are all that the proofs about the queue need to know of it.       *)

LaneType(S) == [queue : Seq(S), active : SUBSET S, maxConcurrent : Nat \ {0}, generation : Nat]

\* The queue is in the order that `at` gives to calls.
Sorted(queue, at) == \A i, j \in 1..Len(queue) : i < j => at[queue[i]] < at[queue[j]]

\* A lane that is between two pumps: in order, and nothing both waits and holds a slot.
WellFormed(lane, at) ==
  /\ Sorted(lane.queue, at)
  /\ Waiting(lane) \cap lane.active = {}

Full(lane) == lane.queue # <<>> => Cardinality(lane.active) >= lane.maxConcurrent

\* The pump starts at most as many calls as wait and as there are free slots.
LEMMA StartCountBounds ==
  ASSUME NEW S, IsFiniteSet(S), NEW lane \in LaneType(S)
  PROVE  /\ Cardinality(lane.active) \in Nat
         /\ IsFiniteSet(lane.active)
         /\ StartCount(lane) \in 0..Len(lane.queue)
         /\ StartCount(lane) > 0 => Cardinality(lane.active) + StartCount(lane) <= lane.maxConcurrent
         /\ StartCount(lane) < Len(lane.queue) =>
              Cardinality(lane.active) + StartCount(lane) >= lane.maxConcurrent
<1>1. lane.active \in SUBSET S /\ lane.maxConcurrent \in Nat \ {0} /\ Len(lane.queue) \in Nat
  BY DEF LaneType
<1>2. IsFiniteSet(lane.active) /\ Cardinality(lane.active) \in Nat
  BY <1>1, FS_Subset, FS_CardinalityType
<1>. QED BY <1>1, <1>2 DEF StartCount, FreeSlots

\* As many calls start as leave the queue, because a sorted queue holds no call twice.
LEMMA StartedCount ==
  ASSUME NEW S, IsFiniteSet(S), NEW lane \in LaneType(S),
         NEW at \in [S -> Nat], Sorted(lane.queue, at)
  PROVE  /\ IsFiniteSet(Started(lane))
         /\ Cardinality(Started(lane)) = StartCount(lane)
<1>. DEFINE n == StartCount(lane)
            f == [i \in 1..n |-> lane.queue[i]]
<1>1. n \in 0..Len(lane.queue) /\ lane.queue \in Seq(S)
  BY StartCountBounds DEF LaneType
<1>2. f \in Surjection(1..n, Started(lane))
  BY <1>1 DEF Surjection, Started
<1>3. f \in Injection(1..n, Started(lane))
  <2>1. ASSUME NEW i \in 1..n, NEW j \in 1..n, i < j  PROVE lane.queue[i] # lane.queue[j]
    <3>1. at[lane.queue[i]] < at[lane.queue[j]]
      BY <1>1, <2>1 DEF Sorted
    <3>2. lane.queue[i] \in S /\ lane.queue[j] \in S
      BY <1>1
    <3>. QED BY <3>1, <3>2
  <2>2. \A i, j \in 1..n : f[i] = f[j] => i = j
    BY <1>1, <2>1
  <2>. QED BY <1>2, <2>2 DEF Surjection, Injection, IsInjective
<1>4. IsFiniteSet(1..n) /\ Cardinality(1..n) = n
  BY <1>1, FS_Interval
<1>. QED BY <1>2, <1>3, <1>4, FS_Surjection

\* drainLane keeps the lane's type, limit and generation.
LEMMA DrainLaneType ==
  ASSUME NEW S, IsFiniteSet(S), NEW lane \in LaneType(S)
  PROVE  /\ DrainLane(lane) \in LaneType(S)
         /\ DrainLane(lane).queue = SubSeq(lane.queue, StartCount(lane) + 1, Len(lane.queue))
         /\ DrainLane(lane).active = lane.active \cup Started(lane)
         /\ DrainLane(lane).maxConcurrent = lane.maxConcurrent
         /\ DrainLane(lane).generation = lane.generation
         /\ Started(lane) \subseteq Waiting(lane)
         /\ Waiting(lane) \subseteq S
<1>1. StartCount(lane) \in 0..Len(lane.queue)
  BY StartCountBounds
<1>2. lane.queue \in Seq(S) /\ Len(lane.queue) \in Nat
  BY DEF LaneType
<1>3. SubSeq(lane.queue, StartCount(lane) + 1, Len(lane.queue)) \in Seq(S)
  BY <1>1, <1>2
<1>4. Started(lane) \subseteq Waiting(lane) /\ Waiting(lane) \subseteq S
  BY <1>1, <1>2 DEF Started, Waiting
<1>. QED BY <1>3, <1>4 DEF DrainLane, LaneType

\* What stays in the queue is its tail, at indices shifted by the calls that started.
LEMMA DrainLaneQueue ==
  ASSUME NEW S, IsFiniteSet(S), NEW lane \in LaneType(S)
  PROVE  /\ StartCount(lane) \in 0..Len(lane.queue)
         /\ Len(lane.queue) \in Nat
         /\ Len(DrainLane(lane).queue) = Len(lane.queue) - StartCount(lane)
         /\ \A i \in 1..Len(DrainLane(lane).queue) :
              /\ i + StartCount(lane) \in 1..Len(lane.queue)
              /\ DrainLane(lane).queue[i] = lane.queue[i + StartCount(lane)]
<1>1. StartCount(lane) \in 0..Len(lane.queue)
  BY StartCountBounds
<1>2. lane.queue \in Seq(S) /\ Len(lane.queue) \in Nat
  BY DEF LaneType
<1>3. DrainLane(lane).queue = SubSeq(lane.queue, StartCount(lane) + 1, Len(lane.queue))
  BY DrainLaneType
<1>4. Len(DrainLane(lane).queue) = Len(lane.queue) - StartCount(lane)
  <2>1. \A q \in Seq(S) : \A k \in 0..Len(q) : Len(SubSeq(q, k + 1, Len(q))) = Len(q) - k
    OBVIOUS
  <2>. QED BY <1>1, <1>2, <1>3, <2>1
<1>5. ASSUME NEW i \in 1..Len(DrainLane(lane).queue)
      PROVE  /\ i + StartCount(lane) \in 1..Len(lane.queue)
             /\ DrainLane(lane).queue[i] = lane.queue[i + StartCount(lane)]
  <2>1. i \in Nat /\ 1 <= i /\ i <= Len(lane.queue) - StartCount(lane)
    BY <1>1, <1>2, <1>4, <1>5
  <2>2. i + StartCount(lane) \in 1..Len(lane.queue)
    BY <1>1, <1>2, <2>1
  <2>. QED BY <1>1, <1>2, <1>3, <2>1, <2>2
<1>. QED BY <1>1, <1>2, <1>4, <1>5

\* After drainLane a call waits only if no slot is free, and a lane that started
\* something is within its limit.
LEMMA DrainLaneFull ==
  ASSUME NEW S, IsFiniteSet(S), NEW lane \in LaneType(S),
         NEW at \in [S -> Nat], WellFormed(lane, at)
  PROVE  /\ Full(DrainLane(lane))
         /\ Started(lane) # {} => Cardinality(DrainLane(lane).active) <= lane.maxConcurrent
<1>1. /\ Cardinality(lane.active) \in Nat
      /\ IsFiniteSet(lane.active)
      /\ StartCount(lane) \in 0..Len(lane.queue)
      /\ StartCount(lane) > 0 => Cardinality(lane.active) + StartCount(lane) <= lane.maxConcurrent
      /\ StartCount(lane) < Len(lane.queue) =>
           Cardinality(lane.active) + StartCount(lane) >= lane.maxConcurrent
  BY StartCountBounds
<1>2. IsFiniteSet(Started(lane)) /\ Cardinality(Started(lane)) = StartCount(lane)
  BY StartedCount DEF WellFormed
<1>3. lane.active \cap Started(lane) = {}
  BY DrainLaneType DEF WellFormed
<1>4. Cardinality(DrainLane(lane).active) = Cardinality(lane.active) + StartCount(lane)
  <2>1. Cardinality(lane.active \cap Started(lane)) = 0
    BY <1>3, FS_EmptySet
  <2>2. Cardinality(lane.active \cup Started(lane))
          = Cardinality(lane.active) + Cardinality(Started(lane)) - Cardinality(lane.active \cap Started(lane))
    BY <1>1, <1>2, FS_Union
  <2>3. DrainLane(lane).active = lane.active \cup Started(lane)
    BY DrainLaneType
  <2>. QED BY <1>1, <1>2, <2>1, <2>2, <2>3
<1>5. Full(DrainLane(lane))
  <2>1. SUFFICES ASSUME DrainLane(lane).queue # <<>>
                 PROVE  Cardinality(DrainLane(lane).active) >= DrainLane(lane).maxConcurrent
    BY DEF Full
  <2>2. DrainLane(lane).queue \in Seq(S)
    BY DrainLaneType DEF LaneType
  <2>3. Len(DrainLane(lane).queue) > 0
    BY <2>1, <2>2
  <2>4. StartCount(lane) < Len(lane.queue)
    BY <1>1, <2>3, DrainLaneQueue
  <2>. QED BY <1>1, <1>4, <2>4, DrainLaneType
<1>6. Started(lane) # {} => StartCount(lane) > 0
  BY <1>1 DEF Started
<1>. QED BY <1>1, <1>4, <1>5, <1>6

\* drainLane keeps the order: the calls it starts come before those that still wait.
LEMMA DrainLaneOrder ==
  ASSUME NEW S, IsFiniteSet(S), NEW lane \in LaneType(S),
         NEW at \in [S -> Nat], WellFormed(lane, at)
  PROVE  /\ WellFormed(DrainLane(lane), at)
         /\ Waiting(DrainLane(lane)) = Waiting(lane) \ Started(lane)
         /\ \A c \in Started(lane), d \in Waiting(DrainLane(lane)) : at[c] < at[d]
<1>. DEFINE n == StartCount(lane)
<1>1. lane.queue \in Seq(S) /\ Len(lane.queue) \in Nat /\ n \in 0..Len(lane.queue)
  BY StartCountBounds DEF LaneType
<1>2. /\ Len(DrainLane(lane).queue) = Len(lane.queue) - n
      /\ \A i \in 1..Len(DrainLane(lane).queue) :
           i + n \in 1..Len(lane.queue) /\ DrainLane(lane).queue[i] = lane.queue[i + n]
  BY DrainLaneQueue
<1>3. \A i, j \in 1..Len(lane.queue) : i < j => at[lane.queue[i]] < at[lane.queue[j]]
  BY DEF WellFormed, Sorted
<1>4. ASSUME NEW c \in Started(lane), NEW d \in Waiting(DrainLane(lane))  PROVE at[c] < at[d]
  <2>1. PICK i \in 1..n : c = lane.queue[i]
    BY DEF Started
  <2>2. PICK j \in 1..Len(DrainLane(lane).queue) : d = DrainLane(lane).queue[j]
    BY DEF Waiting
  <2>3. /\ d = lane.queue[j + n] /\ j + n \in 1..Len(lane.queue)
        /\ i \in 1..Len(lane.queue) /\ i < j + n
    BY <1>1, <1>2, <2>1, <2>2
  <2>. QED BY <1>3, <2>1, <2>3
<1>5. Waiting(DrainLane(lane)) = Waiting(lane) \ Started(lane)
  <2>1. ASSUME NEW d \in Waiting(DrainLane(lane))  PROVE d \in Waiting(lane) /\ d \notin Started(lane)
    <3>1. d \in Waiting(lane)
      BY <1>2 DEF Waiting
    <3>2. d \in S
      BY <3>1, DrainLaneType
    <3>. QED BY <3>1, <3>2, <1>4
  <2>2. ASSUME NEW d \in Waiting(lane), d \notin Started(lane)  PROVE d \in Waiting(DrainLane(lane))
    <3>1. PICK i \in 1..Len(lane.queue) : d = lane.queue[i]
      BY DEF Waiting
    <3>2. i \notin 1..n
      BY <2>2, <3>1 DEF Started
    <3>3. i - n \in 1..Len(DrainLane(lane).queue)
      BY <1>1, <1>2, <3>2
    <3>4. DrainLane(lane).queue[i - n] = lane.queue[(i - n) + n]
      BY <1>2, <3>3
    <3>5. (i - n) + n = i
      BY <1>1
    <3>. QED BY <3>1, <3>3, <3>4, <3>5 DEF Waiting
  <2>. QED BY <2>1, <2>2
<1>6. Sorted(DrainLane(lane).queue, at)
  <2>1. SUFFICES ASSUME NEW i \in 1..Len(DrainLane(lane).queue),
                        NEW j \in 1..Len(DrainLane(lane).queue), i < j
                 PROVE  at[DrainLane(lane).queue[i]] < at[DrainLane(lane).queue[j]]
    BY DEF Sorted
  <2>2. i + n < j + n
    BY <1>1, <1>2, <2>1
  <2>. QED BY <1>2, <1>3, <2>2
<1>7. Waiting(DrainLane(lane)) \cap DrainLane(lane).active = {}
  BY <1>5, DrainLaneType DEF WellFormed
<1>. QED BY <1>4, <1>5, <1>6, <1>7 DEF WellFormed

\* drainLane on a lane that is full, or has nothing waiting, does nothing: this is why
\* every step of the queue may be described as a change followed by a pump of all lanes.
LEMMA DrainLaneIdempotent ==
  ASSUME NEW S, IsFiniteSet(S), NEW lane \in LaneType(S), Full(lane)
  PROVE  DrainLane(lane) = lane
<1>1. lane.queue \in Seq(S) /\ Len(lane.queue) \in Nat
  BY DEF LaneType
<1>2. StartCount(lane) = 0
  <2>1. CASE lane.queue = <<>>
    BY <1>1, <2>1, StartCountBounds
  <2>2. CASE lane.queue # <<>>
    <3>1. Cardinality(lane.active) >= lane.maxConcurrent
      BY <2>2 DEF Full
    <3>. QED BY <1>1, <3>1, StartCountBounds DEF StartCount, FreeSlots, LaneType
  <2>. QED BY <2>1, <2>2
<1>3. Started(lane) = {}
  BY <1>2 DEF Started
<1>4. SubSeq(lane.queue, 1, Len(lane.queue)) = lane.queue
  BY <1>1
<1>5. DrainLane(lane).queue = lane.queue /\ DrainLane(lane).active = lane.active
  <2>1. /\ DrainLane(lane).queue = SubSeq(lane.queue, StartCount(lane) + 1, Len(lane.queue))
        /\ DrainLane(lane).active = lane.active \cup Started(lane)
    BY DrainLaneType
  <2>. QED BY <1>2, <1>3, <1>4, <2>1
<1>. QED BY <1>5, DrainLaneType DEF LaneType

\* Enqueueing a call that comes after all waiting ones keeps the queue in order.
LEMMA PushKeepsOrder ==
  ASSUME NEW S, NEW lane \in LaneType(S), NEW c \in S, NEW at,
         Sorted(lane.queue, at), \A d \in Waiting(lane) : at[d] < at[c]
  PROVE  /\ Push(lane, c) \in LaneType(S)
         /\ Push(lane, c).active = lane.active
         /\ Push(lane, c).generation = lane.generation
         /\ Waiting(Push(lane, c)) = Waiting(lane) \cup {c}
         /\ Sorted(Push(lane, c).queue, at)
<1>. DEFINE q == Append(lane.queue, c)
<1>1. lane.queue \in Seq(S) /\ Len(lane.queue) \in Nat
  BY DEF LaneType
<1>2. /\ Push(lane, c) \in LaneType(S)
      /\ Push(lane, c).queue = q
      /\ Push(lane, c).active = lane.active
      /\ Push(lane, c).generation = lane.generation
  <2>1. q \in Seq(S)
    BY <1>1
  <2>2. Push(lane, c) = [lane EXCEPT !.queue = q]
    BY DEF Push
  <2>. HIDE DEF q
  <2>. QED BY <2>1, <2>2 DEF LaneType
<1>3. /\ Len(q) = Len(lane.queue) + 1
      /\ \A i \in 1..Len(lane.queue) : q[i] = lane.queue[i]
      /\ q[Len(lane.queue) + 1] = c
  BY <1>1
<1>. HIDE DEF q
<1>4. Waiting(Push(lane, c)) = Waiting(lane) \cup {c}
  <2>1. 1..Len(q) = (1..Len(lane.queue)) \cup {Len(lane.queue) + 1}
    BY <1>1, <1>3
  <2>2. Waiting(Push(lane, c)) = {q[i] : i \in 1..Len(q)}
    BY <1>2 DEF Waiting
  <2>3. Waiting(lane) = {q[i] : i \in 1..Len(lane.queue)}
    BY <1>3 DEF Waiting
  <2>4. {q[i] : i \in 1..Len(q)} = {q[i] : i \in 1..Len(lane.queue)} \cup {q[Len(lane.queue) + 1]}
    BY <2>1
  <2>. QED BY <1>3, <2>2, <2>3, <2>4
<1>5. Sorted(q, at)
  <2>1. SUFFICES ASSUME NEW i \in 1..Len(q), NEW j \in 1..Len(q), i < j
                 PROVE  at[q[i]] < at[q[j]]
    BY DEF Sorted
  <2>2. i \in 1..Len(lane.queue) /\ q[i] = lane.queue[i] /\ lane.queue[i] \in Waiting(lane)
    BY <1>1, <1>3, <2>1 DEF Waiting
  <2>3. CASE j \in 1..Len(lane.queue)
    BY <1>3, <2>1, <2>2, <2>3 DEF Sorted
  <2>4. CASE j = Len(lane.queue) + 1
    BY <1>3, <2>2, <2>4
  <2>. QED BY <1>1, <1>3, <2>3, <2>4
<1>. QED BY <1>2, <1>4, <1>5

\* Clearing a lane empties its queue and touches nothing else.
LEMMA ClearLaneFacts ==
  ASSUME NEW S, NEW lane \in LaneType(S)
  PROVE  /\ ClearLane(lane) \in LaneType(S)
         /\ ClearLane(lane).queue = <<>>
         /\ ClearLane(lane).active = lane.active
         /\ ClearLane(lane).maxConcurrent = lane.maxConcurrent
         /\ ClearLane(lane).generation = lane.generation
<1>1. <<>> \in Seq(S)
  OBVIOUS
<1>. QED BY <1>1 DEF ClearLane, LaneType

--------------------------------------------------------------------------------
(* The inductive invariant.                                                 *)

Lane == LaneType(Calls)

\* A place in the order of enqueueing is taken by each accepted call, and by no other.
PlacesMatchPromises ==
  \A c \in Calls : /\ enqueuedAt[c] < NextPlace
                   /\ enqueuedAt[c] = 0 <=> promise[c] \in {"none", "refused"}

\* The started calls of a lane come before the waiting ones.
StartedFirst ==
  \A c, d \in Calls :
    /\ LaneOf[c] = LaneOf[d]
    /\ d \in Waiting(lanes[LaneOf[d]])
    /\ c \in executing \/ promise[c] \in {"resolved", "rejected"}
    => enqueuedAt[c] < enqueuedAt[d]

\* No running task comes from a generation its lane has not reached.
GenerationsPast ==
  \A c \in executing : taskGeneration[c] <= lanes[LaneOf[c]].generation

IInv ==
  /\ TypeOK
  /\ NoStrandedWork
  /\ SlotsExact
  /\ QueueMatchesPromises
  /\ PlacesMatchPromises
  /\ StartedFirst
  /\ GenerationsPast

\* What the assumption on the constants says, in the form the leaves cite.
LEMMA ConstantsFacts == IsFiniteSet(Calls) /\ \A c \in Calls : LaneOf[c] \in Lanes
BY ConstantsAssumption

\* What RunLanes does to the running tasks when the lanes were `mid` just before the pump:
\* exactly the calls that the pumps shift off their queues begin.
LEMMA PumpBegins ==
  ASSUME NEW mid \in [Lanes -> Lane], NEW settled \in SUBSET executing,
         executing \in SUBSET Calls,
         \A l \in Lanes : Waiting(mid[l]) \subseteq {c \in Calls : LaneOf[c] = l} \ executing,
         \A l \in Lanes : mid[l].active =
           {c \in executing \ settled : LaneOf[c] = l /\ taskGeneration[c] = mid[l].generation},
         RunLanes([l \in Lanes |-> DrainLane(mid[l])], settled)
  PROVE  /\ lanes' = [l \in Lanes |-> DrainLane(mid[l])]
         /\ executing' = (executing \ settled) \cup {c \in Calls : c \in Started(mid[LaneOf[c]])}
         /\ taskGeneration' = [c \in Calls |->
              IF c \in Started(mid[LaneOf[c]]) THEN mid[LaneOf[c]].generation
              ELSE IF c \in settled THEN 0 ELSE taskGeneration[c]]
         /\ \A c \in Calls : c \in Started(mid[LaneOf[c]]) => c \notin executing
<1>. DEFINE next == [l \in Lanes |-> DrainLane(mid[l])]
            begun == ActiveIn(next) \ executing
<1>1. \A c \in Calls : LaneOf[c] \in Lanes /\ mid[LaneOf[c]] \in Lane
  BY ConstantsFacts
<1>2. ASSUME NEW c \in Calls
      PROVE  /\ c \in Started(mid[LaneOf[c]]) => c \notin executing
             /\ c \in begun <=> c \in Started(mid[LaneOf[c]])
             /\ next[LaneOf[c]].generation = mid[LaneOf[c]].generation
  <2>1. /\ LaneOf[c] \in Lanes
        /\ next[LaneOf[c]] = DrainLane(mid[LaneOf[c]])
    BY <1>1
  <2>2. /\ DrainLane(mid[LaneOf[c]]).active = mid[LaneOf[c]].active \cup Started(mid[LaneOf[c]])
        /\ Started(mid[LaneOf[c]]) \subseteq Waiting(mid[LaneOf[c]])
        /\ DrainLane(mid[LaneOf[c]]).generation = mid[LaneOf[c]].generation
    BY <1>1, ConstantsFacts, DrainLaneType DEF Lane
  <2>3. mid[LaneOf[c]].active \subseteq executing
    BY <2>1
  <2>4. c \in Started(mid[LaneOf[c]]) => c \notin executing
    BY <2>1, <2>2
  <2>. QED BY <2>1, <2>2, <2>3, <2>4 DEF ActiveIn
<1>3. begun = {c \in Calls : c \in Started(mid[LaneOf[c]])}
  <2>1. begun \subseteq Calls
    BY DEF ActiveIn
  <2>. QED BY <1>2, <2>1
<1>4. /\ lanes' = next
      /\ executing' = (executing \ settled) \cup begun
      /\ taskGeneration' = [c \in Calls |-> IF c \in begun THEN next[LaneOf[c]].generation
                                            ELSE IF c \in settled THEN 0 ELSE taskGeneration[c]]
  BY DEF RunLanes
<1>5. taskGeneration' = [c \in Calls |->
              IF c \in Started(mid[LaneOf[c]]) THEN mid[LaneOf[c]].generation
              ELSE IF c \in settled THEN 0 ELSE taskGeneration[c]]
  BY <1>2, <1>4
<1>. QED BY <1>2, <1>3, <1>4, <1>5

\* The lanes just before a pump: in the order of `at`, with the slots of the tasks that
\* are still running and the waiting calls of other tasks.
Prepared(mid, settled, at) ==
  /\ mid \in [Lanes -> Lane]
  /\ settled \in SUBSET executing
  /\ at \in [Calls -> Nat]
  /\ \A l \in Lanes :
       /\ WellFormed(mid[l], at)
       /\ lanes[l].generation <= mid[l].generation
       /\ Waiting(mid[l]) \subseteq {c \in Calls : LaneOf[c] = l} \ executing
       /\ mid[l].active =
            {c \in executing \ settled : LaneOf[c] = l /\ taskGeneration[c] = mid[l].generation}

\* A pump of prepared lanes strands no call, keeps the slots exact and starts only
\* into free slots.
LEMMA PumpStep ==
  ASSUME TypeOK, GenerationsPast, NEW mid, NEW settled, NEW at, Prepared(mid, settled, at),
         RunLanes([l \in Lanes |-> DrainLane(mid[l])], settled)
  PROVE  /\ lanes' \in [Lanes -> Lane]
         /\ executing' \in SUBSET Calls
         /\ taskGeneration' \in [Calls -> Nat]
         /\ NoStrandedWork'
         /\ SlotsExact'
         /\ GenerationsPast'
         /\ \A c \in executing' \ executing :
              Cardinality(lanes'[LaneOf[c]].active) <= lanes'[LaneOf[c]].maxConcurrent
<1>1. /\ mid \in [Lanes -> Lane] /\ settled \in SUBSET executing /\ executing \in SUBSET Calls
      /\ at \in [Calls -> Nat] /\ taskGeneration \in [Calls -> Nat]
      /\ \A l \in Lanes : WellFormed(mid[l], at)
      /\ \A l \in Lanes : Waiting(mid[l]) \subseteq {c \in Calls : LaneOf[c] = l} \ executing
      /\ \A l \in Lanes : mid[l].active =
           {c \in executing \ settled : LaneOf[c] = l /\ taskGeneration[c] = mid[l].generation}
  BY DEF Prepared, TypeOK
<1>2. /\ lanes' = [l \in Lanes |-> DrainLane(mid[l])]
      /\ executing' = (executing \ settled) \cup {c \in Calls : c \in Started(mid[LaneOf[c]])}
      /\ taskGeneration' = [c \in Calls |->
           IF c \in Started(mid[LaneOf[c]]) THEN mid[LaneOf[c]].generation
           ELSE IF c \in settled THEN 0 ELSE taskGeneration[c]]
      /\ \A c \in Calls : c \in Started(mid[LaneOf[c]]) => c \notin executing
  BY <1>1, PumpBegins
<1>3. ASSUME NEW l \in Lanes
      PROVE  /\ lanes'[l] = DrainLane(mid[l])
             /\ lanes'[l] \in Lane
             /\ lanes'[l].active = mid[l].active \cup Started(mid[l])
             /\ lanes'[l].maxConcurrent = mid[l].maxConcurrent
             /\ lanes'[l].generation = mid[l].generation
             /\ Started(mid[l]) \subseteq Waiting(mid[l])
             /\ mid[l].generation \in Nat
  BY <1>1, <1>2, ConstantsFacts, DrainLaneType DEF Lane, LaneType
<1>4. ASSUME NEW l \in Lanes
      PROVE  /\ lanes'[l].queue # <<>> => Cardinality(lanes'[l].active) >= lanes'[l].maxConcurrent
             /\ Started(mid[l]) # {} => Cardinality(lanes'[l].active) <= lanes'[l].maxConcurrent
  <2>1. /\ Full(DrainLane(mid[l]))
        /\ Started(mid[l]) # {} => Cardinality(DrainLane(mid[l]).active) <= mid[l].maxConcurrent
    BY <1>1, ConstantsFacts, DrainLaneFull DEF Lane
  <2>. QED BY <1>3, <2>1 DEF Full
<1>5. taskGeneration' \in [Calls -> Nat]
  <2>1. \A c \in Calls : mid[LaneOf[c]].generation \in Nat
    BY <1>3, ConstantsFacts
  <2>. QED BY <1>1, <1>2, <2>1
<1>6. SlotsExact'
  <2>1. SUFFICES ASSUME NEW l \in Lanes
                 PROVE  lanes'[l].active =
                   {c \in executing' : LaneOf[c] = l /\ taskGeneration'[c] = lanes'[l].generation}
    BY DEF SlotsExact
  <2>2. ASSUME NEW c \in lanes'[l].active
        PROVE  c \in executing' /\ LaneOf[c] = l /\ taskGeneration'[c] = lanes'[l].generation
    <3>1. CASE c \in mid[l].active
      <4>1. c \in executing \ settled /\ LaneOf[c] = l /\ taskGeneration[c] = mid[l].generation
        BY <1>1, <3>1
      <4>. QED BY <1>1, <1>2, <1>3, <4>1
    <3>2. CASE c \in Started(mid[l])
      <4>1. c \in Calls /\ LaneOf[c] = l
        BY <1>1, <1>3, <3>2
      <4>. QED BY <1>2, <1>3, <3>2, <4>1
    <3>. QED BY <1>3, <2>2, <3>1, <3>2
  <2>3. ASSUME NEW c \in executing', LaneOf[c] = l, taskGeneration'[c] = lanes'[l].generation
        PROVE  c \in lanes'[l].active
    <3>1. c \in Calls
      BY <1>1, <1>2, <2>3
    <3>2. CASE c \in Started(mid[l])
      BY <1>3, <3>2
    <3>3. CASE c \notin Started(mid[l])
      <4>1. c \in executing \ settled
        BY <1>2, <2>3, <3>3
      <4>2. taskGeneration'[c] = taskGeneration[c]
        BY <1>2, <2>3, <3>1, <3>3, <4>1
      <4>3. taskGeneration[c] = mid[l].generation
        BY <1>3, <2>3, <4>2
      <4>4. c \in mid[l].active
        BY <1>1, <2>3, <4>1, <4>3
      <4>. QED BY <1>3, <4>4
    <3>. QED BY <3>2, <3>3
  <2>. QED BY <2>2, <2>3
<1>7. ASSUME NEW c \in executing' \ executing
      PROVE  Cardinality(lanes'[LaneOf[c]].active) <= lanes'[LaneOf[c]].maxConcurrent
  <2>1. c \in Calls /\ c \in Started(mid[LaneOf[c]])
    BY <1>1, <1>2, <1>7
  <2>. QED BY <1>4, <2>1, ConstantsFacts
<1>8. lanes' \in [Lanes -> Lane]
  BY <1>2, <1>3
<1>9. executing' \in SUBSET Calls
  BY <1>1, <1>2
<1>10. GenerationsPast'
  <2>1. SUFFICES ASSUME NEW c \in executing'
                 PROVE  taskGeneration'[c] <= lanes'[LaneOf[c]].generation
    BY DEF GenerationsPast
  <2>2. c \in Calls /\ LaneOf[c] \in Lanes
    BY <1>9, ConstantsFacts
  <2>3. lanes'[LaneOf[c]].generation = mid[LaneOf[c]].generation /\ mid[LaneOf[c]].generation \in Nat
    BY <1>3, <2>2
  <2>4. CASE c \in Started(mid[LaneOf[c]])
    BY <1>2, <2>2, <2>3, <2>4
  <2>5. CASE c \notin Started(mid[LaneOf[c]])
    <3>1. c \in executing /\ taskGeneration'[c] = taskGeneration[c]
      BY <1>2, <2>1, <2>2, <2>5
    <3>2. taskGeneration[c] <= lanes[LaneOf[c]].generation
      BY <3>1 DEF GenerationsPast
    <3>3. lanes[LaneOf[c]].generation <= mid[LaneOf[c]].generation
      BY <2>2 DEF Prepared
    <3>4. taskGeneration[c] \in Nat /\ lanes[LaneOf[c]].generation \in Nat
      BY <1>1, <2>2 DEF TypeOK
    <3>. QED BY <2>3, <3>1, <3>2, <3>3, <3>4
  <2>. QED BY <2>4, <2>5
<1>. QED BY <1>4, <1>5, <1>6, <1>7, <1>8, <1>9, <1>10 DEF NoStrandedWork

\* A pump of prepared lanes keeps every call in one place, and starts the calls of a lane
\* before those that go on waiting.
LEMMA PumpKeepsOrder ==
  ASSUME TypeOK, NEW mid, NEW settled, Prepared(mid, settled, enqueuedAt'),
         RunLanes([l \in Lanes |-> DrainLane(mid[l])], settled),
         \A c \in Calls : promise'[c] = "pending" <=>
           c \in executing \ settled \/ c \in Waiting(mid[LaneOf[c]]),
         \A c, d \in Calls :
           /\ LaneOf[c] = LaneOf[d]
           /\ d \in Waiting(mid[LaneOf[d]])
           /\ c \in executing \ settled \/ promise'[c] \in {"resolved", "rejected"}
           => enqueuedAt'[c] < enqueuedAt'[d]
  PROVE  QueueMatchesPromises' /\ StartedFirst'
<1>. DEFINE at == enqueuedAt'
<1>1. /\ mid \in [Lanes -> Lane] /\ settled \in SUBSET executing /\ executing \in SUBSET Calls
      /\ at \in [Calls -> Nat] /\ taskGeneration \in [Calls -> Nat]
      /\ \A l \in Lanes : WellFormed(mid[l], at)
      /\ \A l \in Lanes : Waiting(mid[l]) \subseteq {c \in Calls : LaneOf[c] = l} \ executing
      /\ \A l \in Lanes : mid[l].active =
           {c \in executing \ settled : LaneOf[c] = l /\ taskGeneration[c] = mid[l].generation}
  BY DEF Prepared, TypeOK
<1>2. /\ lanes' = [l \in Lanes |-> DrainLane(mid[l])]
      /\ executing' = (executing \ settled) \cup {c \in Calls : c \in Started(mid[LaneOf[c]])}
      /\ \A c \in Calls : c \in Started(mid[LaneOf[c]]) => c \notin executing
  BY <1>1, PumpBegins
<1>3. ASSUME NEW l \in Lanes
      PROVE  /\ lanes'[l] = DrainLane(mid[l])
             /\ Started(mid[l]) \subseteq Waiting(mid[l])
             /\ WellFormed(lanes'[l], at)
             /\ Waiting(lanes'[l]) = Waiting(mid[l]) \ Started(mid[l])
             /\ \A c \in Started(mid[l]), d \in Waiting(lanes'[l]) : at[c] < at[d]
  <2>1. lanes'[l] = DrainLane(mid[l])
    BY <1>2
  <2>2. Started(mid[l]) \subseteq Waiting(mid[l])
    BY <1>1, ConstantsFacts, DrainLaneType DEF Lane
  <2>3. /\ WellFormed(DrainLane(mid[l]), at)
        /\ Waiting(DrainLane(mid[l])) = Waiting(mid[l]) \ Started(mid[l])
        /\ \A c \in Started(mid[l]), d \in Waiting(DrainLane(mid[l])) : at[c] < at[d]
    BY <1>1, ConstantsFacts, DrainLaneOrder DEF Lane
  <2>. QED BY <2>1, <2>2, <2>3
<1>4. \A l \in Lanes : \A i, j \in 1..Len(lanes'[l].queue) :
        i < j => at[lanes'[l].queue[i]] < at[lanes'[l].queue[j]]
  BY <1>3 DEF WellFormed, Sorted
<1>5. \A l \in Lanes : \A c \in Waiting(lanes'[l]) : LaneOf[c] = l /\ c \notin executing'
  <2>1. SUFFICES ASSUME NEW l \in Lanes, NEW c \in Waiting(lanes'[l])
                 PROVE  LaneOf[c] = l /\ c \notin executing'
    OBVIOUS
  <2>2. c \in Waiting(mid[l]) /\ c \notin Started(mid[l])
    BY <1>3, <2>1
  <2>3. LaneOf[c] = l /\ c \notin executing
    BY <1>1, <2>2
  <2>. QED BY <1>2, <2>2, <2>3
<1>6. \A c \in Calls : promise'[c] = "pending" <=>
        c \in executing' \/ c \in Waiting(lanes'[LaneOf[c]])
  BY <1>2, <1>3, ConstantsFacts
<1>7. ASSUME NEW c \in Calls, NEW d \in Calls, LaneOf[c] = LaneOf[d], d \in Waiting(lanes'[LaneOf[d]]),
             c \in executing' \/ promise'[c] \in {"resolved", "rejected"}
      PROVE  at[c] < at[d]
  <2>1. LaneOf[d] \in Lanes /\ d \in Waiting(mid[LaneOf[d]])
    BY <1>3, <1>7, ConstantsFacts
  <2>2. CASE c \in Started(mid[LaneOf[c]])
    BY <1>3, <1>7, <2>1, <2>2
  <2>3. CASE c \notin Started(mid[LaneOf[c]])
    BY <1>2, <1>7, <2>1, <2>3
  <2>. QED BY <2>2, <2>3
<1>8. /\ \A l \in Lanes : \A c \in Waiting(lanes[l])' : LaneOf[c] = l /\ c \notin executing'
      /\ \A c \in Calls : promise'[c] = "pending" <=>
           c \in executing' \/ c \in Waiting(lanes[LaneOf[c]])'
      /\ \A c, d \in Calls :
           /\ LaneOf[c] = LaneOf[d]
           /\ d \in Waiting(lanes[LaneOf[d]])'
           /\ c \in executing' \/ promise'[c] \in {"resolved", "rejected"}
           => at[c] < at[d]
  BY <1>5, <1>6, <1>7 DEF Waiting
<1>. QED BY <1>4, <1>8 DEF QueueMatchesPromises, StartedFirst, Waiting

\* A step that changes the lanes to prepared ones and then pumps them all.
PumpingStep ==
  \E mid \in [Lanes -> Lane], settled \in SUBSET executing :
    /\ Prepared(mid, settled, enqueuedAt')
    /\ RunLanes([l \in Lanes |-> DrainLane(mid[l])], settled)
    /\ \A c \in Calls : promise'[c] = "pending" <=>
         c \in executing \ settled \/ c \in Waiting(mid[LaneOf[c]])
    /\ \A c, d \in Calls :
         /\ LaneOf[c] = LaneOf[d]
         /\ d \in Waiting(mid[LaneOf[d]])
         /\ c \in executing \ settled \/ promise'[c] \in {"resolved", "rejected"}
         => enqueuedAt'[c] < enqueuedAt'[d]

\* The conjuncts of IInv that speak of lanes hold after a pumping step.
LEMMA PumpingStepKeeps ==
  ASSUME IInv, PumpingStep
  PROVE  /\ lanes' \in [Lanes -> Lane]
         /\ executing' \in SUBSET Calls
         /\ taskGeneration' \in [Calls -> Nat]
         /\ NoStrandedWork' /\ SlotsExact' /\ GenerationsPast'
         /\ QueueMatchesPromises' /\ StartedFirst'
         /\ \A c \in executing' \ executing :
              Cardinality(lanes'[LaneOf[c]].active) <= lanes'[LaneOf[c]].maxConcurrent
<1>1. PICK mid \in [Lanes -> Lane], settled \in SUBSET executing :
        /\ Prepared(mid, settled, enqueuedAt')
        /\ RunLanes([l \in Lanes |-> DrainLane(mid[l])], settled)
        /\ \A c \in Calls : promise'[c] = "pending" <=>
             c \in executing \ settled \/ c \in Waiting(mid[LaneOf[c]])
        /\ \A c, d \in Calls :
             /\ LaneOf[c] = LaneOf[d]
             /\ d \in Waiting(mid[LaneOf[d]])
             /\ c \in executing \ settled \/ promise'[c] \in {"resolved", "rejected"}
             => enqueuedAt'[c] < enqueuedAt'[d]
  BY DEF PumpingStep
<1>2. TypeOK /\ GenerationsPast
  BY DEF IInv
<1>3. QueueMatchesPromises' /\ StartedFirst'
  BY <1>1, <1>2, PumpKeepsOrder
<1>4. /\ lanes' \in [Lanes -> Lane]
      /\ executing' \in SUBSET Calls
      /\ taskGeneration' \in [Calls -> Nat]
      /\ NoStrandedWork'
      /\ SlotsExact'
      /\ GenerationsPast'
      /\ \A c \in executing' \ executing :
           Cardinality(lanes'[LaneOf[c]].active) <= lanes'[LaneOf[c]].maxConcurrent
  BY <1>1, <1>2, PumpStep
<1>. QED BY <1>3, <1>4

\* In a state of IInv the lanes are prepared as they are, and pumping them changes nothing.
LEMMA LanesArePrepared ==
  ASSUME IInv
  PROVE  /\ lanes \in [Lanes -> Lane]
         /\ Prepared(lanes, {}, enqueuedAt)
         /\ \A l \in Lanes : DrainLane(lanes[l]) = lanes[l]
<1>1. lanes \in [Lanes -> Lane] /\ enqueuedAt \in [Calls -> Nat] /\ executing \in SUBSET Calls
  BY DEF IInv, TypeOK, Lane, LaneType
<1>2. ASSUME NEW l \in Lanes
      PROVE  /\ WellFormed(lanes[l], enqueuedAt)
             /\ lanes[l].generation <= lanes[l].generation
             /\ Waiting(lanes[l]) \subseteq {c \in Calls : LaneOf[c] = l} \ executing
             /\ lanes[l].active =
                  {c \in executing \ {} : LaneOf[c] = l /\ taskGeneration[c] = lanes[l].generation}
  <2>1. Sorted(lanes[l].queue, enqueuedAt)
    BY DEF IInv, QueueMatchesPromises, Sorted
  <2>2. \A c \in Waiting(lanes[l]) : LaneOf[c] = l /\ c \notin executing
    BY DEF IInv, QueueMatchesPromises
  <2>3. lanes[l].active = {c \in executing : LaneOf[c] = l /\ taskGeneration[c] = lanes[l].generation}
    BY DEF IInv, SlotsExact
  <2>4. Waiting(lanes[l]) \subseteq Calls
    BY <1>1, ConstantsFacts, DrainLaneType DEF Lane
  <2>5. lanes[l].generation \in Nat
    BY <1>1 DEF Lane, LaneType
  <2>. QED BY <2>1, <2>2, <2>3, <2>4, <2>5 DEF WellFormed
<1>3. ASSUME NEW l \in Lanes  PROVE DrainLane(lanes[l]) = lanes[l]
  <2>1. Full(lanes[l])
    BY DEF IInv, NoStrandedWork, Full
  <2>. QED BY <1>1, <2>1, ConstantsFacts, DrainLaneIdempotent DEF Lane
<1>. QED BY <1>1, <1>2, <1>3 DEF Prepared

\* Each accepted call takes a place after all others.
LEMMA EnqueueTakesNextPlace ==
  ASSUME IInv, NEW c \in Calls, EnqueueCommandInLane(c)
  PROVE  /\ enqueuedAt' = [enqueuedAt EXCEPT ![c] = NextPlace]
         /\ NextPlace \in Nat \ {0}
         /\ enqueuedAt' \in [Calls -> Nat]
         /\ NextPlace' = NextPlace + 1
         /\ \A d \in Calls \ {c} : enqueuedAt'[d] = enqueuedAt[d] /\ enqueuedAt'[d] < enqueuedAt'[c]
         /\ PlacesMatchPromises'
<1>. DEFINE placed == {d \in Calls : enqueuedAt[d] # 0}
<1>1. enqueuedAt \in [Calls -> Nat] /\ promise \in [Calls -> Promises]
  BY DEF IInv, TypeOK
<1>2. /\ enqueuedAt' = [enqueuedAt EXCEPT ![c] = NextPlace]
      /\ promise[c] = "none"
      /\ promise' = [promise EXCEPT ![c] = "pending"]
  BY DEF EnqueueCommandInLane
<1>3. enqueuedAt[c] = 0
  BY <1>2 DEF IInv, PlacesMatchPromises
<1>4. IsFiniteSet(placed) /\ Cardinality(placed) \in Nat
  BY ConstantsFacts, FS_Subset, FS_CardinalityType
<1>5. NextPlace = Cardinality(placed) + 1
  BY DEF NextPlace
<1>6. {d \in Calls : enqueuedAt'[d] # 0} = placed \cup {c}
  BY <1>1, <1>2, <1>4, <1>5
<1>7. Cardinality(placed \cup {c}) = Cardinality(placed) + 1
  BY <1>3, <1>4, FS_AddElement
<1>8. NextPlace' = NextPlace + 1
  BY <1>5, <1>6, <1>7 DEF NextPlace
<1>9. \A d \in Calls \ {c} : enqueuedAt'[d] = enqueuedAt[d] /\ enqueuedAt'[d] < enqueuedAt'[c]
  BY <1>1, <1>2 DEF IInv, PlacesMatchPromises
<1>10. NextPlace \in Nat \ {0}
  BY <1>4, <1>5
<1>11. enqueuedAt' \in [Calls -> Nat] /\ enqueuedAt'[c] = NextPlace
  BY <1>1, <1>2, <1>10
<1>12. PlacesMatchPromises'
  <2>1. \A d \in Calls : enqueuedAt[d] < NextPlace
    BY DEF IInv, PlacesMatchPromises
  <2>2. \A d \in Calls : enqueuedAt'[d] < NextPlace'
    BY <1>8, <1>9, <1>10, <1>11, <2>1
  <2>3. \A d \in Calls : enqueuedAt'[d] = 0 <=> promise'[d] \in {"none", "refused"}
    BY <1>1, <1>2, <1>9, <1>10, <1>11 DEF IInv, PlacesMatchPromises
  <2>. QED BY <2>2, <2>3 DEF PlacesMatchPromises
<1>. QED BY <1>2, <1>8, <1>9, <1>10, <1>11, <1>12

\* enqueueCommandInLane is push, then drainLane.
LEMMA EnqueuePumps ==
  ASSUME IInv, NEW c \in Calls, EnqueueCommandInLane(c)
  PROVE  PumpingStep
<1>. DEFINE own == LaneOf[c]
            mid == [lanes EXCEPT ![own] = Push(@, c)]
<1>1. /\ lanes \in [Lanes -> Lane] /\ own \in Lanes
      /\ promise \in [Calls -> Promises] /\ enqueuedAt \in [Calls -> Nat]
      /\ executing \in SUBSET Calls
  BY ConstantsFacts, LanesArePrepared DEF IInv, TypeOK
<1>2. /\ promise[c] = "none"
      /\ promise' = [promise EXCEPT ![c] = "pending"]
      /\ RunLanes([lanes EXCEPT ![own] = DrainLane(Push(@, c))], {})
  BY DEF EnqueueCommandInLane
<1>3. /\ enqueuedAt' \in [Calls -> Nat]
      /\ \A d \in Calls \ {c} : enqueuedAt'[d] = enqueuedAt[d] /\ enqueuedAt'[d] < enqueuedAt'[c]
  BY EnqueueTakesNextPlace
<1>4. c \notin executing /\ \A l \in Lanes : c \notin Waiting(lanes[l])
  BY <1>1, <1>2 DEF IInv, QueueMatchesPromises
<1>5. \A l \in Lanes :
        /\ WellFormed(lanes[l], enqueuedAt)
        /\ Waiting(lanes[l]) \subseteq {d \in Calls : LaneOf[d] = l} \ executing
        /\ lanes[l].active =
             {d \in executing \ {} : LaneOf[d] = l /\ taskGeneration[d] = lanes[l].generation}
        /\ DrainLane(lanes[l]) = lanes[l]
  BY LanesArePrepared DEF Prepared
<1>6. \A l \in Lanes : Sorted(lanes[l].queue, enqueuedAt')
  <2>1. SUFFICES ASSUME NEW l \in Lanes, NEW i \in 1..Len(lanes[l].queue),
                        NEW j \in 1..Len(lanes[l].queue), i < j
                 PROVE  enqueuedAt'[lanes[l].queue[i]] < enqueuedAt'[lanes[l].queue[j]]
    BY DEF Sorted
  <2>2. lanes[l].queue[i] \in Waiting(lanes[l]) /\ lanes[l].queue[j] \in Waiting(lanes[l])
    BY DEF Waiting
  <2>3. lanes[l].queue[i] \in Calls \ {c} /\ lanes[l].queue[j] \in Calls \ {c}
    BY <1>4, <1>5, <2>2
  <2>4. enqueuedAt[lanes[l].queue[i]] < enqueuedAt[lanes[l].queue[j]]
    BY <1>5, <2>1 DEF WellFormed, Sorted
  <2>. QED BY <1>3, <2>3, <2>4
<1>7. /\ Push(lanes[own], c) \in Lane
      /\ Push(lanes[own], c).active = lanes[own].active
      /\ Push(lanes[own], c).generation = lanes[own].generation
      /\ Waiting(Push(lanes[own], c)) = Waiting(lanes[own]) \cup {c}
      /\ Sorted(Push(lanes[own], c).queue, enqueuedAt')
  <2>1. \A d \in Waiting(lanes[own]) : enqueuedAt'[d] < enqueuedAt'[c]
    BY <1>1, <1>3, <1>4, <1>5
  <2>. QED BY <1>1, <1>6, <2>1, PushKeepsOrder DEF Lane
<1>8. ASSUME NEW l \in Lanes
      PROVE  /\ mid[l] \in Lane
             /\ mid[l].active = lanes[l].active
             /\ mid[l].generation = lanes[l].generation
             /\ Waiting(mid[l]) = IF l = own THEN Waiting(lanes[l]) \cup {c} ELSE Waiting(lanes[l])
             /\ Sorted(mid[l].queue, enqueuedAt')
  <2>1. CASE l = own
    BY <1>1, <1>7, <2>1
  <2>2. CASE l # own
    BY <1>1, <1>6, <2>2
  <2>. QED BY <2>1, <2>2
<1>9. mid \in [Lanes -> Lane]
  BY <1>1, <1>7
<1>10. [lanes EXCEPT ![own] = DrainLane(Push(@, c))] = [l \in Lanes |-> DrainLane(mid[l])]
  BY <1>1, <1>5
<1>. HIDE DEF mid
<1>11. Prepared(mid, {}, enqueuedAt')
  <2>1. ASSUME NEW l \in Lanes
        PROVE  /\ lanes[l].generation <= mid[l].generation
               /\ Waiting(mid[l]) \subseteq {d \in Calls : LaneOf[d] = l} \ executing
               /\ mid[l].active =
                    {d \in executing \ {} : LaneOf[d] = l /\ taskGeneration[d] = mid[l].generation}
               /\ WellFormed(mid[l], enqueuedAt')
    <3>1. Waiting(mid[l]) \subseteq {d \in Calls : LaneOf[d] = l} \ executing
      <4>1. Waiting(lanes[l]) \subseteq {d \in Calls : LaneOf[d] = l} \ executing
        BY <1>5
      <4>2. Waiting(mid[l]) = IF l = own THEN Waiting(lanes[l]) \cup {c} ELSE Waiting(lanes[l])
        BY <1>8
      <4>. QED BY <1>4, <4>1, <4>2
    <3>2. mid[l].active =
            {d \in executing \ {} : LaneOf[d] = l /\ taskGeneration[d] = mid[l].generation}
      <4>1. lanes[l].active =
              {d \in executing \ {} : LaneOf[d] = l /\ taskGeneration[d] = lanes[l].generation}
        BY <1>5
      <4>2. mid[l].active = lanes[l].active /\ mid[l].generation = lanes[l].generation
        BY <1>8
      <4>. QED BY <4>1, <4>2
    <3>3. lanes[l].generation \in Nat
      BY <1>1 DEF Lane, LaneType
    <3>4. lanes[l].generation <= mid[l].generation
      <4>1. mid[l].generation = lanes[l].generation
        BY <1>8
      <4>. QED BY <3>3, <4>1
    <3>5. mid[l].active \subseteq executing
      BY <3>2
    <3>6. WellFormed(mid[l], enqueuedAt')
      BY <1>8, <3>1, <3>5 DEF WellFormed
    <3>. QED BY <3>1, <3>2, <3>4, <3>6
  <2>. QED BY <1>3, <1>9, <2>1 DEF Prepared
<1>12. \A d \in Calls : promise'[d] = "pending" <=>
         d \in executing \ {} \/ d \in Waiting(mid[LaneOf[d]])
  <2>1. \A d \in Calls : promise[d] = "pending" <=> d \in executing \/ d \in Waiting(lanes[LaneOf[d]])
    BY DEF IInv, QueueMatchesPromises
  <2>2. ASSUME NEW d \in Calls
        PROVE  promise'[d] = "pending" <=> d \in executing \/ d \in Waiting(mid[LaneOf[d]])
    <3>1. Waiting(mid[LaneOf[d]]) =
            IF LaneOf[d] = own THEN Waiting(lanes[LaneOf[d]]) \cup {c} ELSE Waiting(lanes[LaneOf[d]])
      BY <1>8, ConstantsFacts
    <3>2. CASE d = c
      BY <1>1, <1>2, <3>1, <3>2
    <3>3. CASE d # c
      BY <1>1, <1>2, <2>1, <3>1, <3>3
    <3>. QED BY <3>2, <3>3
  <2>. QED BY <2>2
<1>13. ASSUME NEW d \in Calls, NEW e \in Calls, LaneOf[d] = LaneOf[e], e \in Waiting(mid[LaneOf[e]]),
              d \in executing \ {} \/ promise'[d] \in {"resolved", "rejected"}
       PROVE  enqueuedAt'[d] < enqueuedAt'[e]
  <2>1. d # c /\ (d \in executing \/ promise[d] \in {"resolved", "rejected"})
    BY <1>1, <1>2, <1>4, <1>13
  <2>2. CASE e = c
    BY <1>3, <2>1, <2>2
  <2>3. CASE e # c
    <3>1. e \in Waiting(lanes[LaneOf[e]])
      BY <1>8, <1>13, <2>3, ConstantsFacts
    <3>2. enqueuedAt[d] < enqueuedAt[e]
      BY <1>13, <2>1, <3>1 DEF IInv, StartedFirst
    <3>. QED BY <1>3, <2>1, <2>3, <3>2
  <2>. QED BY <2>2, <2>3
<1>. QED BY <1>2, <1>9, <1>10, <1>11, <1>12, <1>13 DEF PumpingStep

\* A lane whose slots, limit or generation change keeps its queue in order.
LEMMA SameQueueWellFormed ==
  ASSUME NEW lane, NEW other, NEW at, WellFormed(lane, at), other.queue = lane.queue,
         Waiting(lane) \cap other.active = {}
  PROVE  WellFormed(other, at) /\ Waiting(other) = Waiting(lane)
BY DEF WellFormed, Waiting, Sorted

\* The end of a task frees its slot, if the slot is still its own, and pumps.
LEMMA TaskSettlesPumps ==
  ASSUME IInv, NEW c \in Calls, NEW result \in {"resolved", "rejected"}, TaskSettles(c, result)
  PROVE  PumpingStep
<1>. DEFINE own == LaneOf[c]
            freed == [lanes[own] EXCEPT !.active = lanes[own].active \ {c}]
            current == taskGeneration[c] = lanes[own].generation
            mid == [lanes EXCEPT ![own] = IF current THEN freed ELSE lanes[own]]
<1>1. /\ lanes \in [Lanes -> Lane] /\ own \in Lanes /\ lanes[own] \in Lane
      /\ promise \in [Calls -> Promises] /\ enqueuedAt \in [Calls -> Nat]
      /\ executing \in SUBSET Calls
  BY ConstantsFacts, LanesArePrepared DEF IInv, TypeOK
<1>2. /\ c \in executing
      /\ promise' = [promise EXCEPT ![c] = result]
      /\ enqueuedAt' = enqueuedAt
      /\ RunLanes([lanes EXCEPT ![own] = CompleteTask(@, c, taskGeneration[c])], {c})
  BY DEF TaskSettles
<1>3. \A l \in Lanes :
        /\ WellFormed(lanes[l], enqueuedAt)
        /\ Waiting(lanes[l]) \subseteq {d \in Calls : LaneOf[d] = l} \ executing
        /\ lanes[l].active =
             {d \in executing : LaneOf[d] = l /\ taskGeneration[d] = lanes[l].generation}
        /\ DrainLane(lanes[l]) = lanes[l]
  BY LanesArePrepared DEF Prepared
<1>4. /\ freed \in Lane
      /\ freed.queue = lanes[own].queue
      /\ freed.active = lanes[own].active \ {c}
      /\ freed.generation = lanes[own].generation
  BY <1>1 DEF Lane, LaneType
<1>5. mid \in [Lanes -> Lane]
  BY <1>1, <1>4
<1>6. [lanes EXCEPT ![own] = CompleteTask(@, c, taskGeneration[c])]
        = [l \in Lanes |-> DrainLane(mid[l])]
  <2>1. CompleteTask(lanes[own], c, taskGeneration[c]) = DrainLane(mid[own])
    BY <1>1, <1>3 DEF CompleteTask
  <2>. QED BY <1>1, <1>3, <2>1
<1>7. ASSUME NEW l \in Lanes
      PROVE  /\ mid[l].queue = lanes[l].queue
             /\ mid[l].generation = lanes[l].generation
             /\ mid[l].active =
                  {d \in executing \ {c} : LaneOf[d] = l /\ taskGeneration[d] = mid[l].generation}
  <2>1. mid[l] = IF l = own /\ current THEN freed ELSE lanes[l]
    BY <1>1
  <2>2. lanes[l].active = {d \in executing : LaneOf[d] = l /\ taskGeneration[d] = lanes[l].generation}
    BY <1>3
  <2>. HIDE DEF mid, freed
  <2>3. CASE l = own /\ current
    BY <1>4, <2>1, <2>2, <2>3
  <2>4. CASE ~(l = own /\ current)
    <3>1. c \notin lanes[l].active
      BY <2>2, <2>4
    <3>. QED BY <2>1, <2>2, <2>4, <3>1
  <2>. QED BY <2>3, <2>4
<1>. HIDE DEF mid, freed, current
<1>8. ASSUME NEW l \in Lanes
      PROVE  WellFormed(mid[l], enqueuedAt) /\ Waiting(mid[l]) = Waiting(lanes[l])
  <2>1. Waiting(lanes[l]) \cap mid[l].active = {}
    <3>1. mid[l].active \subseteq executing
      BY <1>7
    <3>2. Waiting(lanes[l]) \cap executing = {}
      BY <1>3
    <3>. QED BY <3>1, <3>2
  <2>. QED BY <1>3, <1>7, <2>1, SameQueueWellFormed
<1>9. Prepared(mid, {c}, enqueuedAt')
  <2>1. \A l \in Lanes : lanes[l].generation <= mid[l].generation
    BY <1>1, <1>7 DEF Lane, LaneType
  <2>. QED BY <1>1, <1>2, <1>3, <1>5, <1>7, <1>8, <2>1 DEF Prepared
<1>10. \A d \in Calls : promise'[d] = "pending" <=>
         d \in executing \ {c} \/ d \in Waiting(mid[LaneOf[d]])
  <2>1. \A d \in Calls : promise[d] = "pending" <=> d \in executing \/ d \in Waiting(lanes[LaneOf[d]])
    BY DEF IInv, QueueMatchesPromises
  <2>2. \A d \in Calls : Waiting(mid[LaneOf[d]]) = Waiting(lanes[LaneOf[d]])
    BY <1>8, ConstantsFacts
  <2>3. c \notin Waiting(lanes[LaneOf[c]])
    BY <1>1, <1>2, <1>3
  <2>. QED BY <1>1, <1>2, <2>1, <2>2, <2>3
<1>11. ASSUME NEW d \in Calls, NEW e \in Calls, LaneOf[d] = LaneOf[e], e \in Waiting(mid[LaneOf[e]]),
              d \in executing \ {c} \/ promise'[d] \in {"resolved", "rejected"}
       PROVE  enqueuedAt'[d] < enqueuedAt'[e]
  <2>1. d \in executing \/ promise[d] \in {"resolved", "rejected"}
    BY <1>1, <1>2, <1>11
  <2>2. e \in Waiting(lanes[LaneOf[e]])
    BY <1>8, <1>11, ConstantsFacts
  <2>. QED BY <1>2, <1>11, <2>1, <2>2 DEF IInv, StartedFirst
<1>. QED BY <1>2, <1>5, <1>6, <1>9, <1>10, <1>11 DEF PumpingStep

\* setCommandLaneConcurrency changes a limit, then pumps.
LEMMA SetConcurrencyPumps ==
  ASSUME IInv, NEW own \in Lanes, NEW n \in ConcurrencyArgs, SetCommandLaneConcurrency(own, n)
  PROVE  PumpingStep
<1>. DEFINE limit == IF n < 1 THEN 1 ELSE n
            resized == [lanes[own] EXCEPT !.maxConcurrent = limit]
            mid == [lanes EXCEPT ![own] = resized]
<1>1. /\ lanes \in [Lanes -> Lane] /\ lanes[own] \in Lane
      /\ enqueuedAt \in [Calls -> Nat] /\ executing \in SUBSET Calls
  BY LanesArePrepared DEF IInv, TypeOK
<1>2. /\ promise' = promise
      /\ enqueuedAt' = enqueuedAt
      /\ RunLanes([lanes EXCEPT ![own] = SetMaxConcurrent(@, n)], {})
  BY DEF SetCommandLaneConcurrency
<1>3. \A l \in Lanes :
        /\ WellFormed(lanes[l], enqueuedAt)
        /\ Waiting(lanes[l]) \subseteq {d \in Calls : LaneOf[d] = l} \ executing
        /\ lanes[l].active =
             {d \in executing \ {} : LaneOf[d] = l /\ taskGeneration[d] = lanes[l].generation}
        /\ DrainLane(lanes[l]) = lanes[l]
  BY LanesArePrepared DEF Prepared
<1>4. limit \in Nat \ {0}
  BY ConstantsAssumption
<1>5. /\ resized \in Lane
      /\ resized.queue = lanes[own].queue
      /\ resized.active = lanes[own].active
      /\ resized.generation = lanes[own].generation
  <2>. HIDE DEF limit
  <2>. QED BY <1>1, <1>4 DEF Lane, LaneType
<1>6. mid \in [Lanes -> Lane]
  BY <1>1, <1>5
<1>7. [lanes EXCEPT ![own] = SetMaxConcurrent(@, n)] = [l \in Lanes |-> DrainLane(mid[l])]
  BY <1>1, <1>3 DEF SetMaxConcurrent
<1>8. ASSUME NEW l \in Lanes
      PROVE  /\ mid[l].queue = lanes[l].queue
             /\ mid[l].generation = lanes[l].generation
             /\ mid[l].active = lanes[l].active
  <2>1. mid[l] = IF l = own THEN resized ELSE lanes[l]
    BY <1>1
  <2>. HIDE DEF resized, mid
  <2>. QED BY <1>5, <2>1
<1>. HIDE DEF mid, resized, limit
<1>9. ASSUME NEW l \in Lanes
      PROVE  WellFormed(mid[l], enqueuedAt) /\ Waiting(mid[l]) = Waiting(lanes[l])
  <2>1. WellFormed(lanes[l], enqueuedAt) /\ Waiting(lanes[l]) \cap mid[l].active = {}
    BY <1>3, <1>8 DEF WellFormed
  <2>2. mid[l].queue = lanes[l].queue
    BY <1>8
  <2>. QED BY <2>1, <2>2, SameQueueWellFormed
<1>10. Prepared(mid, {}, enqueuedAt')
  <2>1. \A l \in Lanes : lanes[l].generation <= mid[l].generation
    BY <1>1, <1>8 DEF Lane, LaneType
  <2>. QED BY <1>1, <1>2, <1>3, <1>6, <1>8, <1>9, <2>1 DEF Prepared
<1>11. \A d \in Calls : Waiting(mid[LaneOf[d]]) = Waiting(lanes[LaneOf[d]])
  BY <1>9, ConstantsFacts
<1>12. \A d \in Calls : promise'[d] = "pending" <=>
         d \in executing \ {} \/ d \in Waiting(mid[LaneOf[d]])
  BY <1>2, <1>11 DEF IInv, QueueMatchesPromises
<1>13. \A d, e \in Calls :
         /\ LaneOf[d] = LaneOf[e]
         /\ e \in Waiting(mid[LaneOf[e]])
         /\ d \in executing \ {} \/ promise'[d] \in {"resolved", "rejected"}
         => enqueuedAt'[d] < enqueuedAt'[e]
  BY <1>2, <1>11 DEF IInv, StartedFirst
<1>. QED BY <1>2, <1>6, <1>7, <1>10, <1>12, <1>13 DEF PumpingStep

\* resetAllLanes empties every lane's slots under a new generation, then pumps.  The tasks
\* of older generations go on running, outside every slot.
LEMMA ResetPumps ==
  ASSUME IInv, ResetAllLanes
  PROVE  PumpingStep
<1>. DEFINE fresh(l) == [lanes[l] EXCEPT !.generation = lanes[l].generation + 1, !.active = {}]
            mid == [l \in Lanes |-> fresh(l)]
<1>1. /\ lanes \in [Lanes -> Lane]
      /\ enqueuedAt \in [Calls -> Nat] /\ executing \in SUBSET Calls
  BY LanesArePrepared DEF IInv, TypeOK
<1>2. /\ promise' = promise
      /\ enqueuedAt' = enqueuedAt
      /\ RunLanes([l \in Lanes |-> ResetLane(lanes[l])], {})
  BY DEF ResetAllLanes
<1>3. \A l \in Lanes :
        /\ WellFormed(lanes[l], enqueuedAt)
        /\ Waiting(lanes[l]) \subseteq {d \in Calls : LaneOf[d] = l} \ executing
  BY LanesArePrepared DEF Prepared
<1>4. ASSUME NEW l \in Lanes
      PROVE  /\ mid[l] \in Lane
             /\ mid[l].queue = lanes[l].queue
             /\ mid[l].generation = lanes[l].generation + 1
             /\ mid[l].active = {}
             /\ lanes[l].generation \in Nat
  <2>1. lanes[l] \in Lane /\ mid[l] = fresh(l)
    BY <1>1
  <2>2. lanes[l].generation \in Nat /\ lanes[l].generation + 1 \in Nat
    BY <2>1 DEF Lane, LaneType
  <2>3. fresh(l) \in Lane
    BY <2>1, <2>2 DEF Lane, LaneType
  <2>. QED BY <2>1, <2>2, <2>3 DEF Lane, LaneType
<1>5. mid \in [Lanes -> Lane]
  BY <1>4
<1>6. [l \in Lanes |-> ResetLane(lanes[l])] = [l \in Lanes |-> DrainLane(mid[l])]
  BY DEF ResetLane
<1>. HIDE DEF mid, fresh
<1>7. ASSUME NEW l \in Lanes
      PROVE  WellFormed(mid[l], enqueuedAt) /\ Waiting(mid[l]) = Waiting(lanes[l])
  BY <1>3, <1>4, SameQueueWellFormed
<1>8. ASSUME NEW l \in Lanes
      PROVE  {d \in executing \ {} : LaneOf[d] = l /\ taskGeneration[d] = mid[l].generation} = {}
  <2>1. SUFFICES ASSUME NEW d \in executing, LaneOf[d] = l, taskGeneration[d] = lanes[l].generation + 1
                 PROVE  FALSE
    BY <1>4
  <2>2. taskGeneration[d] <= lanes[l].generation
    BY <2>1 DEF IInv, GenerationsPast
  <2>3. taskGeneration[d] \in Nat
    BY <1>1 DEF IInv, TypeOK
  <2>. QED BY <1>4, <2>1, <2>2, <2>3
<1>9. Prepared(mid, {}, enqueuedAt')
  <2>1. \A l \in Lanes : lanes[l].generation <= mid[l].generation
    BY <1>4
  <2>. QED BY <1>1, <1>2, <1>3, <1>4, <1>5, <1>7, <1>8, <2>1 DEF Prepared
<1>10. \A d \in Calls : Waiting(mid[LaneOf[d]]) = Waiting(lanes[LaneOf[d]])
  BY <1>7, ConstantsFacts
<1>11. \A d \in Calls : promise'[d] = "pending" <=>
         d \in executing \ {} \/ d \in Waiting(mid[LaneOf[d]])
  BY <1>2, <1>10 DEF IInv, QueueMatchesPromises
<1>12. \A d, e \in Calls :
         /\ LaneOf[d] = LaneOf[e]
         /\ e \in Waiting(mid[LaneOf[e]])
         /\ d \in executing \ {} \/ promise'[d] \in {"resolved", "rejected"}
         => enqueuedAt'[d] < enqueuedAt'[e]
  BY <1>2, <1>10 DEF IInv, StartedFirst
<1>. QED BY <1>2, <1>5, <1>6, <1>9, <1>11, <1>12 DEF PumpingStep

\* clearCommandLane empties a queue and rejects what was in it; no slot changes.
LEMMA ClearKeeps ==
  ASSUME IInv, NEW own \in Lanes, ClearCommandLane(own)
  PROVE  IInv'
<1>1. /\ lanes \in [Lanes -> Lane] /\ promise \in [Calls -> Promises]
      /\ TypeOK /\ NoStrandedWork /\ SlotsExact /\ QueueMatchesPromises
      /\ PlacesMatchPromises /\ StartedFirst /\ GenerationsPast
  BY LanesArePrepared DEF IInv, TypeOK
<1>2. /\ promise' = [c \in Calls |-> IF c \in Waiting(lanes[own]) THEN "cleared" ELSE promise[c]]
      /\ lanes' = [lanes EXCEPT ![own] = ClearLane(@)]
      /\ UNCHANGED <<gatewayDraining, executing, taskGeneration, enqueuedAt, drain>>
  BY DEF ClearCommandLane
<1>3. ASSUME NEW l \in Lanes
      PROVE  /\ lanes'[l] \in Lane
             /\ lanes'[l].queue = IF l = own THEN <<>> ELSE lanes[l].queue
             /\ lanes'[l].active = lanes[l].active
             /\ lanes'[l].maxConcurrent = lanes[l].maxConcurrent
             /\ lanes'[l].generation = lanes[l].generation
  <2>1. lanes'[l] = IF l = own THEN ClearLane(lanes[own]) ELSE lanes[l]
    BY <1>1, <1>2
  <2>2. lanes[l] \in Lane /\ lanes[own] \in Lane
    BY <1>1
  <2>3. CASE l = own
    BY <2>1, <2>2, <2>3, ClearLaneFacts DEF Lane
  <2>4. CASE l # own
    BY <2>1, <2>2, <2>4
  <2>. QED BY <2>3, <2>4
<1>4. ASSUME NEW l \in Lanes
      PROVE  Waiting(lanes'[l]) = IF l = own THEN {} ELSE Waiting(lanes[l])
  BY <1>3 DEF Waiting
<1>5. ASSUME NEW c \in Calls
      PROVE  c \in Waiting(lanes[own]) => LaneOf[c] = own /\ c \notin executing /\ promise[c] = "pending"
  BY <1>1 DEF QueueMatchesPromises
<1>6. TypeOK'
  <2>1. lanes' \in [Lanes -> Lane]
    BY <1>1, <1>2, <1>3
  <2>2. promise' \in [Calls -> Promises]
    BY <1>1, <1>2 DEF Promises
  <2>. QED BY <1>1, <1>2, <2>1, <2>2 DEF TypeOK, Lane, LaneType
<1>7. NoStrandedWork'
  BY <1>1, <1>3 DEF NoStrandedWork
<1>8. SlotsExact'
  BY <1>1, <1>2, <1>3 DEF SlotsExact
<1>9. QueueMatchesPromises'
  <2>1. \A l \in Lanes : \A i, j \in 1..Len(lanes'[l].queue) :
          i < j => enqueuedAt'[lanes'[l].queue[i]] < enqueuedAt'[lanes'[l].queue[j]]
    BY <1>1, <1>2, <1>3 DEF QueueMatchesPromises
  <2>2. \A l \in Lanes : \A c \in Waiting(lanes'[l]) : LaneOf[c] = l /\ c \notin executing'
    BY <1>1, <1>2, <1>4 DEF QueueMatchesPromises
  <2>3. \A c \in Calls : promise'[c] = "pending" <=>
          c \in executing' \/ c \in Waiting(lanes'[LaneOf[c]])
    <3>1. SUFFICES ASSUME NEW c \in Calls
                   PROVE  promise'[c] = "pending" <=> c \in executing \/ c \in Waiting(lanes'[LaneOf[c]])
      BY <1>2
    <3>2. promise[c] = "pending" <=> c \in executing \/ c \in Waiting(lanes[LaneOf[c]])
      BY <1>1 DEF QueueMatchesPromises
    <3>. QED BY <1>2, <1>4, <1>5, <3>2, ConstantsFacts
  <2>. QED BY <2>1, <2>2, <2>3 DEF QueueMatchesPromises, Waiting
<1>10. PlacesMatchPromises'
  BY <1>1, <1>2, <1>5 DEF PlacesMatchPromises, NextPlace
<1>11. StartedFirst'
  <2>1. SUFFICES ASSUME NEW c \in Calls, NEW d \in Calls, LaneOf[c] = LaneOf[d],
                        d \in Waiting(lanes'[LaneOf[d]]),
                        c \in executing' \/ promise'[c] \in {"resolved", "rejected"}
                 PROVE  enqueuedAt'[c] < enqueuedAt'[d]
    BY DEF StartedFirst, Waiting
  <2>2. d \in Waiting(lanes[LaneOf[d]])
    BY <1>4, <2>1, ConstantsFacts
  <2>3. c \in executing \/ promise[c] \in {"resolved", "rejected"}
    BY <1>1, <1>2, <2>1
  <2>. QED BY <1>1, <1>2, <2>1, <2>2, <2>3 DEF StartedFirst
<1>12. GenerationsPast'
  <2>1. \A c \in executing : LaneOf[c] \in Lanes
    BY <1>1, ConstantsFacts DEF TypeOK
  <2>. QED BY <1>1, <1>2, <1>3, <2>1 DEF GenerationsPast
<1>. QED BY <1>6, <1>7, <1>8, <1>9, <1>10, <1>11, <1>12 DEF IInv

\* A pumping step that keeps the other variables in their types keeps IInv.
LEMMA PumpingKeepsIInv ==
  ASSUME IInv, PumpingStep, PlacesMatchPromises', gatewayDraining' \in BOOLEAN,
         promise' \in [Calls -> Promises], enqueuedAt' \in [Calls -> Nat],
         drain' \in [state : DrainStates, activeAtStart : SUBSET Calls]
  PROVE  IInv'
BY PumpingStepKeeps DEF IInv, TypeOK, Lane, LaneType

\* An empty process satisfies the invariant.
LEMMA InitIInv == Init => IInv
<1>. SUFFICES ASSUME Init PROVE IInv
  OBVIOUS
<1>1. NewLane \in Lane /\ NewLane.queue = <<>> /\ NewLane.active = {} /\ Waiting(NewLane) = {}
  BY DEF NewLane, Lane, LaneType, Waiting
<1>2. lanes \in [Lanes -> Lane] /\ \A l \in Lanes : lanes[l] = NewLane
  BY <1>1 DEF Init
<1>3. TypeOK
  BY <1>2 DEF Init, TypeOK, Lane, LaneType, Promises, DrainStates
<1>4. NoStrandedWork /\ SlotsExact /\ GenerationsPast
  BY <1>1, <1>2 DEF Init, NoStrandedWork, SlotsExact, GenerationsPast
<1>5. QueueMatchesPromises /\ StartedFirst
  BY <1>1, <1>2, ConstantsFacts DEF Init, QueueMatchesPromises, StartedFirst
<1>6. PlacesMatchPromises
  <2>1. {c \in Calls : enqueuedAt[c] # 0} = {}
    BY DEF Init
  <2>2. NextPlace = 1
    BY <2>1, FS_EmptySet DEF NextPlace
  <2>. QED BY <2>2 DEF Init, PlacesMatchPromises
<1>. QED BY <1>3, <1>4, <1>5, <1>6 DEF IInv

\* Every step of the queue preserves the invariant.
LEMMA NextIInv == IInv /\ [Next]_vars => IInv'
<1>. SUFFICES ASSUME IInv, [Next]_vars PROVE IInv'
  OBVIOUS
<1>. USE DEF DrainStates
<1>1. /\ gatewayDraining \in BOOLEAN /\ promise \in [Calls -> Promises]
      /\ enqueuedAt \in [Calls -> Nat]
      /\ drain \in [state : DrainStates, activeAtStart : SUBSET Calls]
      /\ PlacesMatchPromises
  BY DEF IInv, TypeOK
<1>2. ASSUME UNCHANGED <<lanes, executing, taskGeneration, enqueuedAt>>,
             \A c \in Calls : promise'[c] = promise[c] \/ {promise[c], promise'[c]} \subseteq {"none", "refused"},
             promise' \in [Calls -> Promises], gatewayDraining' \in BOOLEAN,
             drain' \in [state : DrainStates, activeAtStart : SUBSET Calls]
      PROVE  IInv'
  <2>1. TypeOK' /\ NoStrandedWork' /\ SlotsExact' /\ GenerationsPast'
    BY <1>2 DEF IInv, TypeOK, NoStrandedWork, SlotsExact, GenerationsPast
  <2>2. \A c \in Calls : /\ promise'[c] = "pending" <=> promise[c] = "pending"
                         /\ promise'[c] \in {"resolved", "rejected"} <=> promise[c] \in {"resolved", "rejected"}
                         /\ promise'[c] \in {"none", "refused"} <=> promise[c] \in {"none", "refused"}
    BY <1>2
  <2>3. QueueMatchesPromises'
    BY <1>2, <2>2 DEF IInv, QueueMatchesPromises, Waiting
  <2>4. StartedFirst'
    BY <1>2, <2>2 DEF IInv, StartedFirst, Waiting
  <2>5. PlacesMatchPromises'
    BY <1>2, <2>2 DEF IInv, PlacesMatchPromises, NextPlace
  <2>. QED BY <2>1, <2>3, <2>4, <2>5 DEF IInv
<1>3. ASSUME NEW c \in Calls, EnqueueRefused(c)  PROVE IInv'
  BY <1>1, <1>2, <1>3 DEF EnqueueRefused, Promises
<1>4. ASSUME NEW c \in Calls, EnqueueCommandInLane(c)  PROVE IInv'
  <2>1. PumpingStep /\ PlacesMatchPromises' /\ enqueuedAt' \in [Calls -> Nat]
    BY <1>4, EnqueuePumps, EnqueueTakesNextPlace
  <2>2. gatewayDraining' \in BOOLEAN /\ promise' \in [Calls -> Promises] /\ drain' = drain
    BY <1>1, <1>4 DEF EnqueueCommandInLane, Promises
  <2>. QED BY <1>1, <2>1, <2>2, PumpingKeepsIInv
<1>5. ASSUME NEW c \in Calls, NEW result \in {"resolved", "rejected"}, TaskSettles(c, result)
      PROVE  IInv'
  <2>1. PumpingStep
    BY <1>5, TaskSettlesPumps
  <2>2. /\ gatewayDraining' \in BOOLEAN /\ promise' \in [Calls -> Promises] /\ drain' = drain
        /\ enqueuedAt' = enqueuedAt /\ promise' = [promise EXCEPT ![c] = result]
    BY <1>1, <1>5 DEF TaskSettles, Promises
  <2>3. promise[c] = "pending"
    BY <1>5 DEF TaskSettles, IInv, QueueMatchesPromises
  <2>4. PlacesMatchPromises'
    BY <1>1, <1>5, <2>2, <2>3 DEF PlacesMatchPromises, NextPlace
  <2>. QED BY <1>1, <2>1, <2>2, <2>4, PumpingKeepsIInv
<1>6. ASSUME NEW l \in Lanes, ClearCommandLane(l)  PROVE IInv'
  BY <1>6, ClearKeeps
<1>7. ASSUME NEW l \in Lanes, NEW n \in ConcurrencyArgs, SetCommandLaneConcurrency(l, n)
      PROVE  IInv'
  <2>1. PumpingStep
    BY <1>7, SetConcurrencyPumps
  <2>2. gatewayDraining' = gatewayDraining /\ promise' = promise /\ drain' = drain /\ enqueuedAt' = enqueuedAt
    BY <1>7 DEF SetCommandLaneConcurrency
  <2>3. PlacesMatchPromises'
    BY <1>1, <2>2 DEF PlacesMatchPromises, NextPlace
  <2>. QED BY <1>1, <2>1, <2>2, <2>3, PumpingKeepsIInv
<1>8. ASSUME ResetAllLanes  PROVE IInv'
  <2>1. PumpingStep
    BY <1>8, ResetPumps
  <2>2. gatewayDraining' = FALSE /\ promise' = promise /\ drain' = drain /\ enqueuedAt' = enqueuedAt
    BY <1>8 DEF ResetAllLanes
  <2>3. PlacesMatchPromises'
    BY <1>1, <2>2 DEF PlacesMatchPromises, NextPlace
  <2>. QED BY <1>1, <2>1, <2>2, <2>3, PumpingKeepsIInv
<1>9. CASE MarkGatewayDraining
  BY <1>1, <1>2, <1>9 DEF MarkGatewayDraining
<1>10. CASE WaitForActiveTasks
  BY <1>1, <1>2, <1>10 DEF WaitForActiveTasks, ActiveIn
<1>11. CASE PollActiveTasks
  BY <1>1, <1>2, <1>11 DEF PollActiveTasks
<1>12. CASE DrainDeadline
  BY <1>1, <1>2, <1>12 DEF DrainDeadline
<1>13. CASE UNCHANGED vars
  BY <1>1, <1>2, <1>13 DEF vars
<1>. QED BY <1>3, <1>4, <1>5, <1>6, <1>7, <1>8, <1>9, <1>10, <1>11, <1>12, <1>13 DEF Next

\* IInv holds in every reachable state.
THEOREM Invariance == Spec => []IInv
<1>1. Init => IInv
  BY InitIInv
<1>2. IInv /\ [Next]_vars => IInv'
  BY NextIInv
<1>. QED BY <1>1, <1>2, PTL DEF Spec

\* The queue's state keeps its type.
THEOREM TypeCorrect == Spec => []TypeOK
BY Invariance, PTL DEF IInv

\* No call waits in a lane that has a free slot.
THEOREM NothingStranded == Spec => []NoStrandedWork
BY Invariance, PTL DEF IInv

\* The slots of a lane are its running tasks of the current generation.
THEOREM SlotsAreExact == Spec => []SlotsExact
BY Invariance, PTL DEF IInv

\* Every call is in one place, in order, that fits its promise.
THEOREM QueueMatches == Spec => []QueueMatchesPromises
BY Invariance, PTL DEF IInv

--------------------------------------------------------------------------------
(* Action properties.                                                       *)

\* A task starts only into a free slot of its lane.
THEOREM StartsAreWithinLimit == Spec => StartsWithinLimit
<1>. DEFINE Within == \A c \in executing' \ executing :
                        Cardinality(lanes'[LaneOf[c]].active) <= lanes'[LaneOf[c]].maxConcurrent
<1>1. IInv /\ [Next]_vars => [Within]_vars
  <2>. SUFFICES ASSUME IInv, Next PROVE Within
    OBVIOUS
  <2>1. ASSUME executing' = executing  PROVE Within
    BY <2>1
  <2>2. ASSUME PumpingStep  PROVE Within
    BY <2>2, PumpingStepKeeps
  <2>. HIDE DEF Within
  <2>3. ASSUME NEW c \in Calls, EnqueueRefused(c)  PROVE Within
    BY <2>1, <2>3 DEF EnqueueRefused
  <2>4. ASSUME NEW c \in Calls, EnqueueCommandInLane(c)  PROVE Within
    BY <2>2, <2>4, EnqueuePumps
  <2>5. ASSUME NEW c \in Calls, NEW result \in {"resolved", "rejected"}, TaskSettles(c, result)
        PROVE  Within
    BY <2>2, <2>5, TaskSettlesPumps
  <2>6. ASSUME NEW l \in Lanes, ClearCommandLane(l)  PROVE Within
    BY <2>1, <2>6 DEF ClearCommandLane
  <2>7. ASSUME NEW l \in Lanes, NEW n \in ConcurrencyArgs, SetCommandLaneConcurrency(l, n)
        PROVE  Within
    BY <2>2, <2>7, SetConcurrencyPumps
  <2>8. CASE ResetAllLanes
    BY <2>2, <2>8, ResetPumps
  <2>9. CASE MarkGatewayDraining \/ WaitForActiveTasks \/ PollActiveTasks \/ DrainDeadline
    BY <2>1, <2>9 DEF MarkGatewayDraining, WaitForActiveTasks, PollActiveTasks, DrainDeadline
  <2>. QED BY <2>3, <2>4, <2>5, <2>6, <2>7, <2>8, <2>9 DEF Next
<1>. QED BY <1>1, Invariance, PTL DEF Spec, StartsWithinLimit

\* {drained: true} means that no task of the snapshot still holds its slot.
THEOREM DrainedHonestly == Spec => DrainedIsHonest
<1>. DEFINE Honest == drain.state = "polling" /\ drain'.state = "drained" =>
                        \A c \in drain.activeAtStart :
                          c \in executing => taskGeneration[c] # lanes[LaneOf[c]].generation
<1>1. IInv /\ [Next]_vars => [Honest]_vars
  <2>. SUFFICES ASSUME IInv, Next, drain.state = "polling", drain'.state = "drained",
                       NEW c \in drain.activeAtStart, c \in executing,
                       taskGeneration[c] = lanes[LaneOf[c]].generation
                PROVE  FALSE
    OBVIOUS
  <2>1. c \in Calls
    BY DEF IInv, TypeOK
  <2>2. c \in lanes[LaneOf[c]].active
    BY <2>1, ConstantsFacts DEF IInv, SlotsExact
  <2>3. HasPending
    BY <2>1, <2>2 DEF HasPending, ActiveIn
  <2>4. drain' = drain \/ DrainDeadline \/ PollActiveTasks \/ WaitForActiveTasks
    BY DEF Next, EnqueueRefused, EnqueueCommandInLane, TaskSettles, ClearCommandLane,
           SetCommandLaneConcurrency, MarkGatewayDraining, ResetAllLanes
  <2>. QED BY <2>3, <2>4 DEF DrainDeadline, PollActiveTasks, WaitForActiveTasks
<1>. QED BY <1>1, Invariance, PTL DEF Spec, DrainedIsHonest

--------------------------------------------------------------------------------
(* Refinement.                                                              *)

\* Where each call is, in the terms of LaneService.
LEMMA PhaseValues ==
  ASSUME NEW c \in Calls
  PROVE  /\ promise[c] = "none" => phase[c] = "new"
         /\ promise[c] \notin {"none", "pending"} => phase[c] = promise[c]
         /\ promise[c] = "pending" => phase[c] = IF c \in executing THEN "executing" ELSE "waiting"
BY DEF phase

\* The invariant implies that no call has overtaken another.
LEMMA IInvInOrder == IInv => Service!InOrder
<1>. SUFFICES ASSUME IInv, NEW c \in Calls, NEW d \in Calls, Service!Overtakes(c, d)
              PROVE  FALSE
  BY DEF Service!InOrder
<1>1. /\ promise \in [Calls -> Promises] /\ enqueuedAt \in [Calls -> Nat]
      /\ \A e \in Calls : promise[e] = "pending" <=> e \in executing \/ e \in Waiting(lanes[LaneOf[e]])
  BY DEF IInv, TypeOK, QueueMatchesPromises
<1>2. /\ LaneOf[c] = LaneOf[d]
      /\ phase[c] \in {"executing", "resolved", "rejected"}
      /\ phase[d] = "waiting"
      /\ enqueuedAt[d] < enqueuedAt[c]
  BY DEF Service!Overtakes, Service!HasStarted
<1>3. d \in Waiting(lanes[LaneOf[d]])
  BY <1>1, <1>2, PhaseValues DEF Promises
<1>4. c \in executing \/ promise[c] \in {"resolved", "rejected"}
  BY <1>1, <1>2, PhaseValues DEF Promises
<1>5. enqueuedAt[c] < enqueuedAt[d]
  BY <1>2, <1>3, <1>4 DEF IInv, StartedFirst
<1>. QED BY <1>1, <1>2, <1>5

\* A call whose promise a step leaves alone, and whose task does not settle in it, either
\* stays where it is or starts.
LEMMA OtherCallsAdvance ==
  ASSUME IInv, NEW settled, NEW next, RunLanes(next, settled), NEW c \in Calls, c \notin settled,
         promise'[c] = promise[c]
  PROVE  phase'[c] = phase[c] \/ <<phase[c], phase'[c]>> \in Service!Edges
<1>1. promise[c] \in Promises
  BY DEF IInv, TypeOK
<1>2. c \in executing => c \in executing'
  BY DEF RunLanes
<1>3. /\ promise'[c] = "none" => phase'[c] = "new"
      /\ promise'[c] \notin {"none", "pending"} => phase'[c] = promise'[c]
      /\ promise'[c] = "pending" => phase'[c] = IF c \in executing' THEN "executing" ELSE "waiting"
  BY DEF phase
<1>. QED BY <1>1, <1>2, <1>3, PhaseValues DEF Service!Edges, Promises

\* Every step of the queue takes every call along an edge of LaneService, or leaves it.
LEMMA StepsAreEdges ==
  ASSUME IInv, Next, NEW d \in Calls
  PROVE  /\ phase'[d] = phase[d] \/ <<phase[d], phase'[d]>> \in Service!Edges
         /\ Service!KeepsPlace(d)
<1>. DEFINE Edge == phase'[d] = phase[d] \/ <<phase[d], phase'[d]>> \in Service!Edges
            Kept == Service!KeepsPlace(d)
<1>1. /\ promise \in [Calls -> Promises] /\ enqueuedAt \in [Calls -> Nat]
      /\ \A c \in Calls : promise[c] = "pending" <=> c \in executing \/ c \in Waiting(lanes[LaneOf[c]])
      /\ \A l \in Lanes : \A c \in Waiting(lanes[l]) : LaneOf[c] = l /\ c \notin executing
      /\ \A c \in Calls : enqueuedAt[c] = 0 <=> promise[c] \in {"none", "refused"}
  BY DEF IInv, TypeOK, QueueMatchesPromises, PlacesMatchPromises
<1>2. /\ promise'[d] = "none" => phase'[d] = "new"
      /\ promise'[d] \notin {"none", "pending"} => phase'[d] = promise'[d]
      /\ promise'[d] = "pending" => phase'[d] = IF d \in executing' THEN "executing" ELSE "waiting"
  BY DEF phase
<1>3. enqueuedAt' = enqueuedAt => Kept
  BY DEF Service!KeepsPlace
<1>4. promise' = promise /\ executing' = executing => phase' = phase
  BY DEF phase
<1>5. ASSUME NEW c \in Calls, EnqueueRefused(c)  PROVE Edge /\ Kept
  <2>1. /\ promise[c] = "none" /\ promise' = [promise EXCEPT ![c] = "refused"]
        /\ executing' = executing /\ enqueuedAt' = enqueuedAt
    BY <1>5 DEF EnqueueRefused
  <2>2. CASE d = c
    BY <1>1, <1>2, <1>3, <2>1, <2>2, PhaseValues DEF Service!Edges
  <2>3. CASE d # c
    <3>1. promise'[d] = promise[d]
      BY <1>1, <2>1, <2>3
    <3>. QED BY <1>1, <1>2, <1>3, <2>1, <3>1, PhaseValues DEF Promises
  <2>. QED BY <2>2, <2>3
<1>6. ASSUME NEW c \in Calls, EnqueueCommandInLane(c)  PROVE Edge /\ Kept
  <2>1. /\ promise[c] = "none" /\ promise' = [promise EXCEPT ![c] = "pending"]
        /\ enqueuedAt' = [enqueuedAt EXCEPT ![c] = NextPlace]
        /\ RunLanes([lanes EXCEPT ![LaneOf[c]] = DrainLane(Push(@, c))], {})
    BY <1>6 DEF EnqueueCommandInLane
  <2>2. Kept
    BY <1>1, <2>1 DEF Service!KeepsPlace
  <2>3. CASE d = c
    BY <1>1, <1>2, <2>1, <2>2, <2>3, PhaseValues DEF Service!Edges
  <2>4. CASE d # c
    BY <1>1, <2>1, <2>2, <2>4, OtherCallsAdvance
  <2>. QED BY <2>3, <2>4
<1>7. ASSUME NEW c \in Calls, NEW result \in {"resolved", "rejected"}, TaskSettles(c, result)
      PROVE  Edge /\ Kept
  <2>1. /\ c \in executing /\ promise' = [promise EXCEPT ![c] = result] /\ enqueuedAt' = enqueuedAt
        /\ RunLanes([lanes EXCEPT ![LaneOf[c]] = CompleteTask(@, c, taskGeneration[c])], {c})
    BY <1>7 DEF TaskSettles
  <2>2. CASE d = c
    BY <1>1, <1>2, <1>3, <2>1, <2>2, PhaseValues DEF Service!Edges
  <2>3. CASE d # c
    BY <1>1, <1>3, <2>1, <2>3, OtherCallsAdvance
  <2>. QED BY <2>2, <2>3
<1>8. ASSUME NEW l \in Lanes, ClearCommandLane(l)  PROVE Edge /\ Kept
  <2>1. /\ promise' = [c \in Calls |-> IF c \in Waiting(lanes[l]) THEN "cleared" ELSE promise[c]]
        /\ executing' = executing /\ enqueuedAt' = enqueuedAt
    BY <1>8 DEF ClearCommandLane
  <2>2. CASE d \in Waiting(lanes[l])
    BY <1>1, <1>2, <1>3, <2>1, <2>2, PhaseValues DEF Service!Edges
  <2>3. CASE d \notin Waiting(lanes[l])
    BY <1>1, <1>2, <1>3, <2>1, <2>3, PhaseValues DEF Promises
  <2>. QED BY <2>2, <2>3
<1>9. ASSUME NEW l \in Lanes, NEW n \in ConcurrencyArgs, SetCommandLaneConcurrency(l, n)
      PROVE  Edge /\ Kept
  BY <1>3, <1>9, OtherCallsAdvance DEF SetCommandLaneConcurrency
<1>10. CASE ResetAllLanes
  BY <1>3, <1>10, OtherCallsAdvance DEF ResetAllLanes
<1>11. CASE MarkGatewayDraining \/ WaitForActiveTasks \/ PollActiveTasks \/ DrainDeadline
  BY <1>3, <1>4, <1>11 DEF MarkGatewayDraining, WaitForActiveTasks, PollActiveTasks, DrainDeadline
<1>. QED BY <1>5, <1>6, <1>7, <1>8, <1>9, <1>10, <1>11 DEF Next

\* The queue implements the lane service: each call runs at most once, in order, and gets
\* one answer.
THEOREM Refinement == Spec => ImplementsLaneService
<1>1. Init => Service!Init
  BY DEF Init, Service!Init, phase
<1>2. IInv /\ IInv' /\ [Next]_vars => [Service!Next]_Service!vars
  <2>1. IInv' => Service!InOrder'
    BY IInvInOrder, PTL
  <2>2. IInv /\ IInv' /\ Next => Service!Next
    BY <2>1, StepsAreEdges DEF Service!Next
  <2>3. UNCHANGED vars => UNCHANGED Service!vars
    BY DEF vars, Service!vars, phase
  <2>. QED BY <2>2, <2>3
<1>. QED BY <1>1, <1>2, Invariance, PTL DEF Spec, ImplementsLaneService, Service!Spec
================================================================================
