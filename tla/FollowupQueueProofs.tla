---------------------------- MODULE FollowupQueueProofs ----------------------------
(***************************************************************************)
(* Proofs about the follow-up queue, for any deliveries, settings and      *)
(* number of queue objects.                                                *)
(*                                                                         *)
(* A delivery has one place: it waits in one queue, once, or was dropped   *)
(* from it, and the batches of drains that run at the same time share no   *)
(* delivery, nor does a drain hold what waits in another queue.  So a      *)
(* result or a clear never concerns a message that already has its fate.   *)
(* Until a head is taken under a run, or a clear leaves a drain behind,    *)
(* all of it is in the registered queue, and a batch is the head of it.    *)
(***************************************************************************)
EXTENDS FollowupQueue, FiniteSetTheorems, TLAPS

Drain == [at : Places, individual : BOOLEAN, run : Runs, batch : Seq(Deliveries), told : SUBSET Deliveries]
Queue == [items : Seq(Deliveries), dropped : Seq(Deliveries), lastRun : BOOLEAN,
          mode : {"followup", "collect"}, cap : Nat, dropPolicy : {"summarize", "old", "new"},
          drain : Drain]
States == [queues : [Slots -> Queue], current : Slots \cup {0}, callback : BOOLEAN]

--------------------------------------------------------------------------------
(* The inductive invariant.                                                 *)

Running(queue) == queue.drain.at = "running"

\* The messages that a follow-up run in flight handles.
Handled(queue) == IF Running(queue) /\ queue.drain.run # "summary" THEN ToSet(queue.drain.batch) ELSE {}

Distinct(items) == \A i, j \in 1..Len(items) : items[i] = items[j] => i = j

\* A delivery waits once, in one queue, and not where it was dropped.
OnePlace(Q) ==
  /\ \A q \in Slots : Distinct(Q[q].items)
  /\ \A p, q \in Slots : p # q => ToSet(Q[p].items) \cap ToSet(Q[q].items) = {}
  /\ \A p, q \in Slots : ToSet(Q[p].items) \cap ToSet(Q[q].dropped) = {}

\* It is handled by one run, of the queue that it waits in, and stands at the head of that.
OneRun(Q) ==
  /\ \A p, q \in Slots : p # q => Handled(Q[p]) \cap (ToSet(Q[q].items) \cup Handled(Q[q])) = {}
  /\ \A q \in Slots : \A i \in 1..Len(Q[q].items) :
       Q[q].items[i] \in Handled(Q[q]) => i <= Len(Q[q].drain.batch)

\* What has happened to a delivery, by its place.
FateFits(Q, f) ==
  \A q \in Slots :
    /\ \A d \in ToSet(Q[q].items) : f[d] \in {"queued", "failed", "running"}
    /\ \A d \in Handled(Q[q]) : f[d] = "running"
    /\ \A d \in ToSet(Q[q].dropped) : f[d] \notin {"new", "arriving"}

Sound(Q, f) == OnePlace(Q) /\ OneRun(Q) /\ FateFits(Q, f)

\* A queue object that is not registered, and has no drain, is gone.
GoneAreEmpty == \A q \in Slots : Live(q) \/ queues[q] = NoQueue

DrainsAreRegistered == past.orphaned \/ \A q \in Slots : ~Idle(queues[q]) => q = current

Orderly == ~past.headTaken /\ ~past.orphaned

\* What has no answer yet waits in the registered queue, or was dropped from it.
WaitsInRegistered ==
  Orderly => \A d \in Deliveries :
    /\ fate[d] \in {"queued", "failed"} => current # 0 /\ d \in ToSet(queues[current].items)
    /\ fate[d] = "summarized" => current # 0 /\ d \in ToSet(queues[current].dropped)

\* A run in flight handles the head of its queue, and tells of all that was dropped or of nothing.
RunsTakeTheHead ==
  Orderly => \A q \in Slots : Running(queues[q]) =>
    /\ Len(queues[q].drain.batch) <= Len(queues[q].items)
    /\ \A i \in 1..Len(queues[q].drain.batch) : queues[q].items[i] = queues[q].drain.batch[i]
    /\ queues[q].drain.told \in {{}, ToSet(queues[q].dropped)}

\* Between two runs there is nothing to tell of.
OnlyRunsTell == \A q \in Slots : Running(queues[q]) \/ queues[q].drain.told = {}

IInv ==
  /\ TypeOK
  /\ Sound(queues, fate)
  /\ GoneAreEmpty
  /\ DrainsAreRegistered
  /\ NoQueueLeftIdle
  /\ WaitsInRegistered
  /\ RunsTakeTheHead
  /\ OnlyRunsTell

--------------------------------------------------------------------------------
(* Queue states.                                                            *)

\* The queue state of the process is one, and its parts have their types.
LEMMA Types ==
  ASSUME TypeOK
  PROVE  /\ QueueState \in States
         /\ QueueState.queues = queues /\ QueueState.current = current /\ QueueState.callback = callback
         /\ queues \in [Slots -> Queue]
         /\ \A q \in Slots : queues[q] \in Queue
         /\ current \in Slots \cup {0}
         /\ callback \in BOOLEAN
         /\ fate \in [Deliveries -> Fates]
         /\ recent \subseteq {MessageOf[d] : d \in Deliveries}
<1>1. /\ queues \in [Slots -> Queue]
      /\ current \in Slots \cup {0}
      /\ callback \in BOOLEAN
      /\ fate \in [Deliveries -> Fates]
      /\ recent \subseteq {MessageOf[d] : d \in Deliveries}
  BY DEF TypeOK, Queue, Drain
<1>2. /\ QueueState \in States
      /\ QueueState.queues = queues /\ QueueState.current = current /\ QueueState.callback = callback
  BY <1>1 DEF QueueState, States
<1>. QED BY <1>1, <1>2

\* A queue, field by field.
LEMMA QueueFields ==
  ASSUME NEW queue \in Queue
  PROVE  /\ queue.items \in Seq(Deliveries) /\ Len(queue.items) \in Nat
         /\ ToSet(queue.items) \subseteq Deliveries
         /\ \A d \in ToSet(queue.items) : \E i \in 1..Len(queue.items) : queue.items[i] = d
         /\ \A i \in 1..Len(queue.items) : queue.items[i] \in ToSet(queue.items)
         /\ queue.dropped \in Seq(Deliveries) /\ ToSet(queue.dropped) \subseteq Deliveries
         /\ queue.lastRun \in BOOLEAN
         /\ queue.cap \in Nat
         /\ queue.drain \in Drain
         /\ queue.drain.at \in Places /\ queue.drain.run \in Runs /\ queue.drain.told \subseteq Deliveries
         /\ queue.drain.batch \in Seq(Deliveries) /\ Len(queue.drain.batch) \in Nat
         /\ ToSet(queue.drain.batch) \subseteq Deliveries
         /\ \A d \in ToSet(queue.drain.batch) : \E i \in 1..Len(queue.drain.batch) : queue.drain.batch[i] = d
         /\ \A i \in 1..Len(queue.drain.batch) : queue.drain.batch[i] \in ToSet(queue.drain.batch)
<1>1. /\ queue.items \in Seq(Deliveries) /\ queue.dropped \in Seq(Deliveries)
      /\ queue.lastRun \in BOOLEAN /\ queue.cap \in Nat /\ queue.drain \in Drain
  BY DEF Queue
<1>2. /\ queue.drain.at \in Places /\ queue.drain.run \in Runs /\ queue.drain.told \subseteq Deliveries
      /\ queue.drain.batch \in Seq(Deliveries)
  BY <1>1 DEF Drain
<1>3. ASSUME NEW s \in Seq(Deliveries)
      PROVE  /\ Len(s) \in Nat /\ ToSet(s) \subseteq Deliveries
             /\ \A d \in ToSet(s) : \E i \in 1..Len(s) : s[i] = d
             /\ \A i \in 1..Len(s) : s[i] \in ToSet(s)
  BY DEF ToSet
<1>. QED BY <1>1, <1>2, <1>3

\* An object that is not used.
LEMMA NoQueueFacts ==
  /\ NoQueue \in Queue /\ NoDrain \in Drain
  /\ NoQueue.items = <<>> /\ NoQueue.dropped = <<>> /\ NoQueue.drain = NoDrain
  /\ NoDrain.at = "idle" /\ NoDrain.told = {}
<1>1. <<>> \in Seq(Deliveries)
  OBVIOUS
<1>. QED BY <1>1 DEF NoQueue, NoDrain, Queue, Drain, Places, Runs

\* The drain of q goes on at a place before its next run.
LEMMA AtFacts ==
  ASSUME NEW s \in States, NEW q \in Slots, NEW place \in Places
  PROVE  /\ At(s, q, place) \in States
         /\ At(s, q, place).current = s.current
         /\ At(s, q, place).callback = s.callback
         /\ \A p \in Slots : p # q => At(s, q, place).queues[p] = s.queues[p]
         /\ At(s, q, place).queues[q].items = s.queues[q].items
         /\ At(s, q, place).queues[q].dropped = s.queues[q].dropped
         /\ At(s, q, place).queues[q].cap = s.queues[q].cap
         /\ At(s, q, place).queues[q].drain.at = place
         /\ At(s, q, place).queues[q].drain.told = {}
<1>. DEFINE drain == [s.queues[q].drain EXCEPT !.at = place, !.run = "none", !.batch = <<>>, !.told = {}]
            queue == [s.queues[q] EXCEPT !.drain = drain]
<1>1. At(s, q, place) = [s EXCEPT !.queues = [s.queues EXCEPT ![q] = queue]]
  BY DEF At, States
<1>2. s.queues \in [Slots -> Queue] /\ s.queues[q] \in Queue /\ s.queues[q].drain \in Drain
  BY DEF States, Queue
<1>3. drain \in Drain /\ drain.at = place /\ drain.told = {}
  <2>1. <<>> \in Seq(Deliveries) /\ {} \subseteq Deliveries /\ "none" \in Runs
    BY DEF Runs
  <2>. QED BY <1>2, <2>1 DEF Drain
<1>. HIDE DEF drain
<1>4. /\ queue \in Queue /\ queue.items = s.queues[q].items /\ queue.dropped = s.queues[q].dropped
      /\ queue.cap = s.queues[q].cap /\ queue.drain = drain
  BY <1>2, <1>3 DEF Queue
<1>. HIDE DEF queue
<1>5. PICK Q : Q = [s.queues EXCEPT ![q] = queue]
  OBVIOUS
<1>6. Q \in [Slots -> Queue] /\ Q[q] = queue /\ \A p \in Slots : p # q => Q[p] = s.queues[p]
  BY <1>2, <1>4, <1>5
<1>7. PICK t : t = At(s, q, place)
  OBVIOUS
<1>8. t \in States /\ t.queues = Q /\ t.current = s.current /\ t.callback = s.callback
  BY <1>1, <1>5, <1>6, <1>7 DEF States
<1>. QED BY <1>3, <1>4, <1>6, <1>7, <1>8

--------------------------------------------------------------------------------
(* The drain loop.                                                          *)

\* A queue with no run in flight.
Stopped(queue) == ~Running(queue) /\ queue.drain.told = {}

\* t is s after the drain of q has moved on, or ended: nothing that waits has changed, and if q
\* is registered and has work left its drain goes on.
Moved(s, t, q) ==
  /\ t \in States
  /\ \A p \in Slots :
       /\ t.queues[p].items = s.queues[p].items /\ t.queues[p].dropped = s.queues[p].dropped
       /\ t.queues[p].cap = s.queues[p].cap
       /\ t.queues[p].drain = s.queues[p].drain \/ Stopped(t.queues[p])
  /\ s.current = q =>
       /\ \A p \in Slots : p # q => t.queues[p] = s.queues[p]
       /\ \/ t.current = 0 /\ Drained(s.queues[q]) /\ Idle(t.queues[q])
          \/ t.current = q /\ ~Idle(t.queues[q])

\* A drain that goes on.
LEMMA AtMoves ==
  ASSUME NEW s \in States, NEW q \in Slots, NEW place \in Places \ {"idle", "running"}
  PROVE  Moved(s, At(s, q, place), q) /\ Stopped(At(s, q, place).queues[q])
<1>1. PICK t : t = At(s, q, place)
  OBVIOUS
<1>2. /\ t \in States /\ t.current = s.current
      /\ \A p \in Slots : p # q => t.queues[p] = s.queues[p]
      /\ t.queues[q].items = s.queues[q].items /\ t.queues[q].dropped = s.queues[q].dropped
      /\ t.queues[q].cap = s.queues[q].cap
      /\ t.queues[q].drain.at = place /\ t.queues[q].drain.told = {}
  BY <1>1, AtFacts
<1>3. Stopped(t.queues[q]) /\ ~Idle(t.queues[q])
  BY <1>2 DEF Stopped, Running, Idle
<1>. QED BY <1>1, <1>2, <1>3 DEF Moved

\* scheduleFollowupDrain: a registered queue with work has a drain afterwards.
LEMMA ScheduleMoves ==
  ASSUME NEW s \in States
  PROVE  /\ Schedule(s) \in States
         /\ s.current = 0 => Schedule(s) = s
         /\ s.current # 0 => Moved(s, Schedule(s), s.current)
<1>1. CASE s.current = 0
  BY <1>1 DEF Schedule
<1>2. CASE s.current # 0
  <2>1. s.current \in Slots
    BY <1>2 DEF States
  <2>2. CASE ~Idle(s.queues[s.current])
    BY <1>2, <2>2 DEF Schedule, Moved
  <2>3. CASE Idle(s.queues[s.current]) /\ Drained(s.queues[s.current])
    <3>1. PICK t : t = [s EXCEPT !.current = 0, !.callback = FALSE]
      OBVIOUS
    <3>2. t \in States /\ t.queues = s.queues /\ t.current = 0
      BY <3>1 DEF States
    <3>3. Schedule(s) = t
      BY <1>2, <2>3, <3>1 DEF Schedule
    <3>. QED BY <1>2, <2>3, <3>2, <3>3 DEF Moved
  <2>4. CASE Idle(s.queues[s.current]) /\ ~Drained(s.queues[s.current])
    <3>1. PICK u : u = At(s, s.current, "debounce")
      OBVIOUS
    <3>2. u \in States /\ Moved(s, u, s.current)
      BY <2>1, <3>1, AtFacts, AtMoves DEF Places
    <3>3. PICK t : t = [u EXCEPT !.callback = TRUE]
      OBVIOUS
    <3>4. t \in States /\ t.queues = u.queues /\ t.current = u.current
      BY <3>2, <3>3 DEF States
    <3>5. Schedule(s) = t
      BY <1>2, <2>4, <3>1, <3>3 DEF Schedule
    <3>6. Moved(s, t, s.current)
      BY <3>2, <3>4 DEF Moved
    <3>. QED BY <1>2, <3>4, <3>5, <3>6
  <2>. QED BY <2>2, <2>3, <2>4
<1>. QED BY <1>1, <1>2

\* The finally block of a drain.
LEMMA FinishMoves ==
  ASSUME NEW s \in States, NEW q \in Slots
  PROVE  Moved(s, Finish(s, q), q) /\ Stopped(Finish(s, q).queues[q])
<1>1. PICK stopped : stopped = [s EXCEPT !.queues[q].drain = NoDrain]
  OBVIOUS
<1>2. /\ stopped \in States /\ stopped.current = s.current
      /\ \A p \in Slots : p # q => stopped.queues[p] = s.queues[p]
      /\ stopped.queues[q].items = s.queues[q].items /\ stopped.queues[q].dropped = s.queues[q].dropped
      /\ stopped.queues[q].cap = s.queues[q].cap
      /\ stopped.queues[q].drain = NoDrain
  <2>1. PICK queue : queue = [s.queues[q] EXCEPT !.drain = NoDrain]
    OBVIOUS
  <2>2. s.queues \in [Slots -> Queue] /\ s.queues[q] \in Queue
    BY DEF States
  <2>3. /\ queue \in Queue /\ queue.items = s.queues[q].items /\ queue.dropped = s.queues[q].dropped
        /\ queue.cap = s.queues[q].cap /\ queue.drain = NoDrain
    BY <2>1, <2>2, NoQueueFacts DEF Queue
  <2>4. PICK Q : Q = [s.queues EXCEPT ![q] = queue]
    OBVIOUS
  <2>5. Q \in [Slots -> Queue] /\ Q[q] = queue /\ \A p \in Slots : p # q => Q[p] = s.queues[p]
    BY <2>2, <2>3, <2>4
  <2>6. stopped = [s EXCEPT !.queues = Q]
    BY <1>1, <2>1, <2>4 DEF States
  <2>7. stopped \in States /\ stopped.queues = Q /\ stopped.current = s.current
    BY <2>5, <2>6 DEF States
  <2>. QED BY <2>3, <2>5, <2>7
<1>3. Stopped(stopped.queues[q]) /\ Idle(stopped.queues[q])
  BY <1>2, NoQueueFacts DEF Stopped, Running, Idle
<1>4. CASE Drained(s.queues[q])
  <2>1. PICK t : t = [stopped EXCEPT !.current = 0, !.callback = FALSE]
    OBVIOUS
  <2>2. t \in States /\ t.queues = stopped.queues /\ t.current = 0
    BY <1>2, <2>1 DEF States
  <2>3. Finish(s, q) = t
    BY <1>1, <1>4, <2>1 DEF Finish
  <2>. QED BY <1>2, <1>3, <1>4, <2>2, <2>3 DEF Moved
<1>5. CASE ~Drained(s.queues[q])
  <2>1. PICK t : t = Schedule(stopped)
    OBVIOUS
  <2>2. Finish(s, q) = t
    BY <1>1, <1>5, <2>1 DEF Finish
  <2>3. /\ t \in States
        /\ s.current = 0 => t = stopped
        /\ s.current # 0 => Moved(stopped, t, s.current)
    BY <1>2, <2>1, ScheduleMoves
  <2>4. ~Drained(stopped.queues[q])
    BY <1>2, <1>5 DEF Drained
  <2>5. 0 \notin Slots
    BY FollowupAssumption
  <2>6. Stopped(t.queues[q])
    <3>1. CASE s.current = 0
      BY <1>3, <2>3, <3>1
    <3>2. CASE s.current # 0
      <4>1. t.queues[q].drain = stopped.queues[q].drain \/ Stopped(t.queues[q])
        BY <2>3, <3>2 DEF Moved
      <4>. QED BY <1>3, <4>1 DEF Stopped, Running
    <3>. QED BY <3>1, <3>2
  <2>7. Moved(s, t, q)
    <3>1. CASE s.current = 0
      BY <1>2, <1>3, <2>3, <2>5, <3>1 DEF Moved
    <3>2. CASE s.current # 0 /\ s.current # q
      BY <1>2, <2>3, <2>6, <3>2 DEF Moved
    <3>3. CASE s.current = q
      <4>1. Moved(stopped, t, q) /\ ~(t.current = 0 /\ Drained(stopped.queues[q]))
        BY <2>3, <2>4, <2>5, <3>3
      <4>. QED BY <1>2, <1>3, <2>6, <3>3, <4>1 DEF Moved
    <3>. QED BY <3>1, <3>2, <3>3
  <2>. QED BY <2>2, <2>6, <2>7
<1>. QED BY <1>4, <1>5

\* The loop goes round, or ends.
LEMMA GoRoundMoves ==
  ASSUME NEW s \in States, NEW q \in Slots
  PROVE  Moved(s, GoRound(s, q), q) /\ Stopped(GoRound(s, q).queues[q])
<1>1. "debounce" \in Places \ {"idle", "running"}
  BY DEF Places
<1>. QED BY <1>1, AtMoves, FinishMoves DEF GoRound

\* Queue objects that nothing refers to are gone in the next state, and no others.
LEMMA BecomesFacts ==
  ASSUME NEW t \in States, Becomes(t)
  PROVE  /\ queues' \in [Slots -> Queue] /\ current' = t.current /\ callback' = t.callback
         /\ current' \in Slots \cup {0} /\ callback' \in BOOLEAN
         /\ \A p \in Slots : queues'[p] = t.queues[p] \/ (queues'[p] = NoQueue /\ p # t.current /\ Idle(t.queues[p]))
         /\ GoneAreEmpty'
         /\ t.current \in Slots => queues'[t.current] = t.queues[t.current]
<1>1. /\ queues' = [q \in Slots |-> IF q = t.current \/ ~Idle(t.queues[q]) THEN t.queues[q] ELSE NoQueue]
      /\ current' = t.current /\ callback' = t.callback
  BY DEF Becomes
<1>2. t.queues \in [Slots -> Queue] /\ t.current \in Slots \cup {0} /\ t.callback \in BOOLEAN
  BY DEF States
<1>3. queues' \in [Slots -> Queue]
  BY <1>1, <1>2, NoQueueFacts
<1>4. \A p \in Slots : queues'[p] = IF p = t.current \/ ~Idle(t.queues[p]) THEN t.queues[p] ELSE NoQueue
  BY <1>1
<1>5. GoneAreEmpty'
  BY <1>1, <1>4 DEF GoneAreEmpty, Live
<1>. QED BY <1>1, <1>2, <1>3, <1>4, <1>5

\* Drains that move on, and objects that go, keep every delivery in its place.
LEMMA FewerAreSound ==
  ASSUME NEW Q, NEW R, NEW f, Sound(Q, f),
         \A q \in Slots :
           \/ R[q] = NoQueue
           \/ /\ R[q].items = Q[q].items /\ R[q].dropped = Q[q].dropped
              /\ R[q].drain = Q[q].drain \/ ~Running(R[q])
  PROVE  Sound(R, f)
<1>1. ToSet(<<>>) = {} /\ Len(<<>>) = 0
  BY DEF ToSet
<1>2. \A q \in Slots : \/ R[q].items = <<>> /\ R[q].dropped = <<>> /\ ~Running(R[q])
                       \/ /\ R[q].items = Q[q].items /\ R[q].dropped = Q[q].dropped
                          /\ R[q].drain = Q[q].drain \/ ~Running(R[q])
  BY NoQueueFacts DEF Running
<1>3. \A q \in Slots : /\ ToSet(R[q].items) \subseteq ToSet(Q[q].items)
                       /\ ToSet(R[q].dropped) \subseteq ToSet(Q[q].dropped)
                       /\ R[q].items = <<>> \/ R[q].items = Q[q].items
                       /\ Handled(R[q]) = {} \/ (Handled(R[q]) = Handled(Q[q]) /\ R[q].drain = Q[q].drain)
  BY <1>1, <1>2 DEF Handled, Running
<1>4. OnePlace(R)
  <2>1. Distinct(<<>>)
    BY <1>1 DEF Distinct
  <2>2. OnePlace(Q)
    BY DEF Sound
  <2>3. \A q \in Slots : Distinct(R[q].items)
    BY <1>3, <2>1, <2>2 DEF OnePlace
  <2>4. ASSUME NEW p \in Slots, NEW q \in Slots
        PROVE  /\ p # q => ToSet(R[p].items) \cap ToSet(R[q].items) = {}
               /\ ToSet(R[p].items) \cap ToSet(R[q].dropped) = {}
    <3>1. /\ p # q => ToSet(Q[p].items) \cap ToSet(Q[q].items) = {}
          /\ ToSet(Q[p].items) \cap ToSet(Q[q].dropped) = {}
      BY <2>2 DEF OnePlace
    <3>2. /\ ToSet(R[p].items) \subseteq ToSet(Q[p].items) /\ ToSet(R[q].items) \subseteq ToSet(Q[q].items)
          /\ ToSet(R[q].dropped) \subseteq ToSet(Q[q].dropped)
      BY <1>3
    <3>. QED BY <3>1, <3>2
  <2>. QED BY <2>3, <2>4 DEF OnePlace
<1>5. OneRun(R)
  <2>1. \A p, q \in Slots : p # q => Handled(R[p]) \cap (ToSet(R[q].items) \cup Handled(R[q])) = {}
    BY <1>3 DEF Sound, OneRun
  <2>2. ASSUME NEW q \in Slots, NEW i \in 1..Len(R[q].items), R[q].items[i] \in Handled(R[q])
        PROVE  i <= Len(R[q].drain.batch)
    <3>1. R[q].items = Q[q].items
      <4>1. R[q].items # <<>>
        BY <1>1, <2>2
      <4>. QED BY <1>3, <4>1
    <3>2. Handled(R[q]) = Handled(Q[q]) /\ R[q].drain = Q[q].drain
      BY <1>3, <2>2
    <3>3. Q[q].items[i] \in Handled(Q[q]) => i <= Len(Q[q].drain.batch)
      BY <3>1 DEF Sound, OneRun
    <3>. QED BY <2>2, <3>1, <3>2, <3>3
  <2>. QED BY <2>1, <2>2 DEF OneRun
<1>6. FateFits(R, f)
  BY <1>3 DEF Sound, FateFits
<1>. QED BY <1>4, <1>5, <1>6 DEF Sound

--------------------------------------------------------------------------------
(* What keeps the invariant.                                                *)

QueueTypes == queues \in [Slots -> Queue] /\ current \in Slots \cup {0} /\ callback \in BOOLEAN

Replies == [active : BOOLEAN, ended : {0, 1}]
Pasts == [headTaken : BOOLEAN, orphaned : BOOLEAN, leftIdle : BOOLEAN, failures : 0..MaxFailures]

OtherTypes ==
  /\ recent \subseteq {MessageOf[d] : d \in Deliveries}
  /\ reply \in Replies
  /\ foreign \in BOOLEAN
  /\ past \in Pasts

FateTypes == fate \in [Deliveries -> Fates]

QueueInv ==
  /\ QueueTypes
  /\ FateTypes
  /\ Sound(queues, fate)
  /\ GoneAreEmpty
  /\ DrainsAreRegistered
  /\ NoQueueLeftIdle
  /\ WaitsInRegistered
  /\ RunsTakeTheHead
  /\ OnlyRunsTell

\* The invariant, as the queues and the other variables contribute to it.
LEMMA Parts == IInv <=> QueueInv /\ OtherTypes
BY DEF IInv, QueueInv, OtherTypes, TypeOK, QueueTypes, FateTypes, Queue, Drain, Replies, Pasts

\* The same in the next state.
LEMMA NextParts ==
  ASSUME QueueInv', OtherTypes'
  PROVE  IInv'
BY DEF IInv, QueueInv, OtherTypes, TypeOK, QueueTypes, FateTypes, Queue, Drain, Replies, Pasts

\* The history, field by field.
LEMMA PastFacts ==
  ASSUME OtherTypes
  PROVE  /\ past.headTaken \in BOOLEAN /\ past.orphaned \in BOOLEAN /\ past.leftIdle \in BOOLEAN
         /\ past.failures \in 0..MaxFailures
         /\ reply.active \in BOOLEAN /\ reply.ended \in {0, 1}
BY DEF OtherTypes, Pasts, Replies

\* The invariant gives what the lemmas on queue states need.
LEMMA QueueFacts ==
  ASSUME IInv
  PROVE  /\ QueueInv /\ OtherTypes
         /\ QueueState \in States
         /\ QueueState.queues = queues /\ QueueState.current = current /\ QueueState.callback = callback
         /\ queues \in [Slots -> Queue]
         /\ \A q \in Slots : queues[q] \in Queue
         /\ current \in Slots \cup {0} /\ 0 \notin Slots
<1>1. TypeOK
  BY DEF IInv
<1>. QED BY <1>1, Parts, Types, FollowupAssumption

\* A step in which a drain moves on, or in which one is scheduled, and no message changes its fate.
LEMMA MovesKeep ==
  ASSUME IInv, NEW q \in Slots, q = current \/ ~Idle(queues[q]),
         NEW t \in States, Moved(QueueState, t, q), Becomes(t), fate' = fate, past' = past
  PROVE  QueueInv'
<1>1. /\ QueueInv /\ QueueState.queues = queues /\ QueueState.current = current
      /\ current \in Slots \cup {0} /\ 0 \notin Slots
  BY QueueFacts
<1>2. /\ queues' \in [Slots -> Queue] /\ current' = t.current
      /\ current' \in Slots \cup {0} /\ callback' \in BOOLEAN
      /\ \A p \in Slots : queues'[p] = t.queues[p] \/ (queues'[p] = NoQueue /\ p # t.current /\ Idle(t.queues[p]))
      /\ GoneAreEmpty'
      /\ t.current \in Slots => queues'[t.current] = t.queues[t.current]
  BY BecomesFacts
<1>3. /\ \A p \in Slots :
           /\ t.queues[p].items = queues[p].items /\ t.queues[p].dropped = queues[p].dropped
           /\ t.queues[p].drain = queues[p].drain \/ Stopped(t.queues[p])
      /\ current = q =>
           /\ \A p \in Slots : p # q => t.queues[p] = queues[p]
           /\ \/ t.current = 0 /\ Drained(queues[q]) /\ Idle(t.queues[q])
              \/ t.current = q /\ ~Idle(t.queues[q])
  BY <1>1 DEF Moved
<1>4. Sound(queues', fate')
  <2>1. \A p \in Slots :
          \/ queues'[p] = NoQueue
          \/ /\ queues'[p].items = queues[p].items /\ queues'[p].dropped = queues[p].dropped
             /\ queues'[p].drain = queues[p].drain \/ ~Running(queues'[p])
    BY <1>2, <1>3 DEF Stopped
  <2>2. PICK Q, R, f : Q = queues /\ R = queues' /\ f = fate
    OBVIOUS
  <2>3. Sound(R, f)
    BY <1>1, <2>1, <2>2, FewerAreSound DEF QueueInv
  <2>. QED BY <2>2, <2>3
<1>5. ~past.orphaned => current = q
  BY <1>1 DEF QueueInv, DrainsAreRegistered
<1>6. DrainsAreRegistered'
  <2>1. SUFFICES ASSUME ~past.orphaned, NEW p \in Slots, ~Idle(queues'[p])
                 PROVE  p = current'
    BY DEF DrainsAreRegistered
  <2>2. queues'[p] = t.queues[p]
    BY <1>2, <2>1, NoQueueFacts DEF Idle
  <2>3. CASE p = q
    BY <1>2, <1>3, <1>5, <2>1, <2>2, <2>3
  <2>4. CASE p # q
    BY <1>1, <1>3, <1>5, <2>1, <2>2, <2>4 DEF QueueInv, DrainsAreRegistered
  <2>. QED BY <2>3, <2>4
<1>7. NoQueueLeftIdle'
  <2>1. SUFFICES ASSUME ~past.orphaned, current' # 0
                 PROVE  ~Idle(queues'[current'])
    BY DEF NoQueueLeftIdle
  <2>. QED BY <1>2, <1>3, <1>5, <2>1
<1>8. WaitsInRegistered'
  <2>1. SUFFICES ASSUME Orderly, NEW d \in Deliveries
                 PROVE  /\ fate[d] \in {"queued", "failed"} => current' # 0 /\ d \in ToSet(queues'[current'].items)
                        /\ fate[d] = "summarized" => current' # 0 /\ d \in ToSet(queues'[current'].dropped)
    BY DEF WaitsInRegistered, Orderly
  <2>2. current = q
    BY <1>5, <2>1 DEF Orderly
  <2>3. /\ fate[d] \in {"queued", "failed"} => d \in ToSet(queues[q].items)
        /\ fate[d] = "summarized" => d \in ToSet(queues[q].dropped)
    BY <1>1, <2>1, <2>2 DEF QueueInv, WaitsInRegistered
  <2>4. CASE t.current = 0 /\ Drained(queues[q])
    BY <2>3, <2>4 DEF Drained, ToSet
  <2>5. CASE t.current = q
    BY <1>1, <1>2, <1>3, <2>3, <2>5
  <2>. QED BY <1>3, <2>2, <2>4, <2>5
<1>9. RunsTakeTheHead'
  <2>1. SUFFICES ASSUME Orderly, NEW p \in Slots, Running(queues'[p])
                 PROVE  /\ Len(queues'[p].drain.batch) <= Len(queues'[p].items)
                        /\ \A i \in 1..Len(queues'[p].drain.batch) :
                             queues'[p].items[i] = queues'[p].drain.batch[i]
                        /\ queues'[p].drain.told \in {{}, ToSet(queues'[p].dropped)}
    BY DEF RunsTakeTheHead, Orderly
  <2>2. queues'[p] = t.queues[p]
    BY <1>2, <2>1, NoQueueFacts DEF Running
  <2>3. /\ queues'[p].items = queues[p].items /\ queues'[p].dropped = queues[p].dropped
        /\ queues'[p].drain = queues[p].drain
    BY <1>3, <2>1, <2>2 DEF Stopped
  <2>4. Running(queues[p])
    BY <2>1, <2>3 DEF Running
  <2>. QED BY <1>1, <2>1, <2>3, <2>4 DEF QueueInv, RunsTakeTheHead
<1>10. FateTypes'
  BY <1>1 DEF QueueInv, FateTypes
<1>11. OnlyRunsTell'
  <2>1. SUFFICES ASSUME NEW p \in Slots, ~Running(queues'[p])
                 PROVE  queues'[p].drain.told = {}
    BY DEF OnlyRunsTell
  <2>2. CASE queues'[p] = NoQueue
    BY <2>2, NoQueueFacts
  <2>3. CASE queues'[p] = t.queues[p] /\ t.queues[p].drain = queues[p].drain
    BY <1>1, <2>1, <2>3 DEF QueueInv, OnlyRunsTell, Running
  <2>4. CASE queues'[p] = t.queues[p] /\ Stopped(t.queues[p])
    BY <2>4 DEF Stopped
  <2>. QED BY <1>2, <1>3, <2>2, <2>3, <2>4
<1>. QED BY <1>2, <1>4, <1>6, <1>7, <1>8, <1>9, <1>10, <1>11 DEF QueueInv, QueueTypes

\* A step that leaves the queues and the fates alone.
LEMMA QueuesStay ==
  ASSUME IInv, queues' = queues, current' = current, callback' = callback, fate' = fate,
         past'.orphaned = past.orphaned, past'.headTaken = past.headTaken, NoQueueLeftIdle'
  PROVE  QueueInv'
BY QueueFacts DEF QueueInv, QueueTypes, FateTypes, GoneAreEmpty, Live, DrainsAreRegistered, Orderly,
                  WaitsInRegistered, RunsTakeTheHead, OnlyRunsTell

--------------------------------------------------------------------------------
(* The runs that messages wait for, and the moves of a drain.               *)

\* A message begins to arrive.
LEMMA MessageArrivesKeeps ==
  ASSUME IInv, NEW d \in Deliveries, MessageArrives(d)
  PROVE  IInv'
<1>1. /\ QueueInv /\ OtherTypes /\ fate \in [Deliveries -> Fates]
  BY QueueFacts DEF QueueInv, FateTypes
<1>2. /\ fate[d] = "new" /\ fate' = [fate EXCEPT ![d] = "arriving"]
      /\ queues' = queues /\ current' = current /\ callback' = callback /\ recent' = recent
      /\ reply' = reply /\ foreign' = foreign /\ past' = past
  BY DEF MessageArrives
<1>3. /\ fate' \in [Deliveries -> Fates] /\ fate'[d] = "arriving"
      /\ \A e \in Deliveries : e # d => fate'[e] = fate[e]
  BY <1>1, <1>2 DEF Fates
<1>4. Sound(queues, fate')
  <2>1. ASSUME NEW q \in Slots
        PROVE  /\ \A e \in ToSet(queues[q].items) : fate'[e] \in {"queued", "failed", "running"}
               /\ \A e \in Handled(queues[q]) : fate'[e] = "running"
               /\ \A e \in ToSet(queues[q].dropped) : fate'[e] \notin {"new", "arriving"}
    <3>1. /\ \A e \in ToSet(queues[q].items) : e \in Deliveries /\ fate[e] \in {"queued", "failed", "running"}
          /\ \A e \in Handled(queues[q]) : e \in Deliveries /\ fate[e] = "running"
          /\ \A e \in ToSet(queues[q].dropped) : e \in Deliveries /\ fate[e] \notin {"new", "arriving"}
      <4>1. queues[q] \in Queue
        BY QueueFacts
      <4>. QED BY <1>1, <4>1, QueueFields DEF QueueInv, Sound, FateFits, Handled
    <3>. QED BY <1>2, <1>3, <3>1
  <2>. QED BY <1>1, <2>1 DEF QueueInv, Sound, FateFits
<1>5. WaitsInRegistered'
  BY <1>1, <1>2, <1>3 DEF QueueInv, WaitsInRegistered, Orderly
<1>6. QueueInv'
  BY <1>1, <1>2, <1>3, <1>4, <1>5
     DEF QueueInv, QueueTypes, FateTypes, GoneAreEmpty, Live, DrainsAreRegistered, Orderly,
         NoQueueLeftIdle, RunsTakeTheHead, OnlyRunsTell
<1>7. OtherTypes'
  BY <1>1, <1>2 DEF OtherTypes
<1>. QED BY <1>6, <1>7, NextParts

\* A remembered message id expires, or a run starts or ends.
LEMMA RunsKeep ==
  ASSUME IInv,
         \/ \E m \in recent : MessageIdExpires(m)
         \/ ReplyRunStarts \/ ReplyRunEnds \/ ForeignRunToggles
  PROVE  IInv'
<1>1. QueueInv /\ OtherTypes
  BY QueueFacts
<1>2. queues' = queues /\ current' = current /\ callback' = callback /\ fate' = fate
  BY DEF MessageIdExpires, ReplyRunStarts, ReplyRunEnds, ForeignRunToggles, RunsUnchanged
<1>3. CASE \E m \in recent : MessageIdExpires(m)
  <2>1. recent' \subseteq recent /\ reply' = reply /\ foreign' = foreign /\ past' = past
    BY <1>3 DEF MessageIdExpires
  <2>2. OtherTypes'
    BY <1>1, <2>1 DEF OtherTypes
  <2>3. NoQueueLeftIdle'
    BY <1>1, <1>2, <2>1 DEF QueueInv, NoQueueLeftIdle
  <2>. QED BY <1>2, <2>1, <2>2, <2>3, QueuesStay, NextParts
<1>4. CASE ReplyRunStarts
  <2>1. reply' = [reply EXCEPT !.active = TRUE] /\ foreign' = foreign /\ recent' = recent /\ past' = past
    BY <1>4 DEF ReplyRunStarts, RunsUnchanged
  <2>2. reply' \in Replies /\ reply'.active = TRUE
    BY <1>1, <2>1 DEF OtherTypes, Replies
  <2>3. OtherTypes' /\ NoQueueLeftIdle'
    BY <1>1, <2>1, <2>2 DEF OtherTypes, NoQueueLeftIdle
  <2>. QED BY <1>2, <2>1, <2>3, QueuesStay, NextParts
<1>5. CASE ReplyRunEnds
  <2>1. reply' = [active |-> FALSE, ended |-> 1] /\ foreign' = foreign /\ recent' = recent /\ past' = past
    BY <1>5 DEF ReplyRunEnds, RunsUnchanged
  <2>2. reply' \in Replies /\ reply'.ended > 0
    BY <2>1 DEF Replies
  <2>3. OtherTypes' /\ NoQueueLeftIdle'
    BY <1>1, <2>1, <2>2 DEF OtherTypes, NoQueueLeftIdle
  <2>. QED BY <1>2, <2>1, <2>3, QueuesStay, NextParts
<1>6. CASE ForeignRunToggles
  <2>1. foreign' = ~foreign /\ recent' = recent /\ reply' = reply
    BY <1>6 DEF ForeignRunToggles
  <2>2. PICK leftIdle : leftIdle = (past.leftIdle \/ (foreign /\ current # 0))
    OBVIOUS
  <2>3. leftIdle \in BOOLEAN /\ past' = [past EXCEPT !.leftIdle = leftIdle]
    BY <1>1, <1>6, <2>2, PastFacts DEF ForeignRunToggles, OtherTypes
  <2>4. /\ past' \in Pasts /\ past'.leftIdle = leftIdle
        /\ past'.orphaned = past.orphaned /\ past'.headTaken = past.headTaken
    BY <1>1, <2>3 DEF OtherTypes, Pasts
  <2>5. OtherTypes'
    BY <1>1, <2>1, <2>4 DEF OtherTypes
  <2>6. NoQueueLeftIdle'
    BY <1>1, <1>2, <2>1, <2>2, <2>4 DEF QueueInv, NoQueueLeftIdle
  <2>. QED BY <1>2, <2>4, <2>5, <2>6, QueuesStay, NextParts
<1>. QED BY <1>3, <1>4, <1>5, <1>6

\* finalizeWithFollowup schedules a drain.
LEMMA FinalizeKeeps ==
  ASSUME IInv, FinalizeWithFollowup
  PROVE  IInv'
<1>1. QueueInv /\ OtherTypes
  BY QueueFacts
<1>2. /\ reply' = [reply EXCEPT !.ended = 0] /\ foreign' = foreign /\ recent' = recent
      /\ fate' = fate /\ past' = past
  BY DEF FinalizeWithFollowup, RunsUnchanged
<1>3. PICK t : t = Schedule(QueueState)
  OBVIOUS
<1>4. /\ t \in States /\ Becomes(t)
      /\ current = 0 => t = QueueState
      /\ current # 0 => Moved(QueueState, t, current)
  BY <1>3, QueueFacts, ScheduleMoves DEF FinalizeWithFollowup
<1>5. OtherTypes'
  BY <1>1, <1>2 DEF OtherTypes, Replies
<1>6. CASE current # 0
  BY <1>2, <1>4, <1>5, <1>6, QueueFacts, MovesKeep, NextParts
<1>7. CASE current = 0
  <2>1. /\ t.current = 0 /\ t.queues = queues /\ t.callback = callback
    BY <1>4, <1>7, QueueFacts
  <2>2. /\ current' = 0 /\ callback' = callback
        /\ \A p \in Slots : queues'[p] = queues[p]
        /\ queues' \in [Slots -> Queue]
    <3>1. \A p \in Slots : Idle(queues[p]) => queues[p] = NoQueue
      BY <1>1, <1>7, QueueFacts DEF QueueInv, GoneAreEmpty, Live
    <3>. QED BY <1>4, <2>1, <3>1, BecomesFacts
  <2>3. queues' = queues
    BY <2>2, QueueFacts
  <2>4. NoQueueLeftIdle'
    BY <2>2 DEF NoQueueLeftIdle
  <2>. QED BY <1>2, <1>5, <1>7, <2>2, <2>3, <2>4, QueuesStay, NextParts
<1>. QED BY <1>6, <1>7

\* The steps of a drain between two runs.
LEMMA BetweenRunsKeep ==
  ASSUME IInv, NEW q \in Slots,
         CheckRoutes(q) \/ FindNothing(q) \/ LeaveLoop(q) \/
           (RunBatch(q) /\ queues[q].items = <<>> /\ ~queues[q].lastRun)
  PROVE  IInv'
<1>1. PICK t : t \in {At(QueueState, q, "checked"), At(QueueState, q, "breaking"), Finish(QueueState, q)}
                 /\ Moves(t) /\ ~Idle(queues[q])
  BY DEF CheckRoutes, FindNothing, LeaveLoop, RunBatch, Idle
<1>2. /\ Becomes(t) /\ fate' = fate /\ past' = past
      /\ recent' = recent /\ reply' = reply /\ foreign' = foreign
  BY <1>1 DEF Moves, DrainUnchanged
<1>3. Moved(QueueState, t, q)
  <2>1. QueueState \in States
    BY QueueFacts
  <2>2. {"checked", "breaking"} \subseteq Places \ {"idle", "running"}
    BY DEF Places
  <2>3. CASE t = Finish(QueueState, q)
    BY <2>1, <2>3, FinishMoves
  <2>4. CASE t = At(QueueState, q, "checked")
    BY <2>1, <2>2, <2>4, AtMoves
  <2>5. CASE t = At(QueueState, q, "breaking")
    BY <2>1, <2>2, <2>5, AtMoves
  <2>. QED BY <1>1, <2>3, <2>4, <2>5
<1>4. t \in States
  BY <1>3 DEF Moved
<1>5. QueueInv'
  BY <1>1, <1>2, <1>3, <1>4, MovesKeep
<1>6. OtherTypes'
  BY <1>2, QueueFacts DEF OtherTypes
<1>. QED BY <1>5, <1>6, NextParts

--------------------------------------------------------------------------------
(* Follow-up runs.                                                          *)

\* A queue state with another object in a slot.
With(s, q, queue) == [s EXCEPT !.queues = [s.queues EXCEPT ![q] = queue]]

\* That object is there, and the others are as they were.
LEMMA WithFacts ==
  ASSUME NEW s \in States, NEW q \in Slots, NEW queue \in Queue
  PROVE  /\ With(s, q, queue) \in States /\ With(s, q, queue).current = s.current
         /\ With(s, q, queue).queues[q] = queue
         /\ \A p \in Slots : p # q => With(s, q, queue).queues[p] = s.queues[p]
<1>1. PICK Q : Q = [s.queues EXCEPT ![q] = queue]
  OBVIOUS
<1>2. Q \in [Slots -> Queue] /\ Q[q] = queue /\ \A p \in Slots : p # q => Q[p] = s.queues[p]
  BY <1>1 DEF States
<1>3. PICK t : t = With(s, q, queue)
  OBVIOUS
<1>4. t = [s EXCEPT !.queues = Q]
  BY <1>1, <1>3 DEF With
<1>5. t \in States /\ t.queues = Q /\ t.current = s.current
  BY <1>2, <1>4 DEF States
<1>. QED BY <1>2, <1>3, <1>5

\* The length of what is left of a sequence without its first n elements.
RestLength(length, n) == IF n <= length THEN length - n ELSE 0

\* What is left of a sequence without its first n elements.
LEMMA SuffixFacts ==
  ASSUME NEW s \in Seq(Deliveries), NEW n \in Nat, NEW rest \in Seq(Deliveries),
         Len(rest) = RestLength(Len(s), n),
         \A i \in 1..Len(rest) : rest[i] = s[i + n]
  PROVE  /\ \A i \in 1..Len(rest) : i + n \in 1..Len(s)
         /\ \A i \in 1..Len(s) : i > n => i - n \in 1..Len(rest) /\ rest[i - n] = s[i]
         /\ ToSet(rest) \subseteq ToSet(s)
         /\ Distinct(s) => Distinct(rest)
<1>1. Len(s) \in Nat /\ Len(rest) \in Nat
  OBVIOUS
<1>2. \A i \in 1..Len(rest) : i + n \in 1..Len(s)
  BY <1>1 DEF RestLength
<1>3. \A i \in 1..Len(s) : i > n => i - n \in 1..Len(rest) /\ rest[i - n] = s[i]
  BY <1>1, <1>2 DEF RestLength
<1>4. ToSet(rest) \subseteq ToSet(s)
  <2>1. \A e : e \in ToSet(rest) => \E i \in 1..Len(rest) : rest[i] = e
    BY DEF ToSet
  <2>2. \A i \in 1..Len(s) : s[i] \in ToSet(s)
    BY DEF ToSet
  <2>. QED BY <1>2, <2>1, <2>2
<1>5. ASSUME Distinct(s)  PROVE Distinct(rest)
  <2>1. SUFFICES ASSUME NEW i \in 1..Len(rest), NEW j \in 1..Len(rest), rest[i] = rest[j]
                 PROVE  i = j
    BY DEF Distinct
  <2>2. i + n = j + n
    BY <1>2, <1>5, <2>1 DEF Distinct
  <2>. QED BY <1>1, <2>2
<1>. QED BY <1>2, <1>3, <1>4, <1>5

\* SubSeq leaves that.
LEMMA SubSeqFacts ==
  ASSUME NEW s \in Seq(Deliveries), NEW n \in Nat
  PROVE  /\ SubSeq(s, n + 1, Len(s)) \in Seq(Deliveries)
         /\ Len(SubSeq(s, n + 1, Len(s))) = RestLength(Len(s), n)
         /\ \A i \in 1..Len(SubSeq(s, n + 1, Len(s))) : SubSeq(s, n + 1, Len(s))[i] = s[i + n]
<1>1. Len(s) \in Nat
  OBVIOUS
<1>. QED BY <1>1 DEF RestLength

\* What the lemmas below use of the invariant.
LEMMA PlaceFacts ==
  ASSUME IInv
  PROVE  /\ \A q \in Slots :
              /\ Distinct(queues[q].items)
              /\ ToSet(queues[q].items) \subseteq Deliveries /\ ToSet(queues[q].dropped) \subseteq Deliveries
              /\ Handled(queues[q]) \subseteq Deliveries
              /\ \A d \in ToSet(queues[q].items) : fate[d] \in {"queued", "failed", "running"}
              /\ \A d \in Handled(queues[q]) : fate[d] = "running"
              /\ \A d \in ToSet(queues[q].dropped) : fate[d] \notin {"new", "arriving"}
              /\ \A i \in 1..Len(queues[q].items) :
                   queues[q].items[i] \in Handled(queues[q]) => i <= Len(queues[q].drain.batch)
         /\ \A p, q \in Slots : ToSet(queues[p].items) \cap ToSet(queues[q].dropped) = {}
         /\ \A p, q \in Slots : p # q =>
              /\ ToSet(queues[p].items) \cap ToSet(queues[q].items) = {}
              /\ Handled(queues[p]) \cap ToSet(queues[q].items) = {}
              /\ Handled(queues[p]) \cap Handled(queues[q]) = {}
<1>1. Sound(queues, fate)
  BY QueueFacts DEF QueueInv
<1>2. \A q \in Slots : queues[q] \in Queue
  BY QueueFacts
<1>3. \A q \in Slots : /\ ToSet(queues[q].items) \subseteq Deliveries /\ ToSet(queues[q].dropped) \subseteq Deliveries
                       /\ Handled(queues[q]) \subseteq Deliveries
  BY <1>2, QueueFields DEF Handled
<1>. QED BY <1>1, <1>3 DEF Sound, OnePlace, OneRun, FateFits

\* A follow-up run starts with the head of its queue.
LEMMA LaunchKeeps ==
  ASSUME IInv, NEW q \in Slots, NEW drain \in Drain, NEW handled,
         ~Idle(queues[q]), Launch(q, drain, handled),
         handled = IF drain.run # "summary" THEN ToSet(drain.batch) ELSE {},
         Len(drain.batch) <= Len(queues[q].items),
         \A i \in 1..Len(drain.batch) : queues[q].items[i] = drain.batch[i],
         drain.told \in {{}, ToSet(queues[q].dropped)}
  PROVE  IInv'
<1>1. /\ QueueInv /\ OtherTypes /\ fate \in [Deliveries -> Fates]
      /\ QueueState \in States /\ queues[q] \in Queue
      /\ QueueState.queues = queues /\ QueueState.current = current
      /\ current \in Slots \cup {0} /\ 0 \notin Slots
  BY QueueFacts DEF QueueInv, FateTypes
<1>2. PICK started : started = [drain EXCEPT !.at = "running"]
  OBVIOUS
<1>3. /\ started \in Drain /\ started.at = "running" /\ started.run = drain.run
      /\ started.batch = drain.batch /\ started.told = drain.told
  BY <1>2 DEF Drain, Places
<1>4. PICK queue : queue = [queues[q] EXCEPT !.drain = started]
  OBVIOUS
<1>5. /\ queue \in Queue /\ queue.items = queues[q].items /\ queue.dropped = queues[q].dropped
      /\ queue.drain = started
  BY <1>1, <1>3, <1>4 DEF Queue
<1>6. PICK t : t = With(QueueState, q, queue)
  OBVIOUS
<1>7. Becomes(t)
  <2>1. t = [QueueState EXCEPT !.queues[q].drain = [drain EXCEPT !.at = "running"]]
    BY <1>1, <1>2, <1>4, <1>6 DEF With, States
  <2>. QED BY <2>1 DEF Launch
<1>8. /\ t \in States /\ t.current = current /\ t.queues[q] = queue
      /\ \A p \in Slots : p # q => t.queues[p] = queues[p]
  <2>1. QueueState \in States /\ queue \in Queue
    BY <1>1, <1>5
  <2>2. /\ t \in States /\ t.current = QueueState.current /\ t.queues[q] = queue
        /\ \A p \in Slots : p # q => t.queues[p] = QueueState.queues[p]
    BY <1>6, <2>1, WithFacts
  <2>. QED BY <1>1, <2>2
<1>9. /\ fate' = [d \in Deliveries |-> IF d \in handled THEN "running" ELSE fate[d]]
      /\ past' = past /\ recent' = recent /\ reply' = reply /\ foreign' = foreign
  BY DEF Launch, DrainUnchanged
<1>10. /\ fate' \in [Deliveries -> Fates]
       /\ \A d \in Deliveries : fate'[d] = IF d \in handled THEN "running" ELSE fate[d]
  BY <1>1, <1>9 DEF Fates
<1>11. /\ Handled(queue) = handled
       /\ \A d \in handled : \E i \in 1..Len(drain.batch) : queue.items[i] = d
       /\ handled \subseteq ToSet(queue.items)
       /\ Len(drain.batch) \in Nat
       /\ Running(queue) /\ ~Idle(queue)
  <2>1. drain.batch \in Seq(Deliveries)
    BY DEF Drain
  <2>2. \A d \in ToSet(drain.batch) : \E i \in 1..Len(drain.batch) : drain.batch[i] = d
    BY <2>1 DEF ToSet
  <2>3. \A d \in handled : \E i \in 1..Len(drain.batch) : queue.items[i] = d
    BY <1>5, <2>2
  <2>4. handled \subseteq ToSet(queue.items)
    <3>1. Len(drain.batch) <= Len(queue.items) /\ Len(queue.items) \in Nat /\ Len(drain.batch) \in Nat
      BY <1>1, <1>5, <2>1, QueueFields
    <3>2. \A i \in 1..Len(drain.batch) : i \in 1..Len(queue.items)
      BY <3>1
    <3>3. \A i \in 1..Len(queue.items) : queue.items[i] \in ToSet(queue.items)
      BY <1>5, QueueFields
    <3>. QED BY <2>3, <3>2, <3>3
  <2>5. Handled(queue) = handled /\ Running(queue) /\ ~Idle(queue)
    BY <1>3, <1>5 DEF Handled, Running, Idle
  <2>. QED BY <2>1, <2>3, <2>4, <2>5
<1>12. Sound(t.queues, fate')
  <2>1. OnePlace(t.queues)
    <3>1. \A p \in Slots : t.queues[p].items = queues[p].items /\ t.queues[p].dropped = queues[p].dropped
      BY <1>5, <1>8
    <3>. QED BY <3>1, PlaceFacts DEF OnePlace
  <2>2. OneRun(t.queues)
    <3>1. ASSUME NEW p \in Slots, NEW r \in Slots, p # r
          PROVE  Handled(t.queues[p]) \cap (ToSet(t.queues[r].items) \cup Handled(t.queues[r])) = {}
      <4>1. CASE p = q
        <5>1. Handled(t.queues[p]) \subseteq ToSet(queues[q].items) /\ t.queues[r] = queues[r]
          BY <1>5, <1>8, <1>11, <3>1, <4>1
        <5>. QED BY <3>1, <4>1, <5>1, PlaceFacts
      <4>2. CASE r = q
        <5>1. /\ Handled(queues[p]) \cap ToSet(queues[q].items) = {} /\ t.queues[p] = queues[p]
          BY <1>8, <3>1, <4>2, PlaceFacts
        <5>2. ToSet(t.queues[r].items) \cup Handled(t.queues[r]) \subseteq ToSet(queues[q].items)
          BY <1>5, <1>8, <1>11, <4>2
        <5>. QED BY <5>1, <5>2
      <4>3. CASE p # q /\ r # q
        BY <1>8, <3>1, <4>3, PlaceFacts
      <4>. QED BY <4>1, <4>2, <4>3
    <3>2. ASSUME NEW p \in Slots, NEW i \in 1..Len(t.queues[p].items),
                 t.queues[p].items[i] \in Handled(t.queues[p])
          PROVE  i <= Len(t.queues[p].drain.batch)
      <4>1. CASE p = q
        <5>1. PICK j \in 1..Len(drain.batch) : queue.items[j] = queue.items[i]
          BY <1>8, <1>11, <3>2, <4>1
        <5>2. Len(queue.items) \in Nat
          BY <1>5, QueueFields
        <5>3. j \in 1..Len(queue.items)
          BY <1>5, <1>11, <5>1, <5>2
        <5>4. i = j
          BY <1>5, <1>8, <3>2, <4>1, <5>1, <5>3, PlaceFacts DEF Distinct
        <5>. QED BY <1>3, <1>5, <1>8, <4>1, <5>1, <5>4
      <4>2. CASE p # q
        BY <1>8, <3>2, <4>2, PlaceFacts
      <4>. QED BY <4>1, <4>2
    <3>. QED BY <3>1, <3>2 DEF OneRun
  <2>3. FateFits(t.queues, fate')
    <3>1. ASSUME NEW p \in Slots
          PROVE  /\ \A d \in ToSet(t.queues[p].items) : fate'[d] \in {"queued", "failed", "running"}
                 /\ \A d \in Handled(t.queues[p]) : fate'[d] = "running"
                 /\ \A d \in ToSet(t.queues[p].dropped) : fate'[d] \notin {"new", "arriving"}
      <4>1. CASE p = q
        BY <1>5, <1>8, <1>10, <1>11, <4>1, PlaceFacts
      <4>2. CASE p # q
        BY <1>8, <1>10, <4>2, PlaceFacts
      <4>. QED BY <4>1, <4>2
    <3>. QED BY <3>1 DEF FateFits
  <2>. QED BY <2>1, <2>2, <2>3 DEF Sound
<1>13. /\ queues' \in [Slots -> Queue] /\ current' = current /\ callback' \in BOOLEAN
       /\ \A p \in Slots : queues'[p] = t.queues[p] \/ (queues'[p] = NoQueue /\ p # current /\ Idle(t.queues[p]))
       /\ GoneAreEmpty'
       /\ queues'[q] = queue
       /\ current \in Slots => queues'[current] = t.queues[current]
  BY <1>7, <1>8, <1>11, BecomesFacts
<1>14. Sound(queues', fate')
  <2>1. PICK Q, R, f : Q = t.queues /\ R = queues' /\ f = fate'
    OBVIOUS
  <2>2. Sound(R, f)
    BY <1>12, <1>13, <2>1, FewerAreSound
  <2>. QED BY <2>1, <2>2
<1>15. \A p \in Slots : /\ ~Idle(queues'[p]) => ~Idle(queues[p])
                        /\ p # q /\ Running(queues'[p]) => queues'[p] = queues[p]
  BY <1>8, <1>13, NoQueueFacts DEF Idle, Running
<1>16. DrainsAreRegistered'
  BY <1>1, <1>9, <1>13, <1>15 DEF QueueInv, DrainsAreRegistered
<1>17. NoQueueLeftIdle'
  <2>1. current # 0 => \/ queues'[current] = queues[current]
                       \/ ~Idle(queues'[current])
    BY <1>1, <1>8, <1>11, <1>13
  <2>. QED BY <1>1, <1>9, <1>13, <2>1 DEF QueueInv, NoQueueLeftIdle
<1>18. WaitsInRegistered'
  <2>1. current # 0 => /\ queues'[current].items = queues[current].items
                       /\ queues'[current].dropped = queues[current].dropped
    BY <1>1, <1>5, <1>8, <1>13
  <2>. QED BY <1>1, <1>9, <1>10, <1>13, <2>1 DEF QueueInv, WaitsInRegistered, Orderly
<1>19. RunsTakeTheHead'
  <2>1. SUFFICES ASSUME Orderly, NEW p \in Slots, Running(queues'[p])
                 PROVE  /\ Len(queues'[p].drain.batch) <= Len(queues'[p].items)
                        /\ \A i \in 1..Len(queues'[p].drain.batch) :
                             queues'[p].items[i] = queues'[p].drain.batch[i]
                        /\ queues'[p].drain.told \in {{}, ToSet(queues'[p].dropped)}
    BY <1>9 DEF RunsTakeTheHead, Orderly
  <2>2. CASE p = q
    BY <1>3, <1>5, <1>13, <2>2
  <2>3. CASE p # q
    BY <1>1, <1>15, <2>1, <2>3 DEF QueueInv, RunsTakeTheHead
  <2>. QED BY <2>2, <2>3
<1>20. OnlyRunsTell'
  <2>1. SUFFICES ASSUME NEW p \in Slots, ~Running(queues'[p])
                 PROVE  queues'[p].drain.told = {}
    BY DEF OnlyRunsTell
  <2>2. CASE queues'[p] = NoQueue
    BY <2>2, NoQueueFacts
  <2>3. CASE queues'[p] = t.queues[p] /\ p # q
    BY <1>1, <1>8, <2>1, <2>3 DEF QueueInv, OnlyRunsTell
  <2>. QED BY <1>11, <1>13, <2>1, <2>2, <2>3
<1>21. OtherTypes'
  BY <1>1, <1>9 DEF OtherTypes
<1>22. QueueInv'
  BY <1>1, <1>10, <1>13, <1>14, <1>16, <1>17, <1>18, <1>19, <1>20 DEF QueueInv, QueueTypes, FateTypes
<1>. QED BY <1>21, <1>22, NextParts

\* The three kinds of follow-up run.
LEMMA StartsKeep ==
  ASSUME IInv, NEW q \in Slots,
         RunNextItem(q) \/ RunSummary(q) \/ (RunBatch(q) /\ ~(queues[q].items = <<>> /\ ~queues[q].lastRun))
  PROVE  IInv'
<1>1. /\ queues[q] \in Queue
      /\ queues[q].items \in Seq(Deliveries) /\ Len(queues[q].items) \in Nat
      /\ ToSet(queues[q].dropped) \subseteq Deliveries /\ queues[q].drain \in Drain
      /\ Summary(queues[q]) \in {{}, ToSet(queues[q].dropped)}
  BY QueueFacts, QueueFields DEF Summary
<1>2. ~Idle(queues[q]) /\ ~Running(queues[q])
  BY DEF RunNextItem, RunSummary, RunBatch, Idle, Running
<1>3. queues[q].drain.told = {}
  BY <1>2, QueueFacts DEF QueueInv, OnlyRunsTell
<1>4. {"item", "batch", "summary"} \subseteq Runs
  BY DEF Runs
<1>5. ASSUME queues[q].items # <<>>, NEW batch, batch = <<Head(queues[q].items)>>
      PROVE  /\ batch \in Seq(Deliveries) /\ Len(batch) = 1 /\ Len(batch) <= Len(queues[q].items)
             /\ ToSet(batch) = {Head(queues[q].items)}
             /\ \A i \in 1..Len(batch) : queues[q].items[i] = batch[i]
  BY <1>1, <1>5 DEF ToSet
<1>6. CASE RunNextItem(q)
  <2>1. PICK individual, batch, handled :
          /\ individual = (queues[q].drain.individual \/ queues[q].mode = "collect")
          /\ batch = <<Head(queues[q].items)>>
          /\ handled = {Head(queues[q].items)}
    OBVIOUS
  <2>2. PICK drain : drain = [queues[q].drain EXCEPT !.run = "item", !.batch = batch, !.individual = individual]
    OBVIOUS
  <2>3. Launch(q, drain, handled) /\ queues[q].items # <<>>
    <3>1. queues[q].items # <<>> /\ Launch(q, [queues[q].drain EXCEPT !.run = "item", !.batch = <<Head(queues[q].items)>>,
              !.individual = queues[q].drain.individual \/ queues[q].mode = "collect"], {Head(queues[q].items)})
      BY <1>6 DEF RunNextItem
    <3>. QED BY <2>1, <2>2, <3>1
  <2>4. /\ batch \in Seq(Deliveries) /\ Len(batch) <= Len(queues[q].items) /\ ToSet(batch) = handled
        /\ \A i \in 1..Len(batch) : queues[q].items[i] = batch[i]
    BY <1>5, <2>1, <2>3
  <2>5. individual \in BOOLEAN
    BY <1>1, <2>1 DEF Drain
  <2>6. /\ drain \in Drain /\ drain.batch = batch /\ drain.run = "item"
        /\ drain.told = queues[q].drain.told
    BY <1>1, <1>4, <2>2, <2>4, <2>5 DEF Drain
  <2>. QED BY <1>2, <1>3, <2>3, <2>4, <2>6, LaunchKeeps
<1>7. CASE RunSummary(q)
  <2>1. PICK told, batch, handled :
          /\ told = Summary(queues[q])
          /\ batch = <<Head(queues[q].items)>>
          /\ handled = {}
    OBVIOUS
  <2>2. PICK drain : drain = [queues[q].drain EXCEPT !.run = "summary", !.batch = batch, !.told = told]
    OBVIOUS
  <2>3. Launch(q, drain, handled) /\ queues[q].items # <<>>
    BY <1>7, <2>1, <2>2 DEF RunSummary
  <2>4. /\ batch \in Seq(Deliveries) /\ Len(batch) <= Len(queues[q].items)
        /\ \A i \in 1..Len(batch) : queues[q].items[i] = batch[i]
    BY <1>5, <2>1, <2>3
  <2>5. told \in SUBSET Deliveries /\ told \in {{}, ToSet(queues[q].dropped)}
    BY <1>1, <2>1
  <2>6. /\ drain \in Drain /\ drain.batch = batch /\ drain.run = "summary" /\ drain.told = told
    BY <1>1, <1>4, <2>2, <2>4, <2>5 DEF Drain
  <2>. QED BY <1>2, <2>1, <2>3, <2>4, <2>5, <2>6, LaunchKeeps
<1>8. CASE RunBatch(q) /\ ~(queues[q].items = <<>> /\ ~queues[q].lastRun)
  <2>1. PICK told, batch, handled :
          /\ told = Summary(queues[q])
          /\ batch = queues[q].items
          /\ handled = ToSet(queues[q].items)
    OBVIOUS
  <2>2. PICK drain : drain = [queues[q].drain EXCEPT !.run = "batch", !.batch = batch, !.told = told]
    OBVIOUS
  <2>3. Launch(q, drain, handled)
    BY <1>8, <2>1, <2>2 DEF RunBatch
  <2>4. told \in SUBSET Deliveries /\ told \in {{}, ToSet(queues[q].dropped)}
    BY <1>1, <2>1
  <2>5. /\ drain \in Drain /\ drain.batch = batch /\ drain.run = "batch" /\ drain.told = told
    BY <1>1, <1>4, <2>1, <2>2, <2>4 DEF Drain
  <2>. QED BY <1>1, <1>2, <2>1, <2>3, <2>4, <2>5, LaunchKeeps
<1>. QED BY <1>6, <1>7, <1>8

--------------------------------------------------------------------------------
(* The ends of follow-up runs.                                              *)

\* A run of q has ended, with its messages answered or failed, and the drain has moved on.  s is
\* the state after the items and the summary that the run took have left the queue.
LEMMA EndsKeep ==
  ASSUME IInv, NEW q \in Slots, Running(queues[q]),
         NEW s \in States, s.current = current,
         \A p \in Slots : p # q => s.queues[p] = queues[p],
         ToSet(s.queues[q].items) \subseteq ToSet(queues[q].items),
         Distinct(s.queues[q].items),
         ToSet(s.queues[q].dropped) \subseteq ToSet(queues[q].dropped),
         NEW t \in States, Moved(s, t, q), Stopped(t.queues[q]), Becomes(t),
         fate' \in [Deliveries -> Fates],
         \A d \in Deliveries : d \notin Handled(queues[q]) =>
           fate'[d] = fate[d] \/ (fate[d] \in {"summarized", "dropped"} /\ fate'[d] = "told"),
         \A d \in Handled(queues[q]) :
           fate'[d] = "failed" \/ (fate'[d] = "ran" /\ d \notin ToSet(s.queues[q].items)),
         ~past'.headTaken /\ ~past'.orphaned /\ current = q =>
           \A d \in Deliveries :
             /\ fate'[d] \in {"queued", "failed"} => d \in ToSet(s.queues[q].items)
             /\ fate'[d] = "summarized" => d \in ToSet(s.queues[q].dropped),
         past' \in Pasts, past'.orphaned = past.orphaned, past'.leftIdle = past.leftIdle,
         reply' = reply, foreign' = foreign, recent' = recent
  PROVE  IInv'
<1>1. /\ QueueInv /\ OtherTypes
      /\ current \in Slots \cup {0} /\ 0 \notin Slots
  BY QueueFacts
<1>2. /\ queues' \in [Slots -> Queue] /\ current' = t.current
      /\ current' \in Slots \cup {0} /\ callback' \in BOOLEAN
      /\ \A p \in Slots : queues'[p] = t.queues[p] \/ (queues'[p] = NoQueue /\ p # t.current /\ Idle(t.queues[p]))
      /\ GoneAreEmpty'
      /\ t.current \in Slots => queues'[t.current] = t.queues[t.current]
  BY BecomesFacts
<1>3. /\ \A p \in Slots :
           /\ t.queues[p].items = s.queues[p].items /\ t.queues[p].dropped = s.queues[p].dropped
           /\ t.queues[p].drain = s.queues[p].drain \/ Stopped(t.queues[p])
      /\ current = q =>
           /\ \A p \in Slots : p # q => t.queues[p] = queues[p]
           /\ \/ t.current = 0 /\ Drained(s.queues[q]) /\ Idle(t.queues[q])
              \/ t.current = q /\ ~Idle(t.queues[q])
  BY DEF Moved
<1>4. PICK Q : Q = [p \in Slots |-> IF p = q THEN t.queues[q] ELSE queues[p]]
  OBVIOUS
<1>5. /\ \A p \in Slots : p # q => Q[p] = queues[p]
      /\ Q[q].items = s.queues[q].items /\ Q[q].dropped = s.queues[q].dropped
      /\ ~Running(Q[q]) /\ Handled(Q[q]) = {}
  BY <1>3, <1>4 DEF Stopped, Handled
<1>6. Sound(Q, fate')
  <2>1. /\ \A p \in Slots : /\ ToSet(Q[p].items) \subseteq ToSet(queues[p].items)
                            /\ ToSet(Q[p].dropped) \subseteq ToSet(queues[p].dropped)
                            /\ Distinct(Q[p].items)
                            /\ Handled(Q[p]) \subseteq Handled(queues[p])
    BY <1>5, PlaceFacts
  <2>2. OnePlace(Q)
    <3>1. ASSUME NEW p \in Slots, NEW r \in Slots
          PROVE  /\ p # r => ToSet(Q[p].items) \cap ToSet(Q[r].items) = {}
                 /\ ToSet(Q[p].items) \cap ToSet(Q[r].dropped) = {}
      <4>1. /\ p # r => ToSet(queues[p].items) \cap ToSet(queues[r].items) = {}
            /\ ToSet(queues[p].items) \cap ToSet(queues[r].dropped) = {}
        BY PlaceFacts
      <4>2. /\ ToSet(Q[p].items) \subseteq ToSet(queues[p].items)
            /\ ToSet(Q[r].items) \subseteq ToSet(queues[r].items)
            /\ ToSet(Q[r].dropped) \subseteq ToSet(queues[r].dropped)
        BY <2>1
      <4>. QED BY <4>1, <4>2
    <3>. QED BY <2>1, <3>1 DEF OnePlace
  <2>3. OneRun(Q)
    <3>1. ASSUME NEW p \in Slots, NEW r \in Slots, p # r
          PROVE  Handled(Q[p]) \cap (ToSet(Q[r].items) \cup Handled(Q[r])) = {}
      <4>1. Handled(queues[p]) \cap ToSet(queues[r].items) = {} /\ Handled(queues[p]) \cap Handled(queues[r]) = {}
        BY <3>1, PlaceFacts
      <4>2. /\ Handled(Q[p]) \subseteq Handled(queues[p]) /\ Handled(Q[r]) \subseteq Handled(queues[r])
            /\ ToSet(Q[r].items) \subseteq ToSet(queues[r].items)
        BY <2>1
      <4>. QED BY <4>1, <4>2
    <3>2. ASSUME NEW p \in Slots, NEW i \in 1..Len(Q[p].items), Q[p].items[i] \in Handled(Q[p])
          PROVE  i <= Len(Q[p].drain.batch)
      <4>1. p # q
        BY <1>5, <3>2
      <4>. QED BY <1>5, <3>2, <4>1, PlaceFacts
    <3>. QED BY <3>1, <3>2 DEF OneRun
  <2>4. FateFits(Q, fate')
    <3>1. ASSUME NEW p \in Slots, NEW d \in ToSet(Q[p].items)
          PROVE  fate'[d] \in {"queued", "failed", "running"}
      <4>1. /\ d \in Deliveries /\ fate[d] \in {"queued", "failed", "running"}
            /\ p # q => d \notin Handled(queues[q])
        BY <2>1, <3>1, PlaceFacts
      <4>. QED BY <1>5, <3>1, <4>1
    <3>2. ASSUME NEW p \in Slots, NEW d \in Handled(Q[p])
          PROVE  fate'[d] = "running"
      <4>1. p # q
        BY <1>5, <3>2
      <4>2. d \in Deliveries /\ fate[d] = "running" /\ d \notin Handled(queues[q])
        BY <2>1, <3>2, <4>1, PlaceFacts
      <4>. QED BY <4>2
    <3>3. ASSUME NEW p \in Slots, NEW d \in ToSet(Q[p].dropped)
          PROVE  fate'[d] \notin {"new", "arriving"}
      <4>1. d \in Deliveries /\ fate[d] \notin {"new", "arriving"}
        BY <2>1, <3>3, PlaceFacts
      <4>. QED BY <4>1
    <3>. QED BY <3>1, <3>2, <3>3 DEF FateFits
  <2>. QED BY <2>2, <2>3, <2>4 DEF Sound
<1>7. Sound(queues', fate')
  <2>1. \A p \in Slots :
          \/ queues'[p] = NoQueue
          \/ /\ queues'[p].items = Q[p].items /\ queues'[p].dropped = Q[p].dropped
             /\ queues'[p].drain = Q[p].drain \/ ~Running(queues'[p])
    BY <1>2, <1>3, <1>5 DEF Stopped
  <2>2. PICK R, f : R = queues' /\ f = fate'
    OBVIOUS
  <2>3. Sound(R, f)
    BY <1>6, <2>1, <2>2, FewerAreSound
  <2>. QED BY <2>2, <2>3
<1>8. ~past.orphaned => current = q /\ \A p \in Slots : p # q => Idle(queues[p])
  BY <1>1 DEF QueueInv, DrainsAreRegistered, Running, Idle
<1>9. ~past.orphaned => \A p \in Slots : p # q => Idle(queues'[p])
  BY <1>2, <1>3, <1>8, NoQueueFacts DEF Idle
<1>10. DrainsAreRegistered'
  <2>1. SUFFICES ASSUME ~past.orphaned, NEW p \in Slots, ~Idle(queues'[p])
                 PROVE  p = current'
    BY DEF DrainsAreRegistered
  <2>2. p = q /\ queues'[q] = t.queues[q]
    BY <1>2, <1>9, <2>1, NoQueueFacts DEF Idle
  <2>. QED BY <1>2, <1>3, <1>8, <2>1, <2>2
<1>11. NoQueueLeftIdle'
  <2>1. SUFFICES ASSUME ~past.orphaned, current' # 0
                 PROVE  ~Idle(queues'[current'])
    BY DEF NoQueueLeftIdle
  <2>. QED BY <1>2, <1>3, <1>8, <2>1
<1>12. WaitsInRegistered'
  <2>1. SUFFICES ASSUME ~past'.headTaken, ~past'.orphaned, NEW d \in Deliveries
                 PROVE  /\ fate'[d] \in {"queued", "failed"} => current' # 0 /\ d \in ToSet(queues'[current'].items)
                        /\ fate'[d] = "summarized" => current' # 0 /\ d \in ToSet(queues'[current'].dropped)
    BY DEF WaitsInRegistered, Orderly
  <2>2. /\ current = q
        /\ fate'[d] \in {"queued", "failed"} => d \in ToSet(s.queues[q].items)
        /\ fate'[d] = "summarized" => d \in ToSet(s.queues[q].dropped)
    BY <1>8, <2>1
  <2>3. CASE t.current = 0 /\ Drained(s.queues[q])
    BY <2>2, <2>3 DEF Drained, ToSet
  <2>4. CASE t.current = q
    BY <1>1, <1>2, <1>3, <2>2, <2>4
  <2>. QED BY <1>3, <2>2, <2>3, <2>4
<1>13. RunsTakeTheHead'
  <2>1. ASSUME ~past'.orphaned, NEW p \in Slots
        PROVE  ~Running(queues'[p])
    <3>1. CASE p # q
      BY <1>9, <2>1, <3>1 DEF Idle, Running
    <3>2. CASE p = q
      BY <1>2, <3>2, NoQueueFacts DEF Stopped, Running
    <3>. QED BY <3>1, <3>2
  <2>. QED BY <2>1 DEF RunsTakeTheHead, Orderly
<1>14. OnlyRunsTell'
  <2>1. SUFFICES ASSUME NEW p \in Slots, ~Running(queues'[p])
                 PROVE  queues'[p].drain.told = {}
    BY DEF OnlyRunsTell
  <2>2. CASE queues'[p] = NoQueue
    BY <2>2, NoQueueFacts
  <2>3. CASE queues'[p] = t.queues[p] /\ Stopped(t.queues[p])
    BY <2>3 DEF Stopped
  <2>4. CASE queues'[p] = t.queues[p] /\ p # q /\ t.queues[p].drain = queues[p].drain
    BY <1>1, <2>1, <2>4 DEF QueueInv, OnlyRunsTell, Running
  <2>. QED BY <1>2, <1>3, <2>2, <2>3, <2>4
<1>15. OtherTypes'
  BY <1>1 DEF OtherTypes
<1>16. QueueInv'
  BY <1>2, <1>7, <1>10, <1>11, <1>12, <1>13, <1>14 DEF QueueInv, QueueTypes, FateTypes
<1>. QED BY <1>15, <1>16, NextParts

\* The run has succeeded: what it took has left the queue.
LEMMA RunSucceedsKeeps ==
  ASSUME IInv, NEW q \in Slots, RunSucceeds(q)
  PROVE  IInv'
<1>1. /\ QueueInv /\ OtherTypes /\ fate \in [Deliveries -> Fates]
      /\ QueueState \in States /\ QueueState.queues = queues /\ QueueState.current = current
      /\ queues[q] \in Queue
      /\ current \in Slots \cup {0} /\ 0 \notin Slots
  BY QueueFacts DEF QueueInv, FateTypes
<1>2. Running(queues[q]) /\ ~Idle(queues[q])
  BY DEF RunSucceeds, Running, Idle
<1>3. PICK n, rest, told, dropped :
        /\ n = Len(queues[q].drain.batch)
        /\ rest = SubSeq(queues[q].items, n + 1, Len(queues[q].items))
        /\ told = queues[q].drain.told
        /\ dropped = IF told = {} THEN queues[q].dropped ELSE <<>>
  OBVIOUS
<1>4. /\ n \in Nat /\ rest \in Seq(Deliveries)
      /\ queues[q].items \in Seq(Deliveries) /\ Len(queues[q].items) \in Nat
      /\ \A i \in 1..Len(rest) : i + n \in 1..Len(queues[q].items) /\ rest[i] = queues[q].items[i + n]
      /\ \A i \in 1..Len(queues[q].items) : i > n => i - n \in 1..Len(rest) /\ rest[i - n] = queues[q].items[i]
      /\ ToSet(rest) \subseteq ToSet(queues[q].items)
      /\ Distinct(rest)
      /\ ToSet(dropped) \subseteq ToSet(queues[q].dropped) /\ dropped \in Seq(Deliveries)
  <2>1. /\ n \in Nat /\ queues[q].items \in Seq(Deliveries) /\ Len(queues[q].items) \in Nat
        /\ queues[q].dropped \in Seq(Deliveries)
    BY <1>1, <1>3, QueueFields
  <2>7. ToSet(dropped) \subseteq ToSet(queues[q].dropped) /\ dropped \in Seq(Deliveries)
    BY <1>3, <2>1 DEF ToSet
  <2>2. Distinct(queues[q].items)
    BY PlaceFacts
  <2>3. PICK items : items = queues[q].items
    OBVIOUS
  <2>4. items \in Seq(Deliveries) /\ Distinct(items)
    BY <2>1, <2>2, <2>3
  <2>5. /\ rest \in Seq(Deliveries) /\ Len(rest) = RestLength(Len(items), n)
        /\ \A i \in 1..Len(rest) : rest[i] = items[i + n]
    BY <1>3, <2>1, <2>3, <2>4, SubSeqFacts
  <2>6. /\ \A i \in 1..Len(rest) : i + n \in 1..Len(items) /\ rest[i] = items[i + n]
        /\ \A i \in 1..Len(items) : i > n => i - n \in 1..Len(rest) /\ rest[i - n] = items[i]
        /\ ToSet(rest) \subseteq ToSet(items)
        /\ Distinct(rest)
    BY <2>1, <2>4, <2>5, SuffixFacts
  <2>. QED BY <1>3, <2>1, <2>3, <2>5, <2>6, <2>7
<1>5. PICK queue : queue = [queues[q] EXCEPT !.items = rest, !.dropped = dropped]
  OBVIOUS
<1>6. /\ queue \in Queue /\ queue.items = rest /\ queue.dropped = dropped
      /\ queue = Shifted(queues[q])
  <2>1. queue \in Queue /\ queue.items = rest /\ queue.dropped = dropped
    BY <1>1, <1>4, <1>5 DEF Queue
  <2>2. queue = Shifted(queues[q])
    BY <1>1, <1>3, <1>5 DEF Shifted, Queue
  <2>. QED BY <2>1, <2>2
<1>7. PICK s : s = With(QueueState, q, queue)
  OBVIOUS
<1>8. /\ s \in States /\ s.current = current /\ s.queues[q] = queue
      /\ \A p \in Slots : p # q => s.queues[p] = queues[p]
  <2>1. QueueState \in States /\ queue \in Queue
    BY <1>1, <1>6
  <2>2. /\ s \in States /\ s.current = QueueState.current /\ s.queues[q] = queue
        /\ \A p \in Slots : p # q => s.queues[p] = QueueState.queues[p]
    BY <1>7, <2>1, WithFacts
  <2>. QED BY <1>1, <2>2
<1>9. PICK t : t = GoRound(s, q)
  OBVIOUS
<1>10. Becomes(t)
  <2>1. s = [QueueState EXCEPT !.queues[q] = Shifted(queues[q])]
    BY <1>1, <1>6, <1>7 DEF With, States
  <2>. QED BY <1>9, <2>1 DEF RunSucceeds
<1>11. t \in States /\ Moved(s, t, q) /\ Stopped(t.queues[q])
  <2>1. Moved(s, t, q) /\ Stopped(t.queues[q])
    BY <1>8, <1>9, GoRoundMoves
  <2>. QED BY <2>1 DEF Moved
<1>12. PICK handled : handled = Handled(queues[q])
  OBVIOUS
<1>13. \A d \in Deliveries :
         d \in handled <=> queues[q].drain.run # "summary" /\ d \in ToSet(queues[q].drain.batch)
  BY <1>2, <1>12 DEF Handled
<1>14. /\ fate' \in [Deliveries -> Fates]
       /\ \A d \in Deliveries :
            fate'[d] = IF d \in handled THEN "ran"
                       ELSE IF d \in told /\ fate[d] \in {"summarized", "dropped"} THEN "told" ELSE fate[d]
  <2>1. fate' = [d \in Deliveries |-> IF d \in handled THEN "ran"
                                      ELSE IF d \in told /\ fate[d] \in {"summarized", "dropped"} THEN "told" ELSE fate[d]]
    BY <1>3, <1>13 DEF RunSucceeds
  <2>. QED BY <1>1, <2>1 DEF Fates
<1>15. handled \subseteq Deliveries
  BY <1>12, PlaceFacts
<1>16. ASSUME NEW d \in handled
       PROVE  d \notin ToSet(rest)
  <2>1. SUFFICES ASSUME NEW i \in 1..Len(rest), rest[i] = d  PROVE FALSE
    BY <1>4 DEF ToSet
  <2>2. i + n \in 1..Len(queues[q].items) /\ queues[q].items[i + n] \in Handled(queues[q])
    BY <1>4, <1>12, <2>1
  <2>3. i + n <= n
    BY <1>3, <2>2, PlaceFacts
  <2>. QED BY <1>4, <2>3
<1>17. /\ past' = [past EXCEPT !.headTaken = past.headTaken \/ queues[q].drain.run = "summary"]
       /\ recent' = recent /\ reply' = reply /\ foreign' = foreign
  BY <1>1 DEF RunSucceeds, DrainUnchanged, OtherTypes, Pasts
<1>18. /\ past' \in Pasts /\ past'.orphaned = past.orphaned /\ past'.leftIdle = past.leftIdle
       /\ ~past'.headTaken => ~past.headTaken /\ queues[q].drain.run # "summary"
  BY <1>1, <1>17 DEF OtherTypes, Pasts
<1>19. ASSUME ~past'.headTaken, ~past'.orphaned, current = q, NEW d \in Deliveries
       PROVE  /\ fate'[d] \in {"queued", "failed"} => d \in ToSet(rest)
              /\ fate'[d] = "summarized" => d \in ToSet(dropped)
  <2>1. /\ Orderly /\ queues[q].drain.run # "summary"
    BY <1>18, <1>19 DEF Orderly
  <2>2. /\ Len(queues[q].drain.batch) <= Len(queues[q].items)
        /\ \A i \in 1..Len(queues[q].drain.batch) : queues[q].items[i] = queues[q].drain.batch[i]
        /\ told \in {{}, ToSet(queues[q].dropped)}
    BY <1>1, <1>2, <1>3, <2>1 DEF QueueInv, RunsTakeTheHead
  <2>3. /\ fate[d] \in {"queued", "failed"} => d \in ToSet(queues[q].items)
        /\ fate[d] = "summarized" => d \in ToSet(queues[q].dropped)
    BY <1>1, <1>19, <2>1 DEF QueueInv, WaitsInRegistered
  <2>4. ASSUME fate'[d] \in {"queued", "failed"}
        PROVE  d \in ToSet(rest)
    <3>1. d \notin handled /\ d \in ToSet(queues[q].items)
      BY <1>14, <2>3, <2>4
    <3>2. PICK i \in 1..Len(queues[q].items) : queues[q].items[i] = d
      BY <1>1, <3>1, QueueFields
    <3>3. i > n
      <4>1. SUFFICES ASSUME i <= n  PROVE d \in handled
        BY <1>4, <3>1, <3>2
      <4>2. i \in 1..n
        BY <1>4, <3>2, <4>1
      <4>3. d \in ToSet(queues[q].drain.batch)
        BY <1>1, <1>3, <2>2, <3>2, <4>2, QueueFields
      <4>. QED BY <1>13, <2>1, <4>3
    <3>4. i - n \in 1..Len(rest) /\ rest[i - n] = d
      BY <1>4, <3>2, <3>3
    <3>5. \A j \in 1..Len(rest) : rest[j] \in ToSet(rest)
      BY <1>4 DEF ToSet
    <3>. QED BY <3>4, <3>5
  <2>5. ASSUME fate'[d] = "summarized"
        PROVE  d \in ToSet(dropped)
    <3>1. fate[d] = "summarized" /\ d \notin told
      BY <1>14, <2>5
    <3>. QED BY <1>3, <2>2, <2>3, <3>1
  <2>. QED BY <2>4, <2>5
<1>20. \A d \in Deliveries : d \notin Handled(queues[q]) =>
         fate'[d] = fate[d] \/ (fate[d] \in {"summarized", "dropped"} /\ fate'[d] = "told")
  BY <1>12, <1>14
<1>21. \A d \in Handled(queues[q]) :
         fate'[d] = "failed" \/ (fate'[d] = "ran" /\ d \notin ToSet(s.queues[q].items))
  BY <1>6, <1>8, <1>12, <1>14, <1>15, <1>16
<1>22. ~past'.headTaken /\ ~past'.orphaned /\ current = q =>
         \A d \in Deliveries :
           /\ fate'[d] \in {"queued", "failed"} => d \in ToSet(s.queues[q].items)
           /\ fate'[d] = "summarized" => d \in ToSet(s.queues[q].dropped)
  BY <1>6, <1>8, <1>19
<1>23. /\ ToSet(s.queues[q].items) \subseteq ToSet(queues[q].items)
       /\ Distinct(s.queues[q].items) /\ ToSet(s.queues[q].dropped) \subseteq ToSet(queues[q].dropped)
  BY <1>4, <1>6, <1>8
<1>. QED BY <1>2, <1>8, <1>10, <1>11, <1>14, <1>17, <1>18, <1>20, <1>21, <1>22, <1>23, EndsKeep

\* The run has thrown: the queue is as it was.
LEMMA RunFailsKeeps ==
  ASSUME IInv, NEW q \in Slots, RunFails(q)
  PROVE  IInv'
<1>1. /\ QueueInv /\ OtherTypes /\ fate \in [Deliveries -> Fates]
      /\ QueueState \in States /\ QueueState.queues = queues /\ QueueState.current = current
      /\ queues[q] \in Queue
  BY QueueFacts DEF QueueInv, FateTypes
<1>2. Running(queues[q])
  BY DEF RunFails, Running
<1>3. PICK t : t = Finish(QueueState, q)
  OBVIOUS
<1>4. t \in States /\ Moved(QueueState, t, q) /\ Stopped(t.queues[q]) /\ Becomes(t)
  <2>1. Moved(QueueState, t, q) /\ Stopped(t.queues[q])
    BY <1>1, <1>3, FinishMoves
  <2>2. Becomes(t)
    BY <1>3 DEF RunFails
  <2>. QED BY <2>1, <2>2 DEF Moved
<1>5. PICK handled : handled = Handled(queues[q])
  OBVIOUS
<1>6. \A d \in Deliveries :
        d \in handled <=> queues[q].drain.run # "summary" /\ d \in ToSet(queues[q].drain.batch)
  BY <1>2, <1>5 DEF Handled
<1>7. /\ fate' \in [Deliveries -> Fates] /\ handled \subseteq Deliveries
      /\ \A d \in Deliveries : fate'[d] = IF d \in handled THEN "failed" ELSE fate[d]
  <2>1. fate' = [d \in Deliveries |-> IF d \in handled THEN "failed" ELSE fate[d]]
    BY <1>6 DEF RunFails
  <2>. QED BY <1>1, <1>5, <2>1, PlaceFacts DEF Fates
<1>8. /\ past' = [past EXCEPT !.failures = past.failures + 1] /\ past.failures < MaxFailures
      /\ recent' = recent /\ reply' = reply /\ foreign' = foreign
  BY <1>1 DEF RunFails, DrainUnchanged, OtherTypes, Pasts
<1>9. /\ past' \in Pasts /\ past'.orphaned = past.orphaned /\ past'.leftIdle = past.leftIdle
      /\ past'.headTaken = past.headTaken
  <2>1. past \in Pasts /\ past.failures \in 0..MaxFailures /\ MaxFailures \in Nat
    BY <1>1, PastFacts, FollowupAssumption DEF OtherTypes
  <2>2. past.failures + 1 \in 0..MaxFailures
    BY <1>8, <2>1
  <2>3. PICK failures : failures = past.failures + 1
    OBVIOUS
  <2>. QED BY <1>8, <2>1, <2>2, <2>3 DEF Pasts
<1>10. ASSUME ~past'.headTaken, ~past'.orphaned, current = q, NEW d \in Deliveries
       PROVE  /\ fate'[d] \in {"queued", "failed"} => d \in ToSet(queues[q].items)
              /\ fate'[d] = "summarized" => d \in ToSet(queues[q].dropped)
  <2>1. Orderly
    BY <1>9, <1>10 DEF Orderly
  <2>2. /\ Len(queues[q].drain.batch) <= Len(queues[q].items)
        /\ \A i \in 1..Len(queues[q].drain.batch) : queues[q].items[i] = queues[q].drain.batch[i]
    BY <1>1, <1>2, <2>1 DEF QueueInv, RunsTakeTheHead
  <2>3. /\ fate[d] \in {"queued", "failed"} => d \in ToSet(queues[q].items)
        /\ fate[d] = "summarized" => d \in ToSet(queues[q].dropped)
    BY <1>1, <1>10, <2>1 DEF QueueInv, WaitsInRegistered
  <2>4. ASSUME d \in handled
        PROVE  d \in ToSet(queues[q].items)
    <3>1. PICK i \in 1..Len(queues[q].drain.batch) : queues[q].drain.batch[i] = d
      BY <1>1, <1>6, <2>4, QueueFields
    <3>2. Len(queues[q].drain.batch) \in Nat /\ Len(queues[q].items) \in Nat
      BY <1>1, QueueFields
    <3>3. i \in 1..Len(queues[q].items) /\ queues[q].items[i] = d
      BY <2>2, <3>1, <3>2
    <3>. QED BY <1>1, <3>3, QueueFields
  <2>. QED BY <1>7, <2>3, <2>4
<1>11. Distinct(queues[q].items)
  BY PlaceFacts
<1>12. /\ \A d \in Deliveries : d \notin Handled(queues[q]) => fate'[d] = fate[d]
       /\ \A d \in Handled(queues[q]) : fate'[d] = "failed"
  BY <1>5, <1>7
<1>13. PICK s : s = QueueState
  OBVIOUS
<1>14. s \in States /\ s.current = current /\ s.queues = queues /\ Moved(s, t, q)
  BY <1>1, <1>4, <1>13
<1>15. /\ ToSet(s.queues[q].items) \subseteq ToSet(queues[q].items)
       /\ Distinct(s.queues[q].items)
       /\ ToSet(s.queues[q].dropped) \subseteq ToSet(queues[q].dropped)
       /\ \A p \in Slots : p # q => s.queues[p] = queues[p]
  BY <1>11, <1>14
<1>16. ~past'.headTaken /\ ~past'.orphaned /\ current = q =>
         \A d \in Deliveries :
           /\ fate'[d] \in {"queued", "failed"} => d \in ToSet(s.queues[q].items)
           /\ fate'[d] = "summarized" => d \in ToSet(s.queues[q].dropped)
  BY <1>10, <1>14
<1>. QED BY <1>2, <1>4, <1>7, <1>8, <1>9, <1>12, <1>14, <1>15, <1>16, EndsKeep

--------------------------------------------------------------------------------
(* Clearing and enqueueing.                                                 *)

\* clearSessionQueues: what waits is cleared, and a drain of the object is left behind.
LEMMA ClearKeeps ==
  ASSUME IInv, ClearSessionQueues
  PROVE  IInv'
<1>1. /\ QueueInv /\ OtherTypes /\ fate \in [Deliveries -> Fates]
      /\ QueueState \in States /\ queues \in [Slots -> Queue] /\ callback \in BOOLEAN
      /\ 0 \notin Slots
  BY QueueFacts DEF QueueInv, FateTypes, QueueTypes
<1>2. PICK waiting : waiting = ToSet(queues[current].items) \cup ToSet(queues[current].dropped)
  OBVIOUS
<1>3. PICK t : t = [queues |-> [queues EXCEPT ![current] = Emptied(queues[current])],
                    current |-> 0, callback |-> FALSE]
  OBVIOUS
<1>4. /\ current \in Slots /\ queues[current] \in Queue
      /\ Becomes(t)
      /\ fate' = [d \in Deliveries |-> IF d \in waiting /\ fate[d] \in {"queued", "failed", "summarized"}
                                       THEN "cleared" ELSE fate[d]]
      /\ past' = [past EXCEPT !.orphaned = past.orphaned \/ ~Idle(queues[current])]
      /\ recent' = recent /\ reply' = reply /\ foreign' = foreign
  BY <1>1, <1>2, <1>3, QueueFacts DEF ClearSessionQueues, Clears, OtherTypes, Pasts
<1>5. PICK queue : queue = Emptied(queues[current])
  OBVIOUS
<1>6. queue \in Queue /\ queue.items = <<>> /\ queue.dropped = <<>> /\ queue.drain = queues[current].drain
  <2>1. <<>> \in Seq(Deliveries) /\ {} \in SUBSET Deliveries
    OBVIOUS
  <2>. QED BY <1>4, <1>5, <2>1 DEF Emptied, Queue
<1>7. /\ t \in States /\ t.current = 0 /\ t.queues[current] = queue
      /\ \A p \in Slots : p # current => t.queues[p] = queues[p]
  <2>1. PICK Q : Q = [queues EXCEPT ![current] = queue]
    OBVIOUS
  <2>2. Q \in [Slots -> Queue] /\ Q[current] = queue /\ \A p \in Slots : p # current => Q[p] = queues[p]
    BY <1>1, <1>4, <1>6, <2>1
  <2>3. t = [queues |-> Q, current |-> 0, callback |-> FALSE]
    BY <1>3, <1>5, <2>1
  <2>. QED BY <2>2, <2>3 DEF States
<1>8. /\ fate' \in [Deliveries -> Fates]
      /\ \A d \in Deliveries :
           fate'[d] = IF d \in waiting /\ fate[d] \in {"queued", "failed", "summarized"}
                      THEN "cleared" ELSE fate[d]
  BY <1>1, <1>4 DEF Fates
<1>9. /\ past' \in Pasts /\ past'.headTaken = past.headTaken
      /\ ~past'.orphaned => ~past.orphaned /\ Idle(queues[current])
  BY <1>1, <1>4 DEF OtherTypes, Pasts
<1>10. /\ queues' \in [Slots -> Queue] /\ current' = 0 /\ callback' \in BOOLEAN
       /\ \A p \in Slots : queues'[p] = t.queues[p] \/ (queues'[p] = NoQueue /\ Idle(t.queues[p]))
       /\ GoneAreEmpty'
  BY <1>4, <1>7, BecomesFacts
<1>11. ToSet(<<>>) = {} /\ Len(<<>>) = 0
  BY DEF ToSet
<1>12. \A p \in Slots :
         /\ t.queues[p].items = (IF p = current THEN <<>> ELSE queues[p].items)
         /\ t.queues[p].dropped = (IF p = current THEN <<>> ELSE queues[p].dropped)
         /\ t.queues[p].drain = queues[p].drain
         /\ Handled(t.queues[p]) = Handled(queues[p])
         /\ ToSet(t.queues[p].items) \subseteq ToSet(queues[p].items)
  BY <1>6, <1>7, <1>11 DEF Handled, Running
<1>13. Sound(t.queues, fate')
  <2>1. OnePlace(t.queues)
    <3>1. Distinct(<<>>)
      BY <1>11 DEF Distinct
    <3>2. \A p \in Slots : Distinct(t.queues[p].items)
      BY <1>12, <3>1, PlaceFacts
    <3>3. \A p, r \in Slots : p # r => ToSet(t.queues[p].items) \cap ToSet(t.queues[r].items) = {}
      BY <1>12, PlaceFacts
    <3>4. ASSUME NEW p \in Slots, NEW r \in Slots
          PROVE  ToSet(t.queues[p].items) \cap ToSet(t.queues[r].dropped) = {}
      <4>1. ToSet(t.queues[r].dropped) \subseteq ToSet(queues[r].dropped)
        BY <1>11, <1>12
      <4>2. ToSet(queues[p].items) \cap ToSet(queues[r].dropped) = {}
        BY PlaceFacts
      <4>. QED BY <1>12, <4>1, <4>2
    <3>. QED BY <3>2, <3>3, <3>4 DEF OnePlace
  <2>2. OneRun(t.queues)
    <3>1. \A p, r \in Slots :
            p # r => Handled(t.queues[p]) \cap (ToSet(t.queues[r].items) \cup Handled(t.queues[r])) = {}
      BY <1>12, PlaceFacts
    <3>2. ASSUME NEW p \in Slots, NEW i \in 1..Len(t.queues[p].items),
                 t.queues[p].items[i] \in Handled(t.queues[p])
          PROVE  i <= Len(t.queues[p].drain.batch)
      <4>1. p # current
        BY <1>11, <1>12, <3>2
      <4>. QED BY <1>7, <3>2, <4>1, PlaceFacts
    <3>. QED BY <3>1, <3>2 DEF OneRun
  <2>3. FateFits(t.queues, fate')
    <3>1. ASSUME NEW p \in Slots, NEW d \in ToSet(t.queues[p].items)
          PROVE  fate'[d] \in {"queued", "failed", "running"}
      <4>1. p # current
        BY <1>11, <1>12, <3>1
      <4>2. d \in Deliveries /\ d \notin waiting /\ fate[d] \in {"queued", "failed", "running"}
        BY <1>2, <1>4, <1>12, <3>1, <4>1, PlaceFacts
      <4>. QED BY <1>8, <4>2
    <3>2. ASSUME NEW p \in Slots, NEW d \in Handled(t.queues[p])
          PROVE  fate'[d] = "running"
      <4>1. d \in Deliveries /\ fate[d] = "running"
        BY <1>12, <3>2, PlaceFacts
      <4>. QED BY <1>8, <4>1
    <3>3. ASSUME NEW p \in Slots, NEW d \in ToSet(t.queues[p].dropped)
          PROVE  fate'[d] \notin {"new", "arriving"}
      <4>1. d \in Deliveries /\ fate[d] \notin {"new", "arriving"}
        BY <1>12, <3>3, PlaceFacts
      <4>. QED BY <1>8, <4>1
    <3>. QED BY <3>1, <3>2, <3>3 DEF FateFits
  <2>. QED BY <2>1, <2>2, <2>3 DEF Sound
<1>14. Sound(queues', fate')
  <2>1. PICK Q, R, f : Q = t.queues /\ R = queues' /\ f = fate'
    OBVIOUS
  <2>2. Sound(R, f)
    BY <1>10, <1>13, <2>1, FewerAreSound
  <2>. QED BY <2>1, <2>2
<1>15. ~past'.orphaned => \A p \in Slots : Idle(queues'[p])
  <2>1. ~past'.orphaned => \A p \in Slots : Idle(queues[p])
    BY <1>1, <1>9 DEF QueueInv, DrainsAreRegistered
  <2>. QED BY <1>10, <1>12, <2>1, NoQueueFacts DEF Idle
<1>16. DrainsAreRegistered' /\ NoQueueLeftIdle'
  BY <1>10, <1>15 DEF DrainsAreRegistered, NoQueueLeftIdle
<1>17. WaitsInRegistered'
  <2>1. ASSUME ~past'.headTaken, ~past'.orphaned, NEW d \in Deliveries
        PROVE  fate'[d] \notin {"queued", "failed", "summarized"}
    <3>1. fate[d] \in {"queued", "failed", "summarized"} => d \in waiting
      BY <1>1, <1>2, <1>9, <2>1 DEF QueueInv, WaitsInRegistered, Orderly
    <3>. QED BY <1>8, <3>1
  <2>. QED BY <2>1 DEF WaitsInRegistered, Orderly
<1>18. RunsTakeTheHead'
  BY <1>15 DEF RunsTakeTheHead, Orderly, Running, Idle
<1>19. OnlyRunsTell'
  BY <1>1, <1>10, <1>12, NoQueueFacts DEF QueueInv, OnlyRunsTell, Running
<1>20. OtherTypes'
  BY <1>1, <1>4, <1>9 DEF OtherTypes
<1>21. QueueInv'
  BY <1>8, <1>10, <1>14, <1>16, <1>17, <1>18, <1>19 DEF QueueInv, QueueTypes, FateTypes
<1>. QED BY <1>20, <1>21, NextParts

\* The messages that an overflow of n sheds, and what a queue is after it took d instead.
HeadOf(old, n) == {old[i] : i \in 1..n}
Takes(old, new, n, d) ==
  /\ Len(new) = Len(old) - n + 1
  /\ \A i \in 1..(Len(old) - n) : new[i] = old[i + n]
  /\ new[Len(old) - n + 1] = d

\* A queue after it has shed the first n of its messages and taken another.
LEMMA ArrivedFacts ==
  ASSUME NEW old \in Seq(Deliveries), NEW new \in Seq(Deliveries), Distinct(old),
         NEW n \in Nat, n <= Len(old), NEW d \in Deliveries, d \notin ToSet(old), Takes(old, new, n, d),
         NEW shed, shed = HeadOf(old, n)
  PROVE  /\ shed \subseteq ToSet(old) /\ ToSet(new) \cap shed = {}
         /\ ToSet(new) \subseteq ToSet(old) \cup {d} /\ d \in ToSet(new)
         /\ \A e \in ToSet(old) : e \notin shed => e \in ToSet(new)
         /\ Distinct(new)
         /\ \A i \in 1..Len(new) : new[i] = d \/ (i + n \in 1..Len(old) /\ new[i] = old[i + n])
<1>1. /\ Len(old) \in Nat /\ Len(new) \in Nat
      /\ Len(new) = Len(old) - n + 1
      /\ \A i \in 1..(Len(old) - n) : new[i] = old[i + n]
      /\ new[Len(old) - n + 1] = d
  BY DEF Takes
<1>2. /\ \A e : e \in ToSet(old) <=> \E i \in 1..Len(old) : old[i] = e
      /\ \A e : e \in ToSet(new) <=> \E i \in 1..Len(new) : new[i] = e
      /\ \A e : e \in shed <=> \E i \in 1..n : old[i] = e
  <2>1. /\ \A e : e \in ToSet(old) <=> \E i \in 1..Len(old) : old[i] = e
        /\ \A e : e \in ToSet(new) <=> \E i \in 1..Len(new) : new[i] = e
    BY DEF ToSet
  <2>2. \A e : e \in shed <=> \E i \in 1..n : old[i] = e
    BY DEF HeadOf
  <2>. QED BY <2>1, <2>2
<1>3. \A i, j \in 1..Len(old) : old[i] = old[j] => i = j
  BY DEF Distinct
<1>4. \A i \in 1..Len(old) : old[i] # d
  BY <1>2
<1>5. ASSUME NEW i \in 1..Len(new)
      PROVE  \/ i + n \in 1..Len(old) /\ new[i] = old[i + n]
             \/ i = Len(old) - n + 1 /\ new[i] = d
  <2>1. CASE i <= Len(old) - n
    <3>1. i \in 1..(Len(old) - n) /\ i + n \in 1..Len(old)
      BY <1>1, <2>1
    <3>. QED BY <1>1, <3>1
  <2>2. CASE i > Len(old) - n
    <3>1. i = Len(old) - n + 1
      BY <1>1, <2>2
    <3>. QED BY <1>1, <3>1
  <2>. QED BY <1>1, <2>1, <2>2
<1>6. 1..n \subseteq 1..Len(old)
  BY <1>1
<1>7. shed \subseteq ToSet(old)
  BY <1>2, <1>6
<1>8. ASSUME NEW i \in 1..Len(new), NEW j \in 1..n, new[i] = old[j]
      PROVE  FALSE
  <2>1. i + n \in 1..Len(old) /\ new[i] = old[i + n]
    BY <1>4, <1>5, <1>6, <1>8
  <2>2. i + n = j
    BY <1>3, <1>6, <1>8, <2>1
  <2>. QED BY <2>2
<1>9. ToSet(new) \cap shed = {}
  BY <1>2, <1>8
<1>10. ToSet(new) \subseteq ToSet(old) \cup {d}
  BY <1>2, <1>5
<1>11. d \in ToSet(new)
  <2>1. Len(old) - n + 1 \in 1..Len(new)
    BY <1>1
  <2>. QED BY <1>2, <1>1, <2>1
<1>12. ASSUME NEW i \in 1..Len(old), old[i] \notin shed
       PROVE  old[i] \in ToSet(new)
  <2>1. i > n
    <3>1. i \notin 1..n
      BY <1>2, <1>12
    <3>. QED BY <3>1
  <2>2. i - n \in 1..(Len(old) - n) /\ i - n \in 1..Len(new) /\ (i - n) + n = i
    BY <1>1, <2>1
  <2>. QED BY <1>2, <1>1, <2>2
<1>13. ASSUME NEW i \in 1..Len(new), NEW j \in 1..Len(new), new[i] = new[j]
       PROVE  i = j
  <2>1. CASE new[i] = d
    BY <1>4, <1>5, <1>13, <2>1
  <2>2. CASE new[i] # d
    <3>1. /\ i + n \in 1..Len(old) /\ new[i] = old[i + n]
          /\ j + n \in 1..Len(old) /\ new[j] = old[j + n]
      BY <1>5, <1>13, <2>2
    <3>2. i + n = j + n
      BY <1>3, <1>13, <3>1
    <3>. QED BY <3>2
  <2>. QED BY <2>1, <2>2
<1>14. Distinct(new)
  BY <1>13 DEF Distinct
<1>. QED BY <1>2, <1>5, <1>7, <1>9, <1>10, <1>11, <1>12, <1>14

\* s is the state with the queue q of d opened, and d in it if it is accepted; an overflow sheds
\* the first n of its messages.
Sheds(d, q, n, shed, s) ==
  /\ n \in Nat /\ n <= Len(queues[q].items) /\ shed = HeadOf(queues[q].items, n)
  /\ s \in States
  /\ \A p \in Slots : p # q => s.queues[p] = queues[p]
  /\ s.queues[q].drain = queues[q].drain
  /\ \/ n = 0 /\ s.queues[q].items = queues[q].items
     \/ Takes(queues[q].items, s.queues[q].items, n, d) /\ fate'[d] = "queued"
  /\ ToSet(s.queues[q].dropped) \subseteq ToSet(queues[q].dropped) \cup shed
  /\ fate'[d] \notin {"new", "arriving"}
  /\ \A e \in Deliveries : e # d =>
       \/ fate'[e] = fate[e]
       \/ e \in shed /\ fate[e] \in {"queued", "failed"} /\ fate'[e] \in {"dropped", "summarized"}
       \/ fate[e] = "summarized" /\ fate'[e] = "dropped"

\* A message that arrives keeps every delivery in its place, those that it sheds included.
LEMMA ArrivalIsSound ==
  ASSUME IInv, NEW d \in Deliveries, fate[d] = "arriving", NEW q \in Slots, NEW n, NEW shed, NEW s,
         Sheds(d, q, n, shed, s)
  PROVE  /\ Sound(s.queues, fate')
         /\ shed \subseteq ToSet(queues[q].items)
         /\ ToSet(s.queues[q].items) \cap shed = {}
         /\ \A e \in ToSet(queues[q].items) : e \notin shed => e \in ToSet(s.queues[q].items)
<1>. /\ n \in Nat /\ n <= Len(queues[q].items) /\ shed = HeadOf(queues[q].items, n)
     /\ s \in States
     /\ \A p \in Slots : p # q => s.queues[p] = queues[p]
     /\ s.queues[q].drain = queues[q].drain
     /\ \/ n = 0 /\ s.queues[q].items = queues[q].items
        \/ Takes(queues[q].items, s.queues[q].items, n, d) /\ fate'[d] = "queued"
     /\ ToSet(s.queues[q].dropped) \subseteq ToSet(queues[q].dropped) \cup shed
     /\ fate'[d] \notin {"new", "arriving"}
     /\ \A e \in Deliveries : e # d =>
          \/ fate'[e] = fate[e]
          \/ e \in shed /\ fate[e] \in {"queued", "failed"} /\ fate'[e] \in {"dropped", "summarized"}
          \/ fate[e] = "summarized" /\ fate'[e] = "dropped"
  BY DEF Sheds
<1>1. /\ queues[q] \in Queue /\ s.queues[q] \in Queue
      /\ Len(queues[q].items) \in Nat /\ Len(s.queues[q].items) \in Nat
      /\ Handled(s.queues[q]) = Handled(queues[q])
  <2>1. queues[q] \in Queue /\ s.queues[q] \in Queue
    BY QueueFacts DEF States
  <2>. QED BY <2>1, QueueFields DEF Handled, Running
<1>2. PICK old, new : old = queues[q].items /\ new = s.queues[q].items
  OBVIOUS
<1>3. /\ old \in Seq(Deliveries) /\ new \in Seq(Deliveries) /\ Len(old) \in Nat /\ Len(new) \in Nat
      /\ n <= Len(old) /\ Distinct(old)
  BY <1>1, <1>2, PlaceFacts, QueueFields
<1>4. shed = HeadOf(old, n)
  BY <1>2
<1>5. /\ \A p \in Slots : d \notin ToSet(queues[p].items) /\ d \notin ToSet(queues[p].dropped) /\ d \notin Handled(queues[p])
      /\ d \notin ToSet(old)
  BY <1>2, PlaceFacts
<1>6. /\ shed \subseteq ToSet(old) /\ ToSet(new) \cap shed = {}
      /\ ToSet(new) \subseteq ToSet(old) \cup {d}
      /\ d \in ToSet(new) => fate'[d] = "queued"
      /\ \A e \in ToSet(old) : e \notin shed => e \in ToSet(new)
      /\ Distinct(new)
      /\ \A i \in 1..Len(new) : new[i] = d \/ (i + n \in 1..Len(old) /\ new[i] = old[i + n])
  <2>1. CASE n = 0 /\ new = old
    <3>1. shed = {}
      BY <1>4, <2>1 DEF HeadOf
    <3>. QED BY <1>3, <1>5, <2>1, <3>1
  <2>2. CASE Takes(old, new, n, d) /\ fate'[d] = "queued"
    BY <1>3, <1>4, <1>5, <2>2, ArrivedFacts
  <2>. QED BY <1>2, <2>1, <2>2
<1>7. /\ \A p \in Slots : p # q => s.queues[p] = queues[p]
      /\ \A p \in Slots : Handled(s.queues[p]) = Handled(queues[p])
      /\ \A p \in Slots : p # q => ToSet(s.queues[p].items) \subseteq ToSet(queues[p].items)
      /\ ToSet(s.queues[q].items) \subseteq ToSet(old) \cup {d}
      /\ ToSet(s.queues[q].items) \cap shed = {}
      /\ \A p \in Slots : p # q => ToSet(s.queues[p].dropped) \subseteq ToSet(queues[p].dropped)
      /\ ToSet(s.queues[q].dropped) \subseteq ToSet(queues[q].dropped) \cup shed
      /\ old = queues[q].items /\ s.queues[q].items = new
  BY <1>1, <1>2, <1>6
<1>8. OnePlace(s.queues)
  <2>1. \A p \in Slots : Distinct(s.queues[p].items)
    BY <1>6, <1>7, PlaceFacts
  <2>2. ASSUME NEW p \in Slots, NEW r \in Slots, p # r
        PROVE  ToSet(s.queues[p].items) \cap ToSet(s.queues[r].items) = {}
    <3>1. ToSet(queues[p].items) \cap ToSet(queues[r].items) = {}
      BY <2>2, PlaceFacts
    <3>2. /\ ToSet(s.queues[p].items) \subseteq ToSet(queues[p].items) \cup (IF p = q THEN {d} ELSE {})
          /\ ToSet(s.queues[r].items) \subseteq ToSet(queues[r].items) \cup (IF r = q THEN {d} ELSE {})
      BY <1>7
    <3>. QED BY <1>5, <2>2, <3>1, <3>2
  <2>3. ASSUME NEW p \in Slots, NEW r \in Slots, NEW e \in ToSet(s.queues[p].items)
        PROVE  e \notin ToSet(s.queues[r].dropped)
    <3>1. CASE e = d
      BY <1>5, <1>6, <1>7, <3>1
    <3>2. CASE e # d
      <4>1. e \in ToSet(queues[p].items) /\ e \notin shed
        <5>1. CASE p = q
          BY <1>7, <2>3, <3>2, <5>1
        <5>2. CASE p # q
          BY <1>6, <1>7, <2>3, <5>2, PlaceFacts
        <5>. QED BY <5>1, <5>2
      <4>2. e \notin ToSet(queues[r].dropped)
        BY <4>1, PlaceFacts
      <4>. QED BY <1>7, <4>1, <4>2
    <3>. QED BY <3>1, <3>2
  <2>. QED BY <2>1, <2>2, <2>3 DEF OnePlace
<1>9. OneRun(s.queues)
  <2>1. ASSUME NEW p \in Slots, NEW r \in Slots, p # r
        PROVE  Handled(s.queues[p]) \cap (ToSet(s.queues[r].items) \cup Handled(s.queues[r])) = {}
    <3>1. CASE r = q
      <4>1. ToSet(s.queues[r].items) \subseteq ToSet(queues[r].items) \cup {d}
        BY <1>7, <3>1
      <4>2. ASSUME NEW e \in Handled(queues[p])
            PROVE  e \notin ToSet(queues[r].items) \cup {d} /\ e \notin Handled(queues[r])
        BY <1>5, <2>1, <4>2, PlaceFacts
      <4>. QED BY <1>7, <4>1, <4>2
    <3>2. CASE r # q
      BY <1>7, <2>1, <3>2, PlaceFacts
    <3>. QED BY <3>1, <3>2
  <2>2. ASSUME NEW p \in Slots, NEW i \in 1..Len(s.queues[p].items), s.queues[p].items[i] \in Handled(s.queues[p])
        PROVE  i <= Len(s.queues[p].drain.batch)
    <3>1. CASE p # q
      BY <1>7, <2>2, <3>1, PlaceFacts
    <3>2. CASE p = q
      <4>1. i \in 1..Len(new) /\ new[i] \in Handled(queues[q])
        BY <1>7, <2>2, <3>2
      <4>2. i + n \in 1..Len(old) /\ new[i] = old[i + n]
        BY <1>5, <1>6, <4>1
      <4>3. i + n <= Len(queues[q].drain.batch)
        BY <1>2, <4>1, <4>2, PlaceFacts
      <4>4. Len(queues[q].drain.batch) \in Nat
        BY <1>1, QueueFields
      <4>. QED BY <3>2, <4>1, <4>3, <4>4
    <3>. QED BY <3>1, <3>2
  <2>. QED BY <2>1, <2>2 DEF OneRun
<1>10. FateFits(s.queues, fate')
  <2>1. ASSUME NEW p \in Slots, NEW e \in ToSet(s.queues[p].items)
        PROVE  fate'[e] \in {"queued", "failed", "running"}
    <3>1. CASE e = d
      BY <1>5, <1>6, <1>7, <2>1, <3>1
    <3>2. CASE e # d
      <4>1. e \in ToSet(queues[p].items) /\ e \notin shed
        <5>1. CASE p = q
          BY <1>7, <2>1, <3>2, <5>1
        <5>2. CASE p # q
          BY <1>6, <1>7, <2>1, <5>2, PlaceFacts
        <5>. QED BY <5>1, <5>2
      <4>2. e \in Deliveries /\ fate[e] \in {"queued", "failed", "running"}
        BY <4>1, PlaceFacts
      <4>. QED BY <3>2, <4>1, <4>2
    <3>. QED BY <3>1, <3>2
  <2>2. ASSUME NEW p \in Slots, NEW e \in Handled(s.queues[p])
        PROVE  fate'[e] = "running"
    <3>1. e \in Deliveries /\ fate[e] = "running" /\ e # d
      BY <1>5, <1>7, <2>2, PlaceFacts
    <3>. QED BY <3>1
  <2>3. ASSUME NEW p \in Slots, NEW e \in ToSet(s.queues[p].dropped)
        PROVE  fate'[e] \notin {"new", "arriving"}
    <3>1. e \in Deliveries /\ fate[e] \notin {"new", "arriving"}
      BY <1>6, <1>7, <2>3, PlaceFacts
    <3>. QED BY <3>1
  <2>. QED BY <2>1, <2>2, <2>3 DEF FateFits
<1>. QED BY <1>2, <1>6, <1>8, <1>9, <1>10 DEF Sound

\* A message arrives: s is the state with its queue opened, and with the message in it if it is
\* accepted; t is the state after the second look at the active run.
Arrives(d, q, accepted, n, shed, s, t) ==
  /\ q \in Slots /\ (current # 0 => q = current) /\ (current = 0 => queues[q] = NoQueue)
  /\ accepted \in BOOLEAN
  /\ n \in Nat /\ n <= Len(queues[q].items) /\ shed = HeadOf(queues[q].items, n)
  /\ s \in States /\ s.current = q
  /\ \A p \in Slots : p # q => s.queues[p] = queues[p]
  /\ s.queues[q].drain = queues[q].drain
  /\ accepted => Takes(queues[q].items, s.queues[q].items, n, d)
  /\ accepted => Len(s.queues[q].items) <= s.queues[q].cap
  /\ ~accepted => n = 0 /\ s.queues[q].items = queues[q].items
  /\ ToSet(s.queues[q].dropped) \subseteq ToSet(queues[q].dropped) \cup shed
  /\ fate' \in [Deliveries -> Fates]
  /\ fate'[d] = (IF accepted THEN "queued" ELSE "refused")
  /\ \A e \in Deliveries : e # d =>
     \/ /\ fate'[e] = fate[e] /\ (e \in shed => fate[e] \notin {"queued", "failed"})
        /\ fate[e] = "summarized" /\ e \in ToSet(queues[q].dropped) => e \in ToSet(s.queues[q].dropped)
     \/ fate[e] = "summarized" /\ fate'[e] = "dropped"
     \/ /\ e \in shed /\ fate[e] \in {"queued", "failed"}
        /\ \/ fate'[e] = "dropped"
           \/ fate'[e] = "summarized" /\ e \in ToSet(s.queues[q].dropped)
  /\ t \in States /\ Becomes(t)
  /\ Moved(s, t, q) \/ (t = s /\ (reply.active \/ foreign \/ InFlight))
  /\ past' \in Pasts /\ past'.orphaned = past.orphaned /\ past'.leftIdle = past.leftIdle
  /\ shed = {} => s.queues[q].dropped = queues[q].dropped
  /\ ~past'.headTaken => ~past.headTaken /\ (shed = {} \/ ~Running(queues[q]))
  /\ reply' = reply /\ foreign' = foreign
  /\ recent' \subseteq {MessageOf[e] : e \in Deliveries}

\* An arrival keeps the invariant.
LEMMA ArrivalKeeps ==
  ASSUME IInv, NEW d \in Deliveries, fate[d] = "arriving",
         NEW q, NEW accepted, NEW n, NEW shed, NEW s, NEW t,
         Arrives(d, q, accepted, n, shed, s, t)
  PROVE  IInv'
<1>. /\ q \in Slots /\ (current # 0 => q = current) /\ (current = 0 => queues[q] = NoQueue)
     /\ accepted \in BOOLEAN
     /\ n \in Nat /\ n <= Len(queues[q].items) /\ shed = HeadOf(queues[q].items, n)
     /\ s \in States /\ s.current = q
     /\ \A p \in Slots : p # q => s.queues[p] = queues[p]
     /\ s.queues[q].drain = queues[q].drain
     /\ accepted => Takes(queues[q].items, s.queues[q].items, n, d)
     /\ ~accepted => n = 0 /\ s.queues[q].items = queues[q].items
     /\ ToSet(s.queues[q].dropped) \subseteq ToSet(queues[q].dropped) \cup shed
     /\ fate' \in [Deliveries -> Fates]
     /\ fate'[d] = (IF accepted THEN "queued" ELSE "refused")
     /\ \A e \in Deliveries : e # d =>
        \/ /\ fate'[e] = fate[e] /\ (e \in shed => fate[e] \notin {"queued", "failed"})
           /\ fate[e] = "summarized" /\ e \in ToSet(queues[q].dropped) => e \in ToSet(s.queues[q].dropped)
        \/ fate[e] = "summarized" /\ fate'[e] = "dropped"
        \/ /\ e \in shed /\ fate[e] \in {"queued", "failed"}
           /\ \/ fate'[e] = "dropped"
              \/ fate'[e] = "summarized" /\ e \in ToSet(s.queues[q].dropped)
     /\ t \in States /\ Becomes(t)
     /\ Moved(s, t, q) \/ (t = s /\ (reply.active \/ foreign \/ InFlight))
     /\ past' \in Pasts /\ past'.orphaned = past.orphaned /\ past'.leftIdle = past.leftIdle
     /\ shed = {} => s.queues[q].dropped = queues[q].dropped
     /\ ~past'.headTaken => ~past.headTaken /\ (shed = {} \/ ~Running(queues[q]))
     /\ reply' = reply /\ foreign' = foreign
     /\ recent' \subseteq {MessageOf[e] : e \in Deliveries}
  BY DEF Arrives
<1>1. /\ QueueInv /\ OtherTypes
      /\ queues[q] \in Queue /\ s.queues[q] \in Queue
      /\ current \in Slots \cup {0} /\ 0 \notin Slots
  BY QueueFacts DEF States
<1>2. /\ Sound(s.queues, fate')
      /\ shed \subseteq ToSet(queues[q].items)
      /\ ToSet(s.queues[q].items) \cap shed = {}
      /\ \A e \in ToSet(queues[q].items) : e \notin shed => e \in ToSet(s.queues[q].items)
  <2>1. \/ n = 0 /\ s.queues[q].items = queues[q].items
        \/ Takes(queues[q].items, s.queues[q].items, n, d) /\ fate'[d] = "queued"
    OBVIOUS
  <2>2. fate'[d] \notin {"new", "arriving"}
    OBVIOUS
  <2>3. \A e \in Deliveries : e # d =>
          \/ fate'[e] = fate[e]
          \/ e \in shed /\ fate[e] \in {"queued", "failed"} /\ fate'[e] \in {"dropped", "summarized"}
          \/ fate[e] = "summarized" /\ fate'[e] = "dropped"
    OBVIOUS
  <2>4. Sheds(d, q, n, shed, s)
    BY <2>1, <2>2, <2>3 DEF Sheds
  <2>. QED BY <2>4, ArrivalIsSound
<1>3. /\ queues' \in [Slots -> Queue] /\ current' = t.current
      /\ current' \in Slots \cup {0} /\ callback' \in BOOLEAN
      /\ \A p \in Slots : queues'[p] = t.queues[p] \/ (queues'[p] = NoQueue /\ p # t.current /\ Idle(t.queues[p]))
      /\ GoneAreEmpty'
      /\ t.current \in Slots => queues'[t.current] = t.queues[t.current]
  BY BecomesFacts
<1>4. /\ \A p \in Slots : p # q => t.queues[p] = s.queues[p]
      /\ \A p \in Slots :
           /\ t.queues[p].items = s.queues[p].items /\ t.queues[p].dropped = s.queues[p].dropped
           /\ t.queues[p].drain = s.queues[p].drain \/ Stopped(t.queues[p])
      /\ \/ t.current = 0 /\ Drained(s.queues[q]) /\ Idle(t.queues[q])
         \/ t.current = q /\ ~Idle(t.queues[q])
         \/ t.current = q /\ t = s /\ (reply.active \/ foreign \/ InFlight)
  BY DEF Moved
<1>5. \A p \in Slots : s.queues[p].drain = queues[p].drain
  OBVIOUS
<1>6. Sound(queues', fate')
  <2>1. \A p \in Slots :
          \/ queues'[p] = NoQueue
          \/ /\ queues'[p].items = s.queues[p].items /\ queues'[p].dropped = s.queues[p].dropped
             /\ queues'[p].drain = s.queues[p].drain \/ ~Running(queues'[p])
    BY <1>3, <1>4 DEF Stopped
  <2>2. PICK Q, R, f : Q = s.queues /\ R = queues' /\ f = fate'
    OBVIOUS
  <2>3. Sound(R, f)
    BY <1>2, <2>1, <2>2, FewerAreSound
  <2>. QED BY <2>2, <2>3
<1>7. ~past.orphaned => \A p \in Slots : p # q => Idle(queues[p])
  BY <1>1 DEF QueueInv, DrainsAreRegistered
<1>8. ~past.orphaned => \A p \in Slots : p # q => Idle(queues'[p])
  BY <1>3, <1>4, <1>5, <1>7, NoQueueFacts DEF Idle
<1>9. current = 0 => Idle(queues[q]) /\ queues[q].items = <<>> /\ queues[q].dropped = <<>>
  BY NoQueueFacts DEF Idle
<1>10. DrainsAreRegistered'
  <2>1. SUFFICES ASSUME ~past.orphaned, NEW p \in Slots, ~Idle(queues'[p])
                 PROVE  p = current'
    BY DEF DrainsAreRegistered
  <2>2. p = q /\ queues'[q] = t.queues[q]
    BY <1>3, <1>8, <2>1, NoQueueFacts DEF Idle
  <2>. QED BY <1>3, <1>4, <2>1, <2>2
<1>11. NoQueueLeftIdle'
  <2>1. SUFFICES ASSUME ~past.orphaned, ~reply.active, ~foreign, current' # 0
                 PROVE  ~Idle(queues'[current'])
    BY DEF NoQueueLeftIdle
  <2>2. current' = q /\ queues'[q] = t.queues[q]
    BY <1>3, <1>4, <2>1
  <2>3. CASE t = s /\ InFlight
    <3>1. Running(queues[q])
      BY <1>7, <2>1, <2>3 DEF InFlight, Running, Idle
    <3>. QED BY <1>5, <2>2, <2>3, <3>1 DEF Running, Idle
  <2>. QED BY <1>3, <1>4, <2>1, <2>2, <2>3
<1>12. WaitsInRegistered'
  <2>1. SUFFICES ASSUME ~past'.headTaken, ~past'.orphaned, NEW e \in Deliveries
                 PROVE  /\ fate'[e] \in {"queued", "failed"} => current' # 0 /\ e \in ToSet(queues'[current'].items)
                        /\ fate'[e] = "summarized" => current' # 0 /\ e \in ToSet(queues'[current'].dropped)
    BY DEF WaitsInRegistered, Orderly
  <2>2. /\ fate[e] \in {"queued", "failed"} => e \in ToSet(queues[q].items)
        /\ fate[e] = "summarized" => e \in ToSet(queues[q].dropped)
    BY <1>1, <2>1 DEF QueueInv, WaitsInRegistered, Orderly
  <2>3. /\ fate'[e] \in {"queued", "failed"} => e \in ToSet(s.queues[q].items)
        /\ fate'[e] = "summarized" => e \in ToSet(s.queues[q].dropped)
    <3>1. CASE e # d
      BY <1>2, <2>2, <3>1
    <3>2. CASE e = d
      <4>1. ASSUME accepted  PROVE d \in ToSet(s.queues[q].items)
        <5>1. PICK last : last = Len(queues[q].items) - n + 1
          OBVIOUS
        <5>2. Len(queues[q].items) \in Nat /\ Len(s.queues[q].items) \in Nat
          BY <1>1, QueueFields
        <5>3. Len(s.queues[q].items) = last /\ s.queues[q].items[last] = d
          BY <4>1, <5>1 DEF Takes
        <5>4. last \in 1..Len(s.queues[q].items)
          BY <5>1, <5>2, <5>3
        <5>. QED BY <1>1, <5>3, <5>4, QueueFields
      <4>. QED BY <3>2, <4>1
    <3>. QED BY <3>1, <3>2
  <2>4. CASE t.current = 0 /\ Drained(s.queues[q])
    BY <2>3, <2>4 DEF Drained, ToSet
  <2>5. CASE t.current = q
    BY <1>1, <1>3, <1>4, <2>3, <2>5
  <2>. QED BY <1>4, <2>4, <2>5
<1>13. RunsTakeTheHead'
  <2>1. SUFFICES ASSUME ~past'.headTaken, ~past'.orphaned, NEW p \in Slots, Running(queues'[p])
                 PROVE  /\ Len(queues'[p].drain.batch) <= Len(queues'[p].items)
                        /\ \A i \in 1..Len(queues'[p].drain.batch) :
                             queues'[p].items[i] = queues'[p].drain.batch[i]
                        /\ queues'[p].drain.told \in {{}, ToSet(queues'[p].dropped)}
    BY DEF RunsTakeTheHead, Orderly
  <2>2. p = q /\ queues'[q] = t.queues[q]
    BY <1>3, <1>8, <2>1, NoQueueFacts DEF Idle, Running
  <2>3. t.queues[q].drain = queues[q].drain /\ Running(queues[q])
    BY <1>4, <1>5, <2>1, <2>2 DEF Stopped, Running
  <2>4. shed = {} /\ s.queues[q].dropped = queues[q].dropped
    BY <2>1, <2>3
  <2>5. n = 0
    <3>1. SUFFICES ASSUME n > 0  PROVE FALSE
      OBVIOUS
    <3>2. 1 \in 1..n
      BY <3>1
    <3>3. queues[q].items[1] \in HeadOf(queues[q].items, n)
      BY <3>2 DEF HeadOf
    <3>. QED BY <2>4, <3>3
  <2>6. /\ Len(queues[q].drain.batch) <= Len(queues[q].items)
        /\ \A i \in 1..Len(queues[q].drain.batch) : queues[q].items[i] = queues[q].drain.batch[i]
        /\ queues[q].drain.told \in {{}, ToSet(queues[q].dropped)}
    BY <1>1, <2>1, <2>3 DEF QueueInv, RunsTakeTheHead, Orderly
  <2>7. /\ Len(queues[q].items) <= Len(s.queues[q].items)
        /\ \A i \in 1..Len(queues[q].items) : s.queues[q].items[i] = queues[q].items[i]
    <3>1. Len(queues[q].items) \in Nat /\ Len(s.queues[q].items) \in Nat
      BY <1>1, QueueFields
    <3>2. CASE accepted
      BY <2>5, <3>1, <3>2 DEF Takes
    <3>. QED BY <3>1, <3>2
  <2>8. Len(queues[q].items) \in Nat /\ Len(s.queues[q].items) \in Nat /\ Len(queues[q].drain.batch) \in Nat
    BY <1>1, QueueFields
  <2>9. /\ queues'[p].items = s.queues[q].items /\ queues'[p].drain = queues[q].drain
        /\ queues'[p].dropped = queues[q].dropped
    BY <1>4, <2>2, <2>3, <2>4
  <2>10. ASSUME NEW i \in 1..Len(queues[q].drain.batch)
         PROVE  s.queues[q].items[i] = queues[q].drain.batch[i]
    <3>1. i \in 1..Len(queues[q].items)
      BY <2>6, <2>8
    <3>. QED BY <2>6, <2>7, <3>1
  <2>11. Len(queues[q].drain.batch) <= Len(s.queues[q].items)
    <3>1. Len(queues[q].drain.batch) <= Len(queues[q].items)
      BY <2>6
    <3>2. Len(queues[q].items) <= Len(s.queues[q].items)
      BY <2>7
    <3>3. PICK a, b, c : a = Len(queues[q].drain.batch) /\ b = Len(queues[q].items) /\ c = Len(s.queues[q].items)
      OBVIOUS
    <3>4. a \in Nat /\ b \in Nat /\ c \in Nat /\ a <= b /\ b <= c
      BY <2>8, <3>1, <3>2, <3>3
    <3>5. a <= c
      BY ONLY <3>4
    <3>. QED BY <3>3, <3>5
  <2>. QED BY <2>6, <2>9, <2>10, <2>11
<1>14. OnlyRunsTell'
  <2>1. SUFFICES ASSUME NEW p \in Slots, ~Running(queues'[p])
                 PROVE  queues'[p].drain.told = {}
    BY DEF OnlyRunsTell
  <2>2. CASE queues'[p] = NoQueue
    BY <2>2, NoQueueFacts
  <2>3. CASE queues'[p] = t.queues[p] /\ Stopped(t.queues[p])
    BY <2>3 DEF Stopped
  <2>4. CASE queues'[p] = t.queues[p] /\ t.queues[p].drain = queues[p].drain
    BY <1>1, <2>1, <2>4 DEF QueueInv, OnlyRunsTell, Running
  <2>. QED BY <1>3, <1>4, <1>5, <2>2, <2>3, <2>4
<1>15. OtherTypes'
  BY <1>1 DEF OtherTypes
<1>16. QueueInv'
  BY <1>3, <1>6, <1>10, <1>11, <1>12, <1>13, <1>14 DEF QueueInv, QueueTypes, FateTypes
<1>. QED BY <1>15, <1>16, NextParts

\* getFollowupQueue: the registered object, or one that nothing uses, with the settings.
LEMMA OpenedFacts ==
  ASSUME IInv, NEW settings \in Settings, current = 0 => \E p \in Slots : Idle(queues[p]),
         NEW o, o = Opened(QueueState, settings)
  PROVE  /\ o \in States /\ o.current \in Slots
         /\ current # 0 => o.current = current
         /\ current = 0 => queues[o.current] = NoQueue
         /\ \A p \in Slots : p # o.current => o.queues[p] = queues[p]
         /\ o.queues[o.current] \in Queue /\ o.queues[o.current].cap # 0
         /\ o.queues[o.current].items = queues[o.current].items
         /\ o.queues[o.current].dropped = queues[o.current].dropped
         /\ o.queues[o.current].drain = queues[o.current].drain
<1>1. /\ QueueInv /\ QueueState \in States
      /\ QueueState.queues = queues /\ QueueState.current = current
      /\ queues \in [Slots -> Queue] /\ current \in Slots \cup {0} /\ 0 \notin Slots
  BY QueueFacts
<1>2. PICK q : q = IF QueueState.current # 0 THEN QueueState.current ELSE FreeSlot(QueueState)
  OBVIOUS
<1>3. q \in Slots /\ (current # 0 => q = current) /\ (current = 0 => queues[q] = NoQueue)
  <2>1. CASE current # 0
    BY <1>1, <1>2, <2>1
  <2>2. CASE current = 0
    <3>1. \E free \in Slots : Idle(QueueState.queues[free]) /\ free # QueueState.current
      BY <1>1, <2>2
    <3>2. q \in Slots /\ Idle(QueueState.queues[q]) /\ q # QueueState.current
      BY <1>1, <1>2, <2>2, <3>1 DEF FreeSlot
    <3>. QED BY <1>1, <2>2, <3>2 DEF QueueInv, GoneAreEmpty, Live
  <2>. QED BY <2>1, <2>2
<1>4. PICK queue : queue = [queues[q] EXCEPT !.mode = settings.mode, !.cap = settings.cap,
                                             !.dropPolicy = settings.dropPolicy]
  OBVIOUS
<1>5. /\ settings.mode \in {"followup", "collect"} /\ settings.cap \in Nat \ {0}
      /\ settings.dropPolicy \in {"summarize", "old", "new"}
  BY FollowupAssumption
<1>6. /\ queue \in Queue /\ queue.cap # 0 /\ queue.items = queues[q].items
      /\ queue.dropped = queues[q].dropped /\ queue.drain = queues[q].drain
  <2>1. queues[q] \in Queue
    BY <1>1, <1>3
  <2>. QED BY <1>4, <1>5, <2>1 DEF Queue
<1>7. PICK Q : Q = [queues EXCEPT ![q] = queue]
  OBVIOUS
<1>8. Q \in [Slots -> Queue] /\ Q[q] = queue /\ \A p \in Slots : p # q => Q[p] = queues[p]
  BY <1>1, <1>3, <1>6, <1>7
<1>9. o = [QueueState EXCEPT !.current = q, !.queues = Q]
  <2>1. o = WithSettings(QueueState, q, settings)
    BY <1>2 DEF Opened
  <2>. QED BY <1>1, <1>4, <1>7, <2>1 DEF WithSettings, States
<1>10. o \in States /\ o.current = q /\ o.queues = Q
  BY <1>1, <1>3, <1>8, <1>9 DEF States
<1>. QED BY <1>3, <1>6, <1>8, <1>10

\* The messages at the head of a queue.
LEMMA HeadFacts ==
  ASSUME NEW s \in Seq(Deliveries), NEW n \in Nat, n <= Len(s)
  PROVE  /\ SubSeq(s, 1, n) \in Seq(Deliveries) /\ ToSet(SubSeq(s, 1, n)) = HeadOf(s, n)
         /\ SubSeq(s, 1, n) = <<>> <=> HeadOf(s, n) = {}
<1>1. PICK front : front = SubSeq(s, 1, n)
  OBVIOUS
<1>2. front \in Seq(Deliveries) /\ Len(front) = n /\ \A i \in 1..n : front[i] = s[i]
  BY <1>1
<1>3. \A e : e \in ToSet(front) <=> \E i \in 1..n : front[i] = e
  BY <1>2 DEF ToSet
<1>4. \A e : e \in HeadOf(s, n) <=> \E i \in 1..n : s[i] = e
  BY DEF HeadOf
<1>5. front = <<>> <=> HeadOf(s, n) = {}
  <2>1. CASE n = 0
    BY <1>2, <2>1 DEF HeadOf
  <2>2. CASE n > 0
    <3>1. 1 \in 1..n
      BY <2>2
    <3>2. s[1] \in HeadOf(s, n) /\ Len(front) # 0
      BY <1>2, <1>4, <2>2, <3>1
    <3>. QED BY <3>2
  <2>. QED BY <2>1, <2>2
<1>. QED BY <1>1, <1>2, <1>3, <1>4, <1>5

\* The lines that are kept are some of those that there were.
LEMMA LinesFacts ==
  ASSUME NEW a \in Seq(Deliveries), NEW b \in Seq(Deliveries), NEW cap \in Nat
  PROVE  /\ LastLines(a \o b, cap) \in Seq(Deliveries)
         /\ ToSet(LastLines(a \o b, cap)) \subseteq ToSet(a) \cup ToSet(b)
<1>1. PICK lines, k : /\ lines = a \o b
                      /\ k = IF Len(lines) > cap THEN Len(lines) - cap + 1 ELSE 1
  OBVIOUS
<1>2. PICK last : last = SubSeq(lines, k, Len(lines))
  OBVIOUS
<1>3. lines \in Seq(Deliveries) /\ Len(lines) \in Nat /\ k \in Nat \ {0}
  BY <1>1
<1>4. last \in Seq(Deliveries) /\ \A i \in 1..Len(last) : i + k - 1 \in 1..Len(lines) /\ last[i] = lines[i + k - 1]
  BY <1>2, <1>3
<1>5. \A i \in 1..Len(lines) : lines[i] \in ToSet(a) \cup ToSet(b)
  <2>1. ASSUME NEW i \in 1..Len(lines)  PROVE lines[i] \in ToSet(a) \cup ToSet(b)
    <3>1. CASE i <= Len(a)
      <4>1. i \in 1..Len(a) /\ lines[i] = a[i]
        BY <1>1, <3>1
      <4>. QED BY <4>1 DEF ToSet
    <3>2. CASE i > Len(a)
      <4>1. i - Len(a) \in 1..Len(b) /\ lines[i] = b[i - Len(a)]
        BY <1>1, <3>2
      <4>. QED BY <4>1 DEF ToSet
    <3>. QED BY <3>1, <3>2
  <2>. QED BY <2>1
<1>6. ToSet(last) \subseteq ToSet(a) \cup ToSet(b)
  <2>1. \A e \in ToSet(last) : \E i \in 1..Len(last) : last[i] = e
    BY <1>4 DEF ToSet
  <2>. QED BY <1>4, <1>5, <2>1
<1>7. last = LastLines(a \o b, cap)
  BY <1>1, <1>2 DEF LastLines
<1>. QED BY <1>4, <1>6, <1>7

\* How many are shed: no more than there are, and only by a queue that is full.
LEMMA DropCountFacts ==
  ASSUME NEW queue \in Queue, queue.cap # 0
  PROVE  /\ DropCount(queue) \in Nat /\ DropCount(queue) <= Len(queue.items)
         /\ DropCount(queue) > 0 => Len(queue.items) >= queue.cap
         /\ Len(queue.items) - DropCount(queue) + 1 <= queue.cap
<1>1. PICK length, cap : length = Len(queue.items) /\ cap = queue.cap
  OBVIOUS
<1>2. length \in Nat /\ cap \in Nat /\ cap # 0
  BY <1>1, QueueFields
<1>3. DropCount(queue) = IF length < cap THEN 0 ELSE length - cap + 1
  BY <1>1 DEF DropCount
<1>. QED BY <1>1, <1>2, <1>3

\* A message at the end of what is left.
LEMMA TakesFacts ==
  ASSUME NEW old \in Seq(Deliveries), NEW n \in Nat, n <= Len(old), NEW d \in Deliveries
  PROVE  /\ Append(SubSeq(old, n + 1, Len(old)), d) \in Seq(Deliveries)
         /\ Takes(old, Append(SubSeq(old, n + 1, Len(old)), d), n, d)
<1>1. PICK rest : rest = SubSeq(old, n + 1, Len(old))
  OBVIOUS
<1>2. /\ rest \in Seq(Deliveries) /\ Len(old) \in Nat /\ Len(rest) = Len(old) - n
      /\ \A i \in 1..Len(rest) : rest[i] = old[i + n]
  <2>1. /\ rest \in Seq(Deliveries) /\ Len(rest) = RestLength(Len(old), n)
        /\ \A i \in 1..Len(rest) : rest[i] = old[i + n]
    BY <1>1, SubSeqFacts
  <2>2. Len(old) \in Nat /\ RestLength(Len(old), n) = Len(old) - n
    BY DEF RestLength
  <2>. QED BY <2>1, <2>2
<1>3. PICK new : new = Append(rest, d)
  OBVIOUS
<1>4. /\ new \in Seq(Deliveries) /\ Len(new) = Len(rest) + 1
      /\ \A i \in 1..Len(rest) : new[i] = rest[i]
      /\ new[Len(rest) + 1] = d
  BY <1>2, <1>3
<1>. QED BY <1>1, <1>2, <1>3, <1>4 DEF Takes

\* enqueueFollowupRun and the second look at the active run are an arrival.
LEMMA EnqueueArrives ==
  ASSUME IInv, NEW d \in Deliveries, NEW settings \in Settings, EnqueueFollowupRun(d, settings)
  PROVE  fate[d] = "arriving" /\ \E q, accepted, n, shed, s, t : Arrives(d, q, accepted, n, shed, s, t)
<1>. DEFINE opened == Opened(QueueState, settings)
            q == opened.current
            queue == opened.queues[q]
            skip == MessageOf[d] \in recent \/ AlreadyQueued(queue, d)
            full == Len(queue.items) >= queue.cap
            front == Shed(queue)
            pushed0 == Pushed(queue, d)
            refused == skip \/ (full /\ queue.dropPolicy = "new")
            next == IF skip THEN opened
                    ELSE IF refused THEN [opened EXCEPT !.queues[q].lastRun = TRUE]
                    ELSE [opened EXCEPT !.queues[q] = [pushed0 EXCEPT !.lastRun = TRUE],
                                        !.callback = TRUE]
<1>1. /\ fate[d] = "arriving"
      /\ current = 0 => \E p \in Slots : Idle(queues[p])
      /\ fate' = [e \in Deliveries |-> IF e = d THEN IF refused THEN "refused" ELSE "queued"
                                       ELSE IF ~refused THEN ShedFate(queue, pushed0.dropped, e)
                                       ELSE fate[e]]
      /\ recent' = IF refused THEN recent ELSE recent \cup {MessageOf[d]}
      /\ past' = [past EXCEPT !.headTaken = @ \/ (~refused /\ front # <<>> /\ queue.drain.at = "running")]
      /\ \E isRunActive \in IF reply.active \/ foreign THEN {TRUE}
                            ELSE IF InFlight THEN BOOLEAN ELSE {FALSE} :
           Becomes(IF isRunActive THEN next ELSE Schedule(next))
      /\ reply' = reply /\ foreign' = foreign
  BY DEF EnqueueFollowupRun, Enqueues
<1>2. /\ opened \in States /\ q \in Slots
      /\ current # 0 => q = current
      /\ current = 0 => queues[q] = NoQueue
      /\ \A p \in Slots : p # q => opened.queues[p] = queues[p]
      /\ queue \in Queue /\ queue.cap # 0
      /\ queue.items = queues[q].items /\ queue.dropped = queues[q].dropped /\ queue.drain = queues[q].drain
  BY <1>1, OpenedFacts
<1>3. queue = opened.queues[q] /\ q = opened.current
  OBVIOUS
<1>4. refused \in BOOLEAN /\ (skip => refused) /\ (~refused => ~(full /\ queue.dropPolicy = "new"))
  OBVIOUS
<1>. DEFINE n == IF refused THEN 0 ELSE DropCount(queue)
            shed == HeadOf(queues[q].items, n)
            old == queues[q].items
<1>5. /\ old \in Seq(Deliveries) /\ Len(old) \in Nat /\ queue.items = old
      /\ queue.cap \in Nat /\ queue.cap # 0
      /\ queue.dropped \in Seq(Deliveries) /\ queue.dropPolicy \in {"summarize", "old", "new"}
      /\ queues[q] \in Queue
  <2>1. queues[q] \in Queue
    BY <1>2, QueueFacts
  <2>. QED BY <1>2, <2>1, QueueFields DEF Queue
<1>6. n \in Nat /\ n <= Len(old) /\ (n > 0 => full) /\ (~refused => Len(old) - n + 1 <= queue.cap)
  <2>1. /\ DropCount(queue) \in Nat /\ DropCount(queue) <= Len(queue.items)
        /\ DropCount(queue) > 0 => Len(queue.items) >= queue.cap
        /\ Len(queue.items) - DropCount(queue) + 1 <= queue.cap
    BY <1>2, DropCountFacts
  <2>. QED BY <1>5, <2>1
<1>7. ~refused => /\ front \in Seq(Deliveries) /\ ToSet(front) = shed
                  /\ front = <<>> <=> shed = {}
  BY <1>5, <1>6, HeadFacts DEF Shed
<1>8. refused => shed = {}
  BY DEF HeadOf
<1>9. shed \subseteq Deliveries
  BY <1>5, <1>6 DEF HeadOf
<1>10. shed # {} => full
  BY <1>6 DEF HeadOf
<1>11. /\ next = (IF skip THEN opened
                  ELSE IF refused THEN [opened EXCEPT !.queues[q].lastRun = TRUE]
                  ELSE [opened EXCEPT !.queues[q] = [pushed0 EXCEPT !.lastRun = TRUE],
                                      !.callback = TRUE])
       /\ n = IF refused THEN 0 ELSE DropCount(queue)
  OBVIOUS
<1>. DEFINE lines == IF queue.dropPolicy = "summarize" /\ front # <<>>
                       THEN LastLines(queue.dropped \o front, queue.cap) ELSE queue.dropped
<1>17. ~refused => pushed0.dropped = lines
  BY <1>2 DEF Pushed, Queue
<1>. HIDE DEF opened, q, queue, skip, full, front, pushed0, refused, next, n, old
<1>18. ~refused => /\ lines \in Seq(Deliveries) /\ ToSet(lines) \subseteq ToSet(queue.dropped) \cup shed
                   /\ shed = {} => lines = queue.dropped
  BY <1>5, <1>7, LinesFacts
<1>. HIDE DEF lines
<1>12. /\ next \in States /\ next.current = q
       /\ \A p \in Slots : p # q => next.queues[p] = queues[p]
       /\ next.queues[q].drain = queues[q].drain /\ next.queues[q].cap = queue.cap
       /\ refused => next.queues[q].items = old /\ next.queues[q].dropped = queues[q].dropped
       /\ ~refused =>
            /\ next.queues[q].items = Append(SubSeq(old, n + 1, Len(old)), d)
            /\ next.queues[q].dropped = lines
  <2>1. CASE skip
    BY <1>2, <1>3, <1>4, <1>5, <1>11, <2>1
  <2>2. CASE ~skip /\ refused
    <3>1. PICK seen : seen = [queue EXCEPT !.lastRun = TRUE]
      OBVIOUS
    <3>2. /\ seen \in Queue /\ seen.items = queue.items /\ seen.dropped = queue.dropped
          /\ seen.drain = queue.drain /\ seen.cap = queue.cap
      BY <1>2, <3>1 DEF Queue
    <3>3. PICK s : s = opened
      OBVIOUS
    <3>4. next = [s EXCEPT !.queues = [s.queues EXCEPT ![q] = seen]]
      <4>1. next = [s EXCEPT !.queues[q].lastRun = TRUE]
        BY <1>11, <2>2, <3>3
      <4>2. s \in States /\ seen = [s.queues[q] EXCEPT !.lastRun = TRUE]
        BY <1>2, <1>3, <3>1, <3>3
      <4>. QED BY <4>1, <4>2 DEF States
    <3>5. /\ next \in States /\ next.current = s.current /\ next.queues[q] = seen
          /\ \A p \in Slots : p # q => next.queues[p] = s.queues[p]
      <4>1. next = With(s, q, seen)
        BY <3>4 DEF With
      <4>2. s \in States /\ q \in Slots /\ seen \in Queue
        BY <1>2, <1>2, <3>3, <3>2
      <4>3. /\ With(s, q, seen) \in States /\ With(s, q, seen).current = s.current
            /\ With(s, q, seen).queues[q] = seen
            /\ \A p \in Slots : p # q => With(s, q, seen).queues[p] = s.queues[p]
        BY ONLY <4>2, WithFacts
      <4>. QED BY <4>1, <4>3
    <3>. QED BY <1>2, <1>3, <1>5, <2>2, <3>2, <3>3, <3>5
  <2>3. CASE ~skip /\ ~refused
    <3>1. PICK items, dropped : /\ items = Append(SubSeq(old, n + 1, Len(old)), d)
                                /\ dropped = lines
      OBVIOUS
    <3>2. items \in Seq(Deliveries) /\ dropped \in Seq(Deliveries)
      BY <1>5, <1>6, <1>18, <2>3, <3>1, TakesFacts
    <3>3. PICK pushed : pushed = [queue EXCEPT !.items = items, !.dropped = dropped]
      OBVIOUS
    <3>4. /\ pushed \in Queue /\ pushed.items = items /\ pushed.dropped = dropped
          /\ pushed.drain = queue.drain /\ pushed.cap = queue.cap
      BY <1>2, <3>2, <3>3 DEF Queue
    <3>5. pushed = pushed0
      <4>1. n = DropCount(queue)
        BY <1>11, <2>3
      <4>2. queue.items = old
        BY <1>5
      <4>3. queue \in Queue
        BY <1>2
      <4>. QED BY <3>1, <3>3, <4>1, <4>2, <4>3 DEF Pushed, Queue, pushed0, front, lines
    <3>6. PICK seen : seen = [pushed EXCEPT !.lastRun = TRUE]
      OBVIOUS
    <3>7. /\ seen \in Queue /\ seen.items = items /\ seen.dropped = dropped
          /\ seen.drain = queue.drain /\ seen.cap = queue.cap
      BY <3>4, <3>6 DEF Queue
    <3>8. PICK s : s = [opened EXCEPT !.callback = TRUE]
      OBVIOUS
    <3>9. s \in States /\ s.current = q /\ s.queues = opened.queues
      BY <1>2, <1>3, <3>8 DEF States
    <3>10. next = [s EXCEPT !.queues = [s.queues EXCEPT ![q] = seen]]
      <4>1. next = [opened EXCEPT !.queues[q] = seen, !.callback = TRUE]
        BY <1>11, <2>3, <3>5, <3>6
      <4>. QED BY <1>2, <3>8, <3>9, <4>1 DEF States
    <3>11. /\ next \in States /\ next.current = s.current /\ next.queues[q] = seen
           /\ \A p \in Slots : p # q => next.queues[p] = s.queues[p]
      <4>1. next = With(s, q, seen)
        BY <3>10 DEF With
      <4>2. s \in States /\ q \in Slots /\ seen \in Queue
        BY <1>2, <3>9, <3>7
      <4>3. /\ With(s, q, seen) \in States /\ With(s, q, seen).current = s.current
            /\ With(s, q, seen).queues[q] = seen
            /\ \A p \in Slots : p # q => With(s, q, seen).queues[p] = s.queues[p]
        BY ONLY <4>2, WithFacts
      <4>. QED BY <4>1, <4>3
    <3>12. queue.drain = queues[q].drain /\ \A p \in Slots : p # q => s.queues[p] = queues[p]
      BY <1>2, <3>9
    <3>. QED BY <2>3, <3>1, <3>7, <3>9, <3>11, <3>12
  <2>. QED BY <1>4, <2>1, <2>2, <2>3
<1>13. ~refused => Takes(old, next.queues[q].items, n, d)
  BY <1>5, <1>6, <1>12, TakesFacts
<1>14. /\ fate'[d] = (IF refused THEN "refused" ELSE "queued")
       /\ \A e \in Deliveries : e # d =>
            fate'[e] = IF refused THEN fate[e] ELSE ShedFate(queue, lines, e)
  <2>1. \A e \in Deliveries :
          fate'[e] = IF e = d THEN IF refused THEN "refused" ELSE "queued"
                     ELSE IF ~refused THEN ShedFate(queue, pushed0.dropped, e) ELSE fate[e]
    BY <1>1
  <2>. QED BY <1>17, <2>1
<1>15. fate' \in [Deliveries -> Fates]
  <2>1. fate \in [Deliveries -> Fates]
    BY QueueFacts DEF QueueInv, FateTypes
  <2>2. \A e \in Deliveries : ShedFate(queue, lines, e) \in Fates
    BY <2>1 DEF ShedFate, Fates
  <2>3. {"refused", "queued"} \subseteq Fates
    BY DEF Fates
  <2>4. \A e \in Deliveries : fate'[e] \in Fates
    BY <1>14, <2>1, <2>2, <2>3
  <2>5. fate' = [e \in Deliveries |-> fate'[e]]
    BY <1>1
  <2>. QED BY <2>4, <2>5
<1>16. ASSUME NEW e \in Deliveries, e # d
       PROVE  \/ /\ fate'[e] = fate[e] /\ (e \in shed => fate[e] \notin {"queued", "failed"})
                 /\ fate[e] = "summarized" /\ e \in ToSet(queues[q].dropped) => e \in ToSet(next.queues[q].dropped)
              \/ fate[e] = "summarized" /\ fate'[e] = "dropped"
              \/ /\ e \in shed /\ fate[e] \in {"queued", "failed"}
                 /\ \/ fate'[e] = "dropped"
                    \/ fate'[e] = "summarized" /\ e \in ToSet(next.queues[q].dropped)
  <2>1. CASE refused
    BY <1>8, <1>12, <1>14, <1>16, <2>1
  <2>2. CASE ~refused
    <3>1. fate'[e] = ShedFate(queue, lines, e) /\ next.queues[q].dropped = lines
      BY <1>12, <1>14, <1>16, <2>2
    <3>2. shed = ToSet(Shed(queue)) /\ queues[q].dropped = queue.dropped
      BY <1>2, <1>7, <2>2 DEF front
    <3>. QED BY <3>1, <3>2 DEF ShedFate
  <2>. QED BY <2>1, <2>2
<1>22. /\ past' \in Pasts /\ past'.orphaned = past.orphaned /\ past'.leftIdle = past.leftIdle
       /\ ~past'.headTaken => ~past.headTaken /\ (shed = {} \/ ~Running(queues[q]))
  <2>1. PICK taken : taken = (~refused /\ front # <<>> /\ queue.drain.at = "running")
    OBVIOUS
  <2>2. past \in Pasts
    BY QueueFacts DEF OtherTypes
  <2>3. past' = [past EXCEPT !.headTaken = past.headTaken \/ taken]
    BY <1>1, <2>1, <2>2 DEF Pasts
  <2>4. shed = {} \/ ~Running(queues[q]) \/ taken
    BY <1>2, <1>7, <1>8, <2>1 DEF Running
  <2>5. taken \in BOOLEAN
    BY <2>1
  <2>. QED BY <2>2, <2>3, <2>4, <2>5 DEF Pasts
<1>23. recent' \subseteq {MessageOf[e] : e \in Deliveries}
  BY <1>1, QueueFacts DEF OtherTypes
<1>19. PICK t : /\ Becomes(t)
                /\ t = Schedule(next) \/ (t = next /\ (reply.active \/ foreign \/ InFlight))
  BY <1>1
<1>20. t \in States /\ (Moved(next, t, q) \/ (t = next /\ (reply.active \/ foreign \/ InFlight)))
  BY <1>2, <1>12, <1>19, ScheduleMoves, FollowupAssumption
<1>21. Arrives(d, q, ~refused, n, shed, next, t)
  <2>1. refused => n = 0 /\ next.queues[q].items = queues[q].items
    BY <1>11, <1>12 DEF old
  <2>2. /\ ToSet(next.queues[q].dropped) \subseteq ToSet(queues[q].dropped) \cup shed
        /\ shed = {} => next.queues[q].dropped = queues[q].dropped
    BY <1>2, <1>12, <1>18
  <2>3. n <= Len(queues[q].items) /\ (~refused => Takes(queues[q].items, next.queues[q].items, n, d))
    BY <1>6, <1>13 DEF old
  <2>4. fate'[d] = IF ~refused THEN "queued" ELSE "refused"
    BY <1>14
  <2>5. ~refused => Len(next.queues[q].items) <= next.queues[q].cap
    BY <1>6, <1>12, <1>13 DEF Takes
  <2>. QED BY <1>1, <1>2, <1>4, <1>6, <1>12, <1>15, <1>16, <1>22, <1>23, <1>19, <1>20, <2>1, <2>2, <2>3, <2>4, <2>5
           DEF Arrives
<1>. QED BY <1>1, <1>21

\* So it keeps the invariant.
LEMMA EnqueueKeeps ==
  ASSUME IInv, NEW d \in Deliveries, NEW settings \in Settings, EnqueueFollowupRun(d, settings)
  PROVE  IInv'
BY EnqueueArrives, ArrivalKeeps

--------------------------------------------------------------------------------
(* The invariant of the specification.                                      *)

\* At first there is no queue, and nothing has arrived.
LEMMA InitIInv == Init => IInv
<1>. SUFFICES ASSUME Init PROVE IInv
  OBVIOUS
<1>1. /\ queues = [q \in Slots |-> NoQueue] /\ current = 0 /\ callback = FALSE /\ recent = {}
      /\ reply = [active |-> FALSE, ended |-> 0] /\ foreign = FALSE
      /\ fate = [d \in Deliveries |-> "new"]
      /\ past = [headTaken |-> FALSE, orphaned |-> FALSE, leftIdle |-> FALSE, failures |-> 0]
      /\ MaxFailures \in Nat
  BY FollowupAssumption DEF Init
<1>2. /\ queues \in [Slots -> Queue]
      /\ \A q \in Slots : /\ queues[q] = NoQueue /\ queues[q].items = <<>> /\ queues[q].dropped = <<>>
                          /\ Idle(queues[q]) /\ ~Running(queues[q]) /\ Handled(queues[q]) = {}
                          /\ queues[q].drain.told = {}
  BY <1>1, NoQueueFacts DEF Idle, Running, Handled
<1>3. fate \in [Deliveries -> Fates] /\ \A d \in Deliveries : fate[d] = "new"
  BY <1>1 DEF Fates
<1>4. OtherTypes
  <2>1. past \in Pasts
    BY <1>1 DEF Pasts
  <2>2. reply \in Replies
    BY <1>1 DEF Replies
  <2>. QED BY <1>1, <2>1, <2>2 DEF OtherTypes
<1>5. ToSet(<<>>) = {} /\ Len(<<>>) = 0 /\ Distinct(<<>>)
  BY DEF ToSet, Distinct
<1>6. Sound(queues, fate)
  BY <1>2, <1>5 DEF Sound, OnePlace, OneRun, FateFits
<1>7. QueueInv
  BY <1>1, <1>2, <1>3, <1>6
     DEF QueueInv, QueueTypes, FateTypes, GoneAreEmpty, DrainsAreRegistered, NoQueueLeftIdle,
         WaitsInRegistered, RunsTakeTheHead, OnlyRunsTell
<1>. QED BY <1>4, <1>7, Parts

\* A step that changes nothing.
LEMMA StutterKeeps ==
  ASSUME IInv, UNCHANGED vars
  PROVE  IInv'
<1>1. QueueInv /\ OtherTypes
  BY QueueFacts
<1>2. /\ queues' = queues /\ current' = current /\ callback' = callback /\ recent' = recent
      /\ reply' = reply /\ foreign' = foreign /\ fate' = fate /\ past' = past
  BY DEF vars
<1>3. OtherTypes' /\ NoQueueLeftIdle'
  BY <1>1, <1>2 DEF QueueInv, OtherTypes, NoQueueLeftIdle
<1>. QED BY <1>2, <1>3, QueuesStay, NextParts

\* Every step keeps the invariant.
LEMMA NextIInv ==
  ASSUME IInv, [Next]_vars
  PROVE  IInv'
<1>1. CASE \E d \in Deliveries : MessageArrives(d)
  BY <1>1, MessageArrivesKeeps
<1>2. CASE \E d \in Deliveries, settings \in Settings : EnqueueFollowupRun(d, settings)
  BY <1>2, EnqueueKeeps
<1>3. CASE (\E m \in recent : MessageIdExpires(m)) \/ ReplyRunStarts \/ ReplyRunEnds \/ ForeignRunToggles
  BY <1>3, RunsKeep
<1>4. CASE ClearSessionQueues
  BY <1>4, ClearKeeps
<1>5. CASE FinalizeWithFollowup
  BY <1>5, FinalizeKeeps
<1>6. ASSUME NEW q \in Slots, DrainStep(q) \/ RunFails(q)
      PROVE  IInv'
  <2>1. CASE CheckRoutes(q) \/ FindNothing(q) \/ LeaveLoop(q)
    BY <2>1, BetweenRunsKeep
  <2>2. CASE RunBatch(q) /\ queues[q].items = <<>> /\ ~queues[q].lastRun
    BY <2>2, BetweenRunsKeep
  <2>3. CASE RunNextItem(q) \/ RunSummary(q)
    BY <2>3, StartsKeep
  <2>4. CASE RunBatch(q) /\ ~(queues[q].items = <<>> /\ ~queues[q].lastRun)
    BY <2>4, StartsKeep
  <2>5. CASE RunSucceeds(q)
    BY <2>5, RunSucceedsKeeps
  <2>6. CASE RunFails(q)
    BY <2>6, RunFailsKeeps
  <2>. QED BY <1>6, <2>1, <2>2, <2>3, <2>4, <2>5, <2>6 DEF DrainStep
<1>7. CASE UNCHANGED vars
  BY <1>7, StutterKeeps
<1>. QED BY <1>1, <1>2, <1>3, <1>4, <1>5, <1>6, <1>7 DEF Next

\* The invariant holds in every reachable state.
LEMMA Invariance == Spec => []IInv
<1>1. IInv /\ [Next]_vars => IInv'
  BY NextIInv
<1>. QED BY <1>1, InitIInv, PTL DEF Spec

--------------------------------------------------------------------------------
(* What the follow-up queue promises.                                       *)

\* Every variable keeps its type, for any deliveries, settings and queue objects.
THEOREM TypeCorrect == Spec => []TypeOK
<1>1. IInv => TypeOK
  BY DEF IInv
<1>. QED BY <1>1, Invariance, PTL

\* An accepted message that has had no answer waits in a queue that somebody drains, or was
\* dropped from one, until a run ends on a queue whose head was taken under it, or a clear
\* leaves a drain behind (drain.ts, queue/cleanup.ts).
THEOREM ForgottenOnly == Spec => []ForgottenOnlyByKnownCauses
<1>1. ASSUME IInv
      PROVE  ForgottenOnlyByKnownCauses
  <2>1. WaitsInRegistered /\ current \in Slots \cup {0} /\ 0 \notin Slots
    BY <1>1, QueueFacts DEF QueueInv
  <2>2. SUFFICES ASSUME ~past.headTaken, ~past.orphaned, NEW d \in Deliveries
                 PROVE  ~Forgotten(d)
    BY DEF ForgottenOnlyByKnownCauses, NothingForgotten
  <2>3. /\ fate[d] \in {"queued", "failed"} => current \in Slots /\ d \in ToSet(queues[current].items)
        /\ fate[d] = "summarized" => current \in Slots /\ d \in ToSet(queues[current].dropped)
    BY <2>1, <2>2 DEF WaitsInRegistered, Orderly
  <2>4. Live(current)
    BY DEF Live
  <2>. QED BY <2>3, <2>4 DEF Forgotten
<1>. QED BY <1>1, Invariance, PTL

\* A registered queue with work has a drain, or a run that will look at it, and no two drains
\* run in the session, but for the causes that the definitions name (agent-runner.ts:246).
THEOREM OneDrains == Spec => []DrainedByOne
<1>1. ASSUME IInv
      PROVE  DrainedByOne
  <2>1. NoQueueLeftIdle /\ DrainsAreRegistered
    BY <1>1 DEF IInv
  <2>2. ASSUME ~past.orphaned
        PROVE  Cardinality({q \in Slots : ~Idle(queues[q])}) <= 1
    <3>1. PICK D, c : D = {q \in Slots : ~Idle(queues[q])} /\ c = current
      OBVIOUS
    <3>2. D \subseteq {c}
      BY <2>1, <2>2, <3>1 DEF DrainsAreRegistered
    <3>3. IsFiniteSet({c}) /\ Cardinality({c}) = 1
      BY FS_Singleton
    <3>4. Cardinality(D) <= Cardinality({c})
      BY <3>2, <3>3, FS_Subset
    <3>. QED BY <3>1, <3>3, <3>4
  <2>. QED BY <2>1, <2>2 DEF DrainedByOne, OneDrain
<1>. QED BY <1>1, Invariance, PTL

\* No step changes the fate of a message whose run succeeded, or that was cleared, or told of in
\* a summary: a run that ends concerns only messages that were running.
LEMMA FatesAreFinal ==
  ASSUME IInv, Next, NEW d \in Deliveries, fate[d] \in {"ran", "cleared", "told"}
  PROVE  fate'[d] = fate[d]
<1>1. /\ fate \in [Deliveries -> Fates]
      /\ \A q \in Slots : d \notin ToSet(queues[q].items) /\ d \notin Handled(queues[q])
  BY PlaceFacts, QueueFacts DEF QueueInv, FateTypes
<1>2. ASSUME fate' = fate  PROVE fate'[d] = fate[d]
  BY <1>2
<1>3. CASE \E e \in Deliveries : MessageArrives(e)
  BY <1>1, <1>3 DEF MessageArrives
<1>4. ASSUME NEW e \in Deliveries, NEW settings \in Settings, EnqueueFollowupRun(e, settings)
      PROVE  fate'[d] = fate[d]
  <2>1. \E refused \in BOOLEAN : \E shed, queue :
          /\ fate[e] = "arriving"
          /\ fate'[d] = IF d = e THEN IF refused THEN "refused" ELSE "queued"
                        ELSE IF ~refused THEN ShedFate(queue, shed, d) ELSE fate[d]
    BY <1>4 DEF EnqueueFollowupRun, Enqueues
  <2>. QED BY <2>1 DEF ShedFate
<1>5. CASE ClearSessionQueues
  BY <1>1, <1>5 DEF ClearSessionQueues, Clears
<1>6. ASSUME NEW q \in Slots, NEW drain, NEW handled, Launch(q, drain, handled), d \notin handled
      PROVE  fate'[d] = fate[d]
  BY <1>6 DEF Launch
<1>7. ASSUME NEW q \in Slots, DrainStep(q) \/ RunFails(q)
      PROVE  fate'[d] = fate[d]
  <2>1. queues[q] \in Queue
    BY QueueFacts
  <2>2. CASE CheckRoutes(q) \/ FindNothing(q) \/ LeaveLoop(q)
    BY <2>2 DEF CheckRoutes, FindNothing, LeaveLoop, Moves
  <2>3. CASE RunNextItem(q)
    <3>1. queues[q].items # <<>>
      BY <2>3 DEF RunNextItem
    <3>2. d \notin {Head(queues[q].items)}
      <4>1. 1 \in 1..Len(queues[q].items) /\ Head(queues[q].items) = queues[q].items[1]
        BY <2>1, <3>1, QueueFields
      <4>. QED BY <1>1, <2>1, <4>1, QueueFields
    <3>. QED BY <1>6, <2>3, <3>2 DEF RunNextItem
  <2>4. CASE RunSummary(q)
    BY <1>6, <2>4 DEF RunSummary
  <2>5. CASE RunBatch(q)
    BY <1>1, <1>6, <2>5 DEF RunBatch, Moves
  <2>6. CASE RunSucceeds(q) \/ RunFails(q)
    <3>1. ~(queues[q].drain.run # "summary" /\ d \in ToSet(queues[q].drain.batch))
      BY <1>1, <2>6 DEF RunSucceeds, RunFails, Handled, Running
    <3>2. CASE RunSucceeds(q)
      BY <3>1, <3>2 DEF RunSucceeds
    <3>3. CASE RunFails(q)
      BY <3>1, <3>3 DEF RunFails
    <3>. QED BY <2>6, <3>2, <3>3
  <2>. QED BY <1>7, <2>2, <2>3, <2>4, <2>5, <2>6 DEF DrainStep
<1>8. CASE \/ \E m \in recent : MessageIdExpires(m)
           \/ ReplyRunStarts \/ ReplyRunEnds \/ FinalizeWithFollowup \/ ForeignRunToggles
  BY <1>8 DEF MessageIdExpires, ReplyRunStarts, ReplyRunEnds, FinalizeWithFollowup, ForeignRunToggles,
              RunsUnchanged
<1>. QED BY <1>3, <1>4, <1>5, <1>7, <1>8 DEF Next

\* So a message is answered once, and a cleared one not at all, though a drain had it in sight
\* before its await (FinalFates).
THEOREM FatesStay == Spec => FinalFates
<1>. DEFINE A == \A d \in Deliveries : fate[d] \in {"ran", "cleared", "told"} => fate'[d] = fate[d]
<1>1. ASSUME IInv, [Next]_vars
      PROVE  [A]_vars
  BY <1>1, FatesAreFinal
<1>. QED BY <1>1, Invariance, PTL DEF Spec, FinalFates

\* A message is accepted only as an arrival, and the queue that it is in then is within its cap.
LEMMA AcceptedFits ==
  ASSUME IInv, Next, NEW d \in Deliveries, fate[d] = "arriving", fate'[d] = "queued"
  PROVE  Len(queues'[current'].items) <= queues'[current'].cap
<1>1. /\ fate \in [Deliveries -> Fates]
      /\ \A q \in Slots : d \notin ToSet(queues[q].items) /\ d \notin Handled(queues[q])
  BY PlaceFacts, QueueFacts DEF QueueInv, FateTypes
<1>2. PICK settings \in Settings : EnqueueFollowupRun(d, settings)
  <2>1. fate'[d] # fate[d]
    OBVIOUS
  <2>2. ~\E e \in Deliveries : MessageArrives(e)
    BY <1>1 DEF MessageArrives
  <2>3. ASSUME NEW e \in Deliveries, NEW settings \in Settings, EnqueueFollowupRun(e, settings), e # d
        PROVE  FALSE
    <3>1. \E refused \in BOOLEAN : \E shed, queue :
            fate'[d] = IF ~refused THEN ShedFate(queue, shed, d) ELSE fate[d]
      BY <2>3 DEF EnqueueFollowupRun, Enqueues
    <3>. QED BY <3>1 DEF ShedFate
  <2>4. ~ClearSessionQueues
    BY <1>1 DEF ClearSessionQueues, Clears
  <2>5. ASSUME NEW q \in Slots, DrainStep(q) \/ RunFails(q)
        PROVE  FALSE
    <3>1. ~(CheckRoutes(q) \/ FindNothing(q) \/ LeaveLoop(q))
      BY <2>1 DEF CheckRoutes, FindNothing, LeaveLoop, Moves
    <3>2. ~(RunNextItem(q) \/ RunSummary(q))
      BY DEF RunNextItem, RunSummary, Launch
    <3>3. ~RunBatch(q)
      BY DEF RunBatch, Launch, Moves
    <3>4. ~(RunSucceeds(q) \/ RunFails(q))
      BY DEF RunSucceeds, RunFails
    <3>. QED BY <2>5, <3>1, <3>2, <3>3, <3>4 DEF DrainStep
  <2>6. ~(\/ \E m \in recent : MessageIdExpires(m)
          \/ ReplyRunStarts \/ ReplyRunEnds \/ FinalizeWithFollowup \/ ForeignRunToggles)
    BY <2>1 DEF MessageIdExpires, ReplyRunStarts, ReplyRunEnds, FinalizeWithFollowup, ForeignRunToggles,
                RunsUnchanged
  <2>. QED BY <2>2, <2>3, <2>4, <2>5, <2>6 DEF Next
<1>3. PICK q, accepted, n, shed, s, t : Arrives(d, q, accepted, n, shed, s, t)
  BY <1>2, EnqueueArrives
<1>4. /\ q \in Slots /\ n \in Nat /\ n <= Len(queues[q].items)
      /\ s \in States /\ t \in States /\ Becomes(t) /\ s.current = q
      /\ Moved(s, t, q) \/ t = s
      /\ accepted
      /\ Takes(queues[q].items, s.queues[q].items, n, d)
      /\ Len(s.queues[q].items) <= s.queues[q].cap
  BY <1>3 DEF Arrives
<1>5. s.queues[q].items # <<>>
  <2>1. Len(s.queues[q].items) = Len(queues[q].items) - n + 1 /\ Len(queues[q].items) \in Nat
    BY <1>4, QueueFacts, QueueFields DEF Takes
  <2>. QED BY <1>4, <2>1
<1>6. /\ t.current = q /\ t.queues[q].items = s.queues[q].items /\ t.queues[q].cap = s.queues[q].cap
  BY <1>4, <1>5 DEF Moved, Drained
<1>7. current' = q /\ queues'[q] = t.queues[q]
  BY <1>4, <1>6, BecomesFacts
<1>. QED BY <1>4, <1>6, <1>7

\* An accepted message never leaves more than cap of them in the queue, even right after the cap
\* was lowered (queue/enqueue.ts and applyQueueDropPolicy).
THEOREM AcceptedFitsTheCap == Spec => AcceptedWithinCap
<1>. DEFINE A == \A d \in Deliveries : fate[d] = "arriving" /\ fate'[d] = "queued" =>
                   Len(queues'[current'].items) <= queues'[current'].cap
<1>1. ASSUME IInv, [Next]_vars
      PROVE  [A]_vars
  BY <1>1, AcceptedFits
<1>. QED BY <1>1, Invariance, PTL DEF Spec, AcceptedWithinCap
================================================================================
