------------------------------ MODULE FollowupQueue ------------------------------
(***************************************************************************)
(* openclaw-zero-token/src/auto-reply/reply/queue: what becomes of the     *)
(* messages that reach a session while an agent run is active.  They wait  *)
(* in the follow-up queue of the session; a drain turns them into          *)
(* follow-up runs, one at a time or all together ("collect").              *)
(*                                                                         *)
(* One session key is modelled.  A queue object outlives its entry in      *)
(* FOLLOWUP_QUEUES when it is cleared while its drain still awaits         *)
(* something, so several objects can be alive at once.  Every await of the *)
(* drain is a point where enqueues, clears and other drains come in.       *)
(***************************************************************************)
EXTENDS Integers, Sequences, FiniteSets, SequencesExt

CONSTANTS
  Deliveries,   \* arrivals of inbound messages; a message may be delivered again
  MessageOf,    \* the message id of each delivery
  RouteOf,      \* its route key, "cross" if it is not routable, "" if it has no origin
  Settings,     \* resolved queue settings: records [mode, cap, dropPolicy]
  Slots,        \* bound: queue objects alive at once
  MayClear,     \* whether /stop or a session reset clears the queue
  ForeignRuns,  \* whether runs that are not replies use the session (gateway agent calls)
  MaxFailures   \* bound: follow-up runs that throw

ASSUME FollowupAssumption ==
  /\ IsFiniteSet(Deliveries)
  /\ DOMAIN MessageOf = Deliveries
  /\ DOMAIN RouteOf = Deliveries
  /\ Settings \subseteq [mode : {"followup", "collect"}, cap : Nat \ {0},
                         dropPolicy : {"summarize", "old", "new"}]
  /\ Slots \subseteq Nat \ {0}
  /\ {MayClear, ForeignRuns} \subseteq BOOLEAN
  /\ MaxFailures \in Nat

VARIABLES
  queues,     \* the queue objects
  current,    \* FOLLOWUP_QUEUES.get(key), or 0
  callback,   \* whether FOLLOWUP_RUN_CALLBACKS has the key
  recent,     \* RECENT_QUEUE_MESSAGE_IDS
  reply,      \* reply runs: one may be active, some have ended but not yet finalized
  foreign,    \* another kind of run is active in the session
  fate,       \* history: what happened to each delivery
  past        \* history: events that a property excuses

vars == <<queues, current, callback, recent, reply, foreign, fate, past>>

Fates == {"new", "arriving", "refused", "queued", "running", "ran", "failed",
          "dropped", "summarized", "told", "cleared"}

\* Where the drain of a queue object is: between drains, in waitForQueueDebounce, past the
\* cross-channel check, leaving the loop after a break, or awaiting a follow-up run.
Places == {"idle", "debounce", "checked", "breaking", "running"}
Runs == {"none", "item", "batch", "summary"}

\* A queue has summaryLines as `dropped`: droppedCount is positive just when there are any.
NoDrain == [at |-> "idle", individual |-> FALSE, run |-> "none", batch |-> <<>>, told |-> {}]
NoQueue == [items |-> <<>>, dropped |-> <<>>, lastRun |-> FALSE, drain |-> NoDrain,
            mode |-> "collect", cap |-> 0, dropPolicy |-> "new"]

TypeOK ==
  /\ queues \in [Slots -> [items : Seq(Deliveries), dropped : Seq(Deliveries),
                           lastRun : BOOLEAN, mode : {"followup", "collect"}, cap : Nat,
                           dropPolicy : {"summarize", "old", "new"},
                           drain : [at : Places, individual : BOOLEAN, run : Runs,
                                    batch : Seq(Deliveries), told : SUBSET Deliveries]]]
  /\ current \in Slots \cup {0}
  /\ callback \in BOOLEAN
  /\ recent \subseteq {MessageOf[d] : d \in Deliveries}
  /\ reply \in [active : BOOLEAN, ended : {0, 1}]
  /\ foreign \in BOOLEAN
  /\ fate \in [Deliveries -> Fates]
  /\ past \in [headTaken : BOOLEAN, orphaned : BOOLEAN, leftIdle : BOOLEAN, failures : 0..MaxFailures]

Init ==
  /\ queues = [q \in Slots |-> NoQueue]
  /\ current = 0
  /\ callback = FALSE
  /\ recent = {}
  /\ reply = [active |-> FALSE, ended |-> 0]
  /\ foreign = FALSE
  /\ fate = [d \in Deliveries |-> "new"]
  /\ past = [headTaken |-> FALSE, orphaned |-> FALSE, leftIdle |-> FALSE, failures |-> 0]

--------------------------------------------------------------------------------
(* The drain loop, as functions of the queue state.                         *)

QueueState == [queues |-> queues, current |-> current, callback |-> callback]

Idle(queue) == queue.drain.at = "idle"
Drained(queue) == queue.items = <<>> /\ queue.dropped = <<>>

\* The drain of q goes on at `place`, with no run in flight.
At(s, q, place) ==
  [s EXCEPT !.queues[q].drain = [@ EXCEPT !.at = place, !.run = "none", !.batch = <<>>, !.told = {}]]

\* scheduleFollowupDrain runs to its first await.  If there is nothing to do, that is the
\* end of the drain, which deletes the queue.
Schedule(s) ==
  IF s.current = 0 THEN s
  ELSE IF ~Idle(s.queues[s.current]) THEN s
  ELSE IF Drained(s.queues[s.current]) THEN [s EXCEPT !.current = 0, !.callback = FALSE]
  ELSE [At(s, s.current, "debounce") EXCEPT !.callback = TRUE]

\* Mutant: the queue is deleted whatever is left in it.  Breaks ForgottenOnlyByKnownCauses.
FinishDeleting(s, q) == [s EXCEPT !.queues[q].drain = NoDrain, !.current = 0, !.callback = FALSE]

\* Mutant: a drain that failed is not scheduled again.  Breaks QueuedGetsTurnOrKnownCause.
FinishWithoutRestart(s, q) ==
  LET stopped == [s EXCEPT !.queues[q].drain = NoDrain] IN
  IF Drained(s.queues[q]) THEN [stopped EXCEPT !.current = 0, !.callback = FALSE] ELSE stopped

\* The finally block.  The entry it deletes is the one that is registered now.
Finish(s, q) ==
  LET stopped == [s EXCEPT !.queues[q].drain = NoDrain] IN
  IF Drained(s.queues[q]) THEN [stopped EXCEPT !.current = 0, !.callback = FALSE]
                          ELSE Schedule(stopped)

\* The condition of the while loop.
GoRound(s, q) == IF Drained(s.queues[q]) THEN Finish(s, q) ELSE At(s, q, "debounce")

\* The state becomes s; queue objects that nothing refers to any more are gone.
Becomes(s) ==
  /\ queues' = [q \in Slots |-> IF q = s.current \/ ~Idle(s.queues[q]) THEN s.queues[q] ELSE NoQueue]
  /\ current' = s.current
  /\ callback' = s.callback

--------------------------------------------------------------------------------
(* Enqueueing.                                                              *)

InFlight == \E q \in Slots : queues[q].drain.at = "running"

\* A message comes in while isEmbeddedPiRunActive; what follows is asynchronous.
MessageArrives(d) ==
  /\ fate[d] = "new"
  /\ reply.active \/ foreign \/ InFlight
  /\ fate' = [fate EXCEPT ![d] = "arriving"]
  /\ UNCHANGED <<queues, current, callback, recent, reply, foreign, past>>

WithSettings(s, q, settings) ==
  [s EXCEPT !.current = q,
            !.queues[q] = [@ EXCEPT !.mode = settings.mode, !.cap = settings.cap,
                                    !.dropPolicy = settings.dropPolicy]]

FreeSlot(s) == CHOOSE free \in Slots : Idle(s.queues[free]) /\ free # s.current

\* getFollowupQueue: the registered object with these settings, or a new one.
Opened(s, settings) ==
  WithSettings(s, IF s.current # 0 THEN s.current ELSE FreeSlot(s), settings)

AlreadyQueued(queue, d) == \E e \in ToSet(queue.items) : MessageOf[e] = MessageOf[d]

\* Mutant: room for one is made even if the cap was lowered.  Breaks AcceptedWithinCap.
DropOne(queue) == IF Len(queue.items) < queue.cap THEN 0 ELSE 1

\* applyQueueDropPolicy, when it makes room at the head: how many items it splices off.
DropCount(queue) == IF Len(queue.items) < queue.cap THEN 0 ELSE Len(queue.items) - queue.cap + 1

Shed(queue) == SubSeq(queue.items, 1, DropCount(queue))

\* Only the last cap lines are kept; of the older ones remains their number.
LastLines(lines, cap) == SubSeq(lines, IF Len(lines) > cap THEN Len(lines) - cap + 1 ELSE 1, Len(lines))

Pushed(queue, d) ==
  [queue EXCEPT !.items = Append(SubSeq(@, DropCount(queue) + 1, Len(@)), d),
                !.dropped = IF queue.dropPolicy = "summarize" /\ Shed(queue) # <<>>
                              THEN LastLines(@ \o Shed(queue), queue.cap) ELSE @]

\* What an overflow makes of a message: one that still waits for its turn is shed, and has a
\* line in the summary or none; one whose line is taken out is shed without one.
ShedFate(queue, lines, e) ==
  IF \/ fate[e] \in {"queued", "failed"} /\ e \in ToSet(Shed(queue))
     \/ fate[e] = "summarized" /\ e \in ToSet(queue.dropped)
    THEN IF e \in ToSet(lines) THEN "summarized" ELSE "dropped"
    ELSE fate[e]

Enqueues(d, settings, looksAgain) ==
  /\ fate[d] = "arriving"
  /\ current = 0 => \E q \in Slots : Idle(queues[q])
  /\ LET opened == Opened(QueueState, settings)
         q == opened.current
         queue == opened.queues[q]
         skip == MessageOf[d] \in recent \/ AlreadyQueued(queue, d)
         full == Len(queue.items) >= queue.cap
         pushed == Pushed(queue, d)
         refused == skip \/ (full /\ queue.dropPolicy = "new")
         next == IF skip THEN opened
                 ELSE IF refused THEN [opened EXCEPT !.queues[q].lastRun = TRUE]
                 ELSE [opened EXCEPT !.queues[q] = [pushed EXCEPT !.lastRun = TRUE],
                                     !.callback = TRUE]
     IN
     /\ fate' = [e \in Deliveries |-> IF e = d THEN IF refused THEN "refused" ELSE "queued"
                                      ELSE IF ~refused THEN ShedFate(queue, pushed.dropped, e)
                                      ELSE fate[e]]
     /\ recent' = IF refused THEN recent ELSE recent \cup {MessageOf[d]}
     /\ past' = [past EXCEPT !.headTaken = @ \/ (~refused /\ Shed(queue) # <<>> /\ queue.drain.at = "running")]
     /\ \E isRunActive \in IF reply.active \/ foreign THEN {TRUE}
                           ELSE IF InFlight THEN BOOLEAN ELSE {FALSE} :
          Becomes(IF isRunActive \/ ~looksAgain THEN next ELSE Schedule(next))
  /\ UNCHANGED <<reply, foreign>>

\* Mutant: the snapshot of the active run is trusted.  Breaks DrainedByOne.
EnqueueOnly(d, settings) == Enqueues(d, settings, FALSE)

\* enqueueFollowupRun with restartIfIdle = false, then the second look at the run that was
\* active: if it has ended meanwhile, finalizeWithFollowup schedules a drain.  A follow-up
\* run in flight counts as active once it has its session lane.
EnqueueFollowupRun(d, settings) == Enqueues(d, settings, TRUE)

\* The time to live of a remembered message id runs out.
MessageIdExpires(m) ==
  /\ m \in recent
  /\ recent' = recent \ {m}
  /\ UNCHANGED <<queues, current, callback, reply, foreign, fate, past>>

Clears(emptied, entry) ==
  /\ MayClear
  /\ current # 0
  /\ LET queue == queues[current]
         waiting == ToSet(queue.items) \cup ToSet(queue.dropped)
     IN
     /\ fate' = [d \in Deliveries |-> IF d \in waiting /\ fate[d] \in {"queued", "failed", "summarized"}
                                      THEN "cleared" ELSE fate[d]]
     /\ past' = [past EXCEPT !.orphaned = @ \/ ~Idle(queue)]
     /\ Becomes([queues |-> [queues EXCEPT ![current] = emptied], current |-> entry,
                 callback |-> FALSE])
  /\ UNCHANGED <<recent, reply, foreign>>

Emptied(queue) == [queue EXCEPT !.items = <<>>, !.dropped = <<>>, !.lastRun = FALSE]

\* Mutant: the entry is deleted but its drain keeps the items.  Breaks FinalFates.
ClearEntryOnly == Clears(queues[current], 0)

\* Mutant: the entry is blanked, not deleted.  Breaks TypeOK.
ClearToUndefined == Clears(Emptied(queues[current]), -1)

\* clearSessionQueues; the drain of the object, if it has one, goes on.
ClearSessionQueues == Clears(Emptied(queues[current]), 0)

--------------------------------------------------------------------------------
(* The drain.                                                               *)

Crosses(items) ==
  LET routes == {RouteOf[d] : d \in ToSet(items)} IN
  "cross" \in routes \/ Cardinality(routes) > 1

Collects(queue) == queue.mode = "collect" /\ ~queue.drain.individual /\ ~Crosses(queue.items)

Summary(queue) == IF queue.dropPolicy = "summarize" THEN ToSet(queue.dropped) ELSE {}

DrainUnchanged == UNCHANGED <<recent, reply, foreign>>

\* A follow-up run starts: it handles the messages of `handled` and tells about those of `told`.
Launch(q, drain, handled) ==
  /\ Becomes([QueueState EXCEPT !.queues[q].drain = [drain EXCEPT !.at = "running"]])
  /\ fate' = [d \in Deliveries |-> IF d \in handled THEN "running" ELSE fate[d]]
  /\ UNCHANGED past
  /\ DrainUnchanged

Moves(s) == Becomes(s) /\ UNCHANGED <<fate, past>> /\ DrainUnchanged

\* Each of the next four is what follows waitForQueueDebounce.  The items are all for one
\* route, so far; the loop awaits drainCollectQueueStep before it takes them.
CheckRoutes(q) ==
  /\ queues[q].drain.at = "debounce"
  /\ Collects(queues[q])
  /\ Moves(At(QueueState, q, "checked"))

\* drainNextQueueItem finds nothing and the loop breaks.
FindNothing(q) ==
  /\ queues[q].drain.at = "debounce"
  /\ ~Collects(queues[q])
  /\ queues[q].items = <<>>
  /\ Moves(At(QueueState, q, "breaking"))

\* drainNextQueueItem runs the head; a drain that has met several routes never collects again.
RunNextItem(q) ==
  LET queue == queues[q] IN
  /\ queue.drain.at = "debounce"
  /\ ~Collects(queue)
  /\ queue.items # <<>>
  /\ queue.mode = "collect" \/ Summary(queue) = {}
  /\ Launch(q, [queue.drain EXCEPT !.run = "item", !.batch = <<Head(queue.items)>>,
                                   !.individual = @ \/ queue.mode = "collect"],
            {Head(queue.items)})

\* The run gets the summary as its prompt and only the routing of the head item.
RunSummary(q) ==
  LET queue == queues[q] IN
  /\ queue.drain.at = "debounce"
  /\ queue.mode = "followup"
  /\ queue.items # <<>>
  /\ Summary(queue) # {}
  /\ Launch(q, [queue.drain EXCEPT !.run = "summary", !.batch = <<Head(queue.items)>>,
                                   !.told = Summary(queue)], {})

\* The items are taken as they are now.  After a clear there is no lastRun and the loop breaks.
RunBatch(q) ==
  LET queue == queues[q] IN
  /\ queue.drain.at = "checked"
  /\ IF queue.items = <<>> /\ ~queue.lastRun
       THEN Moves(Finish(QueueState, q))
       ELSE Launch(q, [queue.drain EXCEPT !.run = "batch", !.batch = queue.items,
                                          !.told = Summary(queue)],
                   ToSet(queue.items))

LeaveLoop(q) ==
  /\ queues[q].drain.at = "breaking"
  /\ Moves(Finish(QueueState, q))

\* items.shift() or items.splice(0, n), on the items as they are by now.
Shifted(queue) ==
  [queue EXCEPT !.items = SubSeq(@, Len(queue.drain.batch) + 1, Len(@)),
                !.dropped = IF queue.drain.told = {} THEN @ ELSE <<>>]

RunSucceeds(q) ==
  LET queue == queues[q] IN
  /\ queue.drain.at = "running"
  /\ Becomes(GoRound([QueueState EXCEPT !.queues[q] = Shifted(queue)], q))
  /\ fate' = [d \in Deliveries |->
                IF queue.drain.run # "summary" /\ d \in ToSet(queue.drain.batch) THEN "ran"
                ELSE IF d \in queue.drain.told /\ fate[d] \in {"summarized", "dropped"} THEN "told"
                ELSE fate[d]]
  /\ past' = [past EXCEPT !.headTaken = @ \/ queue.drain.run = "summary"]
  /\ DrainUnchanged

\* The run throws: before its agent turn, or while it persists or delivers the answer.
RunFails(q) ==
  LET queue == queues[q] IN
  /\ queue.drain.at = "running"
  /\ past.failures < MaxFailures
  /\ Becomes(Finish(QueueState, q))
  /\ fate' = [d \in Deliveries |->
                IF queue.drain.run # "summary" /\ d \in ToSet(queue.drain.batch) THEN "failed"
                ELSE fate[d]]
  /\ past' = [past EXCEPT !.failures = @ + 1]
  /\ DrainUnchanged

--------------------------------------------------------------------------------
(* The runs that messages wait for.                                         *)

RunsUnchanged == UNCHANGED <<recent, fate, past>>

\* A reply run registers itself and, when it ends, is removed; only later, with its answer
\* built, does runReplyAgent call finalizeWithFollowup - on its error path too.
ReplyRunStarts ==
  /\ ~reply.active
  /\ reply' = [reply EXCEPT !.active = TRUE]
  /\ UNCHANGED <<queues, current, callback, foreign>> /\ RunsUnchanged

ReplyRunEnds ==
  /\ reply.active /\ reply.ended = 0
  /\ reply' = [active |-> FALSE, ended |-> 1]
  /\ UNCHANGED <<queues, current, callback, foreign>> /\ RunsUnchanged

FinalizeWithFollowup ==
  /\ reply.ended > 0
  /\ reply' = [reply EXCEPT !.ended = 0]
  /\ Becomes(Schedule(QueueState))
  /\ UNCHANGED foreign /\ RunsUnchanged

\* A run that does not go through runReplyAgent: nothing is finalized when it ends.
ForeignRunToggles ==
  /\ ForeignRuns
  /\ foreign' = ~foreign
  /\ past' = [past EXCEPT !.leftIdle = @ \/ (foreign /\ current # 0)]
  /\ UNCHANGED <<queues, current, callback, recent, reply, fate>>

DrainStep(q) ==
  \/ CheckRoutes(q) \/ FindNothing(q) \/ RunNextItem(q) \/ RunSummary(q)
  \/ RunBatch(q) \/ LeaveLoop(q) \/ RunSucceeds(q)

Next ==
  \/ \E d \in Deliveries : MessageArrives(d)
  \/ \E d \in Deliveries, settings \in Settings : EnqueueFollowupRun(d, settings)
  \/ \E m \in recent : MessageIdExpires(m)
  \/ ClearSessionQueues
  \/ \E q \in Slots : DrainStep(q) \/ RunFails(q)
  \/ ReplyRunStarts \/ ReplyRunEnds \/ FinalizeWithFollowup \/ ForeignRunToggles

Spec == Init /\ [][Next]_vars

\* Runs end, and fail only MaxFailures times; timers fire and continuations run.  Nobody has
\* to write, to clear or to start a run, nor does a message that is arriving have to arrive.
Fairness ==
  /\ WF_vars(\E q \in Slots : DrainStep(q))
  /\ WF_vars(ReplyRunEnds \/ FinalizeWithFollowup)
  /\ WF_vars(foreign /\ ForeignRunToggles)

FairSpec == Spec /\ Fairness

--------------------------------------------------------------------------------
(* Safety.                                                                  *)

Live(q) == q = current \/ ~Idle(queues[q])

\* An accepted message that has had no answer is gone from every queue.
Forgotten(d) ==
  \/ fate[d] \in {"queued", "failed"} /\ ~\E q \in Slots : Live(q) /\ d \in ToSet(queues[q].items)
  \/ fate[d] = "summarized" /\ ~\E q \in Slots : Live(q) /\ d \in ToSet(queues[q].dropped)

\* docs/concepts/queue.md:30, 69: an accepted message gets a turn, or a place in a summary
\* that gets one, whatever runs fail (reply-flow.test.ts:1316, 1348).
NothingForgotten == \A d \in Deliveries : ~Forgotten(d)

\* What the code does guarantee: a message is forgotten only after a run ended on a queue
\* whose head had been taken meanwhile (by an overflow, or by a summary run for itself), or
\* after a clear left a drain behind.
ForgottenOnlyByKnownCauses == NothingForgotten \/ past.headTaken \/ past.orphaned

\* Work in a registered queue has somebody who will look at it: its drain, or a reply run
\* that is still to finalize (agent-runner.ts:246-247: a stale snapshot of the active run
\* must not leave the queue idle).
NoQueueLeftIdle ==
  current # 0 /\ ~Drained(queues[current]) =>
    ~Idle(queues[current]) \/ reply.active \/ reply.ended > 0 \/ foreign \/ past.leftIdle \/ past.orphaned

\* One session has one follow-up run at a time, unless a clear left a drain behind.
OneDrain == Cardinality({q \in Slots : ~Idle(queues[q])}) <= 1 \/ past.orphaned

\* What waits is drained, and by one drain only.
DrainedByOne == NoQueueLeftIdle /\ OneDrain

--------------------------------------------------------------------------------
(* Action properties.                                                       *)

\* A message whose run succeeded is not handled again, and a message that was cleared is
\* not handled at all, though a drain had it in sight before its await.
FinalFates ==
  [][ \A d \in Deliveries : fate[d] \in {"ran", "cleared", "told"} => fate'[d] = fate[d] ]_vars

\* docs/concepts/queue.md:66: "`cap`: max queued messages per session."  An accepted message
\* never leaves more than cap of them, even right after the cap was lowered.
AcceptedWithinCap ==
  [][ \A d \in Deliveries : fate[d] = "arriving" /\ fate'[d] = "queued" =>
        Len(queues'[current'].items) <= queues'[current'].cap ]_vars

--------------------------------------------------------------------------------
(* Liveness.                                                                *)

\* docs/concepts/queue.md:30: "`followup`: enqueue for the next agent turn after the
\* current run ends."  So it is, also after a run that threw, unless the drop policy shed
\* the message, and but for the causes of ForgottenOnlyByKnownCauses.
Waits(d) == fate[d] \in {"queued", "running", "failed"}
QueuedGetsTurnOrKnownCause ==
  \A d \in Deliveries : Waits(d) ~> ~Waits(d) \/ past.headTaken \/ past.orphaned
================================================================================
