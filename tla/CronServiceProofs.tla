--------------------------- MODULE CronServiceProofs ---------------------------
(***************************************************************************)
(* Proofs about the cron service, for any jobs, bounds and number of       *)
(* services.                                                               *)
(*                                                                         *)
(* That a job has one run at a time is argued so.  As long as no busy      *)
(* service was replaced, there is one service.  A run has a marker in its  *)
(* memory and in the file from its reservation until its result is         *)
(* applied, whatever is written or reloaded in between, unless the history *)
(* says why not; and nothing starts a job whose marker it sees.            *)
(***************************************************************************)
EXTENDS CronService, FiniteSetTheorems, TLAPS

--------------------------------------------------------------------------------
(* The inductive invariant: services.                                       *)

InBatch(j, b) == j \in b.todo \cup b.going \/ b.status[j] # "none"

\* A service has runs of a batch only while it waits for them.
BatchesEnd ==
  \A s \in Services, j \in Jobs :
    /\ svc[s].start # "running" => ~InBatch(j, batch[<<s, "boot">>])
    /\ svc[s].tick # "running" => ~InBatch(j, batch[<<s, "tick">>])

AtWork(m) == manual[m].at \in {"inspected", "running", "ended"}

\* Nothing goes on in a service before its first section.
UnloadedAreIdle ==
  \A s \in Services : ~Loaded(s) =>
    /\ svc[s].tick = "idle" /\ ~svc[s].timer
    /\ \A m \in Manuals : AtWork(m) => manual[m].svc # s

LaterAreNone == \A s \in Services : s > current => svc[s].start = "none"

InspectedInTime == \A m \in Manuals : AtWork(m) => manual[m].from \in 1..now

\* Unless one was replaced while it was busy, there is one service.
OneService == past.zombies = 0 => \A s \in Services : s # current => svc[s].start = "none"

ServicesInv == BatchesEnd /\ UnloadedAreIdle /\ LaterAreNone /\ InspectedInTime /\ OneService

--------------------------------------------------------------------------------
(* The inductive invariant: what the one service has in memory and on disk. *)

Owned(j) == Owners(j) # {}

Excluded == \A j \in Jobs \ past.unguarded : \A x, y \in Owners(j) : x = y

\* A marker that maintenance leaves alone.
Held(r) == r.enabled /\ r.running > 0 /\ now - r.running <= Stuck

\* A store that may be saved: no job is back in it, a recurring job that somebody runs has not got lost,
\* its marker is held, and, as long as all writes have succeeded, markers have owners.
Sound(store) ==
  /\ DOMAIN store \cap past.gone = {}
  /\ \A j \in Jobs \ OneShot : Owned(j) => j \in DOMAIN store \cup past.gone \cup past.unsaved
  /\ \A j \in DOMAIN store \ past.unguarded : Owned(j) => Held(store[j])
  /\ past.faults = 0 => \A j \in DOMAIN store : store[j].running > 0 => Owned(j)

\* But for jobs whose edit could not be written, and one-shot jobs whose removal could not, the memory has
\* the jobs of the file, and none is enabled in it that is disabled in the file.
MemoryFitsFile ==
  /\ DOMAIN mem[current] \subseteq DOMAIN disk \cup past.unsaved
  /\ DOMAIN disk \subseteq DOMAIN mem[current] \cup OneShot \cup past.unsaved
  /\ past.faults = 0 => DOMAIN mem[current] = DOMAIN disk
  /\ \A j \in (DOMAIN mem[current] \cap DOMAIN disk) \ past.unsaved :
       mem[current][j].enabled => disk[j].enabled

StoresInv ==
  past.zombies = 0 =>
    /\ DOMAIN disk \cap past.gone = {}
    /\ Loaded(current) => Excluded /\ Sound(disk) /\ Sound(mem[current]) /\ MemoryFitsFile

IInv == TypeOK /\ ServicesInv /\ StoresInv

--------------------------------------------------------------------------------
(* Types.                                                                   *)

ServiceRecords == [start : {"none", "loading", "planning", "running", "arming", "up", "failed"},
                   tick : {"idle", "collecting", "running", "ending"},
                   timer : BOOLEAN, attached : BOOLEAN,
                   interrupted : SUBSET Jobs, deferred : SUBSET Jobs]
Batches == [todo : SUBSET Jobs, going : SUBSET Jobs, from : [Jobs -> Time],
            status : [Jobs -> Statuses \cup {"none"}], till : [Jobs -> Time]]
ManualRecords == [at : {"idle", "inspected", "running", "ended", "over"}, job : Jobs,
                  svc : Services, from : Time,
                  status : Statuses \cup {"none"}, till : Time]
Pasts == [edits : 0..MaxEdits, faults : 0..MaxFaults, unguarded : SUBSET Jobs,
          gone : SUBSET Jobs, unsaved : SUBSET Jobs, zombies : 0..MaxZombies]

\* The constants that the proofs use.
LEMMA Constants ==
  /\ MaxTime \in Nat /\ MaxTime > 0 /\ MaxServices \in Nat /\ MaxServices > 0 /\ Concurrency \in Nat
  /\ Stuck \in Nat /\ MaxManual \in Nat /\ MaxEdits \in Nat /\ MaxFaults \in Nat /\ MaxZombies \in Nat
  /\ MaxLeft \in Nat /\ Deaf \subseteq Jobs
  /\ MaxImmediate \in Nat
  /\ OneShot \subseteq Jobs /\ DeleteAfterRun \subseteq OneShot /\ Initial \subseteq Jobs /\ Jobs # {}
  /\ 0 \in Time /\ 1 \in Services
BY CronAssumption DEF Time, Services

LEMMA TypeFacts ==
  TypeOK <=> /\ now \in 1..MaxTime
             /\ disk \in Stores
             /\ mem \in [Services -> Stores]
             /\ svc \in [Services -> ServiceRecords]
             /\ batch \in [Parts -> Batches]
             /\ manual \in [Manuals -> ManualRecords]
             /\ current \in Services
             /\ past \in Pasts
             /\ left \in [Jobs -> 0..MaxLeft]
BY DEF TypeOK, ServiceRecords, Batches, ManualRecords, Pasts

\* A store has records of some of the jobs.
LEMMA StoreFacts ==
  ASSUME NEW store
  PROVE  store \in Stores <=> DOMAIN store \subseteq Jobs /\ store \in [DOMAIN store -> Record]
<1>1. ASSUME store \in Stores  PROVE DOMAIN store \subseteq Jobs /\ store \in [DOMAIN store -> Record]
  <2>1. PICK J \in SUBSET Jobs : store \in [J -> Record]
    BY <1>1 DEF Stores
  <2>. QED BY <2>1
<1>2. ASSUME DOMAIN store \subseteq Jobs, store \in [DOMAIN store -> Record]  PROVE store \in Stores
  BY <1>2 DEF Stores
<1>. QED BY <1>1, <1>2

LEMMA RecordOfStore ==
  ASSUME NEW store \in Stores, NEW j \in DOMAIN store
  PROVE  j \in Jobs /\ store[j] \in Record
BY StoreFacts

--------------------------------------------------------------------------------
(* What the operators do to records and stores.                             *)

\* Maintenance of a record: it may lose its marker, but not one that is held.
KeptUp(r, old) ==
  /\ r.enabled = old.enabled
  /\ r.running \in {old.running, 0}
  /\ Held(old) => Held(r)

LEMMA NormalizedRecord ==
  ASSUME now \in 1..MaxTime, NEW r \in Record
  PROVE  Normalized(r) \in Record /\ KeptUp(Normalized(r), r)
<1>1. now \in Nat /\ 0 \in 0..(MaxTime + 2)
  BY Constants
<1>2. r.running \in Nat /\ r.enabled \in BOOLEAN /\ r.next \in 0..(MaxTime + 2)
  BY Constants DEF Record, Time
<1>3. Normalized(r) \in Record
  BY <1>1, Constants DEF Normalized, Record
<1>4. Normalized(r).enabled = r.enabled /\ Normalized(r).running \in {r.running, 0}
  BY <1>2 DEF Normalized, Record
<1>5. Held(r) => Normalized(r) = r
  BY <1>1, <1>2, Constants DEF Normalized, Held
<1>. QED BY <1>3, <1>4, <1>5 DEF KeptUp

LEMMA NextRunType ==
  ASSUME NEW j \in Jobs, NEW r \in Record, NEW t \in Time
  PROVE  NextRun(j, r, t) \in 0..(MaxTime + 2)
BY Constants DEF NextRun, Time

\* A new slot leaves the rest of a record as it was.
LEMMA NewSlot ==
  ASSUME NEW r \in Record, NEW slot \in 0..(MaxTime + 2)
  PROVE  /\ [r EXCEPT !.next = slot] \in Record
         /\ [r EXCEPT !.next = slot].enabled = r.enabled
         /\ [r EXCEPT !.next = slot].running = r.running
         /\ \A old : KeptUp(r, old) => KeptUp([r EXCEPT !.next = slot], old)
<1>1. /\ [r EXCEPT !.next = slot] \in Record
      /\ [r EXCEPT !.next = slot].enabled = r.enabled
      /\ [r EXCEPT !.next = slot].running = r.running
  BY DEF Record
<1>. QED BY <1>1 DEF KeptUp, Held

AllKeptUp(store, old) ==
  DOMAIN store = DOMAIN old /\ \A j \in DOMAIN old : KeptUp(store[j], old[j])

\* Both kinds of maintenance keep a store up.
LEMMA RecomputedStore ==
  ASSUME now \in 1..MaxTime, NEW store \in Stores
  PROVE  Recomputed(store) \in Stores /\ AllKeptUp(Recomputed(store), store)
<1>1. ASSUME NEW j \in DOMAIN store
      PROVE  Recomputed(store)[j] \in Record /\ KeptUp(Recomputed(store)[j], store[j])
  <2>1. j \in Jobs /\ store[j] \in Record
    BY RecordOfStore
  <2>2. Normalized(store[j]) \in Record /\ KeptUp(Normalized(store[j]), store[j])
    BY <2>1, NormalizedRecord
  <2>3. NextRun(j, Normalized(store[j]), now) \in 0..(MaxTime + 2)
    BY <2>1, <2>2, NextRunType, Constants DEF Time
  <2>. QED BY <2>2, <2>3, NewSlot DEF Recomputed
<1>2. DOMAIN Recomputed(store) = DOMAIN store
  BY DEF Recomputed
<1>3. Recomputed(store) \in [DOMAIN store -> Record]
  BY <1>1, <1>2 DEF Recomputed
<1>. QED BY <1>1, <1>2, <1>3, StoreFacts DEF AllKeptUp

LEMMA MaintainedStore ==
  ASSUME now \in 1..MaxTime, NEW store \in Stores, NEW recomputeExpired \in BOOLEAN
  PROVE  /\ Maintained(store, recomputeExpired) \in Stores
         /\ AllKeptUp(Maintained(store, recomputeExpired), store)
<1>. DEFINE kept == Maintained(store, recomputeExpired)
<1>1. ASSUME NEW j \in DOMAIN store
      PROVE  kept[j] \in Record /\ KeptUp(kept[j], store[j])
  <2>1. j \in Jobs /\ store[j] \in Record
    BY RecordOfStore
  <2>2. Normalized(store[j]) \in Record /\ KeptUp(Normalized(store[j]), store[j])
    BY <2>1, NormalizedRecord
  <2>3. NextRun(j, Normalized(store[j]), now) \in 0..(MaxTime + 2)
    BY <2>1, <2>2, NextRunType, Constants DEF Time
  <2>. QED BY <2>2, <2>3, NewSlot DEF Maintained
<1>2. DOMAIN kept = DOMAIN store
  BY DEF Maintained
<1>3. kept \in [DOMAIN store -> Record]
  BY <1>1, <1>2 DEF Maintained
<1>. QED BY <1>1, <1>2, <1>3, StoreFacts DEF AllKeptUp

\* A result ends the marker and enables nothing.
LEMMA ResultRecord ==
  ASSUME NEW j \in Jobs, NEW r \in Record, NEW from \in Time, NEW till \in Time, NEW status
  PROVE  LET new == Result(j, r, from, till, status)
         IN  new \in Record /\ new.running = 0 /\ (new.enabled => r.enabled)
<1>. DEFINE ran == [r EXCEPT !.running = 0, !.lastRun = from, !.failed = status # "ok"]
<1>1. ran \in Record /\ ran.running = 0 /\ ran.enabled = r.enabled
  BY Constants DEF Record
<1>2. {0, till + 1, till + 2} \subseteq 0..(MaxTime + 2)
  BY Constants DEF Time
<1>3. [ran EXCEPT !.enabled = FALSE, !.next = 0] \in Record
      /\ [ran EXCEPT !.enabled = FALSE, !.next = 0].running = 0
      /\ ~[ran EXCEPT !.enabled = FALSE, !.next = 0].enabled
  BY <1>1, <1>2 DEF Record
<1>4. Result(j, r, from, till, status) \in
        {[ran EXCEPT !.next = 0], [ran EXCEPT !.next = till + 1], [ran EXCEPT !.next = till + 2],
         [ran EXCEPT !.enabled = FALSE, !.next = 0]}
  BY DEF Result
<1>. HIDE DEF ran
<1>5. \A slot \in 0..(MaxTime + 2) : /\ [ran EXCEPT !.next = slot] \in Record
                                     /\ [ran EXCEPT !.next = slot].running = 0
                                     /\ [ran EXCEPT !.next = slot].enabled = r.enabled
  BY <1>1, NewSlot
<1>6. 0 \in 0..(MaxTime + 2) /\ till + 1 \in 0..(MaxTime + 2) /\ till + 2 \in 0..(MaxTime + 2)
  BY <1>2
<1>. QED BY <1>3, <1>4, <1>5, <1>6

\* Markers go to the jobs that they are set for.
LEMMA MarkedStore ==
  ASSUME now \in 1..MaxTime, NEW store \in Stores, NEW J
  PROVE  /\ Marked(store, J) \in Stores
         /\ DOMAIN Marked(store, J) = DOMAIN store
         /\ \A j \in DOMAIN store :
              /\ Marked(store, J)[j].enabled = store[j].enabled
              /\ j \in J => Marked(store, J)[j].running = now
              /\ j \notin J => Marked(store, J)[j] = store[j]
<1>1. ASSUME NEW j \in DOMAIN store
      PROVE  /\ Marked(store, J)[j] \in Record
             /\ Marked(store, J)[j].enabled = store[j].enabled
             /\ j \in J => Marked(store, J)[j].running = now
             /\ j \notin J => Marked(store, J)[j] = store[j]
  <2>1. store[j] \in Record /\ now \in Time
    BY RecordOfStore, Constants DEF Time
  <2>2. /\ [store[j] EXCEPT !.running = now] \in Record
        /\ [store[j] EXCEPT !.running = now].enabled = store[j].enabled
        /\ [store[j] EXCEPT !.running = now].running = now
    BY <2>1 DEF Record
  <2>. QED BY <2>1, <2>2 DEF Marked
<1>2. DOMAIN Marked(store, J) = DOMAIN store /\ DOMAIN store \subseteq Jobs
  BY StoreFacts DEF Marked
<1>3. Marked(store, J) \in [DOMAIN store -> Record]
  BY <1>1 DEF Marked
<1>. QED BY <1>1, <1>2, <1>3, StoreFacts

\* The results of a batch end the markers of its jobs, and remove one-shot jobs only.
LEMMA AppliedStore ==
  ASSUME NEW store \in Stores, NEW b \in Batches
  PROVE  /\ Applied(store, b) \in Stores
         /\ DOMAIN Applied(store, b) \subseteq DOMAIN store
         /\ \A j \in DOMAIN store \ DOMAIN Applied(store, b) : j \in OneShot /\ b.status[j] # "none"
         /\ \A j \in DOMAIN Applied(store, b) :
              /\ Applied(store, b)[j].enabled => store[j].enabled
              /\ b.status[j] = "none" => Applied(store, b)[j] = store[j]
              /\ b.status[j] # "none" => Applied(store, b)[j].running = 0
<1>. DEFINE kept == {k \in DOMAIN store : ~Deletes(k, b.status[k])}
<1>1. DOMAIN Applied(store, b) = kept
  BY DEF Applied
<1>2. ASSUME NEW j \in kept
      PROVE  /\ Applied(store, b)[j] \in Record
             /\ Applied(store, b)[j].enabled => store[j].enabled
             /\ b.status[j] = "none" => Applied(store, b)[j] = store[j]
             /\ b.status[j] # "none" => Applied(store, b)[j].running = 0
  <2>1. j \in Jobs /\ store[j] \in Record
    BY RecordOfStore
  <2>2. b.from[j] \in Time /\ b.till[j] \in Time
    BY <2>1 DEF Batches
  <2>3. LET new == Result(j, store[j], b.from[j], b.till[j], b.status[j])
        IN  new \in Record /\ new.running = 0 /\ (new.enabled => store[j].enabled)
    BY <2>1, <2>2, ResultRecord
  <2>4. Applied(store, b)[j] = IF b.status[j] = "none" THEN store[j]
                               ELSE Result(j, store[j], b.from[j], b.till[j], b.status[j])
    BY DEF Applied
  <2>. QED BY <2>1, <2>3, <2>4
<1>3. Applied(store, b) \in [kept -> Record]
  <2>1. Applied(store, b) = [j \in kept |-> Applied(store, b)[j]]
    BY DEF Applied
  <2>. QED BY <1>2, <2>1
<1>4. kept \subseteq Jobs
  BY StoreFacts
<1>5. \A j \in DOMAIN store \ kept : j \in OneShot /\ b.status[j] # "none"
  BY Constants DEF Deletes
<1>6. kept \subseteq DOMAIN store
  OBVIOUS
<1>. HIDE DEF kept
<1>7. Applied(store, b) \in Stores
  BY <1>1, <1>3, <1>4, StoreFacts
<1>. QED BY <1>1, <1>2, <1>5, <1>6, <1>7

LEMMA WithoutStore ==
  ASSUME NEW store \in Stores, NEW j
  PROVE  /\ Without(store, j) \in Stores
         /\ DOMAIN Without(store, j) = DOMAIN store \ {j}
         /\ \A k \in DOMAIN store \ {j} : Without(store, j)[k] = store[k]
<1>1. /\ DOMAIN Without(store, j) = DOMAIN store \ {j}
      /\ \A k \in DOMAIN store \ {j} : Without(store, j)[k] = store[k]
      /\ Without(store, j) \in [DOMAIN store \ {j} -> Record]
  BY StoreFacts DEF Without
<1>. QED BY <1>1, StoreFacts

\* One record of a store is replaced.
LEMMA ReplacedStore ==
  ASSUME NEW store \in Stores, NEW j \in DOMAIN store, NEW r \in Record
  PROVE  /\ [store EXCEPT ![j] = r] \in Stores
         /\ DOMAIN [store EXCEPT ![j] = r] = DOMAIN store
         /\ [store EXCEPT ![j] = r][j] = r
         /\ \A k \in DOMAIN store \ {j} : [store EXCEPT ![j] = r][k] = store[k]
BY StoreFacts

--------------------------------------------------------------------------------
(* The type invariant.                                                      *)

LEMMA TypeFactsPrime ==
  TypeOK' <=> /\ now' \in 1..MaxTime
              /\ disk' \in Stores
              /\ mem' \in [Services -> Stores]
              /\ svc' \in [Services -> ServiceRecords]
              /\ batch' \in [Parts -> Batches]
              /\ manual' \in [Manuals -> ManualRecords]
              /\ current' \in Services
              /\ past' \in Pasts
              /\ left' \in [Jobs -> 0..MaxLeft]
BY DEF TypeOK, ServiceRecords, Batches, ManualRecords, Pasts

\* A run begins and ends for a batch.
LEMMA NoRunsType == NoRuns \in Batches /\ \A J \in SUBSET Jobs : [NoRuns EXCEPT !.todo = J] \in Batches
BY Constants DEF NoRuns, Batches, Statuses

LEMMA NoManualType == NoManual \in ManualRecords /\ ManualOver \in ManualRecords
<1>1. (CHOOSE j \in Jobs : TRUE) \in Jobs
  BY Constants
<1>. QED BY <1>1, Constants DEF NoManual, ManualOver, ManualRecords

LEMMA SavesType ==
  ASSUME TypeOK, NEW s \in Services, NEW store \in Stores, Saves(s, store)
  PROVE  disk' \in Stores /\ mem' \in [Services -> Stores]
BY TypeFacts DEF Saves

\* The history may record that jobs are gone.
LEMMA GoneType ==
  ASSUME TypeOK, NEW J, J \subseteq Jobs
  PROVE  Gone(J) \in Pasts
BY TypeFacts DEF Gone, Pasts

LEMMA FailsType ==
  ASSUME TypeOK, Fails
  PROVE  past' \in Pasts
BY TypeFacts, Constants DEF Fails, Pasts

\* A run that has timed out goes on.
LEMMA LeavesType ==
  ASSUME TypeOK, NEW j, NEW status, Leaves(j, status)
  PROVE  left' \in [Jobs -> 0..MaxLeft]
BY TypeFacts, Constants DEF Leaves

LEMMA StoredTypes ==
  ASSUME TypeOK
  PROVE  /\ now \in 1..MaxTime /\ now \in Time
         /\ disk \in Stores /\ DOMAIN disk \subseteq Jobs
         /\ \A s \in Services : mem[s] \in Stores /\ DOMAIN mem[s] \subseteq Jobs
BY TypeFacts, StoreFacts, Constants DEF Time

LEMMA ServiceType ==
  ASSUME TypeOK, NEW s \in Services, NEW r \in ServiceRecords, svc' = [svc EXCEPT ![s] = r]
  PROVE  svc' \in [Services -> ServiceRecords]
BY TypeFacts

LEMMA InitTypes == Init => TypeOK
<1>. SUFFICES ASSUME Init  PROVE TypeOK
  OBVIOUS
<1>1. NewJob \in Record
  BY Constants DEF NewJob, Record, Time
<1>2. disk \in Stores /\ Nothing \in Stores
  BY <1>1, Constants, StoreFacts DEF Init, Nothing
<1>3. NewService \in ServiceRecords /\ NoService \in ServiceRecords
  BY DEF NewService, NoService, ServiceRecords
<1>4. past \in Pasts
  BY Constants DEF Init, Pasts
<1>. QED BY <1>2, <1>3, <1>4, NoRunsType, NoManualType, TypeFacts, Constants DEF Init

LEMMA RunTypes ==
  ASSUME TypeOK, NEW p \in Parts, NEW j \in Jobs, RunStep(p, j)
  PROVE  TypeOK'
<1>1. batch[p] \in Batches /\ now \in Time
  BY StoredTypes, TypeFacts
<1>2. CASE RunStarts(p, j)
  <2>. DEFINE b == [batch[p] EXCEPT !.todo = @ \ {j}, !.going = @ \cup {j}, !.from[j] = now]
  <2>0. b \in Batches
    <3>1. [batch[p].from EXCEPT ![j] = now] \in [Jobs -> Time]
      BY <1>1 DEF Batches
    <3>. QED BY <1>1, <3>1 DEF Batches
  <2>1. batch' \in [Parts -> Batches]
    <3>1. batch' = [batch EXCEPT ![p] = b]
      BY <1>2, TypeFacts DEF RunStarts
    <3>. QED BY <2>0, <3>1, TypeFacts
  <2>2. p[1] \in Services
    BY DEF Parts
  <2>3. Marked(mem[p[1]], {j}) \in Stores
    BY <2>2, StoredTypes, MarkedStore
  <2>4. mem' \in [Services -> Stores]
    BY <1>2, <2>2, <2>3, TypeFacts DEF RunStarts
  <2>. QED BY <1>2, <2>1, <2>4, TypeFacts, TypeFactsPrime DEF RunStarts
<1>3. ASSUME NEW status \in Statuses, RunEnds(p, j, status) \/ TimesOut(p, j, status)  PROVE TypeOK'
  <2>1. Returns(p, j, status)
    BY <1>3 DEF RunEnds, TimesOut
  <2>2. left' \in [Jobs -> 0..MaxLeft]
    BY <1>3, LeavesType, TypeFacts DEF RunEnds, TimesOut
  <2>3. batch' \in [Parts -> Batches]
    BY <1>1, <2>1, TypeFacts DEF Returns, Batches
  <2>. QED BY <2>1, <2>2, <2>3, TypeFacts, TypeFactsPrime DEF Returns
<1>. QED BY <1>2, <1>3 DEF RunStep

LEMMA LeftTypes ==
  ASSUME TypeOK, NEW j \in Jobs, LeftEnds(j)
  PROVE  TypeOK'
<1>1. left' \in [Jobs -> 0..MaxLeft]
  BY TypeFacts, Constants DEF LeftEnds
<1>. QED BY <1>1, TypeFacts, TypeFactsPrime DEF LeftEnds

\* Markers are cleared.
LEMMA ClearedStore ==
  ASSUME NEW store \in Stores
  PROVE  /\ Cleared(store) \in Stores /\ DOMAIN Cleared(store) = DOMAIN store
         /\ \A j \in DOMAIN store : /\ Cleared(store)[j].running = 0
                                   /\ Cleared(store)[j].enabled = store[j].enabled
<1>1. \A j \in DOMAIN store : store[j] \in Record /\ [store[j] EXCEPT !.running = 0] \in Record
  BY RecordOfStore, Constants DEF Record
<1>2. /\ DOMAIN Cleared(store) = DOMAIN store
      /\ \A j \in DOMAIN store : Cleared(store)[j] = [store[j] EXCEPT !.running = 0]
  BY DEF Cleared
<1>3. Cleared(store) \in Stores
  BY <1>1, StoreFacts DEF Cleared
<1>. QED BY <1>1, <1>2, <1>3 DEF Record

LEMMA StartLoadsTypes ==
  ASSUME TypeOK, NEW s \in Services, StartLoads(s)
  PROVE  TypeOK'
<1>1. Cleared(disk) \in Stores
  BY StoredTypes, ClearedStore
<1>2. disk' \in Stores /\ mem' \in [Services -> Stores]
  BY <1>1, SavesType DEF StartLoads
<1>3. {j \in DOMAIN disk : disk[j].running > 0} \subseteq Jobs
  BY StoredTypes
<1>4. svc' \in [Services -> ServiceRecords]
  <2>. DEFINE r == [svc[s] EXCEPT !.start = "planning",
                                  !.interrupted = {j \in DOMAIN disk : disk[j].running > 0}]
  <2>1. svc[s] \in ServiceRecords
    BY TypeFacts
  <2>2. r \in ServiceRecords
    BY <1>3, <2>1 DEF ServiceRecords
  <2>3. svc' = [svc EXCEPT ![s] = r]
    BY DEF StartLoads
  <2>. QED BY <2>2, <2>3, ServiceType
<1>. QED BY <1>2, <1>4, TypeFacts, TypeFactsPrime DEF StartLoads

LEMMA StartPlansTypes ==
  ASSUME TypeOK, NEW s \in Services, StartPlans(s)
  PROVE  TypeOK'
<1>1. AllMissed(s) \subseteq Jobs /\ \A first \in Oldest(s) : first \subseteq AllMissed(s)
  BY StoredTypes DEF AllMissed, Oldest
<1>2. ASSUME AllMissed(s) = {}  PROVE TypeOK'
  <2>1. svc' = [svc EXCEPT ![s].start = "arming"] /\ UNCHANGED <<now, disk, mem, batch, manual, current, past, left>>
    BY <1>2 DEF StartPlans
  <2>2. svc' \in [Services -> ServiceRecords]
    BY <2>1, TypeFacts DEF ServiceRecords
  <2>. QED BY <2>1, <2>2, TypeFacts, TypeFactsPrime
<1>3. ASSUME NEW first \in Oldest(s),
             svc' = [svc EXCEPT ![s].start = "running", ![s].deferred = AllMissed(s) \ first],
             Saves(s, Marked(mem[s], first)),
             batch' = [batch EXCEPT ![<<s, "boot">>] = [NoRuns EXCEPT !.todo = first]],
             UNCHANGED <<now, manual, current, past, left>>
      PROVE  TypeOK'
  <2>1. disk' \in Stores /\ mem' \in [Services -> Stores]
    BY <1>3, SavesType, MarkedStore, StoredTypes
  <2>2. svc' \in [Services -> ServiceRecords]
    <3>. DEFINE r == [svc[s] EXCEPT !.start = "running", !.deferred = AllMissed(s) \ first]
    <3>1. svc[s] \in ServiceRecords
      BY TypeFacts
    <3>2. r \in ServiceRecords
      BY <1>1, <3>1 DEF ServiceRecords
    <3>3. svc' = [svc EXCEPT ![s] = r]
      BY <1>3
    <3>. QED BY <3>2, <3>3, ServiceType
  <2>3. batch' \in [Parts -> Batches]
    BY <1>1, <1>3, NoRunsType, TypeFacts
  <2>. QED BY <1>3, <2>1, <2>2, <2>3, TypeFacts, TypeFactsPrime
<1>. QED BY <1>2, <1>3 DEF StartPlans

\* Deferred jobs get a later slot.
Staggered(s, store) ==
  [j \in DOMAIN store |-> IF j \in svc[s].deferred /\ store[j].enabled
                            THEN [store[j] EXCEPT !.next = now + 1] ELSE store[j]]

LEMMA StaggeredStore ==
  ASSUME TypeOK, NEW s \in Services, NEW store \in Stores
  PROVE  Staggered(s, store) \in Stores /\ AllKeptUp(Staggered(s, store), store)
<1>1. ASSUME NEW j \in DOMAIN store
      PROVE  Staggered(s, store)[j] \in Record /\ KeptUp(Staggered(s, store)[j], store[j])
  <2>1. store[j] \in Record /\ now + 1 \in 0..(MaxTime + 2)
    BY RecordOfStore, StoredTypes, Constants
  <2>2. KeptUp(store[j], store[j])
    BY DEF KeptUp
  <2>. QED BY <2>1, <2>2, NewSlot DEF Staggered
<1>2. DOMAIN Staggered(s, store) = DOMAIN store
  BY DEF Staggered
<1>3. Staggered(s, store) \in [DOMAIN store -> Record]
  BY <1>1 DEF Staggered
<1>. QED BY <1>1, <1>2, <1>3, StoreFacts DEF AllKeptUp

\* What the last section of the catch-up makes of a store.
LEMMA CaughtUpStore ==
  ASSUME TypeOK, NEW s \in Services
  PROVE  LET applied == Applied(mem[s], batch[<<s, "boot">>])
             store == CaughtUp(s)
         IN  /\ store \in Stores /\ DOMAIN store = DOMAIN applied
             /\ applied \in Stores /\ AllKeptUp(Staggered(s, applied), applied)
             /\ AllKeptUp(store, Staggered(s, applied))
<1>. DEFINE applied == Applied(mem[s], batch[<<s, "boot">>])
<1>1. batch[<<s, "boot">>] \in Batches
  BY TypeFacts DEF Parts
<1>2. applied \in Stores
  BY <1>1, StoredTypes, AppliedStore
<1>3. Staggered(s, applied) \in Stores /\ AllKeptUp(Staggered(s, applied), applied)
  BY <1>2, StaggeredStore
<1>4. CaughtUp(s) = Maintained(Staggered(s, applied), FALSE)
  BY DEF CaughtUp, Staggered
<1>5. CaughtUp(s) \in Stores /\ AllKeptUp(CaughtUp(s), Staggered(s, applied))
  BY <1>3, <1>4, MaintainedStore, StoredTypes
<1>. QED BY <1>2, <1>3, <1>5 DEF AllKeptUp

LEMMA StartAppliesTypes ==
  ASSUME TypeOK, NEW s \in Services, StartApplies(s)
  PROVE  TypeOK'
<1>1. disk' \in Stores /\ mem' \in [Services -> Stores]
  BY CaughtUpStore, SavesType DEF StartApplies
<1>2. past' \in Pasts
  BY GoneType, StoredTypes DEF StartApplies
<1>3. batch' \in [Parts -> Batches]
  BY NoRunsType, TypeFacts DEF StartApplies
<1>4. svc' \in [Services -> ServiceRecords]
  <2>. DEFINE r == [svc[s] EXCEPT !.start = "arming", !.deferred = {}]
  <2>1. svc[s] \in ServiceRecords
    BY TypeFacts
  <2>2. r \in ServiceRecords
    BY <2>1 DEF ServiceRecords
  <2>3. svc' = [svc EXCEPT ![s] = r]
    BY DEF StartApplies
  <2>. QED BY <2>2, <2>3, ServiceType
<1>. QED BY <1>1, <1>2, <1>3, <1>4, TypeFacts, TypeFactsPrime DEF StartApplies

LEMMA SavesChangesType ==
  ASSUME TypeOK, NEW s \in Services, NEW store \in Stores, SavesChanges(s, store)
  PROVE  disk' \in Stores /\ mem' \in [Services -> Stores]
BY SavesType, TypeFacts DEF SavesChanges

LEMMA StartArmsTypes ==
  ASSUME TypeOK, NEW s \in Services, StartArms(s)
  PROVE  TypeOK'
<1>1. disk' \in Stores /\ mem' \in [Services -> Stores]
  BY SavesChangesType, StoredTypes, RecomputedStore DEF StartArms
<1>2. Arms(mem'[s]) \in BOOLEAN
  BY DEF Arms
<1>3. svc' \in [Services -> ServiceRecords]
  <2>. DEFINE r == [svc[s] EXCEPT !.start = "up", !.timer = Arms(mem'[s]), !.interrupted = {}]
  <2>1. svc[s] \in ServiceRecords
    BY TypeFacts
  <2>2. r \in ServiceRecords
    BY <1>2, <2>1 DEF ServiceRecords
  <2>3. svc' = [svc EXCEPT ![s] = r]
    BY DEF StartArms
  <2>. QED BY <2>2, <2>3, ServiceType
<1>. QED BY <1>1, <1>3, TypeFacts, TypeFactsPrime DEF StartArms

\* Whatever a section of start() leaves in memory is a store.
LEMMA UnsavedStores ==
  ASSUME TypeOK, NEW s \in Services, NEW store \in Unsaved(s)
  PROVE  store \in Stores
<1>1. CASE svc[s].start = "loading"
  BY <1>1, StoredTypes, ClearedStore DEF Unsaved
<1>2. CASE svc[s].start = "planning"
  BY <1>2, StoredTypes, MarkedStore DEF Unsaved
<1>3. CASE svc[s].start = "running"
  BY <1>3, CaughtUpStore DEF Unsaved
<1>4. CASE svc[s].start = "arming"
  BY <1>4, StoredTypes, RecomputedStore DEF Unsaved
<1>. QED BY <1>1, <1>2, <1>3, <1>4 DEF Unsaved

LEMMA StartFailsTypes ==
  ASSUME TypeOK, NEW s \in Services, StartFails(s)
  PROVE  TypeOK'
<1>1. mem' \in [Services -> Stores]
  BY UnsavedStores, TypeFacts DEF StartFails
<1>2. past' \in Pasts
  BY FailsType DEF StartFails
<1>3. batch' \in [Parts -> Batches]
  BY NoRunsType, TypeFacts DEF StartFails
<1>4. svc' \in [Services -> ServiceRecords]
  <2>. DEFINE r == [svc[s] EXCEPT !.start = "failed", !.interrupted = {}, !.deferred = {}]
  <2>1. svc[s] \in ServiceRecords
    BY TypeFacts
  <2>2. r \in ServiceRecords
    BY <2>1 DEF ServiceRecords
  <2>3. svc' = [svc EXCEPT ![s] = r]
    BY DEF StartFails
  <2>. QED BY <2>2, <2>3, ServiceType
<1>. QED BY <1>1, <1>2, <1>3, <1>4, TypeFacts, TypeFactsPrime DEF StartFails

LEMMA TickMovesTypes ==
  ASSUME TypeOK, NEW s \in Services, TickSkips(s) \/ TickStarts(s) \/ TickEnds(s)
  PROVE  TypeOK'
<1>1. svc[s] \in ServiceRecords
  BY TypeFacts
<1>2. ASSUME TickSkips(s)  PROVE svc' \in [Services -> ServiceRecords]
  <2>. DEFINE r == [svc[s] EXCEPT !.timer = TRUE]
  <2>1. r \in ServiceRecords /\ svc' = [svc EXCEPT ![s] = r]
    BY <1>1, <1>2 DEF ServiceRecords, TickSkips
  <2>. QED BY <2>1, ServiceType
<1>3. ASSUME TickStarts(s)  PROVE svc' \in [Services -> ServiceRecords]
  <2>. DEFINE r == [svc[s] EXCEPT !.tick = "collecting", !.timer = TRUE]
  <2>1. r \in ServiceRecords
    BY <1>1 DEF ServiceRecords
  <2>2. svc' = [svc EXCEPT ![s] = r]
    BY <1>3 DEF TickStarts
  <2>. QED BY <2>1, <2>2, ServiceType
<1>4. ASSUME TickEnds(s)  PROVE svc' \in [Services -> ServiceRecords]
  <2>. DEFINE r == [svc[s] EXCEPT !.tick = "idle", !.timer = Arms(mem[s])]
  <2>1. r \in ServiceRecords
    BY <1>1 DEF ServiceRecords, Arms
  <2>2. svc' = [svc EXCEPT ![s] = r]
    BY <1>4 DEF TickEnds
  <2>. QED BY <2>1, <2>2, ServiceType
<1>. QED BY <1>2, <1>3, <1>4, TypeFacts, TypeFactsPrime DEF TickSkips, TickStarts, TickEnds

\* The steps of a tick that end a section.
LEMMA TickRecord ==
  ASSUME TypeOK, NEW s \in Services, NEW tick \in {"running", "ending"}, NEW attached \in BOOLEAN,
         svc' = [svc EXCEPT ![s].tick = tick, ![s].attached = attached]
  PROVE  svc' \in [Services -> ServiceRecords]
<1>. DEFINE r == [svc[s] EXCEPT !.tick = tick, !.attached = attached]
<1>1. svc[s] \in ServiceRecords
  BY TypeFacts
<1>2. r \in ServiceRecords
  BY <1>1 DEF ServiceRecords
<1>3. svc' = [svc EXCEPT ![s] = r]
  OBVIOUS
<1>. QED BY <1>2, <1>3, ServiceType

LEMMA DueStore ==
  ASSUME TypeOK
  PROVE  /\ RunnableNow(disk) \subseteq Jobs
         /\ Marked(disk, RunnableNow(disk)) \in Stores
         /\ Maintained(disk, TRUE) \in Stores
BY StoredTypes, MarkedStore, MaintainedStore DEF RunnableNow

LEMMA TickCollectsTypes ==
  ASSUME TypeOK, NEW s \in Services, TickCollects(s)
  PROVE  TypeOK'
<1>. DEFINE due == RunnableNow(disk)
            store == Maintained(disk, TRUE)
<1>1. CASE due = {}
  <2>1. disk' = store /\ mem' = [mem EXCEPT ![s] = store] /\ UNCHANGED <<now, batch, manual, current, past, left>>
        /\ svc' = [svc EXCEPT ![s].tick = "ending", ![s].attached = FALSE]
    BY <1>1 DEF TickCollects
  <2>2. disk' \in Stores /\ mem' \in [Services -> Stores]
    BY <2>1, DueStore, TypeFacts
  <2>3. svc' \in [Services -> ServiceRecords]
    BY <2>1, TickRecord
  <2>. QED BY <2>1, <2>2, <2>3, TypeFacts, TypeFactsPrime
<1>2. CASE due # {}
  <2>1. /\ Saves(s, Marked(disk, due)) /\ UNCHANGED <<now, manual, current, past, left>>
        /\ svc' = [svc EXCEPT ![s].tick = "running", ![s].attached = TRUE]
        /\ batch' = [batch EXCEPT ![<<s, "tick">>] = [NoRuns EXCEPT !.todo = due]]
    BY <1>2 DEF TickCollects
  <2>2. disk' \in Stores /\ mem' \in [Services -> Stores]
    BY <2>1, DueStore, SavesType
  <2>3. svc' \in [Services -> ServiceRecords]
    BY <2>1, TickRecord
  <2>4. batch' \in [Parts -> Batches]
    BY <2>1, DueStore, NoRunsType, TypeFacts
  <2>. QED BY <2>1, <2>2, <2>3, <2>4, TypeFacts, TypeFactsPrime
<1>. QED BY <1>1, <1>2

\* What the results of a tick make of the file.
LEMMA TickAppliesStore ==
  ASSUME TypeOK, NEW s \in Services
  PROVE  LET applied == Applied(disk, batch[<<s, "tick">>])
             store == Maintained(applied, FALSE)
         IN  /\ batch[<<s, "tick">>] \in Batches
             /\ applied \in Stores /\ store \in Stores /\ AllKeptUp(store, applied)
<1>1. batch[<<s, "tick">>] \in Batches
  BY TypeFacts DEF Parts
<1>2. Applied(disk, batch[<<s, "tick">>]) \in Stores
  BY <1>1, StoredTypes, AppliedStore
<1>. QED BY <1>1, <1>2, StoredTypes, MaintainedStore

LEMMA TickAppliesTypes ==
  ASSUME TypeOK, NEW s \in Services, TickApplies(s)
  PROVE  TypeOK'
<1>1. disk' \in Stores /\ mem' \in [Services -> Stores]
  BY TickAppliesStore, SavesType DEF TickApplies
<1>2. past' \in Pasts
  BY GoneType, StoredTypes DEF TickApplies
<1>3. batch' \in [Parts -> Batches]
  BY NoRunsType, TypeFacts DEF TickApplies
<1>4. svc' \in [Services -> ServiceRecords]
  BY TickRecord DEF TickApplies
<1>. QED BY <1>1, <1>2, <1>3, <1>4, TypeFacts, TypeFactsPrime DEF TickApplies

LEMMA TickFailsTypes ==
  ASSUME TypeOK, NEW s \in Services, TickCollectFails(s) \/ TickApplyFails(s)
  PROVE  TypeOK'
<1>1. svc' \in [Services -> ServiceRecords]
  BY TickRecord DEF TickCollectFails, TickApplyFails
<1>2. past' \in Pasts
  BY FailsType DEF TickCollectFails, TickApplyFails
<1>3. CASE TickCollectFails(s)
  <2>1. mem' \in [Services -> Stores]
    BY <1>3, DueStore, TypeFacts DEF TickCollectFails
  <2>. QED BY <1>1, <1>2, <1>3, <2>1, TypeFacts, TypeFactsPrime DEF TickCollectFails
<1>4. CASE TickApplyFails(s)
  <2>1. mem' \in [Services -> Stores]
    BY <1>4, TickAppliesStore, TypeFacts DEF TickApplyFails
  <2>2. batch' \in [Parts -> Batches]
    BY <1>4, NoRunsType, TypeFacts DEF TickApplyFails
  <2>. QED BY <1>1, <1>2, <1>4, <2>1, <2>2, TypeFacts, TypeFactsPrime DEF TickApplyFails
<1>. QED BY <1>3, <1>4

LEMMA ManualType ==
  ASSUME TypeOK, NEW m \in Manuals, NEW r \in ManualRecords, manual' = [manual EXCEPT ![m] = r]
  PROVE  manual' \in [Manuals -> ManualRecords]
BY TypeFacts

LEMMA MovesType ==
  ASSUME TypeOK, NEW m \in Manuals, Runs(m) \/ Over(m)
  PROVE  manual' \in [Manuals -> ManualRecords]
<1>1. [manual[m] EXCEPT !.at = "running"] \in ManualRecords
  BY TypeFacts DEF ManualRecords
<1>2. Runs(m) => manual' = [manual EXCEPT ![m] = [manual[m] EXCEPT !.at = "running"]]
  BY DEF Runs
<1>3. Over(m) => manual' = [manual EXCEPT ![m] = ManualOver]
  BY DEF Over
<1>. QED BY <1>1, <1>2, <1>3, NoManualType, ManualType

LEMMA ManualFacts ==
  ASSUME TypeOK, NEW m \in Manuals
  PROVE  /\ manual[m] \in ManualRecords /\ manual[m].svc \in Services /\ manual[m].job \in Jobs
         /\ manual[m].from \in Time /\ manual[m].till \in Time
BY TypeFacts DEF ManualRecords

LEMMA InspectTypes ==
  ASSUME TypeOK, NEW m \in Manuals, NEW j \in Jobs, NEW force \in BOOLEAN, Inspect(m, j, force)
  PROVE  TypeOK'
<1>1. current \in Services /\ Maintained(mem[current], FALSE) \in Stores
  BY TypeFacts, StoredTypes, MaintainedStore
<1>2. mem' \in [Services -> Stores]
  BY <1>1, TypeFacts DEF Inspect
<1>3. manual' \in [Manuals -> ManualRecords]
  <2>. DEFINE r == [NoManual EXCEPT !.at = "inspected", !.job = j, !.svc = current, !.from = now]
  <2>1. r \in ManualRecords
    BY <1>1, NoManualType, StoredTypes DEF ManualRecords
  <2>2. Over(m) \/ manual' = [manual EXCEPT ![m] = r]
    BY DEF Inspect
  <2>. QED BY <2>1, <2>2, MovesType, ManualType
<1>. QED BY <1>2, <1>3, TypeFacts, TypeFactsPrime DEF Inspect

\* A marker is set by hand.
LEMMA ReservedStore ==
  ASSUME TypeOK, NEW s \in Services, NEW j \in DOMAIN mem[s], NEW from \in Time
  PROVE  LET store == [mem[s] EXCEPT ![j].running = from]
         IN  /\ store \in Stores /\ DOMAIN store = DOMAIN mem[s]
             /\ store[j].running = from /\ store[j].enabled = mem[s][j].enabled
             /\ \A k \in DOMAIN store \ {j} : store[k] = mem[s][k]
<1>. DEFINE r == [mem[s][j] EXCEPT !.running = from]
<1>1. mem[s] \in Stores /\ mem[s][j] \in Record
  BY StoredTypes, RecordOfStore
<1>2. r \in Record /\ r.running = from /\ r.enabled = mem[s][j].enabled
  BY <1>1 DEF Record
<1>3. [mem[s] EXCEPT ![j].running = from] = [mem[s] EXCEPT ![j] = r]
  OBVIOUS
<1>. HIDE DEF r
<1>. QED BY <1>1, <1>2, <1>3, ReplacedStore

LEMMA ReserveTypes ==
  ASSUME TypeOK, NEW m \in Manuals, Reserve(m) \/ ReserveFails(m)
  PROVE  TypeOK'
<1>. DEFINE s == manual[m].svc
            j == manual[m].job
            store == [mem[s] EXCEPT ![j].running = manual[m].from]
<1>1. s \in Services /\ j \in Jobs /\ manual[m].from \in Time
  BY ManualFacts
<1>2. Free(s, j) => store \in Stores
  BY <1>1, ReservedStore DEF Free
<1>3. manual' \in [Manuals -> ManualRecords]
  BY MovesType DEF Reserve, ReserveFails
<1>4. ASSUME ~Free(s, j), Reserve(m)  PROVE TypeOK'
  BY <1>3, <1>4, TypeFacts, TypeFactsPrime DEF Reserve
<1>5. ASSUME Free(s, j), Reserve(m)  PROVE TypeOK'
  <2>1. disk' \in Stores /\ mem' \in [Services -> Stores]
    BY <1>1, <1>2, <1>5, SavesType DEF Reserve
  <2>2. past' \in {past, [past EXCEPT !.unguarded = @ \cup {j}]}
    BY <1>5 DEF Reserve
  <2>3. past' \in Pasts
    BY <1>1, <2>2, TypeFacts DEF Pasts
  <2>. QED BY <1>3, <1>5, <2>1, <2>3, TypeFacts, TypeFactsPrime DEF Reserve
<1>6. ASSUME ReserveFails(m)  PROVE TypeOK'
  <2>1. mem' = [mem EXCEPT ![s] = store] /\ Free(s, j) /\ past' \in Pasts
    BY <1>1, <1>6, FailsType DEF ReserveFails
  <2>2. mem' \in [Services -> Stores]
    BY <1>1, <1>2, <2>1, TypeFacts
  <2>. QED BY <1>3, <1>6, <2>1, <2>2, TypeFacts, TypeFactsPrime DEF ReserveFails
<1>. QED BY <1>4, <1>5, <1>6

LEMMA ManualEndsTypes ==
  ASSUME TypeOK, NEW m \in Manuals, NEW status \in Statuses, ManualEnds(m, status) \/ ManualTimesOut(m, status)
  PROVE  TypeOK'
<1>. DEFINE r == [manual[m] EXCEPT !.at = "ended", !.status = status, !.till = now]
<1>0. ManualReturns(m, status) /\ left' \in [Jobs -> 0..MaxLeft]
  BY LeavesType, TypeFacts DEF ManualEnds, ManualTimesOut
<1>1. r \in ManualRecords
  BY ManualFacts, StoredTypes DEF ManualRecords
<1>2. manual' = [manual EXCEPT ![m] = r]
  BY <1>0 DEF ManualReturns
<1>3. manual' \in [Manuals -> ManualRecords]
  BY <1>1, <1>2, ManualType
<1>. QED BY <1>0, <1>3, TypeFacts, TypeFactsPrime DEF ManualReturns

\* The record of a job that was run by hand replaces the one in the file, or goes with it.
LEMMA MergedStore ==
  ASSUME TypeOK, NEW m \in Manuals, NEW r \in Record
  PROVE  LET j == manual[m].job
             store == Merged(m, r)
         IN  /\ store \in Stores
             /\ DOMAIN store \subseteq DOMAIN disk
             /\ DOMAIN disk \ DOMAIN store \subseteq {j} \cap OneShot
             /\ j \in DOMAIN store => store[j] = r
             /\ \A k \in DOMAIN store \ {j} : store[k] = disk[k]
<1>. DEFINE j == manual[m].job
            replaced == [k \in DOMAIN disk |-> IF k = j THEN r ELSE disk[k]]
<1>1. disk \in Stores
  BY StoredTypes
<1>2. CASE Deletes(j, manual[m].status)
  <2>1. Merged(m, r) = Without(disk, j) /\ j \in OneShot
    BY <1>2, Constants DEF Merged, Deletes
  <2>2. /\ Without(disk, j) \in Stores
        /\ DOMAIN Without(disk, j) = DOMAIN disk \ {j}
        /\ \A k \in DOMAIN disk \ {j} : Without(disk, j)[k] = disk[k]
    BY <1>1, WithoutStore
  <2>. HIDE DEF j
  <2>. QED BY <2>1, <2>2 DEF j
<1>3. CASE ~Deletes(j, manual[m].status)
  <2>1. Merged(m, r) = replaced
    BY <1>3 DEF Merged
  <2>2. replaced \in [DOMAIN disk -> Record] /\ DOMAIN replaced = DOMAIN disk
    BY <1>1, StoreFacts
  <2>3. replaced \in Stores
    BY <1>1, <2>2, StoreFacts
  <2>. QED BY <2>1, <2>2, <2>3
<1>. QED BY <1>2, <1>3

\* The result of a run by hand, and the store that it leads to.
ManualResult(m) ==
  Result(manual[m].job, mem[manual[m].svc][manual[m].job], manual[m].from, manual[m].till, manual[m].status)

Finished(m) == Maintained(Merged(m, ManualResult(m)), TRUE)

LEMMA FinishedStore ==
  ASSUME TypeOK, NEW m \in Manuals, manual[m].job \in DOMAIN mem[manual[m].svc]
  PROVE  /\ ManualResult(m) \in Record /\ ManualResult(m).running = 0
         /\ ManualResult(m).enabled => mem[manual[m].svc][manual[m].job].enabled
         /\ Merged(m, ManualResult(m)) \in Stores
         /\ Finished(m) \in Stores
         /\ AllKeptUp(Finished(m), Merged(m, ManualResult(m)))
<1>1. mem[manual[m].svc][manual[m].job] \in Record
  BY ManualFacts, StoredTypes, RecordOfStore
<1>2. /\ ManualResult(m) \in Record /\ ManualResult(m).running = 0
      /\ ManualResult(m).enabled => mem[manual[m].svc][manual[m].job].enabled
  BY <1>1, ManualFacts, ResultRecord DEF ManualResult
<1>3. Merged(m, ManualResult(m)) \in Stores
  BY <1>2, MergedStore
<1>. QED BY <1>2, <1>3, StoredTypes, MaintainedStore DEF Finished

LEMMA ManualFinishesTypes ==
  ASSUME TypeOK, NEW m \in Manuals, ManualFinishes(m) \/ ManualFinishFails(m)
  PROVE  TypeOK'
<1>. DEFINE s == manual[m].svc
            j == manual[m].job
<1>1. s \in Services /\ manual' \in [Manuals -> ManualRecords] /\ svc[s] \in ServiceRecords
  BY ManualFacts, MovesType, TypeFacts DEF ManualFinishes, ManualFinishFails
<1>2. ASSUME ManualFinishes(m), j \notin DOMAIN mem[s]  PROVE TypeOK'
  BY <1>1, <1>2, TypeFacts, TypeFactsPrime DEF ManualFinishes
<1>3. ASSUME ManualFinishes(m), j \in DOMAIN mem[s]  PROVE TypeOK'
  <2>1. /\ Saves(s, Finished(m)) /\ past' = Gone(DOMAIN disk \ DOMAIN disk')
        /\ svc' = [svc EXCEPT ![s].timer = Arms(disk'), ![s].attached = FALSE]
        /\ UNCHANGED <<now, batch, current, left>>
    BY <1>3 DEF ManualFinishes, Finished, ManualResult
  <2>2. disk' \in Stores /\ mem' \in [Services -> Stores]
    BY <1>1, <1>3, <2>1, FinishedStore, SavesType
  <2>3. past' \in Pasts
    BY <2>1, GoneType, StoredTypes
  <2>4. svc' \in [Services -> ServiceRecords]
    <3>. DEFINE r == [svc[s] EXCEPT !.timer = Arms(disk'), !.attached = FALSE]
    <3>1. r \in ServiceRecords
      BY <1>1 DEF ServiceRecords, Arms
    <3>2. svc' = [svc EXCEPT ![s] = r]
      BY <2>1
    <3>. QED BY <1>1, <3>1, <3>2, ServiceType
  <2>. QED BY <1>1, <2>1, <2>2, <2>3, <2>4, TypeFacts, TypeFactsPrime
<1>4. ASSUME ManualFinishFails(m)  PROVE TypeOK'
  <2>1. /\ j \in DOMAIN mem[s] /\ mem' = [mem EXCEPT ![s] = Finished(m)] /\ Fails
        /\ svc' = [svc EXCEPT ![s].attached = FALSE]
        /\ UNCHANGED <<now, disk, batch, current, left>>
    BY <1>4 DEF ManualFinishFails, Finished, ManualResult
  <2>2. mem' \in [Services -> Stores]
    BY <1>1, <2>1, FinishedStore, TypeFacts
  <2>3. past' \in Pasts
    BY <2>1, FailsType
  <2>4. svc' \in [Services -> ServiceRecords]
    <3>1. [svc[s] EXCEPT !.attached = FALSE] \in ServiceRecords
      BY <1>1 DEF ServiceRecords
    <3>. QED BY <1>1, <2>1, <3>1, ServiceType
  <2>. QED BY <1>1, <2>1, <2>2, <2>3, <2>4, TypeFacts, TypeFactsPrime
<1>. QED BY <1>2, <1>3, <1>4

\* What an edit may make of the memory of the current service.
AddedStore(j) ==
  [k \in DOMAIN mem[current] \cup {j} |-> IF k = j THEN [NewJob EXCEPT !.next = now + 1] ELSE mem[current][k]]

Changed(j, enabled) == [mem[current][j] EXCEPT !.enabled = enabled]
UpdatedRecord(j, enabled) ==
  IF enabled THEN [Changed(j, enabled) EXCEPT !.next = NextRun(j, Changed(j, enabled), now)]
             ELSE [Changed(j, enabled) EXCEPT !.next = 0, !.running = 0]

LEMMA AddedFacts ==
  ASSUME TypeOK, NEW j \in Jobs
  PROVE  /\ AddedStore(j) \in Stores
         /\ DOMAIN AddedStore(j) = DOMAIN mem[current] \cup {j}
         /\ AddedStore(j)[j].running = 0
         /\ \A k \in DOMAIN mem[current] \ {j} : AddedStore(j)[k] = mem[current][k]
<1>. DEFINE new == [NewJob EXCEPT !.next = now + 1]
<1>1. new \in Record /\ new.running = 0
  <2>1. NewJob \in Record /\ NewJob.running = 0
    BY Constants DEF NewJob, Record, Time
  <2>2. now + 1 \in 0..(MaxTime + 2)
    BY StoredTypes, Constants
  <2>. QED BY <2>1, <2>2, NewSlot
<1>2. current \in Services /\ mem[current] \in Stores
  BY TypeFacts
<1>. HIDE DEF new
<1>3. /\ DOMAIN AddedStore(j) = DOMAIN mem[current] \cup {j}
      /\ AddedStore(j)[j] = new
      /\ \A k \in DOMAIN mem[current] \ {j} : AddedStore(j)[k] = mem[current][k]
  BY DEF AddedStore, new
<1>4. \A k \in DOMAIN AddedStore(j) : AddedStore(j)[k] \in Record
  BY <1>1, <1>2, <1>3, StoreFacts
<1>5. AddedStore(j) \in [DOMAIN AddedStore(j) -> Record]
  BY <1>4 DEF AddedStore
<1>6. DOMAIN AddedStore(j) \subseteq Jobs
  BY <1>2, <1>3, StoreFacts
<1>. QED BY <1>1, <1>3, <1>5, <1>6, StoreFacts

LEMMA UpdatedFacts ==
  ASSUME TypeOK, NEW j \in DOMAIN mem[current], NEW enabled \in BOOLEAN
  PROVE  /\ UpdatedRecord(j, enabled) \in Record
         /\ UpdatedRecord(j, enabled).enabled = enabled
         /\ enabled => UpdatedRecord(j, enabled).running = mem[current][j].running
         /\ ~enabled => UpdatedRecord(j, enabled).running = 0
<1>1. current \in Services /\ j \in Jobs /\ mem[current][j] \in Record /\ now \in Time
  BY TypeFacts, StoredTypes, RecordOfStore
<1>2. /\ Changed(j, enabled) \in Record /\ Changed(j, enabled).enabled = enabled
      /\ Changed(j, enabled).running = mem[current][j].running
  BY <1>1 DEF Changed, Record
<1>3. NextRun(j, Changed(j, enabled), now) \in 0..(MaxTime + 2)
  BY <1>1, <1>2, NextRunType
<1>4. /\ [Changed(j, enabled) EXCEPT !.next = 0, !.running = 0] \in Record
      /\ [Changed(j, enabled) EXCEPT !.next = 0, !.running = 0].enabled = enabled
      /\ [Changed(j, enabled) EXCEPT !.next = 0, !.running = 0].running = 0
  <2>. DEFINE r == Changed(j, enabled)
  <2>1. r \in Record /\ r.enabled = enabled /\ 0 \in Time /\ 0 \in 0..(MaxTime + 2)
    BY <1>2, Constants DEF Time
  <2>. HIDE DEF r
  <2>2. /\ [r EXCEPT !.next = 0, !.running = 0] \in Record
        /\ [r EXCEPT !.next = 0, !.running = 0].enabled = enabled
        /\ [r EXCEPT !.next = 0, !.running = 0].running = 0
    BY <2>1 DEF Record
  <2>. QED BY <2>2 DEF r
<1>. QED BY <1>2, <1>3, <1>4, NewSlot DEF UpdatedRecord

\* An edit that is saved, and one that is not.
LEMMA EditsCases ==
  ASSUME TypeOK, NEW j \in Jobs, NEW store, NEW unguarded \in SUBSET Jobs, NEW gone \in SUBSET Jobs,
         Edits(j, store, unguarded, gone)
  PROVE  /\ mem' = [mem EXCEPT ![current] = store] /\ UNCHANGED <<now, batch, manual, current, left>>
         /\ past' \in Pasts /\ past'.edits = past.edits + 1 /\ past'.unguarded = past.unguarded \cup unguarded
         /\ past'.zombies = past.zombies
         /\ \/ /\ disk' = store /\ svc' = [svc EXCEPT ![current].timer = Arms(store)]
               /\ past'.gone = past.gone \cup gone
               /\ past'.faults = past.faults /\ past'.unsaved = past.unsaved
            \/ /\ UNCHANGED <<disk, svc>> /\ past'.gone = past.gone
               /\ past'.faults > 0 /\ past'.unsaved = past.unsaved \cup {j}
<1>. DEFINE edits == past.edits + 1
            faults == past.faults + 1
            U == past.unguarded \cup unguarded
            G == past.gone \cup gone
            N == past.unsaved \cup {j}
<1>1. edits \in 0..MaxEdits /\ past \in Pasts
  BY TypeFacts, Constants DEF Edits, Pasts
<1>2. U \in SUBSET Jobs /\ G \in SUBSET Jobs /\ N \in SUBSET Jobs
  BY <1>1 DEF Pasts
<1>3. past.faults < MaxFaults => faults \in 0..MaxFaults /\ faults > 0
  BY <1>1, Constants DEF Pasts
<1>4. \/ disk' = store /\ svc' = [svc EXCEPT ![current].timer = Arms(store)]
         /\ past' = [past EXCEPT !.edits = edits, !.unguarded = U, !.gone = G]
      \/ /\ past.faults < MaxFaults /\ UNCHANGED <<disk, svc>>
         /\ past' = [past EXCEPT !.edits = edits, !.unguarded = U, !.faults = faults, !.unsaved = N]
  BY DEF Edits
<1>5. mem' = [mem EXCEPT ![current] = store] /\ UNCHANGED <<now, batch, manual, current, left>>
  BY DEF Edits
<1>. HIDE DEF edits, faults, U, G, N
<1>6. ASSUME disk' = store, svc' = [svc EXCEPT ![current].timer = Arms(store)],
             past' = [past EXCEPT !.edits = edits, !.unguarded = U, !.gone = G]
      PROVE  /\ past' \in Pasts /\ past'.edits = edits /\ past'.unguarded = U /\ past'.gone = G
             /\ past'.faults = past.faults /\ past'.unsaved = past.unsaved /\ past'.zombies = past.zombies
  BY <1>1, <1>2, <1>6 DEF Pasts
<1>7. ASSUME past.faults < MaxFaults, UNCHANGED <<disk, svc>>,
             past' = [past EXCEPT !.edits = edits, !.unguarded = U, !.faults = faults, !.unsaved = N]
      PROVE  /\ past' \in Pasts /\ past'.edits = edits /\ past'.unguarded = U /\ past'.gone = past.gone
             /\ past'.faults > 0 /\ past'.unsaved = N /\ past'.zombies = past.zombies
  BY <1>1, <1>2, <1>3, <1>7 DEF Pasts
<1>8. /\ past' \in Pasts /\ past'.edits = edits /\ past'.unguarded = U /\ past'.zombies = past.zombies
      /\ \/ /\ disk' = store /\ svc' = [svc EXCEPT ![current].timer = Arms(store)]
            /\ past'.gone = G /\ past'.faults = past.faults /\ past'.unsaved = past.unsaved
         \/ /\ UNCHANGED <<disk, svc>> /\ past'.gone = past.gone /\ past'.faults > 0 /\ past'.unsaved = N
  BY <1>4, <1>6, <1>7
<1>. QED BY <1>5, <1>8 DEF edits, U, G, N

LEMMA EditsTypes ==
  ASSUME TypeOK, NEW j \in Jobs, NEW store \in Stores, NEW unguarded \in SUBSET Jobs, NEW gone \in SUBSET Jobs,
         Edits(j, store, unguarded, gone)
  PROVE  TypeOK'
<1>1. current \in Services /\ svc[current] \in ServiceRecords
  BY TypeFacts
<1>2. /\ mem' = [mem EXCEPT ![current] = store] /\ past' \in Pasts
      /\ disk' \in {store, disk} /\ svc' \in {svc, [svc EXCEPT ![current].timer = Arms(store)]}
      /\ UNCHANGED <<now, batch, manual, current, left>>
  BY EditsCases
<1>3. disk' \in Stores /\ mem' \in [Services -> Stores]
  BY <1>1, <1>2, TypeFacts
<1>4. [svc[current] EXCEPT !.timer = Arms(store)] \in ServiceRecords
  BY <1>1 DEF ServiceRecords, Arms
<1>5. svc' \in [Services -> ServiceRecords]
  BY <1>1, <1>2, <1>4, ServiceType, TypeFacts
<1>. QED BY <1>2, <1>3, <1>5, TypeFacts, TypeFactsPrime

\* The stores that the edits save.
Unguards(j, enabled) == IF ~enabled /\ Owners(j) # {} THEN {j} ELSE {}
UpdatedStore(j, enabled) == [mem[current] EXCEPT ![j] = UpdatedRecord(j, enabled)]

LEMMA EditedStores ==
  ASSUME TypeOK, NEW j \in Jobs
  PROVE  /\ Add(j) => /\ Recomputed(AddedStore(j)) \in Stores
                      /\ Edits(j, Recomputed(AddedStore(j)), {}, {})
         /\ \A enabled \in BOOLEAN : Update(j, enabled) =>
              /\ j \in DOMAIN mem[current] /\ UpdatedStore(j, enabled) \in Stores
              /\ Edits(j, UpdatedStore(j, enabled), Unguards(j, enabled), {})
         /\ Remove(j) => Without(mem[current], j) \in Stores /\ Edits(j, Without(mem[current], j), {}, {j})
<1>1. mem[current] \in Stores
  BY TypeFacts
<1>2. ASSUME Add(j)
      PROVE  Recomputed(AddedStore(j)) \in Stores /\ Edits(j, Recomputed(AddedStore(j)), {}, {})
  <2>1. Recomputed(AddedStore(j)) \in Stores
    BY AddedFacts, RecomputedStore, StoredTypes
  <2>. QED BY <1>2, <2>1 DEF Add, AddedStore
<1>3. ASSUME NEW enabled \in BOOLEAN, Update(j, enabled)
      PROVE  /\ j \in DOMAIN mem[current] /\ UpdatedStore(j, enabled) \in Stores
             /\ Edits(j, UpdatedStore(j, enabled), Unguards(j, enabled), {})
  <2>1. /\ j \in DOMAIN mem[current]
        /\ Edits(j, UpdatedStore(j, enabled), Unguards(j, enabled), {})
    BY <1>3 DEF Update, UpdatedStore, UpdatedRecord, Changed, Unguards
  <2>. QED BY <1>1, <2>1, UpdatedFacts, ReplacedStore DEF UpdatedStore
<1>4. Remove(j) => Without(mem[current], j) \in Stores /\ Edits(j, Without(mem[current], j), {}, {j})
  BY <1>1, WithoutStore DEF Remove
<1>. QED BY <1>2, <1>3, <1>4

LEMMA CallerTypes ==
  ASSUME TypeOK, Caller
  PROVE  TypeOK'
<1>1. ASSUME Read  PROVE TypeOK'
  <2>1. disk' \in Stores /\ mem' \in [Services -> Stores]
    BY <1>1, SavesChangesType, StoredTypes, MaintainedStore, TypeFacts DEF Read
  <2>. QED BY <1>1, <2>1, TypeFacts, TypeFactsPrime DEF Read
<1>2. ASSUME ReadFails  PROVE TypeOK'
  <2>1. mem' \in [Services -> Stores]
    BY <1>2, StoredTypes, MaintainedStore, TypeFacts DEF ReadFails
  <2>2. past' \in Pasts
    BY <1>2, FailsType DEF ReadFails
  <2>. QED BY <1>2, <2>1, <2>2, TypeFacts, TypeFactsPrime DEF ReadFails
<1>3. ASSUME NEW j \in Jobs, Add(j)  PROVE TypeOK'
  <2>1. {} \in SUBSET Jobs /\ Recomputed(AddedStore(j)) \in Stores
        /\ Edits(j, Recomputed(AddedStore(j)), {}, {})
    BY <1>3, EditedStores
  <2>. QED BY <2>1, EditsTypes
<1>4. ASSUME NEW j \in Jobs, Remove(j)  PROVE TypeOK'
  <2>1. {} \in SUBSET Jobs /\ {j} \in SUBSET Jobs /\ Without(mem[current], j) \in Stores
        /\ Edits(j, Without(mem[current], j), {}, {j})
    BY <1>4, EditedStores
  <2>. QED BY <2>1, EditsTypes
<1>5. ASSUME NEW j \in Jobs, NEW enabled \in BOOLEAN, Update(j, enabled)  PROVE TypeOK'
  <2>1. Unguards(j, enabled) \in SUBSET Jobs /\ {} \in SUBSET Jobs
    BY DEF Unguards
  <2>2. UpdatedStore(j, enabled) \in Stores
        /\ Edits(j, UpdatedStore(j, enabled), Unguards(j, enabled), {})
    BY <1>5, EditedStores
  <2>. QED BY <2>1, <2>2, EditsTypes
<1>. QED BY <1>1, <1>2, <1>3, <1>4, <1>5 DEF Caller

LEMMA ClockTypes ==
  ASSUME TypeOK, ClockTicks
  PROVE  TypeOK'
<1>1. now' \in 1..MaxTime
  BY TypeFacts, Constants DEF ClockTicks
<1>2. past' \in Pasts
  BY TypeFacts DEF ClockTicks, Pasts
<1>. QED BY <1>1, <1>2, TypeFacts, TypeFactsPrime DEF ClockTicks

LEMMA NewServiceTypes == NewService \in ServiceRecords /\ NoService \in ServiceRecords /\ Nothing \in Stores
<1>1. NewService \in ServiceRecords /\ NoService \in ServiceRecords
  BY DEF NewService, NoService, ServiceRecords
<1>2. Nothing \in Stores
  BY StoreFacts DEF Nothing
<1>. QED BY <1>1, <1>2

LEMMA ReloadTypes ==
  ASSUME TypeOK, Reload
  PROVE  TypeOK'
<1>0. current < MaxServices /\ current' = current + 1
  BY DEF Reload
<1>1. current' \in Services /\ current \in Services /\ current + 1 \in Services /\ current' = current + 1
  BY <1>0, TypeFacts, Constants DEF Services
<1>2. svc[current] \in ServiceRecords
  BY <1>1, TypeFacts
<1>3. ASSUME Busy(current), past.zombies < MaxZombies,
             svc' = [svc EXCEPT ![current].timer = FALSE, ![current + 1] = NewService],
             past' = [past EXCEPT !.zombies = @ + 1], UNCHANGED mem
      PROVE  TypeOK'
  <2>1. past' \in Pasts
    BY <1>3, TypeFacts, Constants DEF Pasts
  <2>2. [svc[current] EXCEPT !.timer = FALSE] \in ServiceRecords
    BY <1>2 DEF ServiceRecords
  <2>3. svc' = [[svc EXCEPT ![current] = [svc[current] EXCEPT !.timer = FALSE]] EXCEPT ![current + 1] = NewService]
    BY <1>3
  <2>4. svc' \in [Services -> ServiceRecords]
    BY <1>1, <2>2, <2>3, NewServiceTypes, TypeFacts
  <2>. QED BY <1>1, <1>3, <2>1, <2>4, TypeFacts, TypeFactsPrime DEF Reload
<1>4. ASSUME svc' = [svc EXCEPT ![current] = NoService, ![current + 1] = NewService],
             mem' = [mem EXCEPT ![current] = Nothing], UNCHANGED past
      PROVE  TypeOK'
  <2>1. svc' \in [Services -> ServiceRecords] /\ mem' \in [Services -> Stores]
    BY <1>1, <1>4, NewServiceTypes, TypeFacts
  <2>. QED BY <1>1, <1>4, <2>1, TypeFacts, TypeFactsPrime DEF Reload
<1>. QED BY <1>3, <1>4 DEF Reload

LEMMA CrashTypes ==
  ASSUME TypeOK, Crash
  PROVE  TypeOK'
<1>1. current' \in Services
  BY TypeFacts, Constants DEF Crash, Services
<1>2. svc' \in [Services -> ServiceRecords] /\ mem' \in [Services -> Stores]
  BY NewServiceTypes DEF Crash
<1>3. batch' \in [Parts -> Batches]
  BY NoRunsType DEF Crash
<1>5. manual' \in [Manuals -> ManualRecords]
  BY NoManualType, TypeFacts DEF Crash
<1>6. past' \in Pasts
  <2>. DEFINE r == [past EXCEPT !.unguarded = {}, !.zombies = 0, !.unsaved = {}, !.gone = @ \ DOMAIN disk]
  <2>1. past \in Pasts /\ 0 \in 0..MaxZombies
    BY TypeFacts, Constants
  <2>2. r \in Pasts
    BY <2>1 DEF Pasts
  <2>3. past' = r
    BY DEF Crash
  <2>. QED BY <2>2, <2>3
<1>7. left' \in [Jobs -> 0..MaxLeft]
  BY Constants DEF Crash
<1>. QED BY <1>1, <1>2, <1>3, <1>5, <1>6, <1>7, TypeFacts, TypeFactsPrime DEF Crash

LEMMA StutterTypes ==
  ASSUME TypeOK, UNCHANGED vars
  PROVE  TypeOK'
BY TypeFacts, TypeFactsPrime DEF vars

LEMMA NextTypes ==
  ASSUME TypeOK, [Next]_vars
  PROVE  TypeOK'
<1>1. ASSUME NEW s \in Services, ServiceStep(s)  PROVE TypeOK'
  BY <1>1, StartLoadsTypes, StartPlansTypes, StartAppliesTypes, StartArmsTypes, StartFailsTypes, TickMovesTypes,
     TickCollectsTypes, TickAppliesTypes, TickFailsTypes DEF ServiceStep
<1>2. ASSUME NEW m \in Manuals, ManualStep(m)  PROVE TypeOK'
  BY <1>2, InspectTypes, ReserveTypes, ManualEndsTypes, ManualFinishesTypes DEF ManualStep
<1>. QED BY <1>1, <1>2, RunTypes, LeftTypes, CallerTypes, ClockTypes, ReloadTypes, CrashTypes, StutterTypes DEF Next

--------------------------------------------------------------------------------
(* Services.                                                                *)

\* A step that changes no service, and after which no batch or run by hand is new, unless its service is
\* loaded.
LEMMA ServicesStay ==
  ASSUME TypeOK, ServicesInv, now' >= now, now' \in Nat, UNCHANGED <<svc, current>>,
         past'.zombies = past.zombies,
         \A p \in Parts, j \in Jobs : InBatch(j, batch'[p]) => InBatch(j, batch[p]),
         \A m \in Manuals : AtWork(m)' =>
           \/ AtWork(m) /\ manual'[m].svc = manual[m].svc /\ manual'[m].from = manual[m].from
           \/ Loaded(manual'[m].svc) /\ manual'[m].from \in 1..now
  PROVE  ServicesInv'
<1>1. BatchesEnd'
  BY DEF ServicesInv, BatchesEnd, Parts
<1>2. UnloadedAreIdle'
  BY DEF ServicesInv, UnloadedAreIdle, Loaded
<1>3. LaterAreNone' /\ OneService'
  BY DEF ServicesInv, LaterAreNone, OneService
<1>4. InspectedInTime'
  BY TypeFacts DEF ServicesInv, InspectedInTime
<1>. QED BY <1>1, <1>2, <1>3, <1>4 DEF ServicesInv

\* A step of one service that is there.
LEMMA ServiceMoves ==
  ASSUME TypeOK, ServicesInv, NEW s \in Services, NEW r, svc' = [svc EXCEPT ![s] = r],
         svc[s].start # "none", r.start \notin {"none", "loading"},
         UNCHANGED <<now, current>>, past'.zombies = past.zombies,
         r.start # "running" => \A j \in Jobs : ~InBatch(j, batch'[<<s, "boot">>]),
         r.tick # "running" => \A j \in Jobs : ~InBatch(j, batch'[<<s, "tick">>]),
         \A p \in Parts, j \in Jobs : p[1] # s /\ InBatch(j, batch'[p]) => InBatch(j, batch[p]),
         \A m \in Manuals : AtWork(m)' =>
           AtWork(m) /\ manual'[m].svc = manual[m].svc /\ manual'[m].from = manual[m].from
  PROVE  ServicesInv'
<1>1. svc'[s] = r /\ \A z \in Services \ {s} : svc'[z] = svc[z]
  BY TypeFacts
<1>2. BatchesEnd'
  <2>. SUFFICES ASSUME NEW z \in Services, NEW j \in Jobs
                PROVE  /\ svc'[z].start # "running" => ~InBatch(j, batch'[<<z, "boot">>])
                       /\ svc'[z].tick # "running" => ~InBatch(j, batch'[<<z, "tick">>])
    BY DEF BatchesEnd
  <2>1. CASE z = s
    BY <1>1, <2>1
  <2>2. CASE z # s
    <3>1. \A where \in {"boot", "tick"} : InBatch(j, batch'[<<z, where>>]) => InBatch(j, batch[<<z, where>>])
      BY <2>2 DEF Parts
    <3>. QED BY <1>1, <2>2, <3>1 DEF ServicesInv, BatchesEnd
  <2>. QED BY <2>1, <2>2
<1>3. UnloadedAreIdle'
  BY <1>1 DEF ServicesInv, UnloadedAreIdle, Loaded
<1>4. LaterAreNone'
  BY <1>1 DEF ServicesInv, LaterAreNone
<1>5. OneService'
  BY <1>1 DEF ServicesInv, OneService
<1>6. InspectedInTime'
  BY DEF ServicesInv, InspectedInTime
<1>. QED BY <1>2, <1>3, <1>4, <1>5, <1>6 DEF ServicesInv

LEMMA PartMoves ==
  ASSUME TypeOK, NEW p \in Parts, NEW b, batch' = [batch EXCEPT ![p] = b]
  PROVE  batch'[p] = b /\ \A q \in Parts : q # p => batch'[q] = batch[q]
BY TypeFacts

\* A new set of runs is begun, or the results of one are applied.
LEMMA BatchMoves ==
  ASSUME TypeOK, NEW s \in Services, NEW where \in {"boot", "tick"}, NEW b,
         batch' = [batch EXCEPT ![<<s, where>>] = b]
  PROVE  /\ batch'[<<s, where>>] = b
         /\ \A p \in Parts : p # <<s, where>> => batch'[p] = batch[p]
         /\ \A p \in Parts : p[1] # s => batch'[p] = batch[p]
<1>1. <<s, where>> \in Parts /\ \A p \in Parts : p[1] # s => p # <<s, where>>
  BY DEF Parts
<1>2. batch'[<<s, where>>] = b /\ \A p \in Parts : p # <<s, where>> => batch'[p] = batch[p]
  BY <1>1, TypeFacts
<1>. QED BY <1>1, <1>2

LEMMA NoRunsInBatch == \A j \in Jobs : ~InBatch(j, NoRuns)
BY DEF InBatch, NoRuns

\* The runs of a new batch.
LEMMA NewBatch ==
  ASSUME NEW J \in SUBSET Jobs
  PROVE  \A j \in Jobs : InBatch(j, [NoRuns EXCEPT !.todo = J]) <=> j \in J
BY DEF InBatch, NoRuns

LEMMA InitServices == Init => ServicesInv
<1>. SUFFICES ASSUME Init  PROVE ServicesInv
  OBVIOUS
<1>1. BatchesEnd
  BY NoRunsInBatch DEF Init, BatchesEnd, Parts
<1>2. UnloadedAreIdle /\ InspectedInTime
  BY DEF Init, UnloadedAreIdle, InspectedInTime, AtWork, NoManual, NewService, NoService
<1>3. LaterAreNone /\ OneService
  BY DEF Init, LaterAreNone, OneService, NewService, NoService, Services
<1>. QED BY <1>1, <1>2, <1>3 DEF ServicesInv

\* A run returns to its batch, with or without its time-out.
LEMMA RunCases ==
  ASSUME NEW p, NEW j, RunStep(p, j)
  PROVE  RunStarts(p, j) \/ \E status \in Statuses : Returns(p, j, status)
BY DEF RunStep, RunEnds, TimesOut

LEMMA RunServices ==
  ASSUME TypeOK, ServicesInv, NEW p \in Parts, NEW j \in Jobs, RunStep(p, j)
  PROVE  /\ ServicesInv'
         /\ \A q \in Parts, k \in Jobs : InBatch(k, batch'[q]) <=> InBatch(k, batch[q])
<1>0. RunStarts(p, j) \/ \E status \in Statuses : Returns(p, j, status)
  BY RunCases
<1>1. UNCHANGED <<now, svc, manual, current, past>> /\ now \in Nat
  <2>1. now \in Nat
    BY TypeFacts
  <2>2. ASSUME NEW status \in Statuses, Returns(p, j, status)
        PROVE  UNCHANGED <<now, svc, manual, current, past>>
    BY <2>2 DEF Returns
  <2>. QED BY <1>0, <2>1, <2>2 DEF RunStarts
<1>2. \A q \in Parts \ {p} : batch'[q] = batch[q]
  BY <1>0, TypeFacts DEF RunStarts, Returns
<1>3. ASSUME NEW k \in Jobs  PROVE InBatch(k, batch'[p]) <=> InBatch(k, batch[p])
  <2>0. batch[p] \in Batches
    BY TypeFacts
  <2>1. CASE RunStarts(p, j)
    <3>1. /\ j \in batch[p].todo /\ batch'[p].todo = batch[p].todo \ {j}
          /\ batch'[p].going = batch[p].going \cup {j} /\ batch'[p].status = batch[p].status
      BY <2>0, <2>1, TypeFacts DEF RunStarts, Batches
    <3>. QED BY <3>1 DEF InBatch
  <2>2. ASSUME NEW status \in Statuses, Returns(p, j, status)
        PROVE  InBatch(k, batch'[p]) <=> InBatch(k, batch[p])
    <3>1. /\ j \in batch[p].going /\ batch'[p].todo = batch[p].todo
          /\ batch'[p].going = batch[p].going \ {j}
          /\ batch'[p].status = [batch[p].status EXCEPT ![j] = status]
      BY <2>0, <2>2, TypeFacts DEF Returns, Batches
    <3>2. batch[p].status \in [Jobs -> Statuses \cup {"none"}] /\ status # "none"
      BY <2>0 DEF Batches, Statuses
    <3>. QED BY <3>1, <3>2 DEF InBatch
  <2>. QED BY <1>0, <2>1, <2>2
<1>4. \A q \in Parts, k \in Jobs : InBatch(k, batch'[q]) <=> InBatch(k, batch[q])
  BY <1>2, <1>3
<1>5. \A m \in Manuals : AtWork(m)' => AtWork(m)
  BY <1>1 DEF AtWork
<1>6. ServicesInv'
  BY <1>1, <1>4, <1>5, ServicesStay
<1>. QED BY <1>4, <1>6

\* A service in whose start or tick a step is taken is there, and batches that wait belong to it.
LEMMA TickingIsLoaded ==
  ASSUME TypeOK, ServicesInv, NEW s \in Services, svc[s].tick # "idle" \/ svc[s].timer
  PROVE  Loaded(s)
BY TypeFacts DEF ServicesInv, UnloadedAreIdle, ServiceRecords

LEMMA WorkIsLoaded ==
  ASSUME TypeOK, ServicesInv, NEW m \in Manuals, AtWork(m)
  PROVE  Loaded(manual[m].svc)
BY ManualFacts DEF ServicesInv, UnloadedAreIdle

LEMMA PartFacts ==
  ASSUME NEW s \in Services
  PROVE  /\ <<s, "boot">> \in Parts /\ <<s, "tick">> \in Parts /\ <<s, "boot">> # <<s, "tick">>
         /\ \A p \in Parts : p[1] # s => p # <<s, "boot">> /\ p # <<s, "tick">>
BY DEF Parts

\* The record of a service after a step that sets two of its fields.
LEMMA RecordFields ==
  ASSUME NEW r \in ServiceRecords
  PROVE  /\ \A start, x : [r EXCEPT !.start = start, !.interrupted = x].start = start
         /\ \A start, x : [r EXCEPT !.start = start, !.interrupted = x].tick = r.tick
         /\ \A start, x : [r EXCEPT !.start = start, !.deferred = x].start = start
         /\ \A start, x : [r EXCEPT !.start = start, !.deferred = x].tick = r.tick
         /\ \A tick, x : [r EXCEPT !.tick = tick, !.attached = x].tick = tick
         /\ \A tick, x : [r EXCEPT !.tick = tick, !.attached = x].start = r.start
         /\ \A tick, x : [r EXCEPT !.tick = tick, !.timer = x].tick = tick
         /\ \A tick, x : [r EXCEPT !.tick = tick, !.timer = x].start = r.start
         /\ \A x, y : [r EXCEPT !.timer = x, !.attached = y].tick = r.tick
         /\ \A x, y : [r EXCEPT !.timer = x, !.attached = y].start = r.start
BY DEF ServiceRecords

LEMMA StartServices ==
  ASSUME TypeOK, ServicesInv, NEW s \in Services,
         StartLoads(s) \/ StartPlans(s) \/ StartApplies(s) \/ StartArms(s) \/ StartFails(s)
  PROVE  ServicesInv'
<1>1. svc[s] \in ServiceRecords /\ UNCHANGED <<now, manual, current>> /\ past'.zombies = past.zombies
  <2>1. UNCHANGED <<now, manual, current>>
    BY DEF StartLoads, StartPlans, StartApplies, StartArms, StartFails
  <2>2. past' = past \/ (\E J : past' = Gone(J)) \/ Fails
    BY DEF StartLoads, StartPlans, StartApplies, StartArms, StartFails
  <2>3. (\A J : Gone(J).zombies = past.zombies) /\ (Fails => past'.zombies = past.zombies)
    BY TypeFacts DEF Gone, Fails, Pasts
  <2>. QED BY <2>1, <2>2, <2>3, TypeFacts
<1>2. \A m \in Manuals : AtWork(m)' => AtWork(m)
  BY <1>1 DEF AtWork
<1>3. /\ svc[s].start # "running" => \A j \in Jobs : ~InBatch(j, batch[<<s, "boot">>])
      /\ svc[s].tick # "running" => \A j \in Jobs : ~InBatch(j, batch[<<s, "tick">>])
  BY DEF ServicesInv, BatchesEnd
<1>4. CASE StartLoads(s)
  <2>. DEFINE r == [svc[s] EXCEPT !.start = "planning",
                                  !.interrupted = {j \in DOMAIN disk : disk[j].running > 0}]
  <2>1. svc' = [svc EXCEPT ![s] = r] /\ svc[s].start = "loading" /\ batch' = batch
    BY <1>4 DEF StartLoads
  <2>2. r.start = "planning" /\ r.tick = svc[s].tick
    BY <1>1, RecordFields
  <2>. HIDE DEF r
  <2>. QED BY <1>1, <1>2, <1>3, <2>1, <2>2, ServiceMoves
<1>5. ASSUME svc' = [svc EXCEPT ![s].start = "arming"], svc[s].start = "planning", batch' = batch
      PROVE  ServicesInv'
  <2>. DEFINE r == [svc[s] EXCEPT !.start = "arming"]
  <2>1. svc' = [svc EXCEPT ![s] = r]
    BY <1>5
  <2>2. r.start = "arming" /\ r.tick = svc[s].tick
    BY <1>1 DEF ServiceRecords
  <2>. HIDE DEF r
  <2>. QED BY <1>1, <1>2, <1>3, <1>5, <2>1, <2>2, ServiceMoves
<1>6. ASSUME NEW x, svc' = [svc EXCEPT ![s].start = "running", ![s].deferred = x], svc[s].start = "planning",
             NEW b, batch' = [batch EXCEPT ![<<s, "boot">>] = b]
      PROVE  ServicesInv'
  <2>. DEFINE r == [svc[s] EXCEPT !.start = "running", !.deferred = x]
  <2>1. svc' = [svc EXCEPT ![s] = r]
    BY <1>6
  <2>2. r.start = "running" /\ r.tick = svc[s].tick
    BY <1>1, RecordFields
  <2>3. /\ \A p \in Parts : p[1] # s => batch'[p] = batch[p]
        /\ batch'[<<s, "tick">>] = batch[<<s, "tick">>]
    BY <1>6, BatchMoves, PartFacts
  <2>. HIDE DEF r
  <2>4. /\ r.tick # "running" => \A j \in Jobs : ~InBatch(j, batch'[<<s, "tick">>])
        /\ \A p \in Parts, j \in Jobs : p[1] # s /\ InBatch(j, batch'[p]) => InBatch(j, batch[p])
        /\ svc[s].start # "none" /\ r.start \notin {"none", "loading"}
    BY <1>3, <1>6, <2>2, <2>3
  <2>. QED BY <1>1, <1>2, <2>1, <2>2, <2>4, ServiceMoves
<1>7. CASE StartPlans(s)
  BY <1>5, <1>6, <1>7 DEF StartPlans
<1>8. CASE StartApplies(s)
  <2>. DEFINE r == [svc[s] EXCEPT !.start = "arming", !.deferred = {}]
  <2>1. svc' = [svc EXCEPT ![s] = r] /\ svc[s].start = "running"
    BY <1>8 DEF StartApplies
  <2>2. r.start = "arming" /\ r.tick = svc[s].tick
    BY <1>1, RecordFields
  <2>3. batch' = [batch EXCEPT ![<<s, "boot">>] = NoRuns]
    BY <1>8 DEF StartApplies
  <2>4. /\ \A p \in Parts : p[1] # s => batch'[p] = batch[p]
        /\ batch'[<<s, "boot">>] = NoRuns /\ batch'[<<s, "tick">>] = batch[<<s, "tick">>]
    BY <2>3, BatchMoves, PartFacts
  <2>5. \A j \in Jobs : ~InBatch(j, batch'[<<s, "boot">>])
    BY <2>4, NoRunsInBatch
  <2>. HIDE DEF r
  <2>. QED BY <1>1, <1>2, <1>3, <2>1, <2>2, <2>4, <2>5, ServiceMoves
<1>9. CASE StartArms(s)
  <2>. DEFINE r == [svc[s] EXCEPT !.start = "up", !.timer = Arms(mem'[s]), !.interrupted = {}]
  <2>1. svc' = [svc EXCEPT ![s] = r] /\ svc[s].start = "arming" /\ batch' = batch
    BY <1>9 DEF StartArms
  <2>2. r.start = "up" /\ r.tick = svc[s].tick
    BY <1>1 DEF ServiceRecords
  <2>. HIDE DEF r
  <2>. QED BY <1>1, <1>2, <1>3, <2>1, <2>2, ServiceMoves
<1>10. CASE StartFails(s)
  <2>. DEFINE r == [svc[s] EXCEPT !.start = "failed", !.interrupted = {}, !.deferred = {}]
  <2>1. svc' = [svc EXCEPT ![s] = r] /\ batch' = [batch EXCEPT ![<<s, "boot">>] = NoRuns]
    BY <1>10 DEF StartFails
  <2>2. r.start = "failed" /\ r.tick = svc[s].tick
    BY <1>1 DEF ServiceRecords
  <2>3. svc[s].start # "none"
    BY <1>10 DEF StartFails, Unsaved
  <2>4. /\ \A p \in Parts : p[1] # s => batch'[p] = batch[p]
        /\ batch'[<<s, "boot">>] = NoRuns /\ batch'[<<s, "tick">>] = batch[<<s, "tick">>]
    BY <2>1, BatchMoves, PartFacts
  <2>5. \A j \in Jobs : ~InBatch(j, batch'[<<s, "boot">>])
    BY <2>4, NoRunsInBatch
  <2>. HIDE DEF r
  <2>. QED BY <1>1, <1>2, <1>3, <2>1, <2>2, <2>3, <2>4, <2>5, ServiceMoves
<1>. QED BY <1>4, <1>7, <1>8, <1>9, <1>10

LEMMA TickServices ==
  ASSUME TypeOK, ServicesInv, NEW s \in Services,
         \/ TickSkips(s) \/ TickStarts(s) \/ TickCollects(s) \/ TickApplies(s) \/ TickEnds(s)
         \/ TickCollectFails(s) \/ TickApplyFails(s)
  PROVE  ServicesInv'
<1>1. svc[s] \in ServiceRecords /\ UNCHANGED <<now, manual, current>> /\ past'.zombies = past.zombies
  BY TypeFacts DEF TickSkips, TickStarts, TickCollects, TickApplies, TickEnds, TickCollectFails,
                   TickApplyFails, Fails, Gone, Pasts
<1>2. \A m \in Manuals : AtWork(m)' => AtWork(m)
  BY <1>1 DEF AtWork
<1>3. /\ svc[s].start # "running" => \A j \in Jobs : ~InBatch(j, batch[<<s, "boot">>])
      /\ svc[s].tick # "running" => \A j \in Jobs : ~InBatch(j, batch[<<s, "tick">>])
  BY DEF ServicesInv, BatchesEnd
<1>4. svc[s].start \notin {"none", "loading"}
  BY TickingIsLoaded DEF Loaded, TickSkips, TickStarts, TickCollects, TickApplies, TickEnds,
                         TickCollectFails, TickApplyFails
<1>5. ASSUME NEW r, svc' = [svc EXCEPT ![s] = r], r.start = svc[s].start, batch' = batch,
             r.tick = "running" \/ svc[s].tick # "running"
      PROVE  ServicesInv'
  BY <1>1, <1>2, <1>3, <1>4, <1>5, ServiceMoves
<1>6. ASSUME NEW r, svc' = [svc EXCEPT ![s] = r], r.start = svc[s].start, NEW b,
             batch' = [batch EXCEPT ![<<s, "tick">>] = b], r.tick = "running" \/ b = NoRuns
      PROVE  ServicesInv'
  <2>1. /\ \A p \in Parts : p[1] # s => batch'[p] = batch[p]
        /\ batch'[<<s, "tick">>] = b /\ batch'[<<s, "boot">>] = batch[<<s, "boot">>]
    BY <1>6, BatchMoves, PartFacts
  <2>2. r.tick # "running" => \A j \in Jobs : ~InBatch(j, batch'[<<s, "tick">>])
    BY <1>6, <2>1, NoRunsInBatch
  <2>3. r.start # "running" => \A j \in Jobs : ~InBatch(j, batch'[<<s, "boot">>])
    BY <1>3, <1>6, <2>1
  <2>4. \A p \in Parts, j \in Jobs : p[1] # s /\ InBatch(j, batch'[p]) => InBatch(j, batch[p])
    BY <2>1
  <2>5. \A m \in Manuals : AtWork(m)' =>
           AtWork(m) /\ manual'[m].svc = manual[m].svc /\ manual'[m].from = manual[m].from
    BY <1>1, <1>2
  <2>6. svc[s].start # "none" /\ r.start \notin {"none", "loading"}
    BY <1>4, <1>6
  <2>. QED BY <1>1, <1>6, <2>2, <2>3, <2>4, <2>5, <2>6, ServiceMoves
<1>7. CASE TickSkips(s) \/ TickStarts(s) \/ TickEnds(s)
  <2>. DEFINE skipped == [svc[s] EXCEPT !.timer = TRUE]
              started == [svc[s] EXCEPT !.tick = "collecting", !.timer = TRUE]
              ended == [svc[s] EXCEPT !.tick = "idle", !.timer = Arms(mem[s])]
  <2>1. skipped.start = svc[s].start /\ skipped.tick = svc[s].tick
    BY <1>1 DEF ServiceRecords
  <2>2. started.start = svc[s].start /\ ended.start = svc[s].start
    BY <1>1, RecordFields
  <2>3. \/ svc' = [svc EXCEPT ![s] = skipped]
        \/ svc' = [svc EXCEPT ![s] = started] /\ svc[s].tick = "idle"
        \/ svc' = [svc EXCEPT ![s] = ended] /\ svc[s].tick = "ending"
    BY <1>7 DEF TickSkips, TickStarts, TickEnds
  <2>4. batch' = batch
    BY <1>7 DEF TickSkips, TickStarts, TickEnds
  <2>. HIDE DEF skipped, started, ended
  <2>. QED BY <1>5, <2>1, <2>2, <2>3, <2>4
<1>8. ASSUME NEW tick, NEW x, svc' = [svc EXCEPT ![s].tick = tick, ![s].attached = x],
             \/ tick = "ending" /\ svc[s].tick # "running" /\ batch' = batch
             \/ tick = "ending" /\ batch' = [batch EXCEPT ![<<s, "tick">>] = NoRuns]
             \/ tick = "running" /\ \E b : batch' = [batch EXCEPT ![<<s, "tick">>] = b]
      PROVE  ServicesInv'
  <2>. DEFINE r == [svc[s] EXCEPT !.tick = tick, !.attached = x]
  <2>1. r.tick = tick /\ r.start = svc[s].start
    BY <1>1, RecordFields
  <2>2. svc' = [svc EXCEPT ![s] = r]
    BY <1>8
  <2>. HIDE DEF r
  <2>. QED BY <1>5, <1>6, <1>8, <2>1, <2>2
<1>9. CASE TickCollects(s)
  BY <1>8, <1>9 DEF TickCollects
<1>10. CASE TickApplies(s)
  BY <1>8, <1>10 DEF TickApplies
<1>11. CASE TickCollectFails(s) \/ TickApplyFails(s)
  BY <1>8, <1>11 DEF TickCollectFails, TickApplyFails
<1>. QED BY <1>7, <1>9, <1>10, <1>11

\* Runs by hand are at work in services that are loaded.
LEMMA HandMoves ==
  ASSUME TypeOK, NEW m \in Manuals, NEW r, manual' = [manual EXCEPT ![m] = r]
  PROVE  manual'[m] = r /\ \A n \in Manuals \ {m} : manual'[n] = manual[n]
BY TypeFacts

\* A run by hand begins, or is over.
LEMMA RunsMoves ==
  ASSUME TypeOK, NEW m \in Manuals, Runs(m)
  PROVE  /\ manual'[m].at = "running" /\ manual'[m].job = manual[m].job
         /\ manual'[m].svc = manual[m].svc /\ manual'[m].from = manual[m].from
         /\ \A n \in Manuals \ {m} : manual'[n] = manual[n]
<1>. DEFINE r == [manual[m] EXCEPT !.at = "running"]
<1>1. /\ r.at = "running" /\ r.job = manual[m].job
      /\ r.svc = manual[m].svc /\ r.from = manual[m].from
  BY ManualFacts DEF ManualRecords
<1>2. manual' = [manual EXCEPT ![m] = r]
  BY DEF Runs
<1>. HIDE DEF r
<1>. QED BY <1>1, <1>2, HandMoves

LEMMA OverMoves ==
  ASSUME TypeOK, NEW m \in Manuals, Over(m)
  PROVE  manual'[m].at = "over" /\ \A n \in Manuals \ {m} : manual'[n] = manual[n]
BY HandMoves DEF Over, ManualOver, NoManual

LEMMA EndMoves ==
  ASSUME TypeOK, NEW m \in Manuals, NEW status \in Statuses, ManualReturns(m, status)
  PROVE  /\ manual'[m].at = "ended" /\ manual'[m].job = manual[m].job
         /\ manual'[m].svc = manual[m].svc /\ manual'[m].from = manual[m].from
         /\ \A n \in Manuals \ {m} : manual'[n] = manual[n]
<1>. DEFINE r == [manual[m] EXCEPT !.at = "ended", !.status = status, !.till = now]
<1>1. r.at = "ended" /\ r.job = manual[m].job /\ r.svc = manual[m].svc /\ r.from = manual[m].from
  BY ManualFacts DEF ManualRecords
<1>2. manual' = [manual EXCEPT ![m] = r]
  BY DEF ManualReturns
<1>. HIDE DEF r
<1>. QED BY <1>1, <1>2, HandMoves

\* What an inspection makes of a run by hand.
LEMMA InspectMoves ==
  ASSUME TypeOK, NEW m \in Manuals, NEW j \in Jobs, NEW force \in BOOLEAN, Inspect(m, j, force)
  PROVE  /\ manual[m].at = "idle"
         /\ manual'[m].at \in {"over", "inspected"}
         /\ manual'[m].at = "inspected" => manual'[m].svc = current /\ manual'[m].from = now
         /\ \A n \in Manuals \ {m} : manual'[n] = manual[n]
<1>1. CASE Over(m)
  BY <1>1, OverMoves DEF Inspect
<1>2. CASE ~Over(m)
  <2>. DEFINE r == [NoManual EXCEPT !.at = "inspected", !.job = j, !.svc = current, !.from = now]
  <2>1. r.at = "inspected" /\ r.svc = current /\ r.from = now
    BY DEF NoManual
  <2>2. manual' = [manual EXCEPT ![m] = r]
    BY <1>2 DEF Inspect
  <2>. HIDE DEF r
  <2>. QED BY <2>1, <2>2, HandMoves DEF Inspect
<1>. QED BY <1>1, <1>2

LEMMA ManualServices ==
  ASSUME TypeOK, ServicesInv, NEW m \in Manuals, ManualStep(m)
  PROVE  ServicesInv'
<1>1. now \in 1..now
  BY StoredTypes
<1>2. ASSUME NEW j \in Jobs, NEW force \in BOOLEAN, Inspect(m, j, force)  PROVE ServicesInv'
  <2>1. UNCHANGED <<now, svc, batch, current, past>> /\ Loaded(current)
    BY <1>2 DEF Inspect
  <2>2. \A n \in Manuals : AtWork(n)' =>
          \/ AtWork(n) /\ manual'[n].svc = manual[n].svc /\ manual'[n].from = manual[n].from
          \/ Loaded(manual'[n].svc) /\ manual'[n].from \in 1..now
    BY <1>1, <1>2, <2>1, InspectMoves DEF AtWork
  <2>. QED BY <1>1, <2>1, <2>2, ServicesStay
<1>3. ASSUME \A n \in Manuals : AtWork(n)' =>
               AtWork(n) /\ manual'[n].svc = manual[n].svc /\ manual'[n].from = manual[n].from,
             UNCHANGED <<now, batch, current>>, past'.zombies = past.zombies, UNCHANGED svc
      PROVE  ServicesInv'
  BY <1>1, <1>3, ServicesStay
<1>4. ASSUME Runs(m) \/ Over(m), AtWork(m)
      PROVE  \A n \in Manuals : AtWork(n)' =>
               AtWork(n) /\ manual'[n].svc = manual[n].svc /\ manual'[n].from = manual[n].from
  BY <1>4, RunsMoves, OverMoves DEF AtWork
<1>5. ASSUME Reserve(m) \/ ReserveFails(m)  PROVE ServicesInv'
  <2>1. UNCHANGED <<now, svc, batch, current>> /\ AtWork(m)
    BY <1>5 DEF Reserve, ReserveFails, AtWork
  <2>2. past'.zombies = past.zombies
    BY <1>5, TypeFacts DEF Reserve, ReserveFails, Fails, Pasts
  <2>3. Over(m) \/ Runs(m)
    BY <1>5 DEF Reserve, ReserveFails
  <2>. QED BY <1>3, <1>4, <2>1, <2>2, <2>3
<1>6. ASSUME NEW status \in Statuses, ManualReturns(m, status)  PROVE ServicesInv'
  <2>1. UNCHANGED <<now, svc, batch, current, past>> /\ manual[m].at = "running"
    BY <1>6 DEF ManualReturns
  <2>2. \A n \in Manuals : AtWork(n)' =>
          AtWork(n) /\ manual'[n].svc = manual[n].svc /\ manual'[n].from = manual[n].from
    BY <1>6, <2>1, EndMoves DEF AtWork
  <2>. QED BY <1>3, <2>1, <2>2
<1>7. ASSUME ManualFinishes(m) \/ ManualFinishFails(m)  PROVE ServicesInv'
  <2>. DEFINE s == manual[m].svc
  <2>1. UNCHANGED <<now, batch, current>> /\ AtWork(m) /\ Over(m)
    BY <1>7 DEF ManualFinishes, ManualFinishFails, AtWork
  <2>2. past'.zombies = past.zombies
    BY <1>7, TypeFacts DEF ManualFinishes, ManualFinishFails, Fails, Gone, Pasts
  <2>3. s \in Services /\ svc[s] \in ServiceRecords /\ svc[s].start \notin {"none", "loading"}
    BY <2>1, ManualFacts, WorkIsLoaded, TypeFacts DEF Loaded
  <2>4. svc' = svc \/ \E r : svc' = [svc EXCEPT ![s] = r] /\ r.start = svc[s].start /\ r.tick = svc[s].tick
    <3>. DEFINE r1 == [svc[s] EXCEPT !.timer = Arms(disk'), !.attached = FALSE]
                r2 == [svc[s] EXCEPT !.attached = FALSE]
    <3>1. svc' \in {svc, [svc EXCEPT ![s] = r1], [svc EXCEPT ![s] = r2]}
      BY <1>7 DEF ManualFinishes, ManualFinishFails
    <3>2. r1.start = svc[s].start /\ r1.tick = svc[s].tick
      BY <2>3, RecordFields
    <3>3. r2.start = svc[s].start /\ r2.tick = svc[s].tick
      BY <2>3 DEF ServiceRecords
    <3>. HIDE DEF r1, r2
    <3>. QED BY <3>1, <3>2, <3>3
  <2>5. CASE svc' = svc
    BY <1>3, <1>4, <2>1, <2>2, <2>5
  <2>6. ASSUME NEW r, svc' = [svc EXCEPT ![s] = r], r.start = svc[s].start, r.tick = svc[s].tick
        PROVE  ServicesInv'
    <3>1. /\ svc[s].start # "running" => \A j \in Jobs : ~InBatch(j, batch[<<s, "boot">>])
          /\ svc[s].tick # "running" => \A j \in Jobs : ~InBatch(j, batch[<<s, "tick">>])
      BY <2>3 DEF ServicesInv, BatchesEnd
    <3>. HIDE DEF s
    <3>. QED BY <1>4, <2>1, <2>2, <2>3, <2>6, <3>1, ServiceMoves
  <2>. QED BY <2>4, <2>5, <2>6
<1>. QED BY <1>2, <1>5, <1>6, <1>7 DEF ManualStep, ManualEnds, ManualTimesOut

LEMMA EditsServices ==
  ASSUME TypeOK, ServicesInv, NEW j \in Jobs, NEW store, NEW unguarded \in SUBSET Jobs, NEW gone \in SUBSET Jobs,
         Edits(j, store, unguarded, gone)
  PROVE  ServicesInv'
<1>. DEFINE r == [svc[current] EXCEPT !.timer = Arms(store)]
<1>1. current \in Services /\ svc[current] \in ServiceRecords /\ svc[current].start \notin {"none", "loading"}
  BY TypeFacts DEF Edits, Loaded
<1>2. /\ svc' = [svc EXCEPT ![current] = r] \/ svc' = svc
      /\ UNCHANGED <<now, batch, manual, current>> /\ past'.zombies = past.zombies
  BY EditsCases
<1>3. r.start = svc[current].start /\ r.tick = svc[current].tick
  BY <1>1 DEF ServiceRecords
<1>4. \A m \in Manuals : AtWork(m)' => AtWork(m)
  BY <1>2 DEF AtWork
<1>5. /\ svc[current].start # "running" => \A k \in Jobs : ~InBatch(k, batch[<<current, "boot">>])
      /\ svc[current].tick # "running" => \A k \in Jobs : ~InBatch(k, batch[<<current, "tick">>])
  BY <1>1 DEF ServicesInv, BatchesEnd
<1>6. now \in Nat
  BY StoredTypes
<1>. HIDE DEF r
<1>7. CASE svc' = svc
  BY <1>2, <1>4, <1>6, <1>7, ServicesStay
<1>8. CASE svc' = [svc EXCEPT ![current] = r]
  BY <1>1, <1>2, <1>3, <1>4, <1>5, <1>8, ServiceMoves
<1>. QED BY <1>2, <1>7, <1>8

LEMMA CallerServices ==
  ASSUME TypeOK, ServicesInv, Caller
  PROVE  ServicesInv'
<1>1. ASSUME Read \/ ReadFails  PROVE ServicesInv'
  <2>0. now \in Nat
    BY StoredTypes
  <2>1. UNCHANGED <<now, svc, batch, manual, current>>
    BY <1>1 DEF Read, ReadFails
  <2>2. \A m \in Manuals : AtWork(m)' => AtWork(m)
    BY <2>1 DEF AtWork
  <2>3. past'.zombies = past.zombies
    BY <1>1, TypeFacts DEF Read, ReadFails, Fails, Pasts
  <2>. QED BY <2>0, <2>1, <2>2, <2>3, ServicesStay
<1>2. ASSUME NEW j \in Jobs, Add(j)  PROVE ServicesInv'
  <2>1. {} \in SUBSET Jobs /\ Edits(j, Recomputed(AddedStore(j)), {}, {})
    BY <1>2, EditedStores
  <2>. QED BY <2>1, EditsServices
<1>3. ASSUME NEW j \in Jobs, Remove(j)  PROVE ServicesInv'
  <2>1. {} \in SUBSET Jobs /\ {j} \in SUBSET Jobs /\ Edits(j, Without(mem[current], j), {}, {j})
    BY <1>3, EditedStores
  <2>. QED BY <2>1, EditsServices
<1>4. ASSUME NEW j \in Jobs, NEW enabled \in BOOLEAN, Update(j, enabled)  PROVE ServicesInv'
  <2>1. Unguards(j, enabled) \in SUBSET Jobs /\ {} \in SUBSET Jobs
    BY DEF Unguards
  <2>2. Edits(j, UpdatedStore(j, enabled), Unguards(j, enabled), {})
    BY <1>4, EditedStores
  <2>. QED BY <2>1, <2>2, EditsServices
<1>. QED BY <1>1, <1>2, <1>3, <1>4 DEF Caller

LEMMA ClockServices ==
  ASSUME TypeOK, ServicesInv, ClockTicks
  PROVE  ServicesInv'
<1>1. now' = now + 1 /\ now \in Nat /\ UNCHANGED <<svc, batch, manual, current>>
  BY StoredTypes DEF ClockTicks
<1>2. past'.zombies = past.zombies
  BY TypeFacts DEF ClockTicks, Pasts
<1>3. \A m \in Manuals : AtWork(m)' => AtWork(m)
  BY <1>1 DEF AtWork
<1>. QED BY <1>1, <1>2, <1>3, ServicesStay

\* After a reload the new service is loading, and the old one is busy or gone.
LEMMA ReloadServices ==
  ASSUME TypeOK, ServicesInv, Reload
  PROVE  ServicesInv'
<1>0. current < MaxServices /\ current' = current + 1 /\ UNCHANGED <<now, batch, manual>>
  BY DEF Reload
<1>1. /\ current \in Services /\ current + 1 \in Services /\ current' = current + 1
      /\ UNCHANGED <<now, batch, manual>>
  BY <1>0, TypeFacts, Constants DEF Services
<1>2. svc[current + 1].start = "none" /\ svc[current] \in ServiceRecords
  BY <1>1, TypeFacts DEF ServicesInv, LaterAreNone, Services
<1>3. \A s \in Services \ {current, current + 1} : svc'[s] = svc[s]
  BY <1>1, TypeFacts DEF Reload
<1>4. svc'[current + 1] = NewService
  BY <1>1, TypeFacts DEF Reload, Services
<1>5. \/ /\ Busy(current) /\ svc'[current] = [svc[current] EXCEPT !.timer = FALSE]
         /\ past' = [past EXCEPT !.zombies = @ + 1]
      \/ ~Busy(current) /\ svc'[current] = NoService /\ past' = past
  <2>. DEFINE r == [svc[current] EXCEPT !.timer = FALSE]
  <2>1. current # current + 1 /\ svc \in [Services -> ServiceRecords]
    BY <1>1, TypeFacts DEF Services
  <2>2. ASSUME svc' = [svc EXCEPT ![current].timer = FALSE, ![current + 1] = NewService]
        PROVE  svc'[current] = r
    BY <1>1, <2>1, <2>2
  <2>3. ASSUME svc' = [svc EXCEPT ![current] = NoService, ![current + 1] = NewService]
        PROVE  svc'[current] = NoService
    BY <1>1, <2>1, <2>3
  <2>4. \/ /\ Busy(current) /\ past' = [past EXCEPT !.zombies = @ + 1]
           /\ svc' = [svc EXCEPT ![current].timer = FALSE, ![current + 1] = NewService]
        \/ /\ ~Busy(current) /\ past' = past
           /\ svc' = [svc EXCEPT ![current] = NoService, ![current + 1] = NewService]
    BY DEF Reload
  <2>. HIDE DEF r
  <2>. QED BY <2>2, <2>3, <2>4 DEF r
<1>6. /\ NewService.start = "loading" /\ NewService.tick = "idle" /\ ~NewService.timer
      /\ NoService.start = "none" /\ NoService.tick = "idle" /\ ~NoService.timer
  BY DEF NewService, NoService
<1>7. LET r == [svc[current] EXCEPT !.timer = FALSE]
      IN  r.start = svc[current].start /\ r.tick = svc[current].tick /\ r.timer = FALSE
  BY <1>2 DEF ServiceRecords
<1>8. InspectedInTime'
  BY <1>1 DEF ServicesInv, InspectedInTime, AtWork
<1>9. \A s \in Services : s > current' => s > current /\ s \notin {current, current + 1}
  BY <1>1 DEF Services
<1>10. LaterAreNone'
  BY <1>3, <1>9 DEF ServicesInv, LaterAreNone
<1>11. past'.zombies = 0 => past' = past /\ ~Busy(current) /\ svc'[current] = NoService
  BY <1>5, TypeFacts DEF Pasts
<1>12. OneService'
  BY <1>1, <1>3, <1>6, <1>11 DEF ServicesInv, OneService
<1>13. BatchesEnd'
  <2>. SUFFICES ASSUME NEW s \in Services, NEW j \in Jobs
                PROVE  /\ svc'[s].start # "running" => ~InBatch(j, batch[<<s, "boot">>])
                       /\ svc'[s].tick # "running" => ~InBatch(j, batch[<<s, "tick">>])
    BY <1>1 DEF BatchesEnd
  <2>1. /\ svc[s].start # "running" => ~InBatch(j, batch[<<s, "boot">>])
        /\ svc[s].tick # "running" => ~InBatch(j, batch[<<s, "tick">>])
    BY DEF ServicesInv, BatchesEnd
  <2>2. CASE s \notin {current, current + 1}
    BY <1>3, <2>1, <2>2
  <2>3. CASE s = current + 1
    BY <1>1, <1>2, <2>1, <2>3, TickingIsLoaded DEF Loaded
  <2>4. CASE s = current
    BY <1>5, <1>7, <2>1, <2>4 DEF Busy
  <2>. QED BY <2>2, <2>3, <2>4
<1>14. UnloadedAreIdle'
  <2>. SUFFICES ASSUME NEW s \in Services, svc'[s].start \in {"none", "loading"}
                PROVE  /\ svc'[s].tick = "idle" /\ ~svc'[s].timer
                       /\ \A m \in Manuals : AtWork(m) => manual[m].svc # s
    BY <1>1 DEF UnloadedAreIdle, Loaded, AtWork
  <2>1. svc[s].start \in {"none", "loading"} =>
          /\ svc[s].tick = "idle" /\ ~svc[s].timer
          /\ \A m \in Manuals : AtWork(m) => manual[m].svc # s
    BY DEF ServicesInv, UnloadedAreIdle, Loaded
  <2>2. CASE s \notin {current, current + 1}
    BY <1>3, <2>1, <2>2
  <2>3. CASE s = current + 1
    BY <1>2, <1>4, <1>6, <2>1, <2>3
  <2>4. CASE s = current
    BY <1>5, <1>6, <1>7, <2>1, <2>4 DEF Busy, AtWork
  <2>. QED BY <2>2, <2>3, <2>4
<1>. QED BY <1>8, <1>10, <1>12, <1>13, <1>14 DEF ServicesInv

LEMMA CrashServices ==
  ASSUME TypeOK, ServicesInv, Crash
  PROVE  ServicesInv'
<1>1. /\ current \in Services /\ current + 1 \in Services /\ current' = current + 1
      /\ \A s \in Services : svc'[s] = IF s = current + 1 THEN NewService ELSE NoService
      /\ \A p \in Parts : batch'[p] = NoRuns
  BY TypeFacts, Constants DEF Crash, Services
<1>2. /\ NewService.start = "loading" /\ NewService.tick = "idle" /\ ~NewService.timer
      /\ NoService.start = "none" /\ NoService.tick = "idle" /\ ~NoService.timer
  BY DEF NewService, NoService
<1>3. \A m \in Manuals : ~AtWork(m)'
  <2>1. ManualOver.at = "over"
    BY DEF ManualOver, NoManual
  <2>. QED BY <2>1 DEF Crash, AtWork
<1>4. BatchesEnd'
  BY <1>1, NoRunsInBatch DEF BatchesEnd, Parts
<1>5. UnloadedAreIdle' /\ InspectedInTime'
  BY <1>1, <1>2, <1>3 DEF UnloadedAreIdle, InspectedInTime
<1>6. LaterAreNone' /\ OneService'
  BY <1>1, <1>2 DEF LaterAreNone, OneService, Services
<1>. QED BY <1>4, <1>5, <1>6 DEF ServicesInv

LEMMA NextServices ==
  ASSUME TypeOK, ServicesInv, [Next]_vars
  PROVE  ServicesInv'
<1>1. ASSUME UNCHANGED vars  PROVE ServicesInv'
  BY <1>1 DEF vars, ServicesInv, BatchesEnd, UnloadedAreIdle, LaterAreNone, InspectedInTime, OneService,
              Loaded, AtWork
<1>2. ASSUME NEW s \in Services, ServiceStep(s)  PROVE ServicesInv'
  BY <1>2, StartServices, TickServices DEF ServiceStep
<1>3. ASSUME NEW j \in Jobs, LeftEnds(j)  PROVE ServicesInv'
  BY <1>3 DEF LeftEnds, ServicesInv, BatchesEnd, UnloadedAreIdle, LaterAreNone, InspectedInTime, OneService,
              Loaded, AtWork
<1>. QED BY <1>1, <1>2, <1>3, ManualServices, RunServices, CallerServices, ClockServices, ReloadServices,
            CrashServices DEF Next

--------------------------------------------------------------------------------
(* Owners of jobs.                                                          *)

ByHand(j, r) == r.at \in {"running", "ended"} /\ r.job = j

LEMMA OwnerFacts ==
  ASSUME NEW j
  PROVE  /\ \A p \in Parts : p \in Owners(j) <=> InBatch(j, batch[p])
         /\ \A m \in Manuals : <<m, "hand">> \in Owners(j) <=> ByHand(j, manual[m])
         /\ \A x \in Owners(j) : x \in Parts \/ \E m \in Manuals : x = <<m, "hand">>
         /\ \A m \in Manuals : <<m, "hand">> \notin Parts
BY DEF Owners, InBatch, ByHand, Parts

LEMMA OwnerFactsPrime ==
  ASSUME NEW j
  PROVE  /\ \A p \in Parts : p \in Owners(j)' <=> InBatch(j, batch'[p])
         /\ \A m \in Manuals : <<m, "hand">> \in Owners(j)' <=> ByHand(j, manual'[m])
         /\ \A x \in Owners(j)' : x \in Parts \/ \E m \in Manuals : x = <<m, "hand">>
BY DEF Owners, InBatch, ByHand, Parts

\* A step of one batch, of one run by hand, or of none.
LEMMA OwnersOfBatch ==
  ASSUME NEW j, NEW p \in Parts, UNCHANGED manual, \A q \in Parts : q # p => batch'[q] = batch[q]
  PROVE  /\ Owners(j)' \ {p} = Owners(j) \ {p}
         /\ p \in Owners(j)' <=> InBatch(j, batch'[p])
         /\ p \in Owners(j) <=> InBatch(j, batch[p])
<1>1. \A q \in Parts : q # p => (q \in Owners(j)' <=> q \in Owners(j))
  BY OwnerFacts, OwnerFactsPrime
<1>2. \A m \in Manuals : <<m, "hand">> \in Owners(j)' <=> <<m, "hand">> \in Owners(j)
  BY OwnerFacts, OwnerFactsPrime
<1>3. ASSUME NEW x, x # p  PROVE x \in Owners(j)' <=> x \in Owners(j)
  BY <1>1, <1>2, <1>3, OwnerFacts, OwnerFactsPrime
<1>. QED BY <1>3, OwnerFacts, OwnerFactsPrime

LEMMA OwnersOfHand ==
  ASSUME NEW j, NEW m \in Manuals, UNCHANGED batch, \A n \in Manuals \ {m} : manual'[n] = manual[n]
  PROVE  /\ Owners(j)' \ {<<m, "hand">>} = Owners(j) \ {<<m, "hand">>}
         /\ <<m, "hand">> \in Owners(j)' <=> ByHand(j, manual'[m])
         /\ <<m, "hand">> \in Owners(j) <=> ByHand(j, manual[m])
<1>1. \A q \in Parts : q \in Owners(j)' <=> q \in Owners(j)
  BY OwnerFacts, OwnerFactsPrime
<1>2. \A n \in Manuals : n # m => (<<n, "hand">> \in Owners(j)' <=> <<n, "hand">> \in Owners(j))
  BY OwnerFacts, OwnerFactsPrime
<1>3. ASSUME NEW x, x # <<m, "hand">>  PROVE x \in Owners(j)' <=> x \in Owners(j)
  BY <1>1, <1>2, <1>3, OwnerFacts, OwnerFactsPrime
<1>. QED BY <1>3, OwnerFacts, OwnerFactsPrime

LEMMA SameButForOne ==
  ASSUME NEW S, NEW T, NEW x, S \ {x} = T \ {x}
  PROVE  /\ (x \in S <=> x \in T) => S = T
         /\ x \in S /\ x \notin T => S = T \cup {x}
         /\ x \notin S => S = T \ {x}
<1>1. \A y : y # x => (y \in S <=> y \in T)
  OBVIOUS
<1>2. (x \in S <=> x \in T) => S = T
  BY <1>1
<1>3. x \in S /\ x \notin T => S = T \cup {x}
  BY <1>1
<1>4. x \notin S => S = T \ {x}
  BY <1>1
<1>. QED BY <1>2, <1>3, <1>4

LEMMA HandChanges ==
  ASSUME NEW j, NEW m \in Manuals, UNCHANGED batch, \A n \in Manuals \ {m} : manual'[n] = manual[n]
  PROVE  /\ (ByHand(j, manual'[m]) <=> ByHand(j, manual[m])) => Owners(j)' = Owners(j)
         /\ ByHand(j, manual'[m]) /\ ~ByHand(j, manual[m]) => Owners(j)' = Owners(j) \cup {<<m, "hand">>}
         /\ ~ByHand(j, manual'[m]) => Owners(j)' = Owners(j) \ {<<m, "hand">>}
         /\ <<m, "hand">> \in Owners(j) <=> ByHand(j, manual[m])
<1>. DEFINE x == <<m, "hand">>
<1>1. /\ Owners(j)' \ {x} = Owners(j) \ {x}
      /\ x \in Owners(j)' <=> ByHand(j, manual'[m])
      /\ x \in Owners(j) <=> ByHand(j, manual[m])
  BY OwnersOfHand
<1>. HIDE DEF x
<1>2. /\ (ByHand(j, manual'[m]) <=> ByHand(j, manual[m])) => Owners(j)' = Owners(j)
      /\ ByHand(j, manual'[m]) /\ ~ByHand(j, manual[m]) => Owners(j)' = Owners(j) \cup {x}
      /\ ~ByHand(j, manual'[m]) => Owners(j)' = Owners(j) \ {x}
  BY <1>1, SameButForOne
<1>. QED BY <1>1, <1>2 DEF x

LEMMA OwnersStay ==
  ASSUME UNCHANGED <<batch, manual>>
  PROVE  \A j : Owners(j)' = Owners(j)
BY DEF Owners

LEMMA OwnersOfBatchesStay ==
  ASSUME NEW j, UNCHANGED manual, \A p \in Parts : InBatch(j, batch'[p]) <=> InBatch(j, batch[p])
  PROVE  Owners(j)' = Owners(j)
BY DEF Owners, InBatch

\* A service that is not loaded, or not busy, runs no job.
LEMMA IdleOwnNothing ==
  ASSUME TypeOK, ServicesInv, past.zombies = 0, ~Loaded(current) \/ ~Busy(current), NEW j \in Jobs
  PROVE  ~Owned(j)
<1>1. current \in Services /\ \A s \in Services : s # current => svc[s].start = "none"
  BY TypeFacts DEF ServicesInv, OneService
<1>2. ASSUME NEW s \in Services
      PROVE  /\ svc[s].start # "running" /\ svc[s].tick = "idle"
             /\ \A m \in Manuals : AtWork(m) => manual[m].svc # s
  <2>1. CASE ~Loaded(s)
    BY <2>1 DEF ServicesInv, UnloadedAreIdle, Loaded
  <2>2. CASE Loaded(s)
    BY <1>1, <2>2 DEF Loaded, Busy, AtWork
  <2>. QED BY <2>1, <2>2
<1>3. \A p \in Parts : ~InBatch(j, batch[p])
  <2>1. \A s \in Services : ~InBatch(j, batch[<<s, "boot">>]) /\ ~InBatch(j, batch[<<s, "tick">>])
    BY <1>2 DEF ServicesInv, BatchesEnd
  <2>2. \A p \in Parts : \E s \in Services : p = <<s, "boot">> \/ p = <<s, "tick">>
    BY DEF Parts
  <2>. QED BY <2>1, <2>2
<1>4. \A m \in Manuals : ~ByHand(j, manual[m])
  BY <1>2, ManualFacts DEF ByHand, AtWork
<1>. QED BY <1>3, <1>4, OwnerFacts DEF Owned

\* As long as no busy service was replaced, whatever is done is done by the current service.
LEMMA CurrentWorks ==
  ASSUME TypeOK, ServicesInv, past.zombies = 0
  PROVE  /\ current \in Services
         /\ \A s \in Services : svc[s].start # "none" => s = current
         /\ \A s \in Services : svc[s].tick # "idle" \/ svc[s].timer => s = current /\ Loaded(s)
         /\ \A m \in Manuals : AtWork(m) => manual[m].svc = current /\ Loaded(current)
<1>1. current \in Services /\ \A s \in Services : svc[s].start # "none" => s = current
  BY TypeFacts DEF ServicesInv, OneService
<1>2. \A s \in Services : Loaded(s) => s = current
  BY <1>1 DEF Loaded
<1>. QED BY <1>1, <1>2, TickingIsLoaded, WorkIsLoaded, ManualFacts

--------------------------------------------------------------------------------
(* Stores after a step that leaves the clock alone.                         *)

\* What Sound says after the step of a store that the step saves or puts into memory.
SoundNext(store) ==
  /\ DOMAIN store \cap past'.gone = {}
  /\ \A j \in Jobs \ OneShot : Owned(j)' => j \in DOMAIN store \cup past'.gone \cup past'.unsaved
  /\ \A j \in DOMAIN store \ past'.unguarded : Owned(j)' => Held(store[j])
  /\ past'.faults = 0 => \A j \in DOMAIN store : store[j].running > 0 => Owned(j)'

\* The store is saved.
LEMMA SavedInv ==
  ASSUME UNCHANGED <<now, current>>, NEW store, disk' = store, mem'[current] = store,
         Excluded', SoundNext(store)
  PROVE  StoresInv'
<1>1. Sound(disk)' /\ Sound(mem[current])'
  BY DEF Sound, SoundNext, Held
<1>2. MemoryFitsFile'
  BY DEF MemoryFitsFile
<1>. QED BY <1>1, <1>2 DEF StoresInv, Sound

\* The store cannot be saved, or is not to be.
LEMMA UnsavedInv ==
  ASSUME UNCHANGED <<now, current, disk>>, NEW store, mem'[current] = store,
         Excluded', SoundNext(disk), SoundNext(store),
         DOMAIN store \subseteq DOMAIN disk \cup past'.unsaved,
         DOMAIN disk \subseteq DOMAIN store \cup OneShot \cup past'.unsaved,
         past'.faults = 0 => DOMAIN store = DOMAIN disk,
         \A j \in (DOMAIN store \cap DOMAIN disk) \ past'.unsaved : store[j].enabled => disk[j].enabled
  PROVE  StoresInv'
<1>1. Sound(disk)' /\ Sound(mem[current])'
  BY DEF Sound, SoundNext, Held
<1>2. MemoryFitsFile'
  BY DEF MemoryFitsFile
<1>. QED BY <1>1, <1>2 DEF StoresInv, Sound

\* Where a step starts from.
LEMMA StoresBefore ==
  ASSUME TypeOK, StoresInv, past.zombies = 0, Loaded(current)
  PROVE  /\ Excluded /\ Sound(disk) /\ Sound(mem[current]) /\ MemoryFitsFile
         /\ disk \in Stores /\ mem[current] \in Stores /\ now \in 1..MaxTime
BY TypeFacts DEF StoresInv

LEMMA KeptUpTwice ==
  ASSUME NEW a, NEW b, NEW c, AllKeptUp(a, b), AllKeptUp(b, c)
  PROVE  AllKeptUp(a, c)
BY DEF AllKeptUp, KeptUp

LEMMA KeptUpSame == \A store : AllKeptUp(store, store)
BY DEF AllKeptUp, KeptUp

\* Fewer owners of a job are excluded, too.
LEMMA FewerExcluded ==
  ASSUME Excluded, past.unguarded \subseteq past'.unguarded, \A j \in Jobs : Owners(j)' \subseteq Owners(j)
  PROVE  Excluded'
BY DEF Excluded

\* A sound store that is maintained is sound, if a job that loses its owners is excused.
LEMMA KeptSound ==
  ASSUME NEW base \in Stores, NEW store, Sound(base), AllKeptUp(store, base),
         \A j \in Jobs : Owners(j)' \subseteq Owners(j),
         past'.gone = past.gone, past.unguarded \subseteq past'.unguarded,
         past.unsaved \subseteq past'.unsaved,
         past'.faults = 0 => past.faults = 0 /\ \A j \in DOMAIN base : Owned(j) => Owned(j)'
  PROVE  SoundNext(store)
<1>1. DOMAIN store = DOMAIN base /\ \A j \in DOMAIN store : KeptUp(store[j], base[j]) /\ j \in Jobs
  BY StoreFacts DEF AllKeptUp
<1>2. \A j \in Jobs : Owned(j)' => Owned(j)
  BY DEF Owned
<1>3. \A j \in DOMAIN store \ past'.unguarded : Owned(j)' => Held(store[j])
  BY <1>1, <1>2 DEF Sound, KeptUp
<1>4. ASSUME past'.faults = 0, NEW j \in DOMAIN store, store[j].running > 0  PROVE Owned(j)'
  <2>1. base[j].running > 0
    BY <1>1, <1>4 DEF KeptUp
  <2>. QED BY <1>1, <1>4, <2>1 DEF Sound
<1>. QED BY <1>1, <1>2, <1>3, <1>4 DEF Sound, SoundNext

\* Jobs get markers, for x or because their markers cannot be saved.
LEMMA MarkedSound ==
  ASSUME now \in 1..MaxTime, NEW base \in Stores, NEW J \in SUBSET DOMAIN base, NEW x, Sound(base), Excluded,
         \A j \in J : base[j].enabled /\ base[j].running = 0,
         \A j \in Jobs \ J : Owners(j)' = Owners(j),
         \A j \in J : Owners(j)' \subseteq Owners(j) \cup {x},
         past'.gone = past.gone, past'.unguarded = past.unguarded, past'.unsaved = past.unsaved,
         past'.faults = 0 => past.faults = 0 /\ \A j \in J : Owned(j)'
  PROVE  Excluded' /\ SoundNext(Marked(base, J))
<1>. DEFINE store == Marked(base, J)
<1>1. DOMAIN store = DOMAIN base /\ DOMAIN base \subseteq Jobs
  BY MarkedStore, StoreFacts
<1>2. \A j \in J : store[j].enabled = base[j].enabled /\ store[j].running = now
  BY MarkedStore
<1>3. \A j \in DOMAIN store \ J : store[j] = base[j]
  BY <1>1, MarkedStore
<1>. HIDE DEF store
<1>4. \A j \in J \ past.unguarded : ~Owned(j)
  BY DEF Sound, Held
<1>5. Excluded'
  <2>. SUFFICES ASSUME NEW j \in Jobs \ past.unguarded, NEW y \in Owners(j)', NEW z \in Owners(j)'
                PROVE  y = z
    BY DEF Excluded
  <2>1. CASE j \in J
    BY <1>4, <2>1 DEF Owned
  <2>2. CASE j \notin J
    BY <2>2 DEF Excluded
  <2>. QED BY <2>1, <2>2
<1>6. \A j \in Jobs \ J : Owned(j)' <=> Owned(j)
  BY DEF Owned
<1>7. ASSUME NEW j \in DOMAIN store \ past'.unguarded, Owned(j)'  PROVE Held(store[j])
  <2>1. CASE j \in J
    BY <1>2, <2>1, Constants DEF Held
  <2>2. CASE j \notin J
    BY <1>1, <1>3, <1>6, <1>7, <2>2 DEF Sound
  <2>. QED BY <2>1, <2>2
<1>8. ASSUME past'.faults = 0, NEW j \in DOMAIN store, store[j].running > 0  PROVE Owned(j)'
  BY <1>1, <1>3, <1>6, <1>8 DEF Sound
<1>9. \A j \in Jobs \ OneShot : Owned(j)' => j \in DOMAIN store \cup past'.gone \cup past'.unsaved
  BY <1>1, <1>6 DEF Sound
<1>. QED BY <1>1, <1>5, <1>7, <1>8, <1>9 DEF Sound, SoundNext, store

\* The results of x are applied: the markers of its jobs are cleared, and some jobs are removed.
LEMMA ResultsSound ==
  ASSUME NEW base \in Stores, NEW applied \in Stores, NEW store, NEW x, Sound(base), Excluded,
         DOMAIN applied \subseteq DOMAIN base, DOMAIN base \ DOMAIN applied \subseteq OneShot,
         \A j \in DOMAIN applied : x \in Owners(j) => applied[j].running = 0,
         \A j \in DOMAIN applied : x \notin Owners(j) => applied[j] = base[j],
         AllKeptUp(store, applied),
         \A j \in Jobs : Owners(j)' = Owners(j) \ {x},
         past.gone \subseteq past'.gone, past'.gone \subseteq past.gone \cup (DOMAIN base \ DOMAIN applied),
         past'.unguarded = past.unguarded, past'.unsaved = past.unsaved, past'.faults = 0 => past.faults = 0
  PROVE  Excluded' /\ SoundNext(store)
<1>1. DOMAIN store = DOMAIN applied /\ DOMAIN applied \subseteq Jobs
      /\ \A j \in DOMAIN store : KeptUp(store[j], applied[j])
  BY StoreFacts DEF AllKeptUp
<1>2. Excluded'
  BY FewerExcluded
<1>3. \A j \in Jobs : Owned(j)' => Owned(j)
  BY DEF Owned
<1>4. \A j \in Jobs \ past.unguarded : Owned(j)' => x \notin Owners(j)
  BY DEF Owned, Excluded
<1>5. \A j \in Jobs : x \notin Owners(j) /\ Owned(j) => Owned(j)'
  BY DEF Owned
<1>6. \A j \in DOMAIN store \ past'.unguarded : Owned(j)' => Held(store[j])
  BY <1>1, <1>3, <1>4 DEF Sound, KeptUp
<1>7. ASSUME past'.faults = 0, NEW j \in DOMAIN store, store[j].running > 0  PROVE Owned(j)'
  <2>1. applied[j].running > 0
    BY <1>1, <1>7 DEF KeptUp
  <2>2. x \notin Owners(j) /\ applied[j] = base[j]
    BY <1>1, <2>1
  <2>. QED BY <1>1, <1>5, <1>7, <2>1, <2>2 DEF Sound
<1>8. \A j \in Jobs \ OneShot : Owned(j)' => j \in DOMAIN store \cup past'.gone \cup past'.unsaved
  BY <1>1, <1>3 DEF Sound
<1>9. DOMAIN store \cap past'.gone = {}
  BY <1>1 DEF Sound
<1>. QED BY <1>2, <1>6, <1>7, <1>8, <1>9 DEF SoundNext

--------------------------------------------------------------------------------
(* What a step of a service does to the stores.                             *)

\* A store that, if it is saved, enables no job but one whose edit could not be saved.
Fits(base) == \A j \in (DOMAIN base \cap DOMAIN disk) \ past.unsaved : base[j].enabled => disk[j].enabled

LEMMA FileFits == Fits(disk)
BY DEF Fits

\* What EditsSurvive says of a step.
EditKept ==
  past.zombies = 0 =>
    /\ DOMAIN disk' \cap past.gone = {}
    /\ \A j \in DOMAIN disk \cap DOMAIN disk' :
         ~disk[j].enabled /\ disk'[j].enabled => past'.edits # past.edits \/ j \in past.unsaved

LEMMA FileStays ==
  ASSUME StoresInv, disk' = disk
  PROVE  EditKept
BY DEF StoresInv, EditKept

LEMMA IInvFacts == IInv => TypeOK /\ ServicesInv /\ StoresInv
BY DEF IInv

LEMMA StoresStay ==
  ASSUME IInv, past.zombies = 0, UNCHANGED <<now, disk, mem, current, past>>,
         \A j \in Jobs : Owners(j)' = Owners(j), Loaded(current)' => Loaded(current)
  PROVE  StoresInv' /\ EditKept
<1>1. EditKept
  BY FileStays, IInvFacts
<1>2. CASE Loaded(current)
  <2>1. /\ Excluded /\ Sound(disk) /\ Sound(mem[current]) /\ MemoryFitsFile
        /\ disk \in Stores /\ mem[current] \in Stores
    BY <1>2, StoresBefore, IInvFacts
  <2>2. Excluded'
    BY <2>1, FewerExcluded
  <2>3. DOMAIN disk \subseteq Jobs /\ DOMAIN mem[current] \subseteq Jobs
        /\ \A j \in Jobs : Owned(j) => Owned(j)'
    BY <2>1, StoreFacts DEF Owned
  <2>4. SoundNext(disk) /\ SoundNext(mem[current])
    BY <2>1, <2>3, KeptSound, KeptUpSame
  <2>5. StoresInv'
    BY <2>1, <2>2, <2>4, UnsavedInv DEF MemoryFitsFile
  <2>. QED BY <1>1, <2>5
<1>3. CASE ~Loaded(current)
  BY <1>1, <1>3, IInvFacts DEF StoresInv
<1>. QED BY <1>2, <1>3

\* The memory of a service after a section.
LEMMA SavesFacts ==
  ASSUME TypeOK, NEW s \in Services, NEW store
  PROVE  /\ Saves(s, store) => disk' = store /\ mem'[s] = store
         /\ mem' = [mem EXCEPT ![s] = store] => mem'[s] = store
BY TypeFacts DEF Saves

\* A set of runs begins: its jobs get their markers in a store that has been read, and it is saved.
LEMMA BatchBegins ==
  ASSUME IInv, past.zombies = 0, NEW s \in Services, s = current, NEW x \in Parts,
         NEW base \in Stores, Sound(base), Excluded,
         Fits(base),
         NEW J \in SUBSET DOMAIN base, \A j \in J : base[j].enabled /\ base[j].running = 0,
         \A j \in Jobs : ~InBatch(j, batch[x]),
         Saves(s, Marked(base, J)),
         batch' = [batch EXCEPT ![x] = [NoRuns EXCEPT !.todo = J]],
         UNCHANGED <<now, manual, current, past>>
  PROVE  StoresInv' /\ EditKept
<1>1. now \in 1..MaxTime /\ DOMAIN base \subseteq Jobs
  BY IInvFacts, TypeFacts, PartFacts, StoreFacts
<1>2. batch'[x] = [NoRuns EXCEPT !.todo = J] /\ \A p \in Parts : p # x => batch'[p] = batch[p]
  BY IInvFacts, PartMoves
<1>3. ASSUME NEW j \in Jobs  PROVE Owners(j)' = IF j \in J THEN Owners(j) \cup {x} ELSE Owners(j)
  <2>1. InBatch(j, batch'[x]) <=> j \in J
    BY <1>1, <1>2, NewBatch
  <2>2. /\ Owners(j)' \ {x} = Owners(j) \ {x} /\ x \notin Owners(j)
        /\ x \in Owners(j)' <=> j \in J
    BY <1>1, <1>2, <2>1, OwnersOfBatch
  <2>. QED BY <2>2, SameButForOne
<1>. DEFINE store == Marked(base, J)
<1>4. Excluded' /\ SoundNext(store)
  <2>1. \A j \in J : Owned(j)'
    BY <1>1, <1>3 DEF Owned
  <2>2. \A j \in J : Owners(j)' \subseteq Owners(j) \cup {x}
    BY <1>1, <1>3
  <2>3. \A j \in Jobs \ J : Owners(j)' = Owners(j)
    BY <1>3
  <2>. QED BY <1>1, <2>1, <2>2, <2>3, MarkedSound
<1>5. disk' = store /\ mem'[s] = store
  BY <1>1, IInvFacts, SavesFacts
<1>6. DOMAIN store = DOMAIN base /\ \A j \in DOMAIN base : store[j].enabled = base[j].enabled
  BY <1>1, MarkedStore
<1>. HIDE DEF store
<1>7. StoresInv'
  BY <1>4, <1>5, SavedInv
<1>8. EditKept
  BY <1>5, <1>6 DEF EditKept, Sound, Fits
<1>. QED BY <1>7, <1>8

LEMMA StartLoadsStores ==
  ASSUME IInv, past.zombies = 0, NEW s \in Services, StartLoads(s)
  PROVE  StoresInv' /\ EditKept
<1>. DEFINE store == Cleared(disk)
<1>1. /\ svc[s].start = "loading" /\ Saves(s, store)
      /\ UNCHANGED <<now, batch, manual, current, past>>
  BY DEF StartLoads
<1>2. s = current /\ ~Loaded(current)
  BY <1>1, IInvFacts, CurrentWorks DEF Loaded
<1>3. \A j \in Jobs : ~Owned(j) /\ ~Owned(j)'
  BY <1>1, <1>2, IInvFacts, IdleOwnNothing, OwnersStay DEF Owned
<1>4. DOMAIN disk \cap past.gone = {} /\ DOMAIN disk \subseteq Jobs
  BY IInvFacts, StoredTypes DEF StoresInv
<1>5. \A j \in DOMAIN disk : disk[j] \in Record
  BY IInvFacts, StoredTypes, RecordOfStore
<1>6. DOMAIN store = DOMAIN disk
      /\ \A j \in DOMAIN disk : store[j].running = 0 /\ store[j].enabled = disk[j].enabled
  BY <1>5 DEF Record, Cleared
<1>7. disk' = store /\ mem'[current] = store
  BY <1>1, <1>2, IInvFacts, SavesFacts
<1>. HIDE DEF store
<1>8. Excluded' /\ SoundNext(store)
  BY <1>1, <1>3, <1>4, <1>6 DEF Excluded, SoundNext, Owned
<1>9. StoresInv'
  BY <1>1, <1>7, <1>8, SavedInv
<1>10. EditKept
  BY <1>4, <1>6, <1>7 DEF EditKept
<1>. QED BY <1>9, <1>10

LEMMA StartPlansStores ==
  ASSUME IInv, past.zombies = 0, NEW s \in Services, StartPlans(s)
  PROVE  StoresInv' /\ EditKept
<1>. DEFINE missed == AllMissed(s)
<1>1. s = current /\ Loaded(current) /\ svc[s].start = "planning"
  BY IInvFacts, CurrentWorks DEF Loaded, StartPlans
<1>2. /\ Excluded /\ Sound(disk) /\ Sound(mem[current]) /\ MemoryFitsFile
      /\ disk \in Stores /\ mem[current] \in Stores
  BY <1>1, IInvFacts, StoresBefore
<1>3. CASE missed = {}
  <2>1. UNCHANGED <<now, disk, mem, batch, manual, current, past>>
    BY <1>3 DEF StartPlans
  <2>. QED BY <1>1, <2>1, StoresStay, OwnersStay
<1>4. ASSUME NEW first \in SUBSET missed,
             Saves(s, Marked(mem[s], first)),
             batch' = [batch EXCEPT ![<<s, "boot">>] = [NoRuns EXCEPT !.todo = first]],
             UNCHANGED <<now, manual, current, past>>
      PROVE  StoresInv' /\ EditKept
  <2>1. \A j \in first : mem[current][j].enabled /\ mem[current][j].running = 0
    BY <1>1, <1>4 DEF AllMissed, Missed
  <2>2. first \in SUBSET DOMAIN mem[current]
    BY <1>1, <1>4 DEF AllMissed
  <2>3. \A j \in Jobs : ~InBatch(j, batch[<<s, "boot">>])
    BY <1>1, IInvFacts DEF ServicesInv, BatchesEnd
  <2>4. Fits(mem[current])
    BY <1>2 DEF MemoryFitsFile, Fits
  <2>. DEFINE x == <<s, "boot">>
  <2>5. x \in Parts
    BY PartFacts
  <2>. HIDE DEF missed, x
  <2>. QED BY <1>1, <1>2, <1>4, <2>1, <2>2, <2>3, <2>4, <2>5, BatchBegins DEF x
<1>. QED BY <1>3, <1>4 DEF StartPlans, Oldest

\* A set of runs is over when its results are applied.
LEMMA BatchOver ==
  ASSUME TypeOK, NEW x \in Parts, batch' = [batch EXCEPT ![x] = NoRuns], UNCHANGED manual, NEW j \in Jobs
  PROVE  Owners(j)' = Owners(j) \ {x} /\ (x \in Owners(j) <=> InBatch(j, batch[x]))
<1>1. batch'[x] = NoRuns /\ \A q \in Parts : q # x => batch'[q] = batch[q]
  BY PartMoves
<1>2. Owners(j)' \ {x} = Owners(j) \ {x} /\ x \notin Owners(j)' /\ (x \in Owners(j) <=> InBatch(j, batch[x]))
  BY <1>1, OwnersOfBatch, NoRunsInBatch
<1>. QED BY <1>2, SameButForOne

LEMMA AppliedOwners ==
  ASSUME TypeOK, NEW x \in Parts, batch' = [batch EXCEPT ![x] = NoRuns], UNCHANGED manual,
         batch[x].todo \cup batch[x].going = {}, NEW j \in Jobs
  PROVE  Owners(j)' = Owners(j) \ {x} /\ (x \in Owners(j) <=> batch[x].status[j] # "none")
BY BatchOver DEF InBatch

\* The results of a set of runs are applied to a store that has been read.
LEMMA ResultsKept ==
  ASSUME IInv, past.zombies = 0, NEW x \in Parts, NEW base \in Stores, Sound(base), Excluded,
         NEW store, AllKeptUp(store, Applied(base, batch[x])),
         batch' = [batch EXCEPT ![x] = NoRuns], UNCHANGED manual, batch[x].todo \cup batch[x].going = {},
         past.gone \subseteq past'.gone,
         past'.gone \subseteq past.gone \cup (DOMAIN base \ DOMAIN Applied(base, batch[x])),
         past'.unguarded = past.unguarded, past'.unsaved = past.unsaved, past'.faults = 0 => past.faults = 0
  PROVE  Excluded' /\ SoundNext(store)
<1>. DEFINE applied == Applied(base, batch[x])
<1>1. batch[x] \in Batches /\ TypeOK
  BY IInvFacts, TypeFacts
<1>2. /\ applied \in Stores
      /\ DOMAIN applied \subseteq DOMAIN base
      /\ \A j \in DOMAIN base \ DOMAIN applied : j \in OneShot
      /\ \A j \in DOMAIN applied :
           /\ batch[x].status[j] = "none" => applied[j] = base[j]
           /\ batch[x].status[j] # "none" => applied[j].running = 0
  BY <1>1, AppliedStore
<1>3. \A j \in Jobs : Owners(j)' = Owners(j) \ {x} /\ (x \in Owners(j) <=> batch[x].status[j] # "none")
  BY <1>1, AppliedOwners
<1>4. DOMAIN applied \subseteq Jobs
  BY <1>2, StoreFacts
<1>5. \A j \in DOMAIN applied : /\ x \in Owners(j) => applied[j].running = 0
                                /\ x \notin Owners(j) => applied[j] = base[j]
  BY <1>2, <1>3, <1>4
<1>6. AllKeptUp(store, applied) /\ past'.gone \subseteq past.gone \cup (DOMAIN base \ DOMAIN applied)
      /\ DOMAIN base \ DOMAIN applied \subseteq OneShot
  BY <1>2
<1>. HIDE DEF applied
<1>. QED BY <1>2, <1>3, <1>5, <1>6, ResultsSound

\* Maintenance and results enable nothing.
LEMMA AppliedEnablesNothing ==
  ASSUME IInv, NEW x \in Parts, NEW base \in Stores, NEW store, AllKeptUp(store, Applied(base, batch[x]))
  PROVE  /\ DOMAIN store = DOMAIN Applied(base, batch[x]) /\ DOMAIN store \subseteq DOMAIN base
         /\ \A j \in DOMAIN base \ DOMAIN store : j \in OneShot
         /\ \A j \in DOMAIN store : store[j].enabled => base[j].enabled
<1>1. batch[x] \in Batches
  BY IInvFacts, TypeFacts
<1>. DEFINE applied == Applied(base, batch[x])
<1>2. /\ DOMAIN applied \subseteq DOMAIN base
      /\ \A j \in DOMAIN base \ DOMAIN applied : j \in OneShot
      /\ \A j \in DOMAIN applied : applied[j].enabled => base[j].enabled
  BY <1>1, AppliedStore
<1>3. DOMAIN store = DOMAIN applied /\ \A j \in DOMAIN applied : store[j].enabled = applied[j].enabled
  BY DEF AllKeptUp, KeptUp
<1>. HIDE DEF applied
<1>4. /\ DOMAIN store = DOMAIN applied /\ DOMAIN store \subseteq DOMAIN base
      /\ \A j \in DOMAIN base \ DOMAIN store : j \in OneShot
      /\ \A j \in DOMAIN store : store[j].enabled => base[j].enabled
  BY <1>2, <1>3
<1>. QED BY <1>4 DEF applied

LEMMA GoneFields ==
  ASSUME TypeOK, NEW J, past' = Gone(J)
  PROVE  /\ past'.gone = past.gone \cup J /\ past'.unguarded = past.unguarded
         /\ past'.faults = past.faults /\ past'.zombies = past.zombies /\ past'.edits = past.edits
         /\ past'.unsaved = past.unsaved
BY TypeFacts DEF Gone, Pasts

LEMMA ResultsSaved ==
  ASSUME IInv, past.zombies = 0, NEW s \in Services, s = current, NEW x \in Parts,
         NEW base \in Stores, Sound(base), Excluded,
         Fits(base),
         NEW store, AllKeptUp(store, Applied(base, batch[x])), Saves(s, store),
         batch' = [batch EXCEPT ![x] = NoRuns], batch[x].todo \cup batch[x].going = {},
         past' = Gone(DOMAIN base \ DOMAIN Applied(base, batch[x])),
         UNCHANGED <<now, manual, current>>
  PROVE  StoresInv' /\ EditKept
<1>1. disk' = store /\ mem'[current] = store
  BY IInvFacts, SavesFacts
<1>2. /\ past'.gone = past.gone \cup (DOMAIN base \ DOMAIN Applied(base, batch[x]))
      /\ past'.unguarded = past.unguarded /\ past'.faults = past.faults /\ past'.unsaved = past.unsaved
  BY IInvFacts, GoneFields
<1>3. Excluded' /\ SoundNext(store)
  BY <1>2, ResultsKept
<1>4. StoresInv'
  BY <1>1, <1>3, SavedInv
<1>5. DOMAIN store \subseteq DOMAIN base /\ \A j \in DOMAIN store : store[j].enabled => base[j].enabled
  BY AppliedEnablesNothing
<1>6. DOMAIN store \cap past.gone = {}
  BY <1>5 DEF Sound
<1>7. EditKept
  BY <1>1, <1>5, <1>6 DEF EditKept, Fits
<1>. QED BY <1>4, <1>7

LEMMA StartAppliesStores ==
  ASSUME IInv, past.zombies = 0, NEW s \in Services, StartApplies(s)
  PROVE  StoresInv' /\ EditKept
<1>. DEFINE x == <<s, "boot">>
            applied == Applied(mem[s], batch[x])
            store == CaughtUp(s)
<1>1. /\ svc[s].start = "running" /\ UNCHANGED <<now, manual, current>>
      /\ batch' = [batch EXCEPT ![x] = NoRuns] /\ batch[x].todo \cup batch[x].going = {}
      /\ Saves(s, store) /\ past' = Gone(DOMAIN mem[s] \ DOMAIN disk')
  BY DEF StartApplies, RunsOver
<1>2. s = current /\ Loaded(current)
  BY <1>1, IInvFacts, CurrentWorks DEF Loaded
<1>3. Excluded /\ Sound(mem[s]) /\ mem[s] \in Stores /\ Fits(mem[s])
  BY <1>2, IInvFacts, StoresBefore DEF MemoryFitsFile, Fits
<1>4. /\ AllKeptUp(Staggered(s, applied), applied) /\ AllKeptUp(store, Staggered(s, applied))
      /\ DOMAIN store = DOMAIN applied
  BY IInvFacts, CaughtUpStore
<1>5. AllKeptUp(store, applied)
  BY <1>4, KeptUpTwice
<1>6. x \in Parts
  BY PartFacts
<1>7. past' = Gone(DOMAIN mem[s] \ DOMAIN applied)
  BY <1>1, <1>4 DEF Saves
<1>. HIDE DEF x, store
<1>. QED BY <1>1, <1>2, <1>3, <1>5, <1>6, <1>7, ResultsSaved

LEMMA TickAppliesStores ==
  ASSUME IInv, past.zombies = 0, NEW s \in Services, TickApplies(s)
  PROVE  StoresInv' /\ EditKept
<1>. DEFINE x == <<s, "tick">>
            applied == Applied(disk, batch[x])
            store == Maintained(applied, FALSE)
<1>1. /\ svc[s].tick = "running" /\ UNCHANGED <<now, manual, current>>
      /\ batch' = [batch EXCEPT ![x] = NoRuns] /\ batch[x].todo \cup batch[x].going = {}
      /\ Saves(s, store) /\ past' = Gone(DOMAIN disk \ DOMAIN disk')
  BY DEF TickApplies, RunsOver
<1>2. s = current /\ Loaded(current)
  BY <1>1, IInvFacts, CurrentWorks
<1>3. Excluded /\ Sound(disk) /\ disk \in Stores
  BY <1>2, IInvFacts, StoresBefore
<1>4. AllKeptUp(store, applied)
  BY IInvFacts, TickAppliesStore
<1>5. disk' = store /\ DOMAIN store = DOMAIN applied
  BY <1>1, <1>4 DEF AllKeptUp, Saves
<1>6. x \in Parts
  BY PartFacts
<1>7. past' = Gone(DOMAIN disk \ DOMAIN applied)
  BY <1>1, <1>5
<1>. HIDE DEF x, store
<1>. QED BY <1>1, <1>2, <1>3, <1>4, <1>6, <1>7, FileFits, ResultsSaved

\* A store that has been read is maintained, and saved.
LEMMA MaintenanceSaved ==
  ASSUME IInv, past.zombies = 0, NEW s \in Services, s = current, NEW base \in Stores, Sound(base), Excluded,
         Fits(base),
         NEW store, AllKeptUp(store, base), disk' = store, mem'[s] = store,
         UNCHANGED <<now, batch, manual, current, past>>
  PROVE  StoresInv' /\ EditKept
<1>1. \A j \in Jobs : Owners(j)' = Owners(j) /\ (Owned(j) => Owned(j)')
  BY OwnersStay DEF Owned
<1>2. SoundNext(store)
  BY <1>1, KeptSound, StoreFacts
<1>3. Excluded'
  BY <1>1, FewerExcluded
<1>4. StoresInv'
  BY <1>2, <1>3, SavedInv
<1>5. DOMAIN store = DOMAIN base /\ \A j \in DOMAIN store : store[j].enabled = base[j].enabled
  BY DEF AllKeptUp, KeptUp
<1>6. EditKept
  BY <1>5 DEF EditKept, Sound, Fits
<1>. QED BY <1>4, <1>6

LEMMA SavesChangesStores ==
  ASSUME IInv, past.zombies = 0, Loaded(current), NEW store, AllKeptUp(store, mem[current]),
         SavesChanges(current, store), UNCHANGED <<now, batch, manual, current, past>>
  PROVE  StoresInv' /\ EditKept
<1>1. /\ Excluded /\ Sound(mem[current]) /\ mem[current] \in Stores /\ current \in Services
      /\ Fits(mem[current])
  BY IInvFacts, StoresBefore, TypeFacts DEF MemoryFitsFile, Fits
<1>2. CASE Saves(current, store)
  <2>1. disk' = store /\ mem'[current] = store
    BY <1>1, <1>2, IInvFacts, SavesFacts
  <2>. QED BY <1>1, <2>1, MaintenanceSaved
<1>3. CASE UNCHANGED <<mem, disk>>
  BY <1>3, StoresStay, OwnersStay
<1>. QED BY <1>2, <1>3 DEF SavesChanges

LEMMA StartArmsStores ==
  ASSUME IInv, past.zombies = 0, NEW s \in Services, StartArms(s)
  PROVE  StoresInv' /\ EditKept
<1>1. s = current /\ Loaded(current)
  BY IInvFacts, CurrentWorks DEF Loaded, StartArms
<1>2. AllKeptUp(Recomputed(mem[s]), mem[s])
  BY IInvFacts, StoredTypes, RecomputedStore
<1>3. SavesChanges(s, Recomputed(mem[s])) /\ UNCHANGED <<now, batch, manual, current, past>>
  BY DEF StartArms
<1>. QED BY <1>1, <1>2, <1>3, SavesChangesStores

LEMMA ReadStores ==
  ASSUME IInv, past.zombies = 0, Read
  PROVE  StoresInv' /\ EditKept
<1>1. AllKeptUp(Maintained(mem[current], FALSE), mem[current])
  BY IInvFacts, TypeFacts, StoredTypes, MaintainedStore
<1>. QED BY <1>1, SavesChangesStores DEF Read

\* A failed write is counted.
LEMMA FailsFields ==
  ASSUME TypeOK, Fails
  PROVE  /\ past'.gone = past.gone /\ past'.unguarded = past.unguarded /\ past'.zombies = past.zombies
         /\ past'.edits = past.edits /\ past'.unsaved = past.unsaved /\ past'.faults # 0
BY TypeFacts DEF Fails, Pasts

\* Maintenance that cannot be saved stays in memory.
LEMMA MaintenanceFails ==
  ASSUME IInv, past.zombies = 0, Loaded(current), NEW store, AllKeptUp(store, mem[current]), Fails,
         mem'[current] = store, UNCHANGED <<now, disk, current>>, \A j \in Jobs : Owners(j)' = Owners(j)
  PROVE  StoresInv' /\ EditKept
<1>1. /\ Excluded /\ Sound(disk) /\ Sound(mem[current]) /\ MemoryFitsFile
      /\ disk \in Stores /\ mem[current] \in Stores
  BY IInvFacts, StoresBefore
<1>2. /\ past'.gone = past.gone /\ past'.unguarded = past.unguarded /\ past'.unsaved = past.unsaved
      /\ past'.faults # 0
  BY IInvFacts, FailsFields
<1>3. SoundNext(disk) /\ SoundNext(store) /\ Excluded'
  BY <1>1, <1>2, KeptSound, KeptUpSame, FewerExcluded
<1>4. DOMAIN store = DOMAIN mem[current]
      /\ \A j \in DOMAIN store : store[j].enabled = mem[current][j].enabled
  BY DEF AllKeptUp, KeptUp
<1>5. StoresInv'
  BY <1>1, <1>2, <1>3, <1>4, UnsavedInv DEF MemoryFitsFile
<1>. QED BY <1>5, FileStays, IInvFacts

LEMMA ReadFailsStores ==
  ASSUME IInv, past.zombies = 0, ReadFails
  PROVE  StoresInv' /\ EditKept
<1>. DEFINE store == Maintained(mem[current], FALSE)
<1>1. /\ Loaded(current) /\ Fails /\ mem' = [mem EXCEPT ![current] = store]
      /\ UNCHANGED <<now, disk, batch, manual, current>>
  BY DEF ReadFails
<1>2. AllKeptUp(store, mem[current]) /\ current \in Services
  BY IInvFacts, TypeFacts, StoredTypes, MaintainedStore
<1>. HIDE DEF store
<1>3. mem'[current] = store
  BY <1>1, <1>2, IInvFacts, SavesFacts
<1>. QED BY <1>1, <1>2, <1>3, MaintenanceFails, OwnersStay

LEMMA TickMovesStores ==
  ASSUME IInv, past.zombies = 0, NEW s \in Services, TickSkips(s) \/ TickStarts(s) \/ TickEnds(s)
  PROVE  StoresInv' /\ EditKept
<1>1. UNCHANGED <<now, disk, mem, batch, manual, current, past>>
  BY DEF TickSkips, TickStarts, TickEnds
<1>2. Loaded(current)
  BY IInvFacts, CurrentWorks DEF TickSkips, TickStarts, TickEnds
<1>. QED BY <1>1, <1>2, StoresStay, OwnersStay

LEMMA DueFacts ==
  /\ RunnableNow(disk) \in SUBSET DOMAIN disk
  /\ \A j \in RunnableNow(disk) : disk[j].enabled /\ disk[j].running = 0
BY DEF RunnableNow, Due

LEMMA TickCollectsStores ==
  ASSUME IInv, past.zombies = 0, NEW s \in Services, TickCollects(s)
  PROVE  StoresInv' /\ EditKept
<1>. DEFINE due == RunnableNow(disk)
            store == Maintained(disk, TRUE)
            x == <<s, "tick">>
<1>1. svc[s].tick = "collecting" /\ UNCHANGED <<now, manual, current, past>>
  BY DEF TickCollects
<1>2. s = current /\ Loaded(current)
  BY <1>1, IInvFacts, CurrentWorks
<1>3. Excluded /\ Sound(disk) /\ disk \in Stores
  BY <1>2, IInvFacts, StoresBefore
<1>4. CASE due = {}
  <2>1. disk' = store /\ mem' = [mem EXCEPT ![s] = store] /\ batch' = batch
    BY <1>4 DEF TickCollects
  <2>2. AllKeptUp(store, disk)
    BY <1>3, IInvFacts, StoredTypes, MaintainedStore
  <2>. HIDE DEF store
  <2>3. mem'[s] = store
    BY <2>1, IInvFacts, SavesFacts
  <2>. QED BY <1>1, <1>2, <1>3, <2>1, <2>2, <2>3, FileFits, MaintenanceSaved
<1>5. CASE due # {}
  <2>1. Saves(s, Marked(disk, due)) /\ batch' = [batch EXCEPT ![x] = [NoRuns EXCEPT !.todo = due]]
    BY <1>5 DEF TickCollects
  <2>2. \A j \in Jobs : ~InBatch(j, batch[x])
    BY <1>1, IInvFacts DEF ServicesInv, BatchesEnd
  <2>3. due \in SUBSET DOMAIN disk /\ \A j \in due : disk[j].enabled /\ disk[j].running = 0
    BY DueFacts
  <2>4. x \in Parts
    BY PartFacts
  <2>. HIDE DEF x, due
  <2>. QED BY <1>1, <1>2, <1>3, <2>1, <2>2, <2>3, <2>4, FileFits, BatchBegins
<1>. QED BY <1>4, <1>5

LEMMA TickCollectFailsStores ==
  ASSUME IInv, past.zombies = 0, NEW s \in Services, TickCollectFails(s)
  PROVE  StoresInv' /\ EditKept
<1>. DEFINE due == RunnableNow(disk)
            store == Marked(disk, due)
<1>1. /\ svc[s].tick = "collecting" /\ UNCHANGED <<now, disk, batch, manual, current>>
      /\ mem' = [mem EXCEPT ![s] = store] /\ Fails
  BY DEF TickCollectFails
<1>2. s = current /\ Loaded(current)
  BY <1>1, IInvFacts, CurrentWorks
<1>3. Excluded /\ Sound(disk) /\ disk \in Stores /\ now \in 1..MaxTime
  BY <1>2, IInvFacts, StoresBefore
<1>4. /\ past'.gone = past.gone /\ past'.unguarded = past.unguarded /\ past'.unsaved = past.unsaved
      /\ past'.faults # 0
  BY <1>1, IInvFacts, FailsFields
<1>5. due \in SUBSET DOMAIN disk /\ \A j \in due : disk[j].enabled /\ disk[j].running = 0
  BY DueFacts
<1>6. DOMAIN store = DOMAIN disk /\ \A j \in DOMAIN disk : store[j].enabled = disk[j].enabled
  BY <1>3, MarkedStore
<1>7. \A j \in Jobs : Owners(j)' = Owners(j)
  BY <1>1, OwnersStay
<1>8. Excluded' /\ SoundNext(store)
  <2>1. \A j \in due : Owners(j)' \subseteq Owners(j) \cup {0}
    BY <1>1, OwnersStay
  <2>2. \A j \in Jobs \ due : Owners(j)' = Owners(j)
    BY <1>7
  <2>. HIDE DEF due
  <2>. QED BY <1>3, <1>4, <1>5, <2>1, <2>2, MarkedSound
<1>9. SoundNext(disk)
  BY <1>3, <1>4, <1>7, KeptSound, KeptUpSame
<1>. HIDE DEF store
<1>10. mem'[s] = store
  BY <1>1, IInvFacts, SavesFacts
<1>11. StoresInv'
  BY <1>1, <1>2, <1>4, <1>6, <1>8, <1>9, <1>10, UnsavedInv
<1>. QED BY <1>1, <1>11, FileStays, IInvFacts

LEMMA TickApplyFailsStores ==
  ASSUME IInv, past.zombies = 0, NEW s \in Services, TickApplyFails(s)
  PROVE  StoresInv' /\ EditKept
<1>. DEFINE x == <<s, "tick">>
            applied == Applied(disk, batch[x])
            store == Maintained(applied, FALSE)
<1>1. /\ svc[s].tick = "running" /\ UNCHANGED <<now, disk, manual, current>>
      /\ batch' = [batch EXCEPT ![x] = NoRuns] /\ batch[x].todo \cup batch[x].going = {}
      /\ mem' = [mem EXCEPT ![s] = store] /\ Fails
  BY DEF TickApplyFails, RunsOver
<1>2. s = current /\ Loaded(current)
  BY <1>1, IInvFacts, CurrentWorks
<1>3. Excluded /\ Sound(disk) /\ disk \in Stores
  BY <1>2, IInvFacts, StoresBefore
<1>4. AllKeptUp(store, applied)
  BY IInvFacts, TickAppliesStore
<1>5. /\ past'.gone = past.gone /\ past'.unguarded = past.unguarded /\ past'.unsaved = past.unsaved
      /\ past'.faults # 0
  BY <1>1, IInvFacts, FailsFields
<1>6. x \in Parts
  BY PartFacts
<1>. HIDE DEF x, store
<1>7. Excluded' /\ SoundNext(store)
  BY <1>1, <1>3, <1>4, <1>5, <1>6, ResultsKept
<1>8. SoundNext(disk)
  <2>1. \A j \in Jobs : Owners(j)' \subseteq Owners(j)
    BY <1>1, <1>6, IInvFacts, AppliedOwners
  <2>. QED BY <1>3, <1>5, <2>1, KeptSound, KeptUpSame
<1>9. /\ DOMAIN store \subseteq DOMAIN disk
      /\ \A j \in DOMAIN disk \ DOMAIN store : j \in OneShot
      /\ \A j \in DOMAIN store : store[j].enabled => disk[j].enabled
  BY <1>3, <1>4, <1>6, AppliedEnablesNothing
<1>10. mem'[s] = store
  BY <1>1, IInvFacts, SavesFacts
<1>11. StoresInv'
  <2>1. DOMAIN disk \ DOMAIN store \subseteq OneShot
    BY <1>9
  <2>. QED BY <1>1, <1>2, <1>5, <1>7, <1>8, <1>9, <1>10, <2>1, UnsavedInv
<1>. QED BY <1>1, <1>11, FileStays, IInvFacts

\* What a section of start() would have saved stays in memory.
LEMMA StartFailsStores ==
  ASSUME IInv, past.zombies = 0, NEW s \in Services, StartFails(s)
  PROVE  StoresInv' /\ EditKept
<1>. DEFINE x == <<s, "boot">>
<1>0. x \in Parts
  BY PartFacts
<1>1. PICK store \in Unsaved(s) : mem' = [mem EXCEPT ![s] = store]
  BY DEF StartFails
<1>2. batch' = [batch EXCEPT ![x] = NoRuns] /\ Fails /\ UNCHANGED <<now, disk, manual, current>>
  BY DEF StartFails
<1>3. s = current /\ svc[s].start \in {"loading", "planning", "running", "arming"}
  <2>1. svc[s].start \in {"loading", "planning", "running", "arming"}
    BY DEF Unsaved
  <2>. QED BY <2>1, IInvFacts, CurrentWorks
<1>4. mem'[current] = store
  BY <1>1, <1>3, IInvFacts, SavesFacts
<1>5. /\ past'.gone = past.gone /\ past'.unguarded = past.unguarded /\ past'.unsaved = past.unsaved
      /\ past'.faults # 0
  BY <1>2, IInvFacts, FailsFields
<1>. HIDE DEF x
<1>6. \A j \in Jobs : Owners(j)' = Owners(j) \ {x} /\ (x \in Owners(j) <=> InBatch(j, batch[x]))
  BY <1>0, <1>2, IInvFacts, BatchOver
<1>7. svc[s].start # "running" => \A j \in Jobs : Owners(j)' = Owners(j)
  <2>1. svc[s].start # "running" => \A j \in Jobs : ~InBatch(j, batch[x])
    BY IInvFacts DEF ServicesInv, BatchesEnd, x
  <2>. QED BY <1>6, <2>1
<1>8. CASE svc[s].start = "loading"
  <2>1. store = Cleared(disk) /\ DOMAIN store = DOMAIN disk
    BY <1>8 DEF Unsaved, Cleared
  <2>2. \A j \in Jobs : ~Owned(j) /\ ~Owned(j)' /\ Owners(j)' = {}
    BY <1>3, <1>7, <1>8, IInvFacts, IdleOwnNothing DEF Owned, Loaded
  <2>3. DOMAIN disk \cap past.gone = {} /\ DOMAIN disk \subseteq Jobs
    BY IInvFacts, StoredTypes DEF StoresInv
  <2>4. \A j \in DOMAIN disk : store[j].enabled = disk[j].enabled
    <3>1. \A j \in DOMAIN disk : disk[j] \in Record
      BY IInvFacts, StoredTypes, RecordOfStore
    <3>. QED BY <2>1, <3>1 DEF Cleared, Record
  <2>5. Excluded' /\ SoundNext(disk) /\ SoundNext(store)
    BY <1>5, <2>1, <2>2, <2>3 DEF Excluded, SoundNext
  <2>6. StoresInv'
    BY <1>2, <1>4, <1>5, <2>1, <2>4, <2>5, UnsavedInv
  <2>. QED BY <1>2, <2>6, FileStays, IInvFacts
<1>9. CASE svc[s].start = "arming"
  <2>1. store = Recomputed(mem[s]) /\ Loaded(current)
    BY <1>3, <1>9 DEF Unsaved, Loaded
  <2>2. AllKeptUp(store, mem[current])
    BY <1>3, <2>1, IInvFacts, StoredTypes, RecomputedStore
  <2>. QED BY <1>2, <1>4, <1>7, <1>9, <2>1, <2>2, MaintenanceFails
<1>10. CASE svc[s].start \in {"planning", "running"}
  <2>1. /\ Excluded /\ Sound(disk) /\ Sound(mem[current]) /\ MemoryFitsFile
        /\ disk \in Stores /\ mem[current] \in Stores /\ now \in 1..MaxTime
    BY <1>3, <1>10, IInvFacts, StoresBefore DEF Loaded
  <2>2. SoundNext(disk)
    BY <1>5, <1>6, <2>1, KeptSound, KeptUpSame
  <2>3. /\ Excluded' /\ SoundNext(store)
        /\ DOMAIN store \subseteq DOMAIN mem[current]
        /\ \A j \in DOMAIN mem[current] \ DOMAIN store : j \in OneShot
        /\ \A j \in DOMAIN store : store[j].enabled => mem[current][j].enabled
    <3>1. CASE svc[s].start = "planning"
      <4>1. PICK first \in SUBSET AllMissed(s) : store = Marked(mem[s], first)
        BY <3>1 DEF Unsaved, Oldest
      <4>2. /\ first \in SUBSET DOMAIN mem[current]
            /\ \A j \in first : mem[current][j].enabled /\ mem[current][j].running = 0
        BY <1>3 DEF AllMissed, Missed
      <4>3. DOMAIN store = DOMAIN mem[current]
            /\ \A j \in DOMAIN store : store[j].enabled = mem[current][j].enabled
        BY <1>3, <2>1, <4>1, MarkedStore
      <4>4. /\ \A j \in first : Owners(j)' \subseteq Owners(j) \cup {0}
            /\ \A j \in Jobs \ first : Owners(j)' = Owners(j)
        <5>1. first \subseteq Jobs
          BY <2>1, <4>2, StoreFacts
        <5>. QED BY <1>7, <3>1, <5>1
      <4>5. Excluded' /\ SoundNext(Marked(mem[current], first))
        BY <1>5, <2>1, <4>2, <4>4, MarkedSound
      <4>. QED BY <1>3, <4>1, <4>3, <4>5
    <3>2. CASE svc[s].start = "running"
      <4>. DEFINE applied == Applied(mem[s], batch[x])
      <4>1. store = CaughtUp(s) /\ batch[x].todo \cup batch[x].going = {}
        BY <3>2 DEF Unsaved, RunsOver, x
      <4>2. AllKeptUp(Staggered(s, applied), applied) /\ AllKeptUp(store, Staggered(s, applied))
        BY <4>1, IInvFacts, CaughtUpStore DEF x
      <4>3. AllKeptUp(store, applied)
        BY <4>2, KeptUpTwice
      <4>4. Excluded' /\ SoundNext(store)
        BY <1>0, <1>2, <1>3, <1>5, <2>1, <4>1, <4>3, ResultsKept
      <4>5. /\ DOMAIN store \subseteq DOMAIN mem[current]
            /\ \A j \in DOMAIN mem[current] \ DOMAIN store : j \in OneShot
            /\ \A j \in DOMAIN store : store[j].enabled => mem[current][j].enabled
        BY <1>0, <1>3, <2>1, <4>3, AppliedEnablesNothing
      <4>. QED BY <4>4, <4>5
    <3>. QED BY <1>10, <3>1, <3>2
  <2>4. StoresInv'
    BY <1>2, <1>4, <1>5, <2>1, <2>2, <2>3, UnsavedInv DEF MemoryFitsFile
  <2>. QED BY <1>2, <2>4, FileStays, IInvFacts
<1>. QED BY <1>3, <1>8, <1>9, <1>10

--------------------------------------------------------------------------------
(* What a run does to the stores.                                           *)

LEMMA RunStores ==
  ASSUME IInv, past.zombies = 0, NEW p \in Parts, NEW j \in Jobs, RunStep(p, j)
  PROVE  StoresInv' /\ EditKept
<1>1. UNCHANGED <<now, disk, svc, manual, current, past>>
  <2>1. ASSUME NEW status \in Statuses, Returns(p, j, status)
        PROVE  UNCHANGED <<now, disk, svc, manual, current, past>>
    BY <2>1 DEF Returns
  <2>. QED BY <2>1, RunCases DEF RunStarts
<1>2. \A k \in Jobs : Owners(k)' = Owners(k)
  BY <1>1, IInvFacts, RunServices, OwnersOfBatchesStay
<1>3. CASE mem' = mem
  BY <1>1, <1>2, <1>3, StoresStay DEF Loaded
<1>4. CASE mem' # mem
  <2>. DEFINE store == Marked(mem[current], {j})
  <2>1. RunStarts(p, j) /\ p[2] = "tick" /\ mem' = [mem EXCEPT ![p[1]] = Marked(@, {j})]
    BY <1>4, RunCases DEF RunStarts, Returns
  <2>2. PICK s \in Services : p = <<s, "tick">>
    BY <2>1 DEF Parts
  <2>3. InBatch(j, batch[p])
    BY <2>1 DEF RunStarts, InBatch
  <2>4. s = current /\ Loaded(current)
    <3>1. svc[s].tick = "running"
      BY <2>2, <2>3, IInvFacts DEF ServicesInv, BatchesEnd
    <3>. QED BY <3>1, IInvFacts, CurrentWorks
  <2>5. /\ Excluded /\ Sound(disk) /\ Sound(mem[current]) /\ MemoryFitsFile
        /\ disk \in Stores /\ mem[current] \in Stores /\ now \in 1..MaxTime
    BY <2>4, IInvFacts, StoresBefore
  <2>6. mem'[current] = store
    BY <2>1, <2>2, <2>4, IInvFacts, TypeFacts
  <2>7. Owned(j)' /\ Owned(j) /\ \A k \in Jobs : Owned(k)' <=> Owned(k)
    <3>1. Owned(j)
      BY <2>3, OwnerFacts DEF Owned
    <3>. QED BY <1>2, <3>1 DEF Owned
  <2>8. DOMAIN store = DOMAIN mem[current] /\ DOMAIN store \subseteq Jobs /\ DOMAIN disk \subseteq Jobs
    BY <2>5, MarkedStore, StoreFacts
  <2>9. \A k \in DOMAIN store : /\ store[k].enabled = mem[current][k].enabled
                                /\ k = j => store[k].running = now
                                /\ k # j => store[k] = mem[current][k]
    BY <2>5, <2>8, MarkedStore
  <2>. HIDE DEF store
  <2>10. SoundNext(disk)
    BY <1>1, <1>2, <2>5, <2>7, <2>8, KeptSound, KeptUpSame
  <2>11. SoundNext(store)
    <3>1. \A k \in DOMAIN store \ past'.unguarded : Owned(k)' => Held(store[k])
      BY <1>1, <2>5, <2>7, <2>8, <2>9, Constants DEF Sound, Held
    <3>2. past'.faults = 0 => \A k \in DOMAIN store : store[k].running > 0 => Owned(k)'
      BY <1>1, <2>5, <2>7, <2>8, <2>9 DEF Sound
    <3>. QED BY <1>1, <2>5, <2>7, <2>8, <3>1, <3>2 DEF Sound, SoundNext
  <2>12. Excluded'
    BY <1>1, <1>2, <2>5, FewerExcluded
  <2>13. StoresInv'
    BY <1>1, <2>5, <2>6, <2>8, <2>9, <2>10, <2>11, <2>12, UnsavedInv DEF MemoryFitsFile
  <2>. QED BY <1>1, <2>13, FileStays, IInvFacts
<1>. QED BY <1>3, <1>4

\* A run by hand that stays, or does not become, the owner of its job.
LEMMA HandOwnersStay ==
  ASSUME NEW m \in Manuals, UNCHANGED batch, \A n \in Manuals \ {m} : manual'[n] = manual[n],
         \/ manual[m].at \notin {"running", "ended"} /\ manual'[m].at \notin {"running", "ended"}
         \/ /\ manual[m].at \in {"running", "ended"} /\ manual'[m].at \in {"running", "ended"}
            /\ manual'[m].job = manual[m].job
  PROVE  \A j \in Jobs : Owners(j)' = Owners(j)
<1>. SUFFICES ASSUME NEW j \in Jobs  PROVE Owners(j)' = Owners(j)
  OBVIOUS
<1>1. ByHand(j, manual'[m]) <=> ByHand(j, manual[m])
  BY DEF ByHand
<1>. QED BY <1>1, HandChanges

\* A run by hand that becomes the owner of its job.
LEMMA HandOwns ==
  ASSUME NEW m \in Manuals, NEW job, UNCHANGED batch, \A n \in Manuals \ {m} : manual'[n] = manual[n],
         manual[m].at \notin {"running", "ended"}, manual'[m].at = "running", manual'[m].job = job
  PROVE  /\ Owners(job)' = Owners(job) \cup {<<m, "hand">>}
         /\ \A j \in Jobs \ {job} : Owners(j)' = Owners(j)
<1>1. \A j : ~ByHand(j, manual[m]) /\ (ByHand(j, manual'[m]) <=> j = job)
  BY DEF ByHand
<1>2. Owners(job)' = Owners(job) \cup {<<m, "hand">>}
  BY <1>1, HandChanges
<1>3. ASSUME NEW j \in Jobs \ {job}  PROVE Owners(j)' = Owners(j)
  BY <1>1, HandChanges
<1>. QED BY <1>2, <1>3

\* A run by hand that ends.
LEMMA HandLeaves ==
  ASSUME NEW m \in Manuals, UNCHANGED batch, \A n \in Manuals \ {m} : manual'[n] = manual[n],
         manual[m].at = "ended", manual'[m].at = "over"
  PROVE  \A j \in Jobs : /\ Owners(j)' = Owners(j) \ {<<m, "hand">>}
                         /\ <<m, "hand">> \in Owners(j) <=> j = manual[m].job
<1>. SUFFICES ASSUME NEW j \in Jobs
              PROVE  /\ Owners(j)' = Owners(j) \ {<<m, "hand">>}
                     /\ <<m, "hand">> \in Owners(j) <=> j = manual[m].job
  OBVIOUS
<1>1. ~ByHand(j, manual'[m]) /\ (ByHand(j, manual[m]) <=> j = manual[m].job)
  BY DEF ByHand
<1>. QED BY <1>1, HandChanges

LEMMA InspectStores ==
  ASSUME IInv, past.zombies = 0, NEW m \in Manuals, NEW j \in Jobs, NEW force \in BOOLEAN,
         Inspect(m, j, force)
  PROVE  StoresInv' /\ EditKept
<1>. DEFINE store == Maintained(mem[current], FALSE)
<1>1. /\ Loaded(current) /\ UNCHANGED <<now, disk, svc, batch, current, past>>
      /\ mem' = [mem EXCEPT ![current] = store]
  BY DEF Inspect
<1>2. /\ Excluded /\ Sound(disk) /\ Sound(mem[current]) /\ MemoryFitsFile
      /\ disk \in Stores /\ mem[current] \in Stores /\ now \in 1..MaxTime
  BY <1>1, IInvFacts, StoresBefore
<1>3. \A k \in Jobs : Owners(k)' = Owners(k)
  <2>1. /\ manual[m].at = "idle" /\ manual'[m].at \in {"over", "inspected"}
        /\ \A n \in Manuals \ {m} : manual'[n] = manual[n]
    BY IInvFacts, InspectMoves
  <2>. QED BY <1>1, <2>1, HandOwnersStay
<1>4. AllKeptUp(store, mem[current])
  BY <1>2, MaintainedStore
<1>5. mem'[current] = store
  BY <1>1, IInvFacts, TypeFacts
<1>. HIDE DEF store
<1>6. SoundNext(disk) /\ SoundNext(store) /\ Excluded'
  <2>1. DOMAIN disk \subseteq Jobs /\ DOMAIN mem[current] \subseteq Jobs
        /\ \A k \in Jobs : Owned(k) => Owned(k)'
    BY <1>2, <1>3, StoreFacts DEF Owned
  <2>. QED BY <1>1, <1>2, <1>3, <1>4, <2>1, KeptSound, KeptUpSame, FewerExcluded
<1>7. DOMAIN store = DOMAIN mem[current]
      /\ \A k \in DOMAIN store : store[k].enabled = mem[current][k].enabled
  BY <1>4 DEF AllKeptUp, KeptUp
<1>8. StoresInv'
  BY <1>1, <1>2, <1>5, <1>6, <1>7, UnsavedInv DEF MemoryFitsFile
<1>. QED BY <1>1, <1>8, FileStays, IInvFacts

LEMMA ManualEndsStores ==
  ASSUME IInv, past.zombies = 0, NEW m \in Manuals, NEW status \in Statuses, ManualReturns(m, status)
  PROVE  StoresInv' /\ EditKept
<1>1. manual[m].at = "running" /\ UNCHANGED <<now, disk, mem, svc, batch, current, past>>
  BY DEF ManualReturns
<1>2. \A j \in Jobs : Owners(j)' = Owners(j)
  BY <1>1, IInvFacts, EndMoves, HandOwnersStay
<1>. QED BY <1>1, <1>2, StoresStay DEF Loaded

\* A marker is set by hand in memory.
LEMMA ReserveStores ==
  ASSUME IInv, past.zombies = 0, NEW m \in Manuals, Reserve(m) \/ ReserveFails(m)
  PROVE  StoresInv' /\ EditKept
<1>0. PICK j \in Jobs : j = manual[m].job
  BY IInvFacts, ManualFacts
<1>. DEFINE s == manual[m].svc
            from == manual[m].from
            x == <<m, "hand">>
            store == [mem[s] EXCEPT ![j].running = from]
<1>1. manual[m].at = "inspected" /\ UNCHANGED <<now, svc, batch, current>> /\ AtWork(m)
  BY DEF Reserve, ReserveFails, AtWork
<1>2. s = current /\ Loaded(current) /\ s \in Services
  BY <1>1, IInvFacts, CurrentWorks
<1>3. /\ Excluded /\ Sound(disk) /\ Sound(mem[s]) /\ MemoryFitsFile
      /\ disk \in Stores /\ mem[s] \in Stores /\ now \in 1..MaxTime
  BY <1>2, IInvFacts, StoresBefore
<1>4. from \in 1..now /\ from \in Time
  BY <1>1, IInvFacts, ManualFacts DEF ServicesInv, InspectedInTime
<1>5. ASSUME Over(m)  PROVE \A k \in Jobs : Owners(k)' = Owners(k)
  BY <1>1, <1>5, IInvFacts, OverMoves, HandOwnersStay
<1>6. ASSUME ~Free(s, j), Reserve(m)  PROVE StoresInv' /\ EditKept
  <2>1. Over(m) /\ UNCHANGED <<now, disk, mem, svc, current, past>>
    BY <1>0, <1>6 DEF Reserve
  <2>. QED BY <1>5, <2>1, StoresStay DEF Loaded
<1>7. ASSUME Free(s, j)
      PROVE  /\ j \in DOMAIN mem[s] /\ DOMAIN store = DOMAIN mem[s]
             /\ store[j].running = from /\ store[j].enabled = mem[s][j].enabled
             /\ \A k \in DOMAIN store \ {j} : store[k] = mem[s][k]
             /\ \A k \in DOMAIN store : store[k].enabled = mem[s][k].enabled
             /\ j \notin past.unguarded => ~Owned(j)
             /\ DOMAIN store \subseteq Jobs
  <2>1. j \in DOMAIN mem[s] /\ mem[s][j].running = 0
    BY <1>7 DEF Free
  <2>. HIDE DEF s, from
  <2>2. /\ DOMAIN store = DOMAIN mem[s]
        /\ store[j].running = from /\ store[j].enabled = mem[s][j].enabled
        /\ \A k \in DOMAIN store \ {j} : store[k] = mem[s][k]
    BY <1>2, <1>4, <2>1, IInvFacts, ReservedStore
  <2>3. j \notin past.unguarded => ~Owned(j)
    BY <1>3, <2>1 DEF Sound, Held
  <2>4. DOMAIN mem[s] \subseteq Jobs
    BY <1>3, StoreFacts
  <2>. HIDE DEF store
  <2>. QED BY <2>1, <2>2, <2>3, <2>4
<1>8. ASSUME Free(s, j), Reserve(m)  PROVE StoresInv' /\ EditKept
  <2>1. /\ Saves(s, store) /\ Runs(m)
        /\ past' = IF now - from > Stuck \/ ~mem[s][j].enabled
                     THEN [past EXCEPT !.unguarded = @ \cup {j}] ELSE past
    BY <1>0, <1>8 DEF Reserve
  <2>2. disk' = store /\ mem'[s] = store
    BY <1>2, <2>1, IInvFacts, SavesFacts
  <2>3. /\ past'.gone = past.gone /\ past'.faults = past.faults /\ past'.unsaved = past.unsaved
        /\ past.unguarded \subseteq past'.unguarded /\ past'.unguarded \subseteq past.unguarded \cup {j}
        /\ j \notin past'.unguarded => now - from <= Stuck /\ mem[s][j].enabled
    <3>1. past \in Pasts /\ now - from \in Int /\ Stuck \in Int
      BY <1>3, <1>4, IInvFacts, TypeFacts, Constants
    <3>2. CASE now - from > Stuck \/ ~mem[s][j].enabled
      <4>1. past' = [past EXCEPT !.unguarded = @ \cup {j}]
        BY <2>1, <3>2
      <4>. QED BY <3>1, <4>1 DEF Pasts
    <3>3. CASE ~(now - from > Stuck \/ ~mem[s][j].enabled)
      BY <2>1, <3>1, <3>3
    <3>. QED BY <3>2, <3>3
  <2>4. Owners(j)' = Owners(j) \cup {x} /\ \A k \in Jobs \ {j} : Owners(k)' = Owners(k)
    BY <1>0, <1>1, <2>1, IInvFacts, RunsMoves, HandOwns
  <2>5. Owned(j)' /\ \A k \in Jobs \ {j} : Owned(k)' <=> Owned(k)
    BY <2>4 DEF Owned
  <2>6. /\ j \in DOMAIN mem[s] /\ DOMAIN store = DOMAIN mem[s]
        /\ store[j].running = from /\ store[j].enabled = mem[s][j].enabled
        /\ \A k \in DOMAIN store \ {j} : store[k] = mem[s][k]
        /\ \A k \in DOMAIN store : store[k].enabled = mem[s][k].enabled
        /\ j \notin past.unguarded => ~Owned(j)
        /\ DOMAIN store \subseteq Jobs
    BY <1>7, <1>8
  <2>. HIDE DEF store, s, x, from
  <2>7. Excluded'
    <3>. SUFFICES ASSUME NEW k \in Jobs \ past'.unguarded, NEW y \in Owners(k)', NEW z \in Owners(k)'
                  PROVE  y = z
      BY DEF Excluded
    <3>1. CASE k = j
      <4>1. ~Owned(j)
        BY <2>3, <2>6, <3>1
      <4>2. Owners(j)' = {x}
        BY <2>4, <4>1 DEF Owned
      <4>. QED BY <3>1, <4>2
    <3>2. CASE k # j
      BY <1>3, <2>3, <2>4, <3>2 DEF Excluded
    <3>. QED BY <3>1, <3>2
  <2>8. SoundNext(store)
    <3>1. ASSUME NEW k \in DOMAIN store \ past'.unguarded, Owned(k)'  PROVE Held(store[k])
      <4>1. CASE k = j
        BY <1>3, <1>4, <2>3, <2>6, <4>1 DEF Held
      <4>2. CASE k # j
        BY <1>3, <2>3, <2>5, <2>6, <3>1, <4>2 DEF Sound
      <4>. QED BY <4>1, <4>2
    <3>2. ASSUME past'.faults = 0, NEW k \in DOMAIN store, store[k].running > 0  PROVE Owned(k)'
      <4>1. CASE k # j
        <5>1. store[k] = mem[s][k] /\ k \in DOMAIN mem[s]
          BY <2>6, <4>1
        <5>2. Owned(k)
          BY <1>3, <2>3, <3>2, <5>1 DEF Sound
        <5>. QED BY <2>5, <2>6, <4>1, <5>2
      <4>. QED BY <2>5, <4>1
    <3>3. \A k \in Jobs \ OneShot : Owned(k)' => k \in DOMAIN store \cup past'.gone \cup past'.unsaved
      BY <1>3, <2>3, <2>5, <2>6 DEF Sound
    <3>4. DOMAIN store \cap past'.gone = {}
      BY <1>3, <2>3, <2>6 DEF Sound
    <3>. QED BY <3>1, <3>2, <3>3, <3>4 DEF SoundNext
  <2>9. StoresInv'
    BY <1>1, <1>2, <2>2, <2>7, <2>8, SavedInv
  <2>10. EditKept
    BY <1>2, <1>3, <2>2, <2>6 DEF EditKept, Sound, MemoryFitsFile
  <2>. QED BY <2>9, <2>10
<1>9. ASSUME ReserveFails(m)  PROVE StoresInv' /\ EditKept
  <2>1. /\ Free(s, j) /\ Fails /\ Over(m) /\ disk' = disk
        /\ mem' = [mem EXCEPT ![s] = store]
    BY <1>0, <1>9 DEF ReserveFails
  <2>2. mem'[s] = store
    BY <1>2, <2>1, IInvFacts, SavesFacts
  <2>3. /\ past'.gone = past.gone /\ past'.unguarded = past.unguarded /\ past'.unsaved = past.unsaved
        /\ past'.faults # 0
    BY <2>1, IInvFacts, FailsFields
  <2>4. \A k \in Jobs : Owners(k)' = Owners(k) /\ (Owned(k)' <=> Owned(k))
    BY <1>5, <2>1 DEF Owned
  <2>5. /\ j \in DOMAIN mem[s] /\ DOMAIN store = DOMAIN mem[s]
        /\ \A k \in DOMAIN store \ {j} : store[k] = mem[s][k]
        /\ \A k \in DOMAIN store : store[k].enabled = mem[s][k].enabled
        /\ j \notin past.unguarded => ~Owned(j)
        /\ DOMAIN store \subseteq Jobs
    BY <1>7, <2>1
  <2>. HIDE DEF store, s, x, from
  <2>6. SoundNext(disk)
    BY <1>3, <2>3, <2>4, KeptSound, KeptUpSame
  <2>7. SoundNext(store)
    <3>1. \A k \in DOMAIN store \ past'.unguarded : Owned(k)' => Held(store[k])
      BY <1>3, <2>3, <2>4, <2>5 DEF Sound
    <3>2. \A k \in Jobs \ OneShot : Owned(k)' => k \in DOMAIN store \cup past'.gone \cup past'.unsaved
      BY <1>3, <2>3, <2>4, <2>5 DEF Sound
    <3>3. DOMAIN store \cap past'.gone = {}
      BY <1>3, <2>3, <2>5 DEF Sound
    <3>. QED BY <2>3, <3>1, <3>2, <3>3 DEF SoundNext
  <2>8. Excluded'
    BY <1>3, <2>3, <2>4, FewerExcluded
  <2>9. StoresInv'
    BY <1>1, <1>2, <1>3, <2>1, <2>2, <2>3, <2>5, <2>6, <2>7, <2>8, UnsavedInv DEF MemoryFitsFile
  <2>. QED BY <2>1, <2>9, FileStays, IInvFacts
<1>. QED BY <1>6, <1>8, <1>9

\* The result of a run by hand, merged into the file.
LEMMA MergedKept ==
  ASSUME IInv, past.zombies = 0, NEW m \in Manuals, manual[m].at = "ended", Over(m),
         manual[m].job \in DOMAIN mem[current], manual[m].svc = current, UNCHANGED batch, Loaded(current),
         past.gone \subseteq past'.gone,
         past'.gone \subseteq past.gone \cup (DOMAIN disk \ DOMAIN Finished(m)),
         past'.unguarded = past.unguarded, past'.unsaved = past.unsaved, past'.faults = 0 => past.faults = 0
  PROVE  /\ Excluded' /\ SoundNext(Finished(m))
         /\ DOMAIN Finished(m) \subseteq DOMAIN disk /\ DOMAIN disk \ DOMAIN Finished(m) \subseteq OneShot
         /\ \A j \in DOMAIN Finished(m) \ past.unsaved : Finished(m)[j].enabled => disk[j].enabled
<1>. DEFINE job == manual[m].job
            r == ManualResult(m)
            merged == Merged(m, r)
            store == Finished(m)
            x == <<m, "hand">>
<1>1. /\ Excluded /\ Sound(disk) /\ disk \in Stores
      /\ \A j \in (DOMAIN mem[current] \cap DOMAIN disk) \ past.unsaved :
           mem[current][j].enabled => disk[j].enabled
  BY IInvFacts, StoresBefore DEF MemoryFitsFile
<1>2. /\ r \in Record /\ r.running = 0
      /\ job \in DOMAIN disk \ past.unsaved => (r.enabled => disk[job].enabled)
      /\ merged \in Stores /\ AllKeptUp(store, merged)
  BY <1>1, IInvFacts, FinishedStore
<1>3. /\ DOMAIN merged \subseteq DOMAIN disk
      /\ DOMAIN disk \ DOMAIN merged \subseteq {job} \cap OneShot
      /\ job \in DOMAIN merged => merged[job] = r
      /\ \A k \in DOMAIN merged \ {job} : merged[k] = disk[k]
  BY <1>2, IInvFacts, MergedStore
<1>4. \A j \in Jobs : Owners(j)' = Owners(j) \ {x} /\ (x \in Owners(j) <=> j = job)
  BY IInvFacts, OverMoves, HandLeaves
<1>5. DOMAIN store = DOMAIN merged /\ DOMAIN merged \subseteq Jobs
      /\ \A j \in DOMAIN merged : store[j].enabled = merged[j].enabled
  BY <1>2, StoreFacts DEF AllKeptUp, KeptUp
<1>. HIDE DEF merged, store, job, x, r
<1>6. \A j \in DOMAIN merged : /\ x \in Owners(j) => merged[j].running = 0
                               /\ x \notin Owners(j) => merged[j] = disk[j]
  BY <1>2, <1>3, <1>4, <1>5
<1>7. past'.gone \subseteq past.gone \cup (DOMAIN disk \ DOMAIN merged)
  BY <1>5 DEF store
<1>8. Excluded' /\ SoundNext(store)
  BY <1>1, <1>2, <1>3, <1>4, <1>6, <1>7, ResultsSound
<1>9. /\ DOMAIN store \subseteq DOMAIN disk /\ DOMAIN disk \ DOMAIN store \subseteq OneShot
      /\ \A j \in DOMAIN store \ past.unsaved : store[j].enabled => disk[j].enabled
  BY <1>2, <1>3, <1>5
<1>. QED BY <1>8, <1>9 DEF store

LEMMA ManualFinishesStores ==
  ASSUME IInv, past.zombies = 0, NEW m \in Manuals, ManualFinishes(m) \/ ManualFinishFails(m)
  PROVE  StoresInv' /\ EditKept
<1>. DEFINE s == manual[m].svc
            j == manual[m].job
            store == Finished(m)
            x == <<m, "hand">>
<1>1. manual[m].at = "ended" /\ UNCHANGED <<now, batch, current>> /\ AtWork(m) /\ Over(m)
  BY DEF ManualFinishes, ManualFinishFails, AtWork
<1>2. s = current /\ Loaded(current) /\ s \in Services
  BY <1>1, IInvFacts, CurrentWorks
<1>3. /\ Excluded /\ Sound(disk) /\ Sound(mem[current]) /\ MemoryFitsFile
      /\ disk \in Stores /\ mem[current] \in Stores
  BY <1>2, IInvFacts, StoresBefore
<1>4. ASSUME ManualFinishes(m), j \notin DOMAIN mem[s]  PROVE StoresInv' /\ EditKept
  <2>1. UNCHANGED <<disk, mem, svc, past>>
    BY <1>4 DEF ManualFinishes
  <2>2. \A k \in Jobs : Owners(k)' = Owners(k) \ {x} /\ (x \in Owners(k) <=> k = j)
    BY <1>1, IInvFacts, OverMoves, HandLeaves
  <2>3. \A k \in Jobs \ {j} : Owned(k) => Owned(k)'
    BY <2>2 DEF Owned
  <2>4. DOMAIN disk \subseteq Jobs /\ DOMAIN mem[current] \subseteq Jobs
    BY <1>3, StoreFacts
  <2>5. past.faults = 0 => j \notin DOMAIN disk /\ j \notin DOMAIN mem[current]
    BY <1>2, <1>3, <1>4 DEF MemoryFitsFile
  <2>. HIDE DEF x, j, s
  <2>6. SoundNext(disk) /\ SoundNext(mem[current])
    BY <1>3, <2>1, <2>2, <2>3, <2>4, <2>5, KeptSound, KeptUpSame
  <2>7. Excluded'
    BY <1>3, <2>1, <2>2, FewerExcluded
  <2>8. StoresInv'
    BY <1>1, <1>3, <2>1, <2>6, <2>7, UnsavedInv DEF MemoryFitsFile
  <2>. QED BY <2>1, <2>8, FileStays, IInvFacts
<1>5. ASSUME ManualFinishes(m), j \in DOMAIN mem[s]  PROVE StoresInv' /\ EditKept
  <2>1. Saves(s, store) /\ past' = Gone(DOMAIN disk \ DOMAIN disk')
    BY <1>5 DEF ManualFinishes, Finished, ManualResult
  <2>2. disk' = store /\ mem'[current] = store
    BY <1>2, <2>1, IInvFacts, SavesFacts
  <2>3. /\ past'.gone = past.gone \cup (DOMAIN disk \ DOMAIN store)
        /\ past'.unguarded = past.unguarded /\ past'.faults = past.faults
        /\ past'.unsaved = past.unsaved
    BY <2>1, <2>2, IInvFacts, GoneFields
  <2>4. /\ Excluded' /\ SoundNext(store) /\ DOMAIN store \subseteq DOMAIN disk
        /\ \A k \in DOMAIN store \ past.unsaved : store[k].enabled => disk[k].enabled
    BY <1>1, <1>2, <1>5, <2>3, MergedKept
  <2>. HIDE DEF store
  <2>5. StoresInv'
    BY <1>1, <2>2, <2>4, SavedInv
  <2>6. EditKept
    BY <1>3, <2>2, <2>4 DEF EditKept, Sound
  <2>. QED BY <2>5, <2>6
<1>6. ASSUME ManualFinishFails(m)  PROVE StoresInv' /\ EditKept
  <2>1. /\ j \in DOMAIN mem[s] /\ mem' = [mem EXCEPT ![s] = store] /\ Fails /\ disk' = disk
    BY <1>6 DEF ManualFinishFails, Finished, ManualResult
  <2>2. mem'[current] = store
    BY <1>2, <2>1, IInvFacts, SavesFacts
  <2>3. /\ past'.gone = past.gone /\ past'.unguarded = past.unguarded /\ past'.unsaved = past.unsaved
        /\ past'.faults # 0
    BY <2>1, IInvFacts, FailsFields
  <2>4. /\ Excluded' /\ SoundNext(store)
        /\ DOMAIN store \subseteq DOMAIN disk /\ DOMAIN disk \ DOMAIN store \subseteq OneShot
        /\ \A k \in DOMAIN store \ past.unsaved : store[k].enabled => disk[k].enabled
    BY <1>1, <1>2, <2>1, <2>3, MergedKept
  <2>5. SoundNext(disk)
    <3>1. \A k \in Jobs : Owners(k)' = Owners(k) \ {x}
      BY <1>1, IInvFacts, OverMoves, HandLeaves
    <3>. HIDE DEF x
    <3>. QED BY <1>3, <2>3, <3>1, KeptSound, KeptUpSame
  <2>. HIDE DEF store
  <2>6. StoresInv'
    BY <1>1, <2>1, <2>2, <2>3, <2>4, <2>5, UnsavedInv
  <2>. QED BY <2>1, <2>6, FileStays, IInvFacts
<1>. QED BY <1>4, <1>5, <1>6

--------------------------------------------------------------------------------
(* What callers, the clock, reloads and crashes do to the stores.           *)

LEMMA EditsFacts ==
  ASSUME IInv, past.zombies = 0, NEW j \in Jobs, NEW store, NEW unguarded \in SUBSET Jobs,
         NEW gone \in SUBSET Jobs, Edits(j, store, unguarded, gone)
  PROVE  /\ Excluded /\ Sound(disk) /\ Sound(mem[current]) /\ MemoryFitsFile
         /\ disk \in Stores /\ mem[current] \in Stores /\ DOMAIN mem[current] \subseteq Jobs
         /\ \A k \in Jobs : Owners(k)' = Owners(k) /\ (Owned(k)' <=> Owned(k))
         /\ past'.unguarded = past.unguarded \cup unguarded /\ past.unsaved \subseteq past'.unsaved
         /\ past'.faults = 0 => past.faults = 0
         /\ past'.gone = past.gone \cup gone \/ (past'.gone = past.gone /\ j \in past'.unsaved)
<1>1. Loaded(current)
  BY DEF Edits
<1>2. /\ UNCHANGED <<batch, manual>> /\ past'.unguarded = past.unguarded \cup unguarded
      /\ \/ past'.gone = past.gone \cup gone /\ past'.faults = past.faults /\ past'.unsaved = past.unsaved
         \/ past'.gone = past.gone /\ past'.faults > 0 /\ past'.unsaved = past.unsaved \cup {j}
  BY IInvFacts, EditsCases
<1>3. /\ Excluded /\ Sound(disk) /\ Sound(mem[current]) /\ MemoryFitsFile
      /\ disk \in Stores /\ mem[current] \in Stores /\ DOMAIN mem[current] \subseteq Jobs
  BY <1>1, IInvFacts, StoresBefore, StoreFacts
<1>4. \A k \in Jobs : Owners(k)' = Owners(k)
  BY <1>2, OwnersStay
<1>5. ASSUME NEW k \in Jobs  PROVE Owned(k)' <=> Owned(k)
  BY <1>4 DEF Owned
<1>6. past.unsaved \subseteq past'.unsaved /\ (past'.faults = 0 => past.faults = 0)
  BY <1>2
<1>7. past'.gone = past.gone \cup gone \/ (past'.gone = past.gone /\ j \in past'.unsaved)
  BY <1>2
<1>. QED BY <1>2, <1>3, <1>4, <1>5, <1>6, <1>7

LEMMA EditsTake ==
  ASSUME IInv, past.zombies = 0, NEW j \in Jobs, NEW store, NEW unguarded \in SUBSET Jobs,
         NEW gone \in SUBSET Jobs, Edits(j, store, unguarded, gone), past'.gone # past.gone \cup gone
  PROVE  past'.gone = past.gone /\ j \in past'.unsaved
<1>1. \/ past'.gone = past.gone \cup gone
      \/ past'.gone = past.gone /\ past'.unsaved = past.unsaved \cup {j}
  BY IInvFacts, EditsCases
<1>. QED BY <1>1

\* An edit of one job, saved or not.
LEMMA EditedInv ==
  ASSUME IInv, past.zombies = 0, NEW j \in Jobs, NEW store, NEW unguarded \in SUBSET Jobs,
         NEW gone \in SUBSET Jobs, Edits(j, store, unguarded, gone), SoundNext(store),
         DOMAIN store \ {j} = DOMAIN mem[current] \ {j},
         \A k \in DOMAIN store \ {j} : store[k].enabled = mem[current][k].enabled
  PROVE  StoresInv' /\ EditKept
<1>1. /\ Excluded /\ Sound(disk) /\ MemoryFitsFile /\ disk \in Stores
      /\ \A k \in Jobs : Owners(k)' = Owners(k) /\ (Owned(k)' <=> Owned(k))
      /\ past'.unguarded = past.unguarded \cup unguarded
  BY EditsFacts
<1>2. Excluded'
  BY <1>1, FewerExcluded
<1>3. mem' = [mem EXCEPT ![current] = store] /\ UNCHANGED <<now, current>> /\ past'.edits = past.edits + 1
  BY IInvFacts, EditsCases
<1>4. mem'[current] = store /\ past'.edits # past.edits
  BY <1>3, IInvFacts, SavesFacts, TypeFacts, Constants DEF Pasts
<1>5. ASSUME disk' = store, past'.gone = past.gone \cup gone  PROVE StoresInv' /\ EditKept
  <2>1. StoresInv'
    BY <1>2, <1>3, <1>4, <1>5, SavedInv
  <2>. QED BY <1>4, <1>5, <2>1 DEF EditKept, SoundNext
<1>6. ASSUME disk' = disk, past'.gone = past.gone, past'.faults > 0, past'.unsaved = past.unsaved \cup {j}
      PROVE  StoresInv' /\ EditKept
  <2>1. SoundNext(disk)
    BY <1>1, <1>6, KeptSound, KeptUpSame
  <2>2. /\ DOMAIN store \subseteq DOMAIN disk \cup past'.unsaved
        /\ DOMAIN disk \subseteq DOMAIN store \cup OneShot \cup past'.unsaved
        /\ \A k \in (DOMAIN store \cap DOMAIN disk) \ past'.unsaved : store[k].enabled => disk[k].enabled
    BY <1>1, <1>6 DEF MemoryFitsFile
  <2>3. StoresInv'
    BY <1>2, <1>3, <1>4, <1>6, <2>1, <2>2, UnsavedInv
  <2>. QED BY <1>6, <2>3, FileStays, IInvFacts
<1>. QED BY <1>5, <1>6, IInvFacts, EditsCases

LEMMA AddStores ==
  ASSUME IInv, past.zombies = 0, NEW j \in Jobs, Add(j)
  PROVE  StoresInv' /\ EditKept
<1>. DEFINE added == AddedStore(j)
            store == Recomputed(added)
<1>0. /\ j \notin OneShot /\ j \notin past.gone \cup past.unsaved
      /\ j \notin DOMAIN disk \cup DOMAIN mem[current]
  BY DEF Add
<1>1. {} \in SUBSET Jobs /\ Edits(j, store, {}, {})
  BY IInvFacts, EditedStores
<1>2. /\ Sound(disk) /\ Sound(mem[current]) /\ DOMAIN mem[current] \subseteq Jobs
      /\ \A k \in Jobs : Owners(k)' = Owners(k) /\ (Owned(k)' <=> Owned(k))
      /\ past'.gone = past.gone /\ past'.unguarded = past.unguarded /\ past.unsaved \subseteq past'.unsaved
      /\ past'.faults = 0 => past.faults = 0
  BY <1>1, EditsFacts
<1>4. ~Owned(j)
  BY <1>0, <1>2 DEF Sound
<1>5. /\ added \in Stores /\ DOMAIN added = DOMAIN mem[current] \cup {j} /\ added[j].running = 0
      /\ \A k \in DOMAIN mem[current] \ {j} : added[k] = mem[current][k]
  BY IInvFacts, AddedFacts
<1>6. AllKeptUp(store, added)
  BY <1>5, IInvFacts, StoredTypes, RecomputedStore
<1>. HIDE DEF store, added
<1>7. Sound(added)
  <2>1. \A k \in DOMAIN added \ past.unguarded : Owned(k) => Held(added[k])
    BY <1>2, <1>4, <1>5 DEF Sound
  <2>2. ASSUME past.faults = 0, NEW k \in DOMAIN added, added[k].running > 0  PROVE Owned(k)
    <3>1. k # j
      BY <1>5, <2>2
    <3>. QED BY <1>2, <1>5, <2>2, <3>1 DEF Sound
  <2>. QED BY <1>0, <1>2, <1>5, <2>1, <2>2 DEF Sound
<1>8. SoundNext(store)
  BY <1>2, <1>5, <1>6, <1>7, KeptSound, StoreFacts
<1>9. /\ DOMAIN store \ {j} = DOMAIN mem[current] \ {j}
      /\ \A k \in DOMAIN store \ {j} : store[k].enabled = mem[current][k].enabled
  BY <1>5, <1>6 DEF AllKeptUp, KeptUp
<1>. QED BY <1>1, <1>8, <1>9, EditedInv

LEMMA UpdateStores ==
  ASSUME IInv, past.zombies = 0, NEW j \in Jobs, NEW enabled \in BOOLEAN, Update(j, enabled)
  PROVE  StoresInv' /\ EditKept
<1>. DEFINE r == UpdatedRecord(j, enabled)
            store == UpdatedStore(j, enabled)
            unguarded == Unguards(j, enabled)
<1>1. /\ unguarded \in SUBSET Jobs /\ {} \in SUBSET Jobs
      /\ unguarded = IF ~enabled /\ Owned(j) THEN {j} ELSE {}
  BY DEF Unguards, Owned
<1>2. j \in DOMAIN mem[current] /\ Edits(j, store, unguarded, {})
  BY IInvFacts, EditedStores
<1>3. /\ Sound(mem[current]) /\ mem[current] \in Stores /\ DOMAIN mem[current] \subseteq Jobs
      /\ \A k \in Jobs : Owned(k)' <=> Owned(k)
      /\ past'.gone = past.gone /\ past'.unguarded = past.unguarded \cup unguarded
      /\ past.unsaved \subseteq past'.unsaved /\ (past'.faults = 0 => past.faults = 0)
  <2>. HIDE DEF store, unguarded
  <2>1. \A k \in Jobs : Owned(k)' <=> Owned(k)
    BY <1>1, <1>2, EditsFacts
  <2>2. past'.gone = past.gone \cup {} \/ past'.gone = past.gone
    <3>. SUFFICES ASSUME past'.gone # past.gone \cup {}
                  PROVE  past'.gone = past.gone
      OBVIOUS
    <3>. QED BY <1>1, <1>2, EditsTake
  <2>3. /\ Sound(mem[current]) /\ mem[current] \in Stores /\ DOMAIN mem[current] \subseteq Jobs
        /\ past'.unguarded = past.unguarded \cup unguarded /\ past.unsaved \subseteq past'.unsaved
        /\ past'.faults = 0 => past.faults = 0
    BY <1>1, <1>2, EditsFacts
  <2>. QED BY <2>1, <2>2, <2>3
<1>4. /\ r \in Record /\ r.enabled = enabled
      /\ enabled => r.running = mem[current][j].running
      /\ ~enabled => r.running = 0
  BY <1>2, IInvFacts, UpdatedFacts
<1>5. /\ DOMAIN store = DOMAIN mem[current] /\ store[j] = r
      /\ \A k \in DOMAIN mem[current] \ {j} : store[k] = mem[current][k]
  BY <1>2, <1>3, <1>4, ReplacedStore DEF UpdatedStore
<1>. HIDE DEF store, r, unguarded
<1>6. SoundNext(store)
  <2>1. ASSUME NEW k \in DOMAIN store \ past'.unguarded, Owned(k)'  PROVE Held(store[k])
    <3>0. k \notin past.unguarded /\ Owned(k) /\ k \in DOMAIN mem[current] /\ Held(mem[current][k])
      BY <1>3, <1>5, <2>1 DEF Sound
    <3>1. CASE k = j
      <4>1. enabled = TRUE
        BY <1>1, <1>3, <2>1, <3>0, <3>1
      <4>. QED BY <1>4, <1>5, <3>0, <3>1, <4>1 DEF Held
    <3>2. CASE k # j
      BY <1>5, <3>0, <3>2
    <3>. QED BY <3>1, <3>2
  <2>2. ASSUME past'.faults = 0, NEW k \in DOMAIN store, store[k].running > 0  PROVE Owned(k)'
    <3>1. mem[current][k].running > 0
      BY <1>4, <1>5, <2>2
    <3>. QED BY <1>3, <1>5, <2>2, <3>1 DEF Sound
  <2>. QED BY <1>3, <1>5, <2>1, <2>2 DEF Sound, SoundNext
<1>7. DOMAIN store \ {j} = DOMAIN mem[current] \ {j}
      /\ \A k \in DOMAIN store \ {j} : store[k].enabled = mem[current][k].enabled
  BY <1>5
<1>. QED BY <1>1, <1>2, <1>6, <1>7, EditedInv

LEMMA RemoveStores ==
  ASSUME IInv, past.zombies = 0, NEW j \in Jobs, Remove(j)
  PROVE  StoresInv' /\ EditKept
<1>. DEFINE store == Without(mem[current], j)
            taken == {j}
            none == {}
<1>1. none \in SUBSET Jobs /\ taken \in SUBSET Jobs /\ Edits(j, store, none, taken)
  BY IInvFacts, EditedStores
<1>2. /\ Sound(mem[current]) /\ mem[current] \in Stores /\ DOMAIN mem[current] \subseteq Jobs
      /\ \A k \in Jobs : Owned(k)' <=> Owned(k)
      /\ past'.unguarded = past.unguarded /\ past.unsaved \subseteq past'.unsaved
      /\ past'.faults = 0 => past.faults = 0
      /\ past'.gone = past.gone \cup taken \/ (past'.gone = past.gone /\ j \in past'.unsaved)
  <2>. HIDE DEF store, taken, none
  <2>1. \A k \in Jobs : Owned(k)' <=> Owned(k)
    BY <1>1, EditsFacts
  <2>2. past'.unguarded = past.unguarded \cup none /\ past.unsaved \subseteq past'.unsaved
    BY <1>1, EditsFacts
  <2>3. past'.gone = past.gone \cup taken \/ (past'.gone = past.gone /\ j \in past'.unsaved)
    <3>. SUFFICES ASSUME past'.gone # past.gone \cup taken
                  PROVE  past'.gone = past.gone /\ j \in past'.unsaved
      OBVIOUS
    <3>. QED BY <1>1, EditsTake
  <2>4. past'.unguarded = past.unguarded
    BY <2>2 DEF none
  <2>5. /\ Sound(mem[current]) /\ mem[current] \in Stores /\ DOMAIN mem[current] \subseteq Jobs
        /\ past'.faults = 0 => past.faults = 0
    BY <1>1, EditsFacts
  <2>. QED BY <2>1, <2>2, <2>3, <2>4, <2>5
<1>3. /\ DOMAIN store = DOMAIN mem[current] \ {j}
      /\ \A k \in DOMAIN mem[current] \ {j} : store[k] = mem[current][k]
  BY <1>2, WithoutStore
<1>. HIDE DEF store
<1>4. SoundNext(store)
  BY <1>2, <1>3 DEF Sound, SoundNext
<1>5. DOMAIN store \ {j} = DOMAIN mem[current] \ {j}
      /\ \A k \in DOMAIN store \ {j} : store[k].enabled = mem[current][k].enabled
  BY <1>3
<1>. HIDE DEF taken
<1>. QED BY <1>1, <1>4, <1>5, EditedInv

\* A job whose marker becomes too old at this instant is no longer guarded by it.
LEMMA ClockStores ==
  ASSUME IInv, past.zombies = 0, ClockTicks
  PROVE  StoresInv' /\ EditKept
<1>1. /\ now' = now + 1 /\ UNCHANGED <<disk, mem, svc, batch, manual, current>>
      /\ past' = [past EXCEPT !.unguarded = @ \cup
           {j \in Jobs : /\ Owners(j) # {}
                         /\ \E store \in {disk} \cup {mem[s] : s \in Services} :
                              j \in DOMAIN store /\ store[j].running \in 1..(now - Stuck)}]
  BY DEF ClockTicks
<1>2. /\ past'.gone = past.gone /\ past'.faults = past.faults /\ past'.zombies = past.zombies
      /\ past'.unsaved = past.unsaved
      /\ past'.unguarded = past.unguarded \cup
           {j \in Jobs : /\ Owners(j) # {}
                         /\ \E store \in {disk} \cup {mem[s] : s \in Services} :
                              j \in DOMAIN store /\ store[j].running \in 1..(now - Stuck)}
  BY <1>1, IInvFacts, TypeFacts DEF Pasts
<1>3. \A j : Owners(j)' = Owners(j) /\ (Owned(j)' <=> Owned(j))
  BY <1>1, OwnersStay DEF Owned
<1>4. EditKept
  BY <1>1, FileStays, IInvFacts
<1>5. CASE ~Loaded(current)
  <2>1. ~Loaded(current)'
    BY <1>1, <1>5 DEF Loaded
  <2>2. DOMAIN disk' \cap past'.gone = {}
    BY <1>1, <1>2, IInvFacts DEF StoresInv
  <2>. QED BY <1>4, <2>1, <2>2 DEF StoresInv
<1>6. CASE Loaded(current)
  <2>1. /\ Excluded /\ Sound(disk) /\ Sound(mem[current]) /\ MemoryFitsFile
        /\ disk \in Stores /\ mem[current] \in Stores /\ now \in 1..MaxTime
    BY <1>6, IInvFacts, StoresBefore
  <2>2. /\ current \in Services /\ now \in Int /\ Stuck \in Int
        /\ now' = now + 1 /\ disk' = disk /\ mem' = mem /\ current' = current
    BY <1>1, <2>1, IInvFacts, TypeFacts, Constants
  <2>3. ASSUME NEW store \in {disk, mem[current]}, NEW j \in DOMAIN store \ past'.unguarded, Owned(j)
        PROVE  /\ store[j].running \in Int
               /\ store[j].enabled /\ store[j].running > 0 /\ now + 1 - store[j].running <= Stuck
    <3>1. j \in Jobs /\ store[j] \in Record /\ store[j].running \in Int
      <4>1. j \in Jobs /\ store[j] \in Record
        BY <2>1, RecordOfStore
      <4>. QED BY <4>1, Constants DEF Record, Time
    <3>2. Held(store[j])
      BY <1>2, <2>1, <2>3 DEF Sound
    <3>3. store[j].running \notin 1..(now - Stuck)
      BY <1>2, <2>2, <2>3, <3>1 DEF Owned
    <3>. QED BY <2>2, <3>1, <3>2, <3>3 DEF Held
  <2>4. Sound(disk)' /\ Sound(mem[current])'
    <3>1. ASSUME NEW j \in DOMAIN disk \ past'.unguarded, Owned(j)  PROVE Held(disk[j])'
      <4>1. /\ disk[j].running \in Int
            /\ disk[j].enabled /\ disk[j].running > 0 /\ now + 1 - disk[j].running <= Stuck
        BY <2>3, <3>1
      <4>2. disk'[j].enabled /\ disk'[j].running > 0 /\ now' - disk'[j].running <= Stuck
        BY <2>2, <4>1
      <4>. QED BY <4>2 DEF Held
    <3>2. ASSUME NEW j \in DOMAIN mem[current] \ past'.unguarded, Owned(j)  PROVE Held(mem[current][j])'
      <4>1. /\ mem[current][j].running \in Int
            /\ mem[current][j].enabled /\ mem[current][j].running > 0
            /\ now + 1 - mem[current][j].running <= Stuck
        BY <2>3, <3>2
      <4>2. /\ mem'[current'][j].enabled /\ mem'[current'][j].running > 0
            /\ now' - mem'[current'][j].running <= Stuck
        BY <2>2, <4>1
      <4>. QED BY <4>2 DEF Held
    <3>3. Sound(disk)'
      BY <1>1, <1>2, <1>3, <2>1, <3>1 DEF Sound
    <3>4. Sound(mem[current])'
      BY <1>1, <1>2, <1>3, <2>1, <3>2 DEF Sound
    <3>. QED BY <3>3, <3>4
  <2>5. Excluded'
    BY <1>2, <1>3, <2>1, FewerExcluded
  <2>6. MemoryFitsFile'
    BY <1>1, <1>2, <2>1 DEF MemoryFitsFile
  <2>. QED BY <1>4, <2>4, <2>5, <2>6 DEF StoresInv, Sound
<1>. QED BY <1>5, <1>6

LEMMA ReloadStores ==
  ASSUME IInv, past.zombies = 0, Reload
  PROVE  StoresInv' /\ EditKept
<1>1. current \in Services /\ current + 1 \in Services /\ current' = current + 1 /\ disk' = disk
  BY IInvFacts, TypeFacts, Constants DEF Reload, Services
<1>2. ~Loaded(current)'
  <2>1. svc'[current + 1] = NewService
    BY <1>1, IInvFacts, TypeFacts DEF Reload
  <2>. QED BY <1>1, <2>1 DEF Loaded, NewService
<1>3. past' = past \/ past'.zombies # 0
  BY IInvFacts, TypeFacts DEF Reload, Pasts
<1>4. StoresInv'
  BY <1>1, <1>2, <1>3, IInvFacts DEF StoresInv
<1>. QED BY <1>1, <1>4, FileStays, IInvFacts

LEMMA CrashStores ==
  ASSUME IInv, Crash
  PROVE  StoresInv' /\ EditKept
<1>1. current \in Services /\ current + 1 \in Services /\ current' = current + 1 /\ disk' = disk
  BY IInvFacts, TypeFacts, Constants DEF Crash, Services
<1>2. ~Loaded(current)'
  BY <1>1 DEF Crash, Loaded, NewService
<1>3. past'.gone = past.gone \ DOMAIN disk
  BY IInvFacts, TypeFacts DEF Crash, Pasts
<1>4. StoresInv'
  BY <1>1, <1>2, <1>3 DEF StoresInv
<1>. QED BY <1>1, <1>4, FileStays, IInvFacts

--------------------------------------------------------------------------------
(* Every step.                                                              *)

\* Only a crash ends a service that was replaced while it was busy.
LEMMA ZombiesStay ==
  ASSUME TypeOK, Next, ~Crash, past'.zombies = 0
  PROVE  past.zombies = 0
<1>1. past.zombies \in Nat
  BY TypeFacts, Constants DEF Pasts
<1>2. ASSUME NEW J, past' = Gone(J)  PROVE past.zombies = 0
  BY <1>2, GoneFields
<1>3. ASSUME Fails  PROVE past.zombies = 0
  BY <1>3, FailsFields
<1>4. ASSUME NEW s \in Services, ServiceStep(s)  PROVE past.zombies = 0
  BY <1>2, <1>3, <1>4 DEF ServiceStep, StartLoads, StartPlans, StartApplies, StartArms, StartFails,
     TickSkips, TickStarts, TickCollects, TickApplies, TickEnds, TickCollectFails, TickApplyFails
<1>5. ASSUME NEW m \in Manuals, ManualStep(m)  PROVE past.zombies = 0
  <2>1. CASE Reserve(m)
    <3>1. past' = past \/ past' = [past EXCEPT !.unguarded = @ \cup {manual[m].job}]
      BY <2>1 DEF Reserve
    <3>. QED BY <3>1, TypeFacts DEF Pasts
  <2>2. CASE ~Reserve(m)
    BY <1>2, <1>3, <1>5, <2>2 DEF ManualStep, Inspect, ReserveFails, ManualFinishes, ManualFinishFails,
       ManualEnds, ManualTimesOut, ManualReturns
  <2>. QED BY <2>1, <2>2
<1>6. ASSUME NEW p \in Parts, NEW j \in Jobs, RunStep(p, j)  PROVE past.zombies = 0
  BY <1>6, RunCases DEF RunStarts, Returns
<1>7. ASSUME Caller  PROVE past.zombies = 0
  <2>0. ASSUME NEW j \in Jobs, NEW store, NEW unguarded \in SUBSET Jobs, NEW gone \in SUBSET Jobs,
               Edits(j, store, unguarded, gone)
        PROVE  past.zombies = 0
    BY <2>0, EditsCases
  <2>1. ASSUME NEW j \in Jobs, Add(j) \/ Remove(j)  PROVE past.zombies = 0
    <3>1. {} \in SUBSET Jobs /\ {j} \in SUBSET Jobs
      OBVIOUS
    <3>. QED BY <2>0, <2>1, <3>1, EditedStores
  <2>2. ASSUME NEW j \in Jobs, NEW enabled \in BOOLEAN, Update(j, enabled)  PROVE past.zombies = 0
    <3>1. Unguards(j, enabled) \in SUBSET Jobs /\ {} \in SUBSET Jobs
      BY DEF Unguards
    <3>. QED BY <2>0, <2>2, <3>1, EditedStores
  <2>3. ASSUME Read \/ ReadFails  PROVE past.zombies = 0
    BY <1>3, <2>3 DEF Read, ReadFails
  <2>. QED BY <1>7, <2>1, <2>2, <2>3 DEF Caller
<1>8. ASSUME ClockTicks  PROVE past.zombies = 0
  BY <1>8, TypeFacts DEF ClockTicks, Pasts
<1>9. ASSUME Reload  PROVE past.zombies = 0
  BY <1>1, <1>9, TypeFacts DEF Reload, Pasts
<1>10. ASSUME NEW j \in Jobs, LeftEnds(j)  PROVE past.zombies = 0
  BY <1>10 DEF LeftEnds
<1>. QED BY <1>4, <1>5, <1>6, <1>7, <1>8, <1>9, <1>10 DEF Next

LEMMA InitStores == Init => StoresInv
BY Constants DEF Init, StoresInv, Loaded, NewService

LEMMA StutterStores ==
  ASSUME IInv, UNCHANGED vars
  PROVE  StoresInv' /\ EditKept
<1>1. UNCHANGED <<now, disk, mem, svc, batch, manual, current, past>>
  BY DEF vars
<1>2. StoresInv'
  <2>1. CASE past.zombies = 0
    BY <1>1, <2>1, StoresStay, OwnersStay DEF Loaded
  <2>2. CASE past.zombies # 0
    BY <1>1, <2>2 DEF StoresInv
  <2>. QED BY <2>1, <2>2
<1>. QED BY <1>1, <1>2, FileStays, IInvFacts

LEMMA NextStores ==
  ASSUME IInv, [Next]_vars
  PROVE  StoresInv' /\ EditKept
<1>1. CASE UNCHANGED vars
  BY <1>1, StutterStores
<1>2. CASE Crash
  BY <1>2, CrashStores
<1>3. CASE Next /\ past.zombies = 0
  <2>1. ASSUME NEW s \in Services, ServiceStep(s)  PROVE StoresInv' /\ EditKept
    BY <1>3, <2>1, StartLoadsStores, StartPlansStores, StartAppliesStores, StartArmsStores,
       StartFailsStores, TickMovesStores, TickCollectsStores, TickAppliesStores, TickCollectFailsStores,
       TickApplyFailsStores DEF ServiceStep
  <2>2. ASSUME NEW m \in Manuals, ManualStep(m)  PROVE StoresInv' /\ EditKept
    BY <1>3, <2>2, InspectStores, ReserveStores, ManualEndsStores, ManualFinishesStores
       DEF ManualStep, ManualEnds, ManualTimesOut
  <2>3. ASSUME NEW p \in Parts, NEW j \in Jobs, RunStep(p, j)  PROVE StoresInv' /\ EditKept
    BY <1>3, <2>3, RunStores
  <2>4. ASSUME Caller  PROVE StoresInv' /\ EditKept
    BY <1>3, <2>4, AddStores, UpdateStores, RemoveStores, ReadStores, ReadFailsStores DEF Caller
  <2>5. ASSUME NEW j \in Jobs, LeftEnds(j)  PROVE StoresInv' /\ EditKept
    <3>1. UNCHANGED <<now, disk, mem, svc, batch, manual, current, past>>
      BY <2>5 DEF LeftEnds
    <3>. QED BY <1>3, <3>1, StoresStay, OwnersStay DEF Loaded
  <2>. QED BY <1>2, <1>3, <2>1, <2>2, <2>3, <2>4, <2>5, ClockStores, ReloadStores DEF Next
<1>4. CASE Next /\ ~Crash /\ past.zombies # 0
  BY <1>4, IInvFacts, ZombiesStay DEF StoresInv, EditKept
<1>. QED BY <1>1, <1>2, <1>3, <1>4

LEMMA Inductive == Spec => []IInv
<1>1. Init => IInv
  BY InitTypes, InitServices, InitStores DEF IInv
<1>2. IInv /\ [Next]_vars => IInv'
  BY IInvFacts, NextTypes, NextServices, NextStores DEF IInv
<1>. QED BY <1>1, <1>2, PTL DEF Spec

--------------------------------------------------------------------------------
(* Results.                                                                 *)

\* The memory of every service and the file hold well-formed jobs: each section of the service
\* (ops.ts, timer.ts) leaves times within the clock's range and no record without its fields.
THEOREM TypeCorrect == Spec => []TypeOK
BY Inductive, IInvFacts, PTL

\* At most one run stands behind a marker, unless it is no longer guarded by it.
LEMMA OneOwner ==
  ASSUME IInv, past.zombies = 0, NEW j \in Jobs \ past.unguarded
  PROVE  \A x, y \in Owners(j) : x = y
<1>1. CASE Loaded(current)
  BY <1>1, IInvFacts DEF StoresInv, Excluded
<1>2. CASE ~Loaded(current)
  BY <1>2, IInvFacts, IdleOwnNothing DEF Owned
<1>. QED BY <1>1, <1>2

\* Two runs of a job are never under way at once, for any jobs, slots and numbers of services,
\* whatever ticks, runs by hand, edits, reloads, failed writes, time-outs and crashes do in between,
\* but for a job whose marker was cleared, a service that was replaced while it was busy, and runs
\* that go on after their time-out, beside which the scheduler begins one more at most: the
\* reservation in the locked section of each starter (collectRunnableJobs, prepareManualRun)
\* excludes the others.
THEOREM OneRun == Spec => []OneRunAtATime
<1>1. ASSUME IInv  PROVE OneRunAtATime
  <2>1. ASSUME NEW j \in Jobs, past.zombies = 0, j \notin past.unguarded
        PROVE  Cardinality(Going(j)) \in {0, 1}
    <3>1. Going(j) \subseteq Owners(j)
      BY DEF Going, Owners
    <3>2. \A x, y \in Going(j) : x = y
      BY <1>1, <2>1, <3>1, OneOwner
    <3>3. CASE Going(j) = {}
      BY <3>3, FS_EmptySet
    <3>4. CASE Going(j) # {}
      <4>1. PICK x \in Going(j) : Going(j) = {x}
        BY <3>2, <3>4
      <4>2. Cardinality({x}) = 1
        BY FS_Singleton
      <4>. QED BY <4>1, <4>2
    <3>. QED BY <3>3, <3>4
  <2>2. past.zombies \in Nat /\ \A j \in Jobs : left[j] \in Nat
    BY <1>1, IInvFacts, TypeFacts, Constants DEF Pasts
  <2>3. past.zombies = 0 \/ past.zombies > 0
    BY <2>2
  <2>4. ASSUME NEW j \in Jobs, Cardinality(Going(j)) \in {0, 1}, Cardinality(Going(j)) + left[j] > 1
        PROVE  left[j] > 0 /\ Cardinality(Going(j)) <= 1
    BY <2>2, <2>4
  <2>. QED BY <2>1, <2>3, <2>4 DEF OneRunAtATime
<1>. QED BY <1>1, Inductive, PTL

\* A marker in the file is always one that a run will clear: as long as all writes have succeeded,
\* no order of ticks, runs by hand, edits and reloads leaves a marker behind whose run is over, which
\* would block the job until STUCK_RUN_MS is over.
THEOREM Markers == Spec => []MarkersHaveOwners
<1>1. ASSUME IInv  PROVE MarkersHaveOwners
  BY <1>1, IInvFacts DEF MarkersHaveOwners, StoresInv, Sound, Owned, Loaded
<1>. QED BY <1>1, Inductive, PTL

\* What a caller removed or disabled stays so: every section that writes the file starts from a store
\* that already has the edits (the fresh copy after a run, the memory that fits the file otherwise).
THEOREM Edited == Spec => EditsSurvive
<1>1. IInv /\ [Next]_vars => [EditKept]_vars
  BY NextStores
<1>2. EditsSurvive <=> [][EditKept]_vars
  BY DEF EditsSurvive, EditKept
<1>. QED BY <1>1, <1>2, Inductive, PTL DEF Spec
================================================================================
