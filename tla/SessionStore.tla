----------------------------- MODULE SessionStore -----------------------------
(***************************************************************************)
(* config/sessions/store.ts: the file of sessions, which processes change  *)
(* by reading it, changing what they read and writing it back.             *)
(*                                                                         *)
(* In a process the changes of a store stand in a queue, and the queue     *)
(* takes the write lock for each (withSessionStoreLock).  Three kinds of   *)
(* changes are made: "update" reads the store under the lock               *)
(* (updateSessionStore), "touch" is one whose mutator leaves it as it was, *)
(* and "save" writes a store that was read before the change was queued    *)
(* (saveSessionStore, as infra/heartbeat-runner.ts calls it).              *)
(*                                                                         *)
(* The content of a store is the set of the changes that it contains.      *)
(* Maintenance that drops entries on purpose is left out; the rotation of  *)
(* a large file is not.                                                    *)
(***************************************************************************)
EXTENDS SessionWriteLock, Sequences

CONSTANTS
  Kinds,          \* the kinds of changes that are made
  MaxRotations    \* bound: how often the file is found too large

VARIABLES
  file,        \* the store file: its content, or that it is missing
  serialized,  \* SESSION_STORE_SERIALIZED_CACHE of each process
  queue,       \* the pending tasks of LOCK_QUEUES in each process
  change,      \* of each claim: its kind, how far it is, the store it has in hand, its result
  past         \* history: rotations; contents that are known to be lost

storeVars == <<file, serialized, queue, change, past>>
vars == <<lockVars, storeVars>>

Contents == SUBSET Claims

ASSUME StoreAssumption ==
  Kinds \subseteq {"update", "touch", "save"} /\ MaxRotations \in Nat /\ \A store \in Contents : store /= None

NoChange == [kind |-> "update", at |-> "idle", store |-> {}, result |-> "none"]

StoreTypeOK ==
  /\ file \in Contents \cup {None}
  /\ serialized \in [Processes -> Contents \cup {None}]
  /\ queue \in [Processes -> Seq(Claims)]
  /\ change \in [Claims -> [kind : {"update", "touch", "save"},
                            at : {"idle", "mutating", "saving", "rotated", "saved"},
                            store : Contents, result : {"none", "ok", "failed"}]]
  /\ \A c \in Claims : change[c].at /= "idle" => claim[c].at = "working"
  /\ past \in [rotations : 0..MaxRotations, lost : Contents]

TypeOK == LockTypeOK /\ StoreTypeOK

Init ==
  /\ LockInit
  /\ file = None
  /\ serialized = [p \in Processes |-> None]
  /\ queue = [p \in Processes |-> <<>>]
  /\ change = [c \in Claims |-> NoChange]
  /\ past = [rotations |-> 0, lost |-> {}]

\* loadSessionStore: a file that is missing is an empty store.
Content == IF file = None THEN {} ELSE file

--------------------------------------------------------------------------------
(* The queue.                                                               *)

\* withSessionStoreLock.  A save has read the store on its way here.
Enqueue(c, p, kind) ==
  /\ claim[c].at = "none"
  /\ claim' = [claim EXCEPT ![c].at = "queued", ![c].process = p]
  /\ queue' = [queue EXCEPT ![p] = Append(@, c)]
  /\ change' = [change EXCEPT ![c].kind = kind,
                              ![c].store = IF kind = "save" THEN Content \cup {c} ELSE {}]
  /\ serialized' = IF kind = "save" THEN [serialized EXCEPT ![p] = file] ELSE serialized
  /\ UNCHANGED <<lockFile, life, held, forced, causes, faults, file, past>>

Reads(p) ==
  /\ serialized' = [serialized EXCEPT ![p] = file]
  /\ UNCHANGED <<lockVars, file, queue, change, past>>

\* drainSessionStoreLockQueue takes the next task when the one before has settled.
IsNext(c) ==
  LET p == claim[c].process
  IN /\ claim[c].at = "queued" /\ Head(queue[p]) = c
     /\ \A other \in Under(p) : claim[other].at = "queued"

Opens(c) ==
  /\ IsNext(c) \/ claim[c].at = "retrying"
  /\ OpenSucceeds(c) \/ OpenFails(c)
  /\ queue' = IF claim[c].at = "queued" THEN [queue EXCEPT ![claim[c].process] = Tail(@)] ELSE queue
  /\ UNCHANGED <<file, serialized, change, past>>

Waits(c) ==
  /\ Inspects(c) \/ Reclaims(c)
  /\ UNCHANGED storeVars

Fails(c) ==
  /\ TimesOut(c) \/ CreateFails(c)
  /\ change' = [change EXCEPT ![c].store = {}, ![c].result = "failed"]
  /\ UNCHANGED <<file, serialized, queue, past>>

--------------------------------------------------------------------------------
(* The change, under the lock.                                              *)

\* Mutant: the store that is cached is taken for the store.  Breaks ChangesKeptButForKnownCauses.
BeginsFromCache(c) ==
  LET cached == serialized[claim[c].process]
  IN /\ Acquires(c)
     /\ IF change[c].kind = "save"
        THEN change' = [change EXCEPT ![c].at = "saving"]
        ELSE change' = [change EXCEPT ![c].at = "mutating",
                                      ![c].store = IF cached = None THEN Content ELSE cached]
     /\ UNCHANGED <<file, serialized, queue, past>>

\* updateSessionStore always reads the file again, saveSessionStore never does.
Begins(c) ==
  LET p == claim[c].process
  IN /\ Acquires(c)
     /\ IF change[c].kind = "save"
        THEN /\ change' = [change EXCEPT ![c].at = "saving"]
             /\ UNCHANGED serialized
        ELSE /\ change' = [change EXCEPT ![c].at = "mutating", ![c].store = Content]
             /\ serialized' = [serialized EXCEPT ![p] = file]
     /\ UNCHANGED <<file, queue, past>>

Mutates(c) ==
  /\ claim[c].at = "working" /\ change[c].at = "mutating"
  /\ change' = [change EXCEPT ![c].at = "saving",
                              ![c].store = IF change[c].kind = "touch" THEN @ ELSE @ \cup {c}]
  /\ UNCHANGED <<lockVars, file, serialized, queue, past>>

MutatorThrows(c) ==
  /\ claim[c].at = "working" /\ change[c].at = "mutating"
  /\ Releases(c)
  /\ change' = [change EXCEPT ![c].at = "idle", ![c].store = {}, ![c].result = "failed"]
  /\ UNCHANGED <<file, serialized, queue, past>>

\* rotateSessionFile: a file that is too large is renamed; what it held is on disk only in a
\* backup until the store in hand is written.
Rotates(c) ==
  /\ claim[c].at = "working" /\ change[c].at = "saving"
  /\ file /= None
  /\ past.rotations < MaxRotations
  /\ file' = None
  /\ change' = [change EXCEPT ![c].at = "rotated"]
  /\ past' = [rotations |-> past.rotations + 1, lost |-> past.lost \cup file]
  /\ UNCHANGED <<lockVars, serialized, queue>>

\* saveSessionStoreUnlocked writes the store unless it is what this process has cached.
Unchanged(c) == serialized[claim[c].process] = change[c].store

\* writeTextAtomic replaces the file at once; then the process remembers what it has written.
Saves(c) ==
  LET p == claim[c].process
      store == change[c].store
      stale == IF change[c].kind = "save" THEN Content \ store ELSE {}
  IN /\ claim[c].at = "working" /\ change[c].at \in {"saving", "rotated"}
     /\ IF Unchanged(c) THEN UNCHANGED <<file, past>>
        ELSE /\ file' = store
             /\ past' = [past EXCEPT !.lost = (@ \cup stale) \ store]
     /\ serialized' = [serialized EXCEPT ![p] = store]
     /\ change' = [change EXCEPT ![c].at = "saved", ![c].store = {}]
     /\ UNCHANGED <<lockVars, queue>>

\* The lock is given back, and the caller is told.
Finishes(c) ==
  /\ claim[c].at = "working" /\ change[c].at = "saved"
  /\ Releases(c)
  /\ change' = [change EXCEPT ![c].at = "idle", ![c].result = "ok"]
  /\ UNCHANGED <<file, serialized, queue, past>>

\* Mutant: the file is written in place, and a write that fails leaves nothing of it.  Breaks
\* ImplementsStoreService.
SaveThrowsMidway(c) ==
  /\ claim[c].at = "working" /\ change[c].at \in {"saving", "rotated"}
  /\ ~Unchanged(c)
  /\ Releases(c)
  /\ file' = None
  /\ change' = [change EXCEPT ![c].at = "idle", ![c].store = {}, ![c].result = "failed"]
  /\ UNCHANGED <<serialized, queue, past>>

\* A temporary file is written first, so a write that fails leaves the store as it was.
SaveThrows(c) ==
  /\ claim[c].at = "working" /\ change[c].at \in {"saving", "rotated"}
  /\ ~Unchanged(c)
  /\ Releases(c)
  /\ change' = [change EXCEPT ![c].at = "idle", ![c].store = {}, ![c].result = "failed"]
  /\ UNCHANGED <<file, serialized, queue, past>>

\* The file or its directory is gone (ENOENT, twice), or on Windows every attempt fails: nothing is
\* written, and the save returns as if it had been.
SaveSkips(c) ==
  /\ claim[c].at = "working" /\ change[c].at \in {"saving", "rotated"}
  /\ ~Unchanged(c)
  /\ change' = [change EXCEPT ![c].at = "saved", ![c].store = {}]
  /\ past' = [past EXCEPT !.lost = @ \cup (change[c].store \ Content)]
  /\ UNCHANGED <<lockVars, file, serialized, queue>>

--------------------------------------------------------------------------------
(* What else happens to a process and its lock.                             *)

Unlocks(c) == (Unlinks(c) \/ WatchdogUnlinks(c)) /\ UNCHANGED storeVars

LosesLock(p) == (WatchdogReleases(p) \/ Signalled(p)) /\ UNCHANGED storeVars

Restarts(p, killed) ==
  /\ Ends(p, killed)
  /\ serialized' = [serialized EXCEPT ![p] = None]
  /\ queue' = [queue EXCEPT ![p] = <<>>]
  /\ change' = [c \in Claims |-> IF c \in Under(p) THEN [change[c] EXCEPT !.at = "idle", !.store = {}]
                                 ELSE change[c]]
  /\ UNCHANGED <<file, past>>

Ages == LockAges /\ UNCHANGED storeVars

ClaimStep(c) ==
  \/ Opens(c) \/ Waits(c) \/ Fails(c) \/ Begins(c) \/ Mutates(c) \/ MutatorThrows(c)
  \/ Rotates(c) \/ Saves(c) \/ SaveThrows(c) \/ SaveSkips(c) \/ Finishes(c) \/ Unlocks(c)

Next ==
  \/ \E c \in Claims : ClaimStep(c) \/ \E p \in Processes, kind \in Kinds : Enqueue(c, p, kind)
  \/ \E p \in Processes : Reads(p) \/ LosesLock(p) \/ \E killed \in BOOLEAN : Restarts(p, killed)
  \/ Ages

Spec == Init /\ [][Next]_vars

--------------------------------------------------------------------------------
(* Properties.                                                              *)

Reported == {c \in Claims : change[c].result = "ok" /\ change[c].kind /= "touch"}

\* store.ts:603 "re-read inside the lock to avoid clobbering concurrent writers": a change whose
\* caller was told that it is made stays in the file.  The exceptions: two changes worked at once
\* (OneHolderButForKnownCauses); a save wrote a store that was read before the change; the write
\* was skipped without an error; the file was rotated and not written again, because the write
\* failed, the process ended, or the store was the one this process had cached.
ChangesKeptButForKnownCauses ==
  causes = {} => Reported \subseteq Content \cup past.lost

\* The store as those see it who change it: no process, queue, lock or copy, and each change made
\* at one instant (StoreService), until the exclusion breaks.  What is known to be lost counts as
\* made: these are the exceptions that ChangesKeptButForKnownCauses names.
asked == [c \in Claims |-> IF claim[c].at = "none" THEN "nothing"
                           ELSE IF change[c].kind = "touch" THEN "touch" ELSE "change"]
made == Content \cup past.lost
answer == [c \in Claims |-> change[c].result]
broken == causes /= {}

Service == INSTANCE StoreService WITH Changes <- Claims

\* However processes, copies and faults interleave, the store gains one change at a time, as a whole,
\* of a caller who still waits; he is told so only then, and what was refused is not in the store.
ImplementsStoreService == Service!Spec
================================================================================
