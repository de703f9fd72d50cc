-------------------------- MODULE SessionStoreProofs --------------------------
(***************************************************************************)
(* Proofs about the session write lock and the session store, for any      *)
(* processes, changes and bounds.                                          *)
(*                                                                         *)
(* The argument: as long as no cause of two holders has come up, a claim   *)
(* that has created the lock file owns it until it has removed it, so the  *)
(* content that a change has read is still the content when it saves.      *)
(* With it each step is one of the service that StoreService states.       *)
(***************************************************************************)
EXTENDS SessionStore, FiniteSetTheorems, TLAPS

--------------------------------------------------------------------------------
(* The inductive invariant: the lock.                                       *)

\* The stages of a claim that has called fs.open, and of one that has created a file or never will.
UnderWay == {"retrying", "contended", "reclaiming", "creating", "working", "unlinking"}
Created == {"creating", "working", "unlinking", "over", "dead"}
Owning == {"creating", "working", "unlinking"}

LivesAreFaults == \A p \in Processes : life[p] <= faults

ClaimsHaveProcess == \A c \in Claims : claim[c].at /= "none" => claim[c].process \in Processes

FileOfCreator ==
  Exists => /\ claim[lockFile.by].at \in Created
            /\ claim[lockFile.by].process = lockFile.process
            /\ lockFile.life <= life[lockFile.process]

StaleFile == Stale(lockFile)

JudgedIsStale ==
  \A c \in Claims : claim[c].judged /= None =>
    /\ claim[claim[c].judged].at \in Created
    /\ Exists /\ lockFile.by = claim[c].judged => StaleFile

HeldByWorker ==
  \A p \in Processes : held[p] /= None => claim[held[p]].at = "working" /\ claim[held[p]].process = p

OneUnderWay ==
  \A c, d \in Claims : claim[c].at \in UnderWay /\ claim[d].at \in UnderWay
                         /\ claim[c].process = claim[d].process => c = d

OwnersOwn ==
  causes = {} => \A c \in Claims : claim[c].at \in Owning =>
                   Exists /\ lockFile.by = c /\ Alive(lockFile)

ForcedByWatchdog == causes = {} => forced = {}

LockInv ==
  /\ LivesAreFaults
  /\ ClaimsHaveProcess
  /\ FileOfCreator
  /\ JudgedIsStale
  /\ HeldByWorker
  /\ OneUnderWay
  /\ OwnersOwn
  /\ ForcedByWatchdog
  /\ LockFileHasOwner

--------------------------------------------------------------------------------
(* The inductive invariant: the store.                                      *)

QueuedStandInQueue ==
  \A c \in Claims : claim[c].at = "queued" =>
    \E i \in DOMAIN queue[claim[c].process] : queue[claim[c].process][i] = c

ResultsComeLast ==
  \A c \in Claims : change[c].result /= "none" => claim[c].at \in {"unlinking", "over", "dead"}

NewHaveNoProcess == \A c \in Claims : claim[c].at = "none" => claim[c].process = None

\* Not made, and not left half way: when a process dies, its change may have been written or not.
Unmade(c) ==
  \/ change[c].result = "failed"
  \/ change[c].result = "none" /\ claim[c].at /= "dead" /\ change[c].at /= "saved"

\* A change that is not made yet is in no store but the one its claim has in hand.
UnmadeIsNowhere ==
  \A c \in Claims : Unmade(c) =>
    /\ c \notin made
    /\ \A p \in Processes : serialized[p] /= None => c \notin serialized[p]
    /\ \A d \in Claims : c /= d => c \notin change[d].store

TouchesMakeNothing == \A c \in Claims : change[c].kind = "touch" => c \notin change[c].store

StoreInHand == causes = {} => \A c \in Claims : change[c].store \subseteq made \cup {c}

\* The changes that are made, whether or not their callers have been told.
Kept ==
  {c \in Claims : change[c].kind /= "touch" /\ (change[c].result = "ok" \/ change[c].at = "saved")}

MadeIsKept == causes = {} => Kept \subseteq made

MadeInv ==
  /\ UnmadeIsNowhere
  /\ TouchesMakeNothing
  /\ StoreInHand
  /\ MadeIsKept

CarriesItself ==
  \A c \in Claims :
    /\ claim[c].at \in {"queued", "retrying", "contended", "reclaiming", "creating"}
         /\ change[c].kind = "save" => c \in change[c].store
    /\ change[c].at \in {"saving", "rotated"} /\ change[c].kind /= "touch" => c \in change[c].store

ReadUnderLock ==
  causes = {} =>
    \A c \in Claims : change[c].at \in {"mutating", "saving", "rotated"} /\ change[c].kind /= "save" =>
      Content \subseteq change[c].store

StoreInv ==
  /\ QueuedStandInQueue
  /\ ResultsComeLast
  /\ NewHaveNoProcess
  /\ CarriesItself
  /\ ReadUnderLock
  /\ MadeInv

IInv == TypeOK /\ LockInv /\ StoreInv

--------------------------------------------------------------------------------
(* The steps of the lock keep its part of the invariant.                    *)

\* The claims outside a set stay where they are, and no cause is taken back.
OthersStay(moving) ==
  /\ causes' = {} => causes = {}
  /\ \A d \in Claims \ moving : claim'[d].at = claim[d].at /\ claim'[d].process = claim[d].process

ClaimRecords == [at : Stages, process : Processes \cup {None}, judged : Claims \cup {None}]

\* Moving a claim changes its stage and nothing else.
LEMMA Moved ==
  ASSUME LockTypeOK, NEW c \in Claims, NEW stage \in Stages, Moves(c, stage),
         claim[c].at /= "reclaiming"
  PROVE  /\ claim' \in [Claims -> ClaimRecords]
         /\ \A d \in Claims : /\ claim'[d].at = IF d = c THEN stage ELSE claim[d].at
                              /\ claim'[d].process = claim[d].process
                              /\ claim'[d].judged = claim[d].judged
         /\ \A d \in Claims : claim'[d].judged /= None => claim'[d].at = "reclaiming"
BY DEF LockTypeOK, Moves, ClaimRecords

\* The types of the parts of the lock.
LEMMA LockTypes ==
  ASSUME LockTypeOK
  PROVE  /\ Exists => /\ lockFile \in Files /\ lockFile.by \in Claims
                      /\ lockFile.process \in Processes /\ lockFile.life \in 0..MaxFaults
                      /\ lockFile.written \in BOOLEAN /\ lockFile.old \in BOOLEAN
         /\ ~Exists => lockFile = None
         /\ life \in [Processes -> 0..MaxFaults]
         /\ held \in [Processes -> Claims \cup {None}]
         /\ forced \subseteq Claims
         /\ claim \in [Claims -> ClaimRecords]
         /\ \A c \in Claims : /\ claim[c].at \in Stages
                              /\ claim[c].process \in Processes \cup {None}
                              /\ claim[c].judged \in Claims \cup {None}
                              /\ claim[c].judged /= None => claim[c].at = "reclaiming"
         /\ faults \in 0..MaxFaults
         /\ None \notin Processes /\ None \notin Claims /\ MaxFaults \in Nat
BY LockAssumption DEF LockTypeOK, Exists, Files, ClaimRecords

\* A claim that has created the file begins its work.
LEMMA AcquiresKeeps ==
  ASSUME LockTypeOK, LockInv, NEW c \in Claims, Acquires(c)
  PROVE  LockTypeOK' /\ LockInv' /\ OthersStay({c}) /\ claim'[c].at = "working"
<1>. DEFINE p == claim[c].process
<1>1. /\ claim[c].at = "creating" /\ p \in Processes
      /\ Moves(c, "working")
      /\ lockFile' = (IF Exists /\ lockFile.by = c THEN [lockFile EXCEPT !.written = TRUE]
                      ELSE lockFile)
      /\ held' = [held EXCEPT ![p] = c]
      /\ life' = life /\ forced' = forced /\ causes' = causes /\ faults' = faults
  BY DEF Acquires, LockInv, ClaimsHaveProcess
<1>2. /\ claim' \in [Claims -> ClaimRecords]
      /\ \A d \in Claims : /\ claim'[d].at = IF d = c THEN "working" ELSE claim[d].at
                           /\ claim'[d].process = claim[d].process
                           /\ claim'[d].judged = claim[d].judged
      /\ \A d \in Claims : claim'[d].judged /= None => claim'[d].at = "reclaiming"
  BY <1>1, Moved DEF Stages
<1>3. /\ Exists => lockFile' \in Files
      /\ Exists' <=> Exists
      /\ Exists => /\ lockFile'.by = lockFile.by /\ lockFile'.process = lockFile.process
                   /\ lockFile'.life = lockFile.life /\ lockFile'.old = lockFile.old
                   /\ lockFile.by /= c => lockFile' = lockFile
      /\ Exists /\ StaleFile => StaleFile'
      /\ Alive(lockFile)' <=> Alive(lockFile)
  BY <1>1, LockTypes, LockAssumption DEF Files, Exists, StaleFile, Stale, Alive
<1>4. LockTypeOK'
  BY <1>1, <1>2, <1>3, LockTypes DEF LockTypeOK, ClaimRecords, Exists
<1>5. LivesAreFaults' /\ ClaimsHaveProcess' /\ ForcedByWatchdog'
  BY <1>1, <1>2 DEF LockInv, LivesAreFaults, ClaimsHaveProcess, ForcedByWatchdog
<1>6. FileOfCreator'
  BY <1>1, <1>2, <1>3, LockTypes DEF LockInv, FileOfCreator, Created
<1>7. JudgedIsStale'
  BY <1>1, <1>2, <1>3, LockTypes DEF LockInv, JudgedIsStale, Created
<1>8. HeldByWorker'
  BY <1>1, <1>2, LockTypes DEF LockInv, HeldByWorker
<1>9. OneUnderWay'
  BY <1>1, <1>2, LockTypes DEF LockInv, OneUnderWay, UnderWay
<1>10. OwnersOwn'
  BY <1>1, <1>2, <1>3, LockTypes DEF LockInv, OwnersOwn, Owning
<1>11. LockFileHasOwner'
  BY <1>1, <1>2, <1>3, LockTypes DEF LockInv, LockFileHasOwner, OneUnderWay, UnderWay, HeldByWorker, FileOfCreator
<1>12. OthersStay({c}) /\ claim'[c].at = "working"
  BY <1>1, <1>2 DEF OthersStay
<1>. QED BY <1>4, <1>5, <1>6, <1>7, <1>8, <1>9, <1>10, <1>11, <1>12 DEF LockInv

\* A claim creates the lock file, which no one has by then.
LEMMA OpenSucceedsKeeps ==
  ASSUME LockTypeOK, LockInv, NEW c \in Claims, OpenSucceeds(c),
         claim[c].at \in {"queued", "retrying"},
         claim[c].at = "queued" => \A d \in Under(claim[c].process) : claim[d].at = "queued"
  PROVE  LockTypeOK' /\ LockInv' /\ OthersStay({c}) /\ claim'[c].at = "creating"
<1>. DEFINE p == claim[c].process
<1>1. /\ claim[c].at \in {"queued", "retrying"} /\ p \in Processes
      /\ \A d \in Claims : claim[d].at \in UnderWay /\ claim[d].process = p => d = c
      /\ Moves(c, "creating")
      /\ ~Exists
      /\ lockFile' = [by |-> c, process |-> p, life |-> life[p], written |-> FALSE, old |-> FALSE]
      /\ held' = held /\ life' = life /\ forced' = forced /\ causes' = causes /\ faults' = faults
  BY DEF OpenSucceeds, LockInv, ClaimsHaveProcess, OneUnderWay, UnderWay, Under
<1>2. /\ claim' \in [Claims -> ClaimRecords]
      /\ \A d \in Claims : /\ claim'[d].at = IF d = c THEN "creating" ELSE claim[d].at
                           /\ claim'[d].process = claim[d].process
                           /\ claim'[d].judged = claim[d].judged
      /\ \A d \in Claims : claim'[d].judged /= None => claim'[d].at = "reclaiming"
  BY <1>1, Moved DEF Stages
<1>3. /\ lockFile' \in Files /\ Exists'
      /\ lockFile'.by = c /\ lockFile'.process = p /\ lockFile'.life = life[p]
      /\ Alive(lockFile)'
  <2>1. life[p] \in 0..MaxFaults
    BY <1>1, LockTypes
  <2>2. lockFile' \in Files
    BY <1>1, <2>1 DEF Files
  <2>3. Alive(lockFile)'
    BY <1>1 DEF Alive
  <2>. QED BY <1>1, <2>2, <2>3, LockAssumption DEF Exists
<1>4. LockTypeOK'
  BY <1>1, <1>2, <1>3, LockTypes DEF LockTypeOK, ClaimRecords, Exists
<1>5. LivesAreFaults' /\ ClaimsHaveProcess' /\ ForcedByWatchdog'
  BY <1>1, <1>2, <1>3, LockTypes DEF LockInv, LivesAreFaults, ClaimsHaveProcess, ForcedByWatchdog
<1>6. FileOfCreator'
  BY <1>1, <1>2, <1>3, LockTypes DEF LockInv, FileOfCreator, Created
<1>7. JudgedIsStale'
  BY <1>1, <1>2, <1>3, LockTypes DEF LockInv, JudgedIsStale, Created, Exists
<1>8. HeldByWorker'
  BY <1>1, <1>2, <1>3, LockTypes DEF LockInv, HeldByWorker
<1>9. OneUnderWay'
  BY <1>1, <1>2, <1>3, LockTypes DEF LockInv, OneUnderWay, UnderWay
<1>10. OwnersOwn'
  BY <1>1, <1>2, <1>3, LockTypes DEF LockInv, OwnersOwn, Owning, Exists
<1>11. LockFileHasOwner'
  BY <1>1, <1>2, <1>3, LockTypes DEF LockInv, LockFileHasOwner, FileOfCreator
<1>12. OthersStay({c}) /\ claim'[c].at = "creating"
  BY <1>1, <1>2, <1>3, LockTypes DEF OthersStay
<1>. QED BY <1>4, <1>5, <1>6, <1>7, <1>8, <1>9, <1>10, <1>11, <1>12 DEF LockInv

\* A claim that finds a lock file looks at it.
LEMMA OpenFailsKeeps ==
  ASSUME LockTypeOK, LockInv, NEW c \in Claims, OpenFails(c),
         claim[c].at \in {"queued", "retrying"},
         claim[c].at = "queued" => \A d \in Under(claim[c].process) : claim[d].at = "queued"
  PROVE  LockTypeOK' /\ LockInv' /\ OthersStay({c}) /\ claim'[c].at = "contended"
<1>. DEFINE p == claim[c].process
<1>1. /\ claim[c].at \in {"queued", "retrying"} /\ p \in Processes
      /\ \A d \in Claims : claim[d].at \in UnderWay /\ claim[d].process = p => d = c
      /\ Moves(c, "contended")
      /\ lockFile' = lockFile /\ held' = held /\ life' = life /\ forced' = forced
      /\ causes' = causes /\ faults' = faults
  BY DEF OpenFails, LockInv, ClaimsHaveProcess, OneUnderWay, UnderWay, Under
<1>2. /\ claim' \in [Claims -> ClaimRecords]
      /\ \A d \in Claims : /\ claim'[d].at = IF d = c THEN "contended" ELSE claim[d].at
                           /\ claim'[d].process = claim[d].process
                           /\ claim'[d].judged = claim[d].judged
      /\ \A d \in Claims : claim'[d].judged /= None => claim'[d].at = "reclaiming"
  BY <1>1, Moved DEF Stages
<1>3. (Exists' <=> Exists) /\ (StaleFile' <=> StaleFile) /\ (Alive(lockFile)' <=> Alive(lockFile))
  BY <1>1 DEF Exists, StaleFile, Stale, Alive
<1>4. LockTypeOK'
  BY <1>1, <1>2, <1>3, LockTypes DEF LockTypeOK, ClaimRecords, Exists
<1>5. LivesAreFaults' /\ ClaimsHaveProcess' /\ ForcedByWatchdog'
  BY <1>1, <1>2, <1>3, LockTypes DEF LockInv, LivesAreFaults, ClaimsHaveProcess, ForcedByWatchdog
<1>6. FileOfCreator'
  BY <1>1, <1>2, <1>3, LockTypes DEF LockInv, FileOfCreator, Created
<1>7. JudgedIsStale'
  BY <1>1, <1>2, <1>3, LockTypes DEF LockInv, JudgedIsStale, Created
<1>8. HeldByWorker'
  BY <1>1, <1>2, <1>3, LockTypes DEF LockInv, HeldByWorker
<1>9. OneUnderWay'
  BY <1>1, <1>2, <1>3, LockTypes DEF LockInv, OneUnderWay, UnderWay
<1>10. OwnersOwn'
  BY <1>1, <1>2, <1>3, LockTypes DEF LockInv, OwnersOwn, Owning
<1>11. LockFileHasOwner'
  BY <1>1, <1>2, <1>3, LockTypes DEF LockInv, LockFileHasOwner, FileOfCreator
<1>12. OthersStay({c}) /\ claim'[c].at = "contended"
  BY <1>1, <1>2, <1>3, LockTypes DEF OthersStay
<1>. QED BY <1>4, <1>5, <1>6, <1>7, <1>8, <1>9, <1>10, <1>11, <1>12 DEF LockInv

\* A claim gives up.
LEMMA TimesOutKeeps ==
  ASSUME LockTypeOK, LockInv, NEW c \in Claims, TimesOut(c)
  PROVE  LockTypeOK' /\ LockInv' /\ OthersStay({c}) /\ claim'[c].at = "over"
<1>1. /\ claim[c].at = "retrying"
      /\ Moves(c, "over")
      /\ lockFile' = lockFile /\ held' = held /\ life' = life /\ forced' = forced
      /\ causes' = causes /\ faults' = faults
  BY DEF TimesOut
<1>2. /\ claim' \in [Claims -> ClaimRecords]
      /\ \A d \in Claims : /\ claim'[d].at = IF d = c THEN "over" ELSE claim[d].at
                           /\ claim'[d].process = claim[d].process
                           /\ claim'[d].judged = claim[d].judged
      /\ \A d \in Claims : claim'[d].judged /= None => claim'[d].at = "reclaiming"
  BY <1>1, Moved DEF Stages
<1>3. (Exists' <=> Exists) /\ (StaleFile' <=> StaleFile) /\ (Alive(lockFile)' <=> Alive(lockFile))
  BY <1>1 DEF Exists, StaleFile, Stale, Alive
<1>4. LockTypeOK'
  BY <1>1, <1>2, <1>3, LockTypes DEF LockTypeOK, ClaimRecords, Exists
<1>5. LivesAreFaults' /\ ClaimsHaveProcess' /\ ForcedByWatchdog'
  BY <1>1, <1>2, <1>3, LockTypes DEF LockInv, LivesAreFaults, ClaimsHaveProcess, ForcedByWatchdog
<1>6. FileOfCreator'
  BY <1>1, <1>2, <1>3, LockTypes DEF LockInv, FileOfCreator, Created
<1>7. JudgedIsStale'
  BY <1>1, <1>2, <1>3, LockTypes DEF LockInv, JudgedIsStale, Created
<1>8. HeldByWorker'
  BY <1>1, <1>2, <1>3, LockTypes DEF LockInv, HeldByWorker
<1>9. OneUnderWay'
  BY <1>1, <1>2, <1>3, LockTypes DEF LockInv, OneUnderWay, UnderWay
<1>10. OwnersOwn'
  BY <1>1, <1>2, <1>3, LockTypes DEF LockInv, OwnersOwn, Owning
<1>11. LockFileHasOwner'
  BY <1>1, <1>2, <1>3, LockTypes DEF LockInv, LockFileHasOwner, FileOfCreator
<1>12. OthersStay({c}) /\ claim'[c].at = "over"
  BY <1>1, <1>2, <1>3, LockTypes DEF OthersStay
<1>. QED BY <1>4, <1>5, <1>6, <1>7, <1>8, <1>9, <1>10, <1>11, <1>12 DEF LockInv

\* A claim that cannot write its payload removes the file, or the one that has replaced it.
LEMMA CreateFailsKeeps ==
  ASSUME LockTypeOK, LockInv, NEW c \in Claims, CreateFails(c)
  PROVE  LockTypeOK' /\ LockInv' /\ OthersStay({c}) /\ claim'[c].at = "over"
<1>1. /\ claim[c].at = "creating"
      /\ Moves(c, "over")
      /\ lockFile' = None /\ held' = held /\ life' = life /\ forced' = forced /\ faults' = faults
      /\ causes' = causes \cup (IF Exists /\ lockFile.by /= c THEN {"raced"} ELSE {})
  BY DEF CreateFails, Removes, Causing
<1>2. /\ claim' \in [Claims -> ClaimRecords]
      /\ \A d \in Claims : /\ claim'[d].at = IF d = c THEN "over" ELSE claim[d].at
                           /\ claim'[d].process = claim[d].process
                           /\ claim'[d].judged = claim[d].judged
      /\ \A d \in Claims : claim'[d].judged /= None => claim'[d].at = "reclaiming"
  BY <1>1, Moved DEF Stages
<1>3. ~Exists'
  BY <1>1 DEF Exists
<1>4. LockTypeOK'
  BY <1>1, <1>2, <1>3, LockTypes DEF LockTypeOK, ClaimRecords, Exists
<1>5. LivesAreFaults' /\ ClaimsHaveProcess' /\ ForcedByWatchdog'
  BY <1>1, <1>2, <1>3, LockTypes DEF LockInv, LivesAreFaults, ClaimsHaveProcess, ForcedByWatchdog
<1>6. FileOfCreator'
  BY <1>1, <1>2, <1>3, LockTypes DEF LockInv, FileOfCreator, Created
<1>7. JudgedIsStale'
  BY <1>1, <1>2, <1>3, LockTypes DEF LockInv, JudgedIsStale, Created
<1>8. HeldByWorker'
  BY <1>1, <1>2, <1>3, LockTypes DEF LockInv, HeldByWorker
<1>9. OneUnderWay'
  BY <1>1, <1>2, <1>3, LockTypes DEF LockInv, OneUnderWay, UnderWay
<1>10. OwnersOwn'
  BY <1>1, <1>2, <1>3, LockTypes DEF LockInv, OwnersOwn, Owning
<1>11. LockFileHasOwner'
  BY <1>1, <1>2, <1>3, LockTypes DEF LockInv, LockFileHasOwner, FileOfCreator
<1>12. OthersStay({c}) /\ claim'[c].at = "over"
  BY <1>1, <1>2, <1>3, LockTypes DEF OthersStay
<1>. QED BY <1>4, <1>5, <1>6, <1>7, <1>8, <1>9, <1>10, <1>11, <1>12 DEF LockInv

\* A claim that has released the lock removes the file, or the one that has replaced it.
LEMMA UnlinksKeeps ==
  ASSUME LockTypeOK, LockInv, NEW c \in Claims, Unlinks(c)
  PROVE  LockTypeOK' /\ LockInv' /\ OthersStay({c}) /\ claim'[c].at = "over"
<1>1. /\ claim[c].at = "unlinking"
      /\ Moves(c, "over")
      /\ lockFile' = None /\ held' = held /\ life' = life /\ forced' = forced /\ faults' = faults
      /\ causes' = causes \cup (IF Exists /\ lockFile.by /= c THEN {"raced"} ELSE {})
  BY DEF Unlinks, Removes, Causing
<1>2. /\ claim' \in [Claims -> ClaimRecords]
      /\ \A d \in Claims : /\ claim'[d].at = IF d = c THEN "over" ELSE claim[d].at
                           /\ claim'[d].process = claim[d].process
                           /\ claim'[d].judged = claim[d].judged
      /\ \A d \in Claims : claim'[d].judged /= None => claim'[d].at = "reclaiming"
  BY <1>1, Moved DEF Stages
<1>3. ~Exists'
  BY <1>1 DEF Exists
<1>4. LockTypeOK'
  BY <1>1, <1>2, <1>3, LockTypes DEF LockTypeOK, ClaimRecords, Exists
<1>5. LivesAreFaults' /\ ClaimsHaveProcess' /\ ForcedByWatchdog'
  BY <1>1, <1>2, <1>3, LockTypes DEF LockInv, LivesAreFaults, ClaimsHaveProcess, ForcedByWatchdog
<1>6. FileOfCreator'
  BY <1>1, <1>2, <1>3, LockTypes DEF LockInv, FileOfCreator, Created
<1>7. JudgedIsStale'
  BY <1>1, <1>2, <1>3, LockTypes DEF LockInv, JudgedIsStale, Created
<1>8. HeldByWorker'
  BY <1>1, <1>2, <1>3, LockTypes DEF LockInv, HeldByWorker
<1>9. OneUnderWay'
  BY <1>1, <1>2, <1>3, LockTypes DEF LockInv, OneUnderWay, UnderWay
<1>10. OwnersOwn'
  BY <1>1, <1>2, <1>3, LockTypes DEF LockInv, OwnersOwn, Owning
<1>11. LockFileHasOwner'
  BY <1>1, <1>2, <1>3, LockTypes DEF LockInv, LockFileHasOwner, FileOfCreator
<1>12. OthersStay({c}) /\ claim'[c].at = "over"
  BY <1>1, <1>2, <1>3, LockTypes DEF OthersStay
<1>. QED BY <1>4, <1>5, <1>6, <1>7, <1>8, <1>9, <1>10, <1>11, <1>12 DEF LockInv

\* A claim judges the file that is there.
LEMMA InspectsKeeps ==
  ASSUME LockTypeOK, LockInv, NEW c \in Claims, Inspects(c)
  PROVE  LockTypeOK' /\ LockInv' /\ OthersStay({c}) /\ claim'[c].at \in {"retrying", "reclaiming"}
<1>1. /\ claim[c].at = "contended"
      /\ claim' = (IF Exists /\ StaleFile
                   THEN [claim EXCEPT ![c].at = "reclaiming", ![c].judged = lockFile.by]
                   ELSE [claim EXCEPT ![c].at = "retrying"])
      /\ lockFile' = lockFile /\ held' = held /\ life' = life /\ forced' = forced
      /\ causes' = causes /\ faults' = faults
  BY DEF Inspects, StaleFile
<1>2. /\ claim' \in [Claims -> ClaimRecords]
      /\ \A d \in Claims : /\ d /= c => claim'[d] = claim[d]
                           /\ claim'[d].process = claim[d].process
      /\ \/ /\ claim'[c].at = "retrying" /\ claim'[c].judged = claim[c].judged
         \/ /\ claim'[c].at = "reclaiming" /\ claim'[c].judged = lockFile.by
            /\ Exists /\ StaleFile
  <2>1. claim \in [Claims -> ClaimRecords] /\ (Exists => lockFile.by \in Claims)
    BY LockTypes
  <2>. QED BY <1>1, <2>1 DEF ClaimRecords, Stages
<1>3. (Exists' <=> Exists) /\ (StaleFile' <=> StaleFile) /\ (Alive(lockFile)' <=> Alive(lockFile))
  BY <1>1 DEF Exists, StaleFile, Stale, Alive
<1>4. LockTypeOK'
  BY <1>1, <1>2, <1>3, LockTypes DEF LockTypeOK, ClaimRecords, Exists
<1>5. LivesAreFaults' /\ ClaimsHaveProcess' /\ ForcedByWatchdog'
  BY <1>1, <1>2, <1>3, LockTypes DEF LockInv, LivesAreFaults, ClaimsHaveProcess, ForcedByWatchdog
<1>6. FileOfCreator'
  BY <1>1, <1>2, <1>3, LockTypes DEF LockInv, FileOfCreator, Created
<1>7. JudgedIsStale'
  BY <1>1, <1>2, <1>3, LockTypes DEF LockInv, JudgedIsStale, Created, FileOfCreator
<1>8. HeldByWorker'
  BY <1>1, <1>2, <1>3, LockTypes DEF LockInv, HeldByWorker
<1>9. OneUnderWay'
  BY <1>1, <1>2, <1>3, LockTypes DEF LockInv, OneUnderWay, UnderWay
<1>10. OwnersOwn'
  BY <1>1, <1>2, <1>3, LockTypes DEF LockInv, OwnersOwn, Owning
<1>11. LockFileHasOwner'
  BY <1>1, <1>2, <1>3, LockTypes DEF LockInv, LockFileHasOwner, FileOfCreator
<1>12. OthersStay({c}) /\ claim'[c].at \in {"retrying", "reclaiming"}
  BY <1>1, <1>2, <1>3, LockTypes DEF OthersStay
<1>. QED BY <1>4, <1>5, <1>6, <1>7, <1>8, <1>9, <1>10, <1>11, <1>12 DEF LockInv

\* A claim removes the file by its path, whichever is there by now.
LEMMA ReclaimsKeeps ==
  ASSUME LockTypeOK, LockInv, NEW c \in Claims, Reclaims(c)
  PROVE  LockTypeOK' /\ LockInv' /\ OthersStay({c}) /\ claim'[c].at = "retrying"
<1>1. /\ claim[c].at = "reclaiming"
      /\ claim' = [claim EXCEPT ![c].at = "retrying", ![c].judged = None]
      /\ lockFile' = None /\ held' = held /\ life' = life /\ forced' = forced /\ faults' = faults
      /\ causes' = causes \cup (IF Exists /\ lockFile.by /= claim[c].judged THEN {"raced"}
                                ELSE IF Exists /\ Alive(lockFile) /\ lockFile.old THEN {"old"}
                                ELSE {})
  BY DEF Reclaims
<1>2. /\ claim' \in [Claims -> ClaimRecords]
      /\ \A d \in Claims : /\ d /= c => claim'[d] = claim[d]
                           /\ claim'[d].process = claim[d].process
      /\ claim'[c].at = "retrying" /\ claim'[c].judged = None
  <2>1. claim \in [Claims -> ClaimRecords]
    BY LockTypes
  <2>. QED BY <1>1, <2>1 DEF ClaimRecords, Stages
<1>3. /\ ~Exists'
      /\ causes' = {} => causes = {} /\ (Exists => ~Alive(lockFile))
  BY <1>1, LockTypes DEF LockInv, JudgedIsStale, StaleFile, Stale, Exists
<1>4. LockTypeOK'
  BY <1>1, <1>2, <1>3, LockTypes DEF LockTypeOK, ClaimRecords, Exists
<1>5. LivesAreFaults' /\ ClaimsHaveProcess' /\ ForcedByWatchdog'
  BY <1>1, <1>2, <1>3, LockTypes DEF LockInv, LivesAreFaults, ClaimsHaveProcess, ForcedByWatchdog
<1>6. FileOfCreator'
  BY <1>1, <1>2, <1>3, LockTypes DEF LockInv, FileOfCreator, Created
<1>7. JudgedIsStale'
  BY <1>1, <1>2, <1>3, LockTypes DEF LockInv, JudgedIsStale, Created
<1>8. HeldByWorker'
  BY <1>1, <1>2, <1>3, LockTypes DEF LockInv, HeldByWorker
<1>9. OneUnderWay'
  BY <1>1, <1>2, <1>3, LockTypes DEF LockInv, OneUnderWay, UnderWay
<1>10. OwnersOwn'
  BY <1>1, <1>2, <1>3, LockTypes DEF LockInv, OwnersOwn, Owning
<1>11. LockFileHasOwner'
  BY <1>1, <1>2, <1>3, LockTypes DEF LockInv, LockFileHasOwner, FileOfCreator
<1>12. OthersStay({c}) /\ claim'[c].at = "retrying"
  BY <1>1, <1>2, <1>3, LockTypes DEF OthersStay
<1>. QED BY <1>4, <1>5, <1>6, <1>7, <1>8, <1>9, <1>10, <1>11, <1>12 DEF LockInv

\* The watchdog takes the lock of a process away from its claim.
LEMMA WatchdogReleasesKeeps ==
  ASSUME LockTypeOK, LockInv, NEW p \in Processes, WatchdogReleases(p)
  PROVE  LockTypeOK' /\ LockInv' /\ OthersStay({})
<1>1. /\ held[p] \in Claims
      /\ lockFile' = lockFile /\ life' = life /\ claim' = claim
      /\ forced' = forced \cup {held[p]}
      /\ held' = [held EXCEPT ![p] = None]
      /\ causes' = causes \cup {"watchdog"}
      /\ faults' \in 0..MaxFaults /\ faults' = faults + 1
  BY LockTypes DEF WatchdogReleases, Faulty
<1>2. (Exists' <=> Exists) /\ (StaleFile' <=> StaleFile) /\ (Alive(lockFile)' <=> Alive(lockFile))
  BY <1>1 DEF Exists, StaleFile, Stale, Alive
<1>3. LockTypeOK'
  BY <1>1, <1>2, LockTypes DEF LockTypeOK, ClaimRecords, Exists
<1>4. LivesAreFaults' /\ ClaimsHaveProcess' /\ ForcedByWatchdog'
  BY <1>1, <1>2, LockTypes DEF LockInv, LivesAreFaults, ClaimsHaveProcess, ForcedByWatchdog
<1>5. FileOfCreator'
  BY <1>1, <1>2, LockTypes DEF LockInv, FileOfCreator, Created
<1>6. JudgedIsStale'
  BY <1>1, <1>2, LockTypes DEF LockInv, JudgedIsStale, Created
<1>7. HeldByWorker'
  BY <1>1, <1>2, LockTypes DEF LockInv, HeldByWorker
<1>8. OneUnderWay'
  BY <1>1, <1>2, LockTypes DEF LockInv, OneUnderWay, UnderWay
<1>9. OwnersOwn'
  BY <1>1, <1>2, LockTypes DEF LockInv, OwnersOwn, Owning
<1>10. LockFileHasOwner'
  BY <1>1, <1>2, LockTypes DEF LockInv, LockFileHasOwner, FileOfCreator
<1>11. OthersStay({})
  BY <1>1, <1>2, LockTypes DEF OthersStay
<1>. QED BY <1>3, <1>4, <1>5, <1>6, <1>7, <1>8, <1>9, <1>10, <1>11 DEF LockInv

\* The watchdog removes the file of the lock it has taken away, or the one that has replaced it.
LEMMA WatchdogUnlinksKeeps ==
  ASSUME LockTypeOK, LockInv, NEW c \in Claims, WatchdogUnlinks(c)
  PROVE  LockTypeOK' /\ LockInv' /\ OthersStay({})
<1>1. /\ c \in forced
      /\ lockFile' = None /\ life' = life /\ claim' = claim /\ held' = held /\ faults' = faults
      /\ forced' = forced \ {c}
      /\ causes' = causes \cup (IF Exists /\ lockFile.by /= c THEN {"raced"} ELSE {})
  BY DEF WatchdogUnlinks, Removes, Causing
<1>2. ~Exists'
  BY <1>1 DEF Exists
<1>3. LockTypeOK'
  BY <1>1, <1>2, LockTypes DEF LockTypeOK, ClaimRecords, Exists
<1>4. LivesAreFaults' /\ ClaimsHaveProcess' /\ ForcedByWatchdog'
  BY <1>1, <1>2, LockTypes DEF LockInv, LivesAreFaults, ClaimsHaveProcess, ForcedByWatchdog
<1>5. FileOfCreator'
  BY <1>1, <1>2, LockTypes DEF LockInv, FileOfCreator, Created
<1>6. JudgedIsStale'
  BY <1>1, <1>2, LockTypes DEF LockInv, JudgedIsStale, Created
<1>7. HeldByWorker'
  BY <1>1, <1>2, LockTypes DEF LockInv, HeldByWorker
<1>8. OneUnderWay'
  BY <1>1, <1>2, LockTypes DEF LockInv, OneUnderWay, UnderWay
<1>9. OwnersOwn'
  BY <1>1, <1>2, LockTypes DEF LockInv, OwnersOwn, Owning, ForcedByWatchdog
<1>10. LockFileHasOwner'
  BY <1>1, <1>2, LockTypes DEF LockInv, LockFileHasOwner, FileOfCreator
<1>11. OthersStay({})
  BY <1>1, <1>2, LockTypes DEF OthersStay
<1>. QED BY <1>3, <1>4, <1>5, <1>6, <1>7, <1>8, <1>9, <1>10, <1>11 DEF LockInv

\* A signal takes the lock of a process away and removes the file that is there.
LEMMA SignalledKeeps ==
  ASSUME LockTypeOK, LockInv, NEW p \in Processes, Signalled(p)
  PROVE  LockTypeOK' /\ LockInv' /\ OthersStay({})
<1>1. /\ held[p] \in Claims
      /\ lockFile' = None /\ life' = life /\ claim' = claim /\ forced' = forced
      /\ held' = [held EXCEPT ![p] = None]
      /\ causes' = causes \cup {"signal"}
                          \cup (IF Exists /\ lockFile.by /= held[p] THEN {"raced"} ELSE {})
      /\ faults' \in 0..MaxFaults /\ faults' = faults + 1
  BY LockTypes DEF Signalled, Faulty
<1>2. ~Exists'
  BY <1>1 DEF Exists
<1>3. LockTypeOK'
  BY <1>1, <1>2, LockTypes DEF LockTypeOK, ClaimRecords, Exists
<1>4. LivesAreFaults' /\ ClaimsHaveProcess' /\ ForcedByWatchdog'
  BY <1>1, <1>2, LockTypes DEF LockInv, LivesAreFaults, ClaimsHaveProcess, ForcedByWatchdog
<1>5. FileOfCreator'
  BY <1>1, <1>2, LockTypes DEF LockInv, FileOfCreator, Created
<1>6. JudgedIsStale'
  BY <1>1, <1>2, LockTypes DEF LockInv, JudgedIsStale, Created
<1>7. HeldByWorker'
  BY <1>1, <1>2, LockTypes DEF LockInv, HeldByWorker
<1>8. OneUnderWay'
  BY <1>1, <1>2, LockTypes DEF LockInv, OneUnderWay, UnderWay
<1>9. OwnersOwn'
  BY <1>1, <1>2, LockTypes DEF LockInv, OwnersOwn, Owning
<1>10. LockFileHasOwner'
  BY <1>1, <1>2, LockTypes DEF LockInv, LockFileHasOwner, FileOfCreator
<1>11. OthersStay({})
  BY <1>1, <1>2, LockTypes DEF OthersStay
<1>. QED BY <1>3, <1>4, <1>5, <1>6, <1>7, <1>8, <1>9, <1>10, <1>11 DEF LockInv

\* The lock file grows old.
LEMMA LockAgesKeeps ==
  ASSUME LockTypeOK, LockInv, LockAges
  PROVE  LockTypeOK' /\ LockInv' /\ OthersStay({})
<1>1. /\ Exists
      /\ lockFile' = [lockFile EXCEPT !.old = TRUE]
      /\ life' = life /\ claim' = claim /\ forced' = forced /\ held' = held /\ causes' = causes
      /\ faults' \in 0..MaxFaults /\ faults' = faults + 1
  BY LockTypes DEF LockAges, Faulty
<1>2. /\ lockFile' \in Files /\ Exists'
      /\ lockFile'.by = lockFile.by /\ lockFile'.process = lockFile.process
      /\ lockFile'.life = lockFile.life
      /\ StaleFile'
      /\ Alive(lockFile)' <=> Alive(lockFile)
  BY <1>1, LockTypes, LockAssumption DEF Exists, StaleFile, Stale, Alive, Files
<1>3. LockTypeOK'
  BY <1>1, <1>2, LockTypes DEF LockTypeOK, ClaimRecords, Exists
<1>4. LivesAreFaults' /\ ClaimsHaveProcess' /\ ForcedByWatchdog'
  BY <1>1, <1>2, LockTypes DEF LockInv, LivesAreFaults, ClaimsHaveProcess, ForcedByWatchdog
<1>5. FileOfCreator'
  BY <1>1, <1>2, LockTypes DEF LockInv, FileOfCreator, Created
<1>6. JudgedIsStale'
  BY <1>1, <1>2, LockTypes DEF LockInv, JudgedIsStale, Created
<1>7. HeldByWorker'
  BY <1>1, <1>2, LockTypes DEF LockInv, HeldByWorker
<1>8. OneUnderWay'
  BY <1>1, <1>2, LockTypes DEF LockInv, OneUnderWay, UnderWay
<1>9. OwnersOwn'
  BY <1>1, <1>2, LockTypes DEF LockInv, OwnersOwn, Owning
<1>10. LockFileHasOwner'
  BY <1>1, <1>2, LockTypes DEF LockInv, LockFileHasOwner, FileOfCreator
<1>11. OthersStay({})
  BY <1>1, <1>2, LockTypes DEF OthersStay
<1>. QED BY <1>3, <1>4, <1>5, <1>6, <1>7, <1>8, <1>9, <1>10, <1>11 DEF LockInv

\* A claim releases the lock, if its process still holds it for the claim.
LEMMA ReleasesKeeps ==
  ASSUME LockTypeOK, LockInv, NEW c \in Claims, Releases(c),
         claim[c].at = "working"
  PROVE  LockTypeOK' /\ LockInv' /\ OthersStay({c}) /\ claim'[c].at \in {"unlinking", "over"}
<1>. DEFINE p == claim[c].process
<1>. DEFINE mine == held[p] = c
<1>1. /\ claim[c].at = "working" /\ p \in Processes
      /\ held' = (IF mine THEN [held EXCEPT ![p] = None] ELSE held)
      /\ Moves(c, IF mine THEN "unlinking" ELSE "over")
      /\ lockFile' = lockFile /\ life' = life /\ forced' = forced
      /\ causes' = causes /\ faults' = faults
  BY DEF Releases, LockInv, ClaimsHaveProcess
<1>2. /\ claim' \in [Claims -> ClaimRecords]
      /\ \A d \in Claims : /\ claim'[d].at = IF d = c THEN (IF mine THEN "unlinking" ELSE "over") ELSE claim[d].at
                           /\ claim'[d].process = claim[d].process
                           /\ claim'[d].judged = claim[d].judged
      /\ \A d \in Claims : claim'[d].judged /= None => claim'[d].at = "reclaiming"
  BY <1>1, Moved DEF Stages
<1>3. (Exists' <=> Exists) /\ (StaleFile' <=> StaleFile) /\ (Alive(lockFile)' <=> Alive(lockFile))
  BY <1>1 DEF Exists, StaleFile, Stale, Alive
<1>4. LockTypeOK'
  BY <1>1, <1>2, <1>3, LockTypes DEF LockTypeOK, ClaimRecords, Exists
<1>5. LivesAreFaults' /\ ClaimsHaveProcess' /\ ForcedByWatchdog'
  BY <1>1, <1>2, <1>3, LockTypes DEF LockInv, LivesAreFaults, ClaimsHaveProcess, ForcedByWatchdog
<1>6. FileOfCreator'
  BY <1>1, <1>2, <1>3, LockTypes DEF LockInv, FileOfCreator, Created
<1>7. JudgedIsStale'
  BY <1>1, <1>2, <1>3, LockTypes DEF LockInv, JudgedIsStale, Created
<1>8. HeldByWorker'
  BY <1>1, <1>2, <1>3, LockTypes DEF LockInv, HeldByWorker
<1>9. OneUnderWay'
  BY <1>1, <1>2, <1>3, LockTypes DEF LockInv, OneUnderWay, UnderWay
<1>10. OwnersOwn'
  BY <1>1, <1>2, <1>3, LockTypes DEF LockInv, OwnersOwn, Owning
<1>11. LockFileHasOwner'
  BY <1>1, <1>2, <1>3, LockTypes DEF LockInv, LockFileHasOwner, FileOfCreator
<1>12. OthersStay({c}) /\ claim'[c].at \in {"unlinking", "over"}
  BY <1>1, <1>2, <1>3, LockTypes DEF OthersStay
<1>. QED BY <1>4, <1>5, <1>6, <1>7, <1>8, <1>9, <1>10, <1>11, <1>12 DEF LockInv

\* A process ends, with its claims, and is started again.
LEMMA EndsKeeps ==
  ASSUME LockTypeOK, LockInv, NEW p \in Processes, NEW killed \in BOOLEAN, Ends(p, killed)
  PROVE  LockTypeOK' /\ LockInv' /\ OthersStay(Under(p)) /\ \A d \in Under(p) : claim'[d].at = "dead"
<1>1. /\ \/ lockFile' = lockFile /\ causes' = causes
         \/ /\ held[p] \in Claims /\ lockFile' = None
            /\ causes' = causes \cup (IF Exists /\ lockFile.by /= held[p] THEN {"raced"} ELSE {})
      /\ held' = [held EXCEPT ![p] = None]
      /\ forced' = {c \in forced : claim[c].process /= p}
      /\ faults' \in 0..MaxFaults /\ faults' = faults + 1
  <2>1. /\ held' = [held EXCEPT ![p] = None]
        /\ forced' = {c \in forced : claim[c].process /= p}
        /\ faults < MaxFaults /\ faults' = faults + 1
    BY DEF Ends, Faulty
  <2>2. CASE killed \/ held[p] = None
    <3>1. lockFile' = lockFile /\ causes' = causes
      BY <2>2 DEF Ends
    <3>. QED BY <2>1, <3>1, LockTypes
  <2>3. CASE ~(killed \/ held[p] = None)
    <3>1. held[p] \in Claims /\ Removes(held[p])
      BY <2>3, LockTypes DEF Ends
    <3>. QED BY <2>1, <3>1, LockTypes DEF Removes, Causing
  <2>. QED BY <2>2, <2>3
<1>2. /\ claim' \in [Claims -> ClaimRecords]
      /\ \A d \in Claims :
           /\ claim'[d].process = claim[d].process
           /\ d \in Under(p) => claim'[d].at = "dead" /\ claim'[d].judged = None
           /\ d \notin Under(p) => claim'[d] = claim[d]
           /\ d \in Under(p) <=> claim[d].process = p /\ claim[d].at \notin {"over", "dead"}
  <2>. DEFINE ended(d) == [claim[d] EXCEPT !.at = "dead", !.judged = None]
  <2>1. claim' = [d \in Claims |-> IF d \in Under(p) THEN ended(d) ELSE claim[d]]
    BY DEF Ends
  <2>2. \A d \in Claims : claim[d] \in ClaimRecords
    BY LockTypes
  <2>3. \A d \in Claims : /\ ended(d) \in ClaimRecords
                          /\ ended(d).at = "dead" /\ ended(d).judged = None
                          /\ ended(d).process = claim[d].process
    BY <2>2 DEF ClaimRecords, Stages
  <2>4. \A d \in Claims :
          d \in Under(p) <=> claim[d].process = p /\ claim[d].at \notin {"over", "dead"}
    BY DEF Under
  <2>. HIDE DEF ended
  <2>. QED BY <2>1, <2>2, <2>3, <2>4
<1>3. /\ life' \in [Processes -> 0..MaxFaults]
      /\ \A q \in Processes : life'[q] = IF q = p THEN life[q] + 1 ELSE life[q]
      /\ Exists' => lockFile' = lockFile /\ Exists /\ causes' = causes
      /\ Exists' => (Alive(lockFile)' <=> Alive(lockFile) /\ lockFile.process /= p)
      /\ Exists' /\ StaleFile => StaleFile'
  <2>1. \A q \in Processes : life[q] \in Nat /\ life[q] <= faults
    BY LockTypes DEF LockInv, LivesAreFaults
  <2>2. /\ \A q \in Processes : life'[q] = IF q = p THEN life[q] + 1 ELSE life[q]
        /\ life' \in [Processes -> 0..MaxFaults]
    <3>1. life' = [life EXCEPT ![p] = life[p] + 1]
      BY DEF Ends
    <3>2. life[p] + 1 \in 0..MaxFaults
      BY <1>1, <2>1, LockTypes
    <3>. QED BY <3>1, <3>2, LockTypes
  <2>3. Exists' => lockFile' = lockFile /\ Exists /\ causes' = causes
    BY <1>1 DEF Exists
  <2>4. Exists' => (Alive(lockFile)' <=> Alive(lockFile) /\ lockFile.process /= p)
    BY <2>1, <2>2, <2>3, LockTypes DEF LockInv, FileOfCreator, Alive
  <2>5. Exists' /\ StaleFile => StaleFile'
    BY <2>1, <2>2, <2>3, <2>4, LockTypes DEF StaleFile, Stale
  <2>. QED BY <2>2, <2>3, <2>4, <2>5
<1>4. LockTypeOK'
  <2>1. lockFile' \in Files \cup {None}
    BY <1>1, LockTypes DEF Exists
  <2>2. held' \in [Processes -> Claims \cup {None}] /\ forced' \subseteq Claims
    BY <1>1, LockTypes
  <2>3. causes' \subseteq {"watchdog", "signal", "old", "raced"}
    BY <1>1 DEF LockTypeOK
  <2>4. \A d \in Claims : claim'[d].judged /= None => claim'[d].at = "reclaiming"
    BY <1>2, LockTypes
  <2>. QED BY <1>1, <1>2, <1>3, <2>1, <2>2, <2>3, <2>4 DEF LockTypeOK, ClaimRecords
<1>5. LivesAreFaults' /\ ClaimsHaveProcess' /\ ForcedByWatchdog'
  BY <1>1, <1>2, <1>3, LockTypes DEF LockInv, LivesAreFaults, ClaimsHaveProcess, ForcedByWatchdog
<1>6. FileOfCreator'
  BY <1>1, <1>2, <1>3, LockTypes DEF LockInv, FileOfCreator, Created, Exists
<1>7. JudgedIsStale'
  BY <1>1, <1>2, <1>3, LockTypes DEF LockInv, JudgedIsStale, Created
<1>8. HeldByWorker'
  BY <1>1, <1>2, <1>3, LockTypes DEF LockInv, HeldByWorker
<1>9. OneUnderWay'
  BY <1>1, <1>2, <1>3, LockTypes DEF LockInv, OneUnderWay, UnderWay
<1>10. OwnersOwn'
  BY <1>1, <1>2, <1>3, LockTypes DEF LockInv, OwnersOwn, Owning, HeldByWorker, FileOfCreator, Exists
<1>11. LockFileHasOwner'
  BY <1>1, <1>2, <1>3, LockTypes DEF LockInv, LockFileHasOwner, FileOfCreator
<1>12. OthersStay(Under(p)) /\ \A d \in Under(p) : claim'[d].at = "dead"
  BY <1>1, <1>2, <1>3, LockTypes DEF OthersStay, Under
<1>. QED BY <1>4, <1>5, <1>6, <1>7, <1>8, <1>9, <1>10, <1>11, <1>12 DEF LockInv

\* A claim is queued.
LEMMA EnqueuedKeeps ==
  ASSUME LockTypeOK, LockInv, NEW c \in Claims, NEW p \in Processes,
         claim[c].at = "none", claim' = [claim EXCEPT ![c].at = "queued", ![c].process = p],
         UNCHANGED <<lockFile, life, held, forced, causes, faults>>
  PROVE  LockTypeOK' /\ LockInv' /\ OthersStay({c}) /\ claim'[c].at = "queued" /\ claim'[c].process = p
<1>1. /\ claim[c].at = "none"
      /\ lockFile' = lockFile /\ held' = held /\ life' = life /\ forced' = forced
      /\ causes' = causes /\ faults' = faults
  OBVIOUS
<1>2. /\ claim' \in [Claims -> ClaimRecords]
      /\ \A d \in Claims : /\ d /= c => claim'[d] = claim[d]
                           /\ claim'[d].judged = claim[d].judged
      /\ claim'[c].at = "queued" /\ claim'[c].process = p
  <2>1. claim \in [Claims -> ClaimRecords]
    BY LockTypes
  <2>. QED BY <1>1, <2>1 DEF ClaimRecords, Stages
<1>3. (Exists' <=> Exists) /\ (StaleFile' <=> StaleFile) /\ (Alive(lockFile)' <=> Alive(lockFile))
  BY <1>1 DEF Exists, StaleFile, Stale, Alive
<1>4. LockTypeOK'
  BY <1>1, <1>2, <1>3, LockTypes DEF LockTypeOK, ClaimRecords, Exists
<1>5. LivesAreFaults' /\ ClaimsHaveProcess' /\ ForcedByWatchdog'
  BY <1>1, <1>2, <1>3, LockTypes DEF LockInv, LivesAreFaults, ClaimsHaveProcess, ForcedByWatchdog
<1>6. FileOfCreator'
  BY <1>1, <1>2, <1>3, LockTypes DEF LockInv, FileOfCreator, Created
<1>7. JudgedIsStale'
  BY <1>1, <1>2, <1>3, LockTypes DEF LockInv, JudgedIsStale, Created
<1>8. HeldByWorker'
  BY <1>1, <1>2, <1>3, LockTypes DEF LockInv, HeldByWorker
<1>9. OneUnderWay'
  BY <1>1, <1>2, <1>3, LockTypes DEF LockInv, OneUnderWay, UnderWay
<1>10. OwnersOwn'
  BY <1>1, <1>2, <1>3, LockTypes DEF LockInv, OwnersOwn, Owning
<1>11. LockFileHasOwner'
  BY <1>1, <1>2, <1>3, LockTypes DEF LockInv, LockFileHasOwner, FileOfCreator
<1>12. OthersStay({c}) /\ claim'[c].at = "queued" /\ claim'[c].process = p
  BY <1>1, <1>2, <1>3, LockTypes DEF OthersStay
<1>. QED BY <1>4, <1>5, <1>6, <1>7, <1>8, <1>9, <1>10, <1>11, <1>12 DEF LockInv

--------------------------------------------------------------------------------
(* The steps of the store keep its part of the invariant.                   *)

Preparing == {"queued", "retrying", "contended", "reclaiming", "creating"}
Finished == {"unlinking", "over", "dead"}

ChangeRecords == [kind : {"update", "touch", "save"},
                  at : {"idle", "mutating", "saving", "rotated", "saved"},
                  store : Contents, result : {"none", "ok", "failed"}]

\* The types of the parts of the store.
LEMMA StoreTypes ==
  ASSUME StoreTypeOK
  PROVE  /\ file \in Contents \cup {None}
         /\ Content \in Contents
         /\ file = None => Content = {}
         /\ file /= None => Content = file /\ file \in Contents
         /\ serialized \in [Processes -> Contents \cup {None}]
         /\ queue \in [Processes -> Seq(Claims)]
         /\ change \in [Claims -> ChangeRecords]
         /\ \A c \in Claims : /\ change[c].kind \in {"update", "touch", "save"}
                              /\ change[c].at \in {"idle", "mutating", "saving", "rotated", "saved"}
                              /\ change[c].store \in Contents
                              /\ change[c].result \in {"none", "ok", "failed"}
                              /\ change[c].at /= "idle" => claim[c].at = "working"
         /\ past \in [rotations : 0..MaxRotations, lost : Contents]
         /\ past.rotations \in 0..MaxRotations /\ past.lost \in Contents
         /\ \A store \in Contents : store \subseteq Claims /\ store /= None
BY StoreAssumption DEF StoreTypeOK, Content, Contents, ChangeRecords

\* A change under the lock is the only one as long as no cause of two has come up.
LEMMA OnlyOne ==
  ASSUME LockInv, causes = {}, NEW c \in Claims, NEW d \in Claims,
         claim[c].at = "working", claim[d].at = "working"
  PROVE  c = d
BY DEF LockInv, OwnersOwn, Owning

\* A change goes on.
LEMMA ChangeMoves ==
  ASSUME NEW c \in Claims, NEW store \in Contents, NEW at \in {"mutating", "saving", "saved"},
         change \in [Claims -> ChangeRecords],
         change' = [change EXCEPT ![c].at = at, ![c].store = store]
  PROVE  /\ change' \in [Claims -> ChangeRecords]
         /\ \A d \in Claims : d /= c => change'[d] = change[d]
         /\ change'[c].kind = change[c].kind
         /\ change'[c].at = at /\ change'[c].store = store /\ change'[c].result = change[c].result
<1>1. /\ \A d \in Claims : d /= c => change'[d] = change[d]
      /\ change'[c] = [change[c] EXCEPT !.at = at, !.store = store]
  OBVIOUS
<1>2. change[c] \in ChangeRecords /\ DOMAIN change' = Claims
  OBVIOUS
<1>3. /\ change'[c].kind = change[c].kind
      /\ change'[c].at = at /\ change'[c].store = store /\ change'[c].result = change[c].result
      /\ change'[c] \in ChangeRecords
  BY <1>1, <1>2 DEF ChangeRecords
<1>4. change' \in [Claims -> ChangeRecords]
  BY <1>1, <1>3
<1>. QED BY <1>1, <1>3, <1>4

\* A change fails.
LEMMA ChangeGivenUp ==
  ASSUME NEW c \in Claims, NEW store \in Contents,
         change \in [Claims -> ChangeRecords],
         change' = [change EXCEPT ![c].at = "idle", ![c].store = store,
                                      ![c].result = "failed"]
  PROVE  /\ change' \in [Claims -> ChangeRecords]
         /\ \A d \in Claims : d /= c => change'[d] = change[d]
         /\ change'[c].kind = change[c].kind
         /\ change'[c].at = "idle" /\ change'[c].store = store /\ change'[c].result = "failed"
<1>1. /\ \A d \in Claims : d /= c => change'[d] = change[d]
      /\ change'[c] = [change[c] EXCEPT !.at = "idle", !.store = store, !.result = "failed"]
  OBVIOUS
<1>2. change[c] \in ChangeRecords /\ DOMAIN change' = Claims
  OBVIOUS
<1>3. /\ change'[c].kind = change[c].kind
      /\ change'[c].at = "idle" /\ change'[c].store = store /\ change'[c].result = "failed"
      /\ change'[c] \in ChangeRecords
  BY <1>1, <1>2 DEF ChangeRecords
<1>4. change' \in [Claims -> ChangeRecords]
  BY <1>1, <1>3
<1>. QED BY <1>1, <1>3, <1>4

\* A change is answered.
LEMMA ChangeMade ==
  ASSUME NEW c \in Claims,
         change \in [Claims -> ChangeRecords],
         change' = [change EXCEPT ![c].at = "idle", ![c].result = "ok"]
  PROVE  /\ change' \in [Claims -> ChangeRecords]
         /\ \A d \in Claims : d /= c => change'[d] = change[d]
         /\ change'[c].kind = change[c].kind
         /\ change'[c].at = "idle" /\ change'[c].store = change[c].store /\ change'[c].result = "ok"
<1>1. /\ \A d \in Claims : d /= c => change'[d] = change[d]
      /\ change'[c] = [change[c] EXCEPT !.at = "idle", !.result = "ok"]
  OBVIOUS
<1>2. change[c] \in ChangeRecords /\ DOMAIN change' = Claims
  OBVIOUS
<1>3. /\ change'[c].kind = change[c].kind
      /\ change'[c].at = "idle" /\ change'[c].store = change[c].store /\ change'[c].result = "ok"
      /\ change'[c] \in ChangeRecords
  BY <1>1, <1>2 DEF ChangeRecords
<1>4. change' \in [Claims -> ChangeRecords]
  BY <1>1, <1>3
<1>. QED BY <1>1, <1>3, <1>4

\* A change fails before it has begun.
LEMMA ChangeFails ==
  ASSUME NEW c \in Claims, NEW store \in Contents,
         change \in [Claims -> ChangeRecords],
         change' = [change EXCEPT ![c].store = store, ![c].result = "failed"]
  PROVE  /\ change' \in [Claims -> ChangeRecords]
         /\ \A d \in Claims : d /= c => change'[d] = change[d]
         /\ change'[c].kind = change[c].kind
         /\ change'[c].at = change[c].at /\ change'[c].store = store /\ change'[c].result = "failed"
<1>1. /\ \A d \in Claims : d /= c => change'[d] = change[d]
      /\ change'[c] = [change[c] EXCEPT !.store = store, !.result = "failed"]
  OBVIOUS
<1>2. change[c] \in ChangeRecords /\ DOMAIN change' = Claims
  OBVIOUS
<1>3. /\ change'[c].kind = change[c].kind
      /\ change'[c].at = change[c].at /\ change'[c].store = store /\ change'[c].result = "failed"
      /\ change'[c] \in ChangeRecords
  BY <1>1, <1>2 DEF ChangeRecords
<1>4. change' \in [Claims -> ChangeRecords]
  BY <1>1, <1>3
<1>. QED BY <1>1, <1>3, <1>4

\* A step makes nothing if no change is lost, none becomes unmade, and the stores in hand and the
\* copies gain nothing but the content and the changes themselves.
LEMMA NothingIsMade ==
  ASSUME StoreTypeOK, MadeInv, made' = made, causes' = {} => causes = {},
         \A d \in Claims : Unmade(d)' => Unmade(d),
         \A d \in Claims : /\ change'[d].store \subseteq change[d].store \cup Content \cup {d}
                           /\ change'[d].kind = "touch" => d \notin change'[d].store,
         \A q \in Processes : serialized'[q] \in {serialized[q], None, file},
         Kept' \subseteq Kept
  PROVE  MadeInv'
<1>1. Content \subseteq made /\ (file /= None => file = Content)
  BY StoreTypes DEF made
<1>2. UnmadeIsNowhere'
  <2>1. SUFFICES ASSUME NEW d \in Claims, Unmade(d)'
                 PROVE  /\ d \notin made'
                        /\ \A p \in Processes : serialized'[p] /= None => d \notin serialized'[p]
                        /\ \A e \in Claims : d /= e => d \notin change'[e].store
    BY DEF UnmadeIsNowhere
  <2>2. /\ d \notin made
        /\ \A p \in Processes : serialized[p] /= None => d \notin serialized[p]
        /\ \A e \in Claims : d /= e => d \notin change[e].store
    BY <2>1 DEF MadeInv, UnmadeIsNowhere
  <2>3. \A p \in Processes : serialized'[p] /= None => d \notin serialized'[p]
    BY <1>1, <2>2
  <2>4. \A e \in Claims : d /= e => d \notin change'[e].store
    BY <1>1, <2>2
  <2>. QED BY <2>2, <2>3, <2>4
<1>3. TouchesMakeNothing'
  BY DEF TouchesMakeNothing
<1>4. StoreInHand'
  BY <1>1 DEF MadeInv, StoreInHand
<1>5. MadeIsKept'
  BY DEF MadeInv, MadeIsKept
<1>. QED BY <1>2, <1>3, <1>4, <1>5 DEF MadeInv

\* A step of the store is one of its service, or none.
Serves == [Service!Next]_Service!vars

\* A step after which no more is made, and from which no caller learns anything.
LEMMA NothingIsSeen ==
  ASSUME TypeOK, causes' = {} => causes = {}, causes' = {} => made' = made,
         \A d \in Claims : /\ claim'[d].at = "none" <=> claim[d].at = "none"
                           /\ change'[d].kind = change[d].kind /\ change'[d].result = change[d].result
  PROVE  Serves
<1>1. asked' = asked /\ answer' = answer
  BY DEF asked, answer
<1>2. CASE broken'
  BY <1>1, <1>2 DEF Serves, Service!Next, Service!Break
<1>3. CASE ~broken'
  <2>1. made' = made /\ broken' = broken
    BY <1>3 DEF broken
  <2>. QED BY <1>1, <2>1 DEF Serves, Service!vars
<1>. QED BY <1>2, <1>3

\* A caller is told how its change went.
LEMMA Answered ==
  ASSUME TypeOK, NEW c \in Claims, NEW result \in {"ok", "failed"},
         claim[c].at /= "none", claim'[c].at /= "none", change[c].result = "none",
         OthersStay({c}), made' = made,
         \A d \in Claims \ {c} : change'[d] = change[d],
         change'[c].kind = change[c].kind, change'[c].result = result,
         causes = {} => IF result = "failed" THEN c \notin made ELSE change[c].kind = "touch" \/ c \in made
  PROVE  Serves
<1>1. /\ asked' = asked
      /\ answer' = [answer EXCEPT ![c] = result]
      /\ Service!Pending(c)
  BY DEF asked, answer, Service!Pending, OthersStay
<1>2. /\ broken => broken'
      /\ broken' \/ made' = made \cup {}
      /\ broken' \/ (IF result = "failed" THEN c \notin made ELSE Service!Wanted(c) \subseteq made)
  BY DEF broken, OthersStay, Service!Wanted, asked
<1>3. CASE result = "ok"
  BY <1>1, <1>2, <1>3 DEF Serves, Service!Next, Service!Confirm, Service!Makes
<1>4. CASE result = "failed"
  BY <1>1, <1>2, <1>4 DEF Serves, Service!Next, Service!Refuse, Service!Makes
<1>. QED BY <1>3, <1>4

\* A claim looks at the lock file, removes it or tries again.
LEMMA WaitsKeeps ==
  ASSUME TypeOK, LockInv, StoreInv, NEW c \in Claims, Waits(c)
  PROVE  TypeOK' /\ LockInv' /\ StoreInv' /\ Serves
<1>1. /\ LockTypeOK' /\ LockInv' /\ OthersStay({c})
      /\ claim[c].at \in {"contended", "reclaiming"} /\ claim'[c].at \in {"retrying", "reclaiming"}
  BY InspectsKeeps, ReclaimsKeeps DEF Waits, Inspects, Reclaims, TypeOK
<1>2. /\ StoreTypeOK
      /\ file' = file /\ Content' = Content
      /\ serialized' = serialized /\ queue' = queue /\ change' = change /\ past' = past
  BY DEF Waits, storeVars, Content, TypeOK
<1>3. /\ causes' = {} => causes = {}
      /\ \A d \in Claims \ {c} : claim'[d].at = claim[d].at /\ claim'[d].process = claim[d].process
  BY <1>1 DEF OthersStay
<1>4. StoreTypeOK'
  <2>1. \A d \in Claims : change'[d].at /= "idle" => claim'[d].at = "working"
    BY <1>1, <1>2, <1>3, StoreTypes
  <2>. QED BY <1>1, <1>2, <1>3, <2>1, StoreTypes DEF StoreTypeOK, ChangeRecords
<1>5. QueuedStandInQueue'
  BY <1>1, <1>2, <1>3, StoreTypes DEF StoreInv, QueuedStandInQueue
<1>6. ResultsComeLast'
  BY <1>1, <1>2, <1>3 DEF StoreInv, ResultsComeLast
<1>7. MadeInv'
  <2>1. \A d \in Claims : Unmade(d)' => Unmade(d)
    BY <1>1, <1>2, <1>3 DEF Unmade
  <2>2. made' = made /\ Kept' = Kept
    BY <1>2 DEF made, Kept
  <2>3. \A d \in Claims : change[d].kind = "touch" => d \notin change[d].store
    BY DEF StoreInv, MadeInv, TouchesMakeNothing
  <2>. QED BY <1>2, <1>3, <2>1, <2>2, <2>3, NothingIsMade DEF StoreInv
<1>8. CarriesItself'
  BY <1>1, <1>2, <1>3, StoreTypes DEF StoreInv, CarriesItself
<1>9. ReadUnderLock'
  BY <1>1, <1>2, <1>3, StoreTypes DEF StoreInv, ReadUnderLock
<1>10. NewHaveNoProcess'
  BY <1>1, <1>3 DEF StoreInv, NewHaveNoProcess
<1>11. Serves
  <2>1. \A d \in Claims : claim'[d].at = "none" <=> claim[d].at = "none"
    BY <1>1, <1>3
  <2>2. made' = made
    BY <1>2 DEF made
  <2>. QED BY <1>2, <1>3, <2>1, <2>2, NothingIsSeen
<1>. QED BY <1>1, <1>4, <1>5, <1>6, <1>7, <1>8, <1>9, <1>10, <1>11 DEF StoreInv, TypeOK

\* A claim tries to create the lock file; the first time it leaves the queue.
LEMMA OpensKeeps ==
  ASSUME TypeOK, LockInv, StoreInv, NEW c \in Claims, Opens(c)
  PROVE  TypeOK' /\ LockInv' /\ StoreInv' /\ Serves
<1>1. /\ LockTypeOK' /\ LockInv' /\ OthersStay({c})
      /\ claim[c].at \in {"queued", "retrying"} /\ claim'[c].at \in {"creating", "contended"}
  BY OpenSucceedsKeeps, OpenFailsKeeps DEF Opens, IsNext, TypeOK
<1>2. /\ causes' = {} => causes = {}
      /\ \A d \in Claims \ {c} : claim'[d].at = claim[d].at /\ claim'[d].process = claim[d].process
  BY <1>1 DEF OthersStay
<1>3. /\ StoreTypeOK
      /\ file' = file /\ Content' = Content /\ serialized' = serialized
      /\ change' = change /\ past' = past
  BY DEF Opens, Content, TypeOK
<1>4. queue' \in [Processes -> Seq(Claims)]
  <2>. DEFINE p == claim[c].process
  <2>1. p \in Processes /\ queue \in [Processes -> Seq(Claims)]
    BY <1>1, StoreTypes DEF LockInv, ClaimsHaveProcess, TypeOK
  <2>2. CASE claim[c].at = "retrying"
    BY <2>1, <2>2 DEF Opens
  <2>3. CASE claim[c].at = "queued"
    <3>1. queue' = [queue EXCEPT ![p] = Tail(queue[p])]
      BY <2>3 DEF Opens
    <3>2. queue[p] \in Seq(Claims) /\ queue[p] /= <<>>
      BY <2>1, <2>3 DEF StoreInv, QueuedStandInQueue
    <3>3. Tail(queue[p]) \in Seq(Claims)
      BY <3>2
    <3>. QED BY <2>1, <3>1, <3>3
  <2>. QED BY <1>1, <2>2, <2>3
<1>5. \A d \in Claims : d /= c /\ claim[d].at = "queued" =>
        \E i \in DOMAIN queue'[claim[d].process] : queue'[claim[d].process][i] = d
  <2>. DEFINE p == claim[c].process
  <2>1. p \in Processes /\ queue \in [Processes -> Seq(Claims)]
    BY <1>1, StoreTypes DEF LockInv, ClaimsHaveProcess, TypeOK
  <2>2. CASE claim[c].at = "retrying"
    BY <2>1, <2>2 DEF Opens, StoreInv, QueuedStandInQueue
  <2>3. CASE claim[c].at = "queued"
    <3>1. queue' = [queue EXCEPT ![p] = Tail(queue[p])] /\ Head(queue[p]) = c
      BY <2>3 DEF Opens, IsNext
    <3>2. queue[p] \in Seq(Claims) /\ queue[p] /= <<>>
      BY <2>1, <2>3 DEF StoreInv, QueuedStandInQueue
    <3>4. ASSUME NEW d \in Claims, d /= c, claim[d].at = "queued"
          PROVE  \E i \in DOMAIN queue'[claim[d].process] : queue'[claim[d].process][i] = d
      <4>1. PICK i \in DOMAIN queue[claim[d].process] : queue[claim[d].process][i] = d
        BY <3>4 DEF StoreInv, QueuedStandInQueue
      <4>2. CASE claim[d].process /= p
        BY <2>1, <3>1, <3>4, <4>1, <4>2 DEF LockInv, ClaimsHaveProcess
      <4>3. CASE claim[d].process = p
        <5>1. i /= 1 /\ i \in DOMAIN queue[p] /\ queue[p][i] = d
          BY <3>1, <3>2, <3>4, <4>1, <4>3
        <5>2. i \in 1..Len(queue[p]) /\ i - 1 \in 1..(Len(queue[p]) - 1)
          BY <3>2, <5>1
        <5>3. i - 1 \in DOMAIN Tail(queue[p]) /\ Tail(queue[p])[i - 1] = queue[p][i]
          BY <3>2, <5>2
        <5>. QED BY <2>1, <3>1, <4>3, <5>1, <5>3
      <4>. QED BY <4>2, <4>3
    <3>. QED BY <3>4
  <2>. QED BY <1>1, <2>2, <2>3
<1>6. StoreTypeOK'
  <2>1. \A d \in Claims : change[d].at /= "idle" => claim'[d].at = "working"
    BY <1>1, <1>2, <1>3, StoreTypes
  <2>. QED BY <1>3, <1>4, <2>1, StoreTypes DEF StoreTypeOK, ChangeRecords
<1>7. QueuedStandInQueue'
  BY <1>1, <1>2, <1>5 DEF QueuedStandInQueue
<1>8. ResultsComeLast'
  BY <1>1, <1>2, <1>3 DEF StoreInv, ResultsComeLast
<1>9. MadeInv'
  <2>1. \A d \in Claims : Unmade(d)' => Unmade(d)
    BY <1>1, <1>2, <1>3 DEF Unmade
  <2>2. made' = made /\ Kept' = Kept
    BY <1>3 DEF made, Kept
  <2>3. \A d \in Claims : change[d].kind = "touch" => d \notin change[d].store
    BY DEF StoreInv, MadeInv, TouchesMakeNothing
  <2>. QED BY <1>2, <1>3, <2>1, <2>2, <2>3, NothingIsMade DEF StoreInv
<1>10. CarriesItself'
  BY <1>1, <1>2, <1>3 DEF StoreInv, CarriesItself
<1>11. ReadUnderLock'
  BY <1>2, <1>3 DEF StoreInv, ReadUnderLock
<1>12. NewHaveNoProcess'
  BY <1>1, <1>2 DEF StoreInv, NewHaveNoProcess
<1>13. Serves
  <2>1. \A d \in Claims : claim'[d].at = "none" <=> claim[d].at = "none"
    BY <1>1, <1>2
  <2>2. made' = made
    BY <1>3 DEF made
  <2>. QED BY <1>2, <1>3, <2>1, <2>2, NothingIsSeen
<1>. QED BY <1>1, <1>6, <1>7, <1>8, <1>9, <1>10, <1>11, <1>12, <1>13 DEF StoreInv, TypeOK

\* A claim gives up, or cannot write its payload, and its change fails.
LEMMA FailsKeeps ==
  ASSUME TypeOK, LockInv, StoreInv, NEW c \in Claims, Fails(c)
  PROVE  TypeOK' /\ LockInv' /\ StoreInv' /\ Serves
<1>1. /\ LockTypeOK' /\ LockInv' /\ OthersStay({c})
      /\ claim[c].at \in {"retrying", "creating"} /\ claim'[c].at = "over"
  BY TimesOutKeeps, CreateFailsKeeps DEF Fails, TimesOut, CreateFails, TypeOK
<1>2. /\ causes' = {} => causes = {}
      /\ \A d \in Claims \ {c} : claim'[d].at = claim[d].at /\ claim'[d].process = claim[d].process
  BY <1>1 DEF OthersStay
<1>3. /\ StoreTypeOK
      /\ file' = file /\ Content' = Content /\ serialized' = serialized
      /\ queue' = queue /\ past' = past
  BY DEF Fails, Content, TypeOK
<1>4. /\ change' \in [Claims -> ChangeRecords]
      /\ \A d \in Claims : d /= c => change'[d] = change[d]
      /\ change'[c].kind = change[c].kind
      /\ change'[c].at = change[c].at
      /\ change'[c].store = {} /\ change'[c].result = "failed"
  <2>. DEFINE nothing == {}
  <2>1. change' = [change EXCEPT ![c].store = nothing, ![c].result = "failed"]
    BY DEF Fails
  <2>2. nothing \in Contents /\ change \in [Claims -> ChangeRecords]
    BY <1>3, StoreTypes DEF Contents
  <2>. HIDE DEF nothing
  <2>3. /\ change' \in [Claims -> ChangeRecords]
        /\ \A d \in Claims : d /= c => change'[d] = change[d]
        /\ change'[c].kind = change[c].kind
        /\ change'[c].at = change[c].at
        /\ change'[c].store = nothing
        /\ change'[c].result = "failed"
    BY <2>1, <2>2, ChangeFails
  <2>. QED BY <2>3 DEF nothing
<1>5. change[c].at = "idle" /\ change[c].result = "none"
  BY <1>1, StoreTypes DEF StoreInv, ResultsComeLast, TypeOK
<1>6. StoreTypeOK'
  <2>1. ASSUME NEW d \in Claims, change'[d].at /= "idle"
        PROVE  claim'[d].at = "working"
    <3>1. CASE d = c
      BY <1>1, <1>2, <1>3, <1>4, <2>1, <3>1, StoreTypes
    <3>2. CASE d /= c
      <4>1. change[d].at /= "idle"
        BY <1>4, <2>1, <3>2
      <4>2. claim[d].at = "working"
        BY <1>3, <4>1, StoreTypes
      <4>. QED BY <1>2, <3>2, <4>2
    <3>. QED BY <3>1, <3>2
  <2>. QED BY <1>3, <1>4, <1>5, <2>1, StoreTypes DEF StoreTypeOK, ChangeRecords
<1>7. QueuedStandInQueue'
  BY <1>1, <1>2, <1>3 DEF StoreInv, QueuedStandInQueue
<1>8. ResultsComeLast'
  BY <1>1, <1>2, <1>4 DEF StoreInv, ResultsComeLast
<1>9. MadeInv'
  <2>1. \A d \in Claims : Unmade(d)' => Unmade(d)
    BY <1>1, <1>2, <1>3, <1>4, <1>5 DEF Unmade
  <2>2. made' = made /\ Kept' \subseteq Kept
    BY <1>3, <1>4, <1>5 DEF made, Kept
  <2>3. \A d \in Claims : /\ change'[d].store \subseteq change[d].store
                          /\ change'[d].kind = "touch" => d \notin change'[d].store
    BY <1>4 DEF StoreInv, MadeInv, TouchesMakeNothing
  <2>. QED BY <1>2, <1>3, <2>1, <2>2, <2>3, NothingIsMade DEF StoreInv
<1>10. CarriesItself'
  BY <1>1, <1>2, <1>4, <1>5 DEF StoreInv, CarriesItself
<1>11. ReadUnderLock'
  BY <1>1, <1>2, <1>3, <1>4, <1>5, StoreTypes DEF StoreInv, ReadUnderLock
<1>12. NewHaveNoProcess'
  BY <1>1, <1>2 DEF StoreInv, NewHaveNoProcess
<1>13. Serves
  <2>1. c \notin made
    BY <1>1, <1>3, <1>5 DEF StoreInv, MadeInv, UnmadeIsNowhere, Unmade
  <2>2. made' = made
    BY <1>3 DEF made
  <2>. QED BY <1>1, <1>4, <1>5, <2>1, <2>2, Answered
<1>. QED BY <1>1, <1>6, <1>7, <1>8, <1>9, <1>10, <1>11, <1>12, <1>13 DEF StoreInv, TypeOK

\* A change begins under the lock: unless it is a save, it reads the store.
LEMMA BeginsKeeps ==
  ASSUME TypeOK, LockInv, StoreInv, NEW c \in Claims, Begins(c)
  PROVE  TypeOK' /\ LockInv' /\ StoreInv' /\ Serves
<1>1. /\ LockTypeOK' /\ LockInv' /\ OthersStay({c})
      /\ claim[c].at = "creating" /\ claim'[c].at = "working" /\ claim[c].process \in Processes
  BY AcquiresKeeps DEF Begins, Acquires, TypeOK, LockInv, ClaimsHaveProcess
<1>2. /\ causes' = {} => causes = {}
      /\ \A d \in Claims \ {c} : claim'[d].at = claim[d].at /\ claim'[d].process = claim[d].process
  BY <1>1 DEF OthersStay
<1>3. /\ StoreTypeOK
      /\ file' = file /\ Content' = Content /\ queue' = queue /\ past' = past
  BY DEF Begins, Content, TypeOK
<1>4. /\ change' \in [Claims -> ChangeRecords]
      /\ \A d \in Claims : d /= c => change'[d] = change[d]
      /\ change'[c].kind = change[c].kind
      /\ change'[c].result = change[c].result
      /\ \/ change[c].kind = "save" /\ change'[c].at = "saving" /\ change'[c].store = change[c].store
         \/ change[c].kind /= "save" /\ change'[c].at = "mutating" /\ change'[c].store = Content
  <2>. DEFINE store == Content
  <2>1. store \in Contents
    BY <1>3, StoreTypes
  <2>2. CASE change[c].kind = "save"
    <3>1. change' = [change EXCEPT ![c].at = "saving"]
      BY <2>2 DEF Begins
    <3>. QED BY <1>3, <2>2, <3>1, StoreTypes DEF ChangeRecords
  <2>3. CASE change[c].kind /= "save"
    <3>1. change' = [change EXCEPT ![c].at = "mutating", ![c].store = store]
      BY <2>3 DEF Begins
    <3>. HIDE DEF store
    <3>2. change \in [Claims -> ChangeRecords]
      BY <1>3, StoreTypes
    <3>3. /\ change' \in [Claims -> ChangeRecords]
          /\ \A d \in Claims : d /= c => change'[d] = change[d]
          /\ change'[c].kind = change[c].kind /\ change'[c].result = change[c].result
          /\ change'[c].at = "mutating" /\ change'[c].store = store
      BY <2>1, <3>1, <3>2, ChangeMoves
    <3>. QED BY <2>3, <3>3 DEF store
  <2>. QED BY <2>2, <2>3
<1>5. /\ serialized' \in [Processes -> Contents \cup {None}]
      /\ \A q \in Processes : serialized'[q] = serialized[q] \/ serialized'[q] = file
  <2>1. serialized' = serialized \/ serialized' = [serialized EXCEPT ![claim[c].process] = file]
    BY DEF Begins
  <2>. QED BY <1>1, <1>3, <2>1, StoreTypes
<1>6. StoreTypeOK'
  <2>1. ASSUME NEW d \in Claims, change'[d].at /= "idle"
        PROVE  claim'[d].at = "working"
    <3>1. CASE d = c
      BY <1>1, <1>2, <1>3, <1>4, <2>1, <3>1, StoreTypes
    <3>2. CASE d /= c
      <4>1. change[d].at /= "idle"
        BY <1>4, <2>1, <3>2
      <4>2. claim[d].at = "working"
        BY <1>3, <4>1, StoreTypes
      <4>. QED BY <1>2, <3>2, <4>2
    <3>. QED BY <3>1, <3>2
  <2>. QED BY <1>3, <1>4, <1>5, <2>1, StoreTypes DEF StoreTypeOK, ChangeRecords
<1>7. QueuedStandInQueue'
  BY <1>1, <1>2, <1>3 DEF StoreInv, QueuedStandInQueue
<1>8. ResultsComeLast'
  BY <1>1, <1>2, <1>4 DEF StoreInv, ResultsComeLast
<1>9. MadeInv'
  <2>1. change[c].result = "none" /\ change[c].at = "idle"
    BY <1>1, <1>3, StoreTypes DEF StoreInv, ResultsComeLast
  <2>2. \A d \in Claims : Unmade(d)' => Unmade(d)
    BY <1>1, <1>2, <1>4, <2>1 DEF Unmade
  <2>3. c \notin made /\ Content \subseteq made
    BY <1>1, <2>1 DEF StoreInv, MadeInv, UnmadeIsNowhere, Unmade, made
  <2>4. made' = made /\ Kept' \subseteq Kept
    BY <1>3, <1>4 DEF made, Kept
  <2>5. \A d \in Claims : /\ change'[d].store \subseteq change[d].store \cup Content
                          /\ change'[d].kind = "touch" => d \notin change'[d].store
    BY <1>4, <2>3 DEF StoreInv, MadeInv, TouchesMakeNothing
  <2>. QED BY <1>2, <1>3, <1>5, <2>2, <2>4, <2>5, NothingIsMade DEF StoreInv
<1>10. CarriesItself'
  BY <1>1, <1>2, <1>4 DEF StoreInv, CarriesItself
<1>11. ReadUnderLock'
  BY <1>1, <1>2, <1>3, <1>4, StoreTypes DEF StoreInv, ReadUnderLock
<1>12. NewHaveNoProcess'
  BY <1>1, <1>2 DEF StoreInv, NewHaveNoProcess
<1>13. Serves
  <2>1. \A d \in Claims : claim'[d].at = "none" <=> claim[d].at = "none"
    BY <1>1, <1>2
  <2>2. made' = made
    BY <1>3 DEF made
  <2>. QED BY <1>2, <1>4, <2>1, <2>2, NothingIsSeen
<1>. QED BY <1>1, <1>6, <1>7, <1>8, <1>9, <1>10, <1>11, <1>12, <1>13 DEF StoreInv, TypeOK

\* The mutator changes the store in hand.
LEMMA MutatesKeeps ==
  ASSUME TypeOK, LockInv, StoreInv, NEW c \in Claims, Mutates(c)
  PROVE  TypeOK' /\ LockInv' /\ StoreInv' /\ Serves
<1>1. /\ LockTypeOK' /\ LockInv'
      /\ claim' = claim /\ causes' = causes
  BY DEF Mutates, lockVars, TypeOK, LockTypeOK, LockInv, LivesAreFaults, ClaimsHaveProcess,
     FileOfCreator, JudgedIsStale, StaleFile, Stale, HeldByWorker, OneUnderWay, OwnersOwn,
     ForcedByWatchdog, LockFileHasOwner, Exists, Alive
<1>2. /\ StoreTypeOK
      /\ claim[c].at = "working" /\ change[c].at = "mutating"
      /\ file' = file /\ Content' = Content /\ serialized' = serialized
      /\ queue' = queue /\ past' = past
  BY DEF Mutates, Content, TypeOK
<1>3. /\ change' \in [Claims -> ChangeRecords]
      /\ \A d \in Claims : d /= c => change'[d] = change[d]
      /\ change'[c].kind = change[c].kind
      /\ change'[c].result = change[c].result /\ change'[c].at = "saving"
      /\ change'[c].store = IF change[c].kind = "touch" THEN change[c].store
                            ELSE change[c].store \cup {c}
  <2>. DEFINE store == IF change[c].kind = "touch" THEN change[c].store ELSE change[c].store \cup {c}
  <2>1. change' = [change EXCEPT ![c].at = "saving", ![c].store = store]
    BY DEF Mutates
  <2>2. store \in Contents
    BY <1>2, StoreTypes DEF Contents
  <2>. HIDE DEF store
  <2>3. change \in [Claims -> ChangeRecords]
    BY <1>2, StoreTypes
  <2>4. /\ change' \in [Claims -> ChangeRecords]
        /\ \A d \in Claims : d /= c => change'[d] = change[d]
        /\ change'[c].kind = change[c].kind /\ change'[c].result = change[c].result
        /\ change'[c].at = "saving" /\ change'[c].store = store
    BY <2>1, <2>2, <2>3, ChangeMoves
  <2>. QED BY <2>4 DEF store
<1>4. StoreTypeOK'
  <2>1. \A d \in Claims : change'[d].at /= "idle" => claim'[d].at = "working"
    BY <1>1, <1>2, <1>3, StoreTypes
  <2>. QED BY <1>1, <1>2, <1>3, <2>1, StoreTypes DEF StoreTypeOK, ChangeRecords
<1>5. QueuedStandInQueue'
  BY <1>1, <1>2, <1>3, StoreTypes DEF StoreInv, QueuedStandInQueue
<1>6. ResultsComeLast'
  BY <1>1, <1>2, <1>3 DEF StoreInv, ResultsComeLast
<1>7. MadeInv'
  <2>1. \A d \in Claims : Unmade(d)' => Unmade(d)
    BY <1>1, <1>2, <1>3 DEF Unmade
  <2>2. made' = made /\ Kept' = Kept
    BY <1>2, <1>3 DEF made, Kept
  <2>3. \A d \in Claims : /\ change'[d].store \subseteq change[d].store \cup {d}
                          /\ change'[d].kind = "touch" => d \notin change'[d].store
    BY <1>3 DEF StoreInv, MadeInv, TouchesMakeNothing
  <2>. QED BY <1>1, <1>2, <2>1, <2>2, <2>3, NothingIsMade DEF StoreInv
<1>8. CarriesItself'
  BY <1>1, <1>2, <1>3, StoreTypes DEF StoreInv, CarriesItself
<1>9. ReadUnderLock'
  BY <1>1, <1>2, <1>3, StoreTypes DEF StoreInv, ReadUnderLock
<1>10. NewHaveNoProcess'
  BY <1>1 DEF StoreInv, NewHaveNoProcess
<1>11. Serves
  <2>1. \A d \in Claims : claim'[d].at = "none" <=> claim[d].at = "none"
    BY <1>1
  <2>2. made' = made
    BY <1>2 DEF made
  <2>. QED BY <1>1, <1>3, <2>1, <2>2, NothingIsSeen
<1>. QED BY <1>1, <1>4, <1>5, <1>6, <1>7, <1>8, <1>9, <1>10, <1>11 DEF StoreInv, TypeOK

\* The mutator throws: the lock is released, and the change fails.
LEMMA MutatorThrowsKeeps ==
  ASSUME TypeOK, LockInv, StoreInv, NEW c \in Claims, MutatorThrows(c)
  PROVE  TypeOK' /\ LockInv' /\ StoreInv' /\ Serves
<1>1. /\ LockTypeOK' /\ LockInv' /\ OthersStay({c})
      /\ claim[c].at = "working" /\ claim'[c].at \in {"unlinking", "over"}
  BY ReleasesKeeps DEF MutatorThrows, TypeOK
<1>2. /\ causes' = {} => causes = {}
      /\ \A d \in Claims \ {c} : claim'[d].at = claim[d].at /\ claim'[d].process = claim[d].process
  BY <1>1 DEF OthersStay
<1>3. /\ StoreTypeOK
      /\ file' = file /\ Content' = Content /\ serialized' = serialized
      /\ queue' = queue /\ past' = past
      /\ change[c].at = "mutating"
  BY DEF MutatorThrows, Content, TypeOK
<1>4. /\ change' \in [Claims -> ChangeRecords]
      /\ \A d \in Claims : d /= c => change'[d] = change[d]
      /\ change'[c].kind = change[c].kind
      /\ change'[c].at = "idle"
      /\ change'[c].store = {} /\ change'[c].result = "failed"
  <2>. DEFINE nothing == {}
  <2>1. change' = [change EXCEPT ![c].at = "idle", ![c].store = nothing, ![c].result = "failed"]
    BY DEF MutatorThrows
  <2>2. nothing \in Contents /\ change \in [Claims -> ChangeRecords]
    BY <1>3, StoreTypes DEF Contents
  <2>. HIDE DEF nothing
  <2>3. /\ change' \in [Claims -> ChangeRecords]
        /\ \A d \in Claims : d /= c => change'[d] = change[d]
        /\ change'[c].kind = change[c].kind
        /\ change'[c].at = "idle"
        /\ change'[c].store = nothing
        /\ change'[c].result = "failed"
    BY <2>1, <2>2, ChangeGivenUp
  <2>. QED BY <2>3 DEF nothing
<1>5. change[c].result = "none"
  BY <1>1, StoreTypes DEF StoreInv, ResultsComeLast, TypeOK
<1>6. StoreTypeOK'
  <2>1. ASSUME NEW d \in Claims, change'[d].at /= "idle"
        PROVE  claim'[d].at = "working"
    <3>1. CASE d = c
      BY <1>1, <1>2, <1>3, <1>4, <2>1, <3>1, StoreTypes
    <3>2. CASE d /= c
      <4>1. change[d].at /= "idle"
        BY <1>4, <2>1, <3>2
      <4>2. claim[d].at = "working"
        BY <1>3, <4>1, StoreTypes
      <4>. QED BY <1>2, <3>2, <4>2
    <3>. QED BY <3>1, <3>2
  <2>. QED BY <1>3, <1>4, <1>5, <2>1, StoreTypes DEF StoreTypeOK, ChangeRecords
<1>7. QueuedStandInQueue'
  BY <1>1, <1>2, <1>3 DEF StoreInv, QueuedStandInQueue
<1>8. ResultsComeLast'
  BY <1>1, <1>2, <1>4 DEF StoreInv, ResultsComeLast
<1>9. MadeInv'
  <2>1. \A d \in Claims : Unmade(d)' => Unmade(d)
    BY <1>1, <1>2, <1>3, <1>4, <1>5 DEF Unmade
  <2>2. made' = made /\ Kept' \subseteq Kept
    BY <1>3, <1>4, <1>5 DEF made, Kept
  <2>3. \A d \in Claims : /\ change'[d].store \subseteq change[d].store
                          /\ change'[d].kind = "touch" => d \notin change'[d].store
    BY <1>4 DEF StoreInv, MadeInv, TouchesMakeNothing
  <2>. QED BY <1>2, <1>3, <2>1, <2>2, <2>3, NothingIsMade DEF StoreInv
<1>10. CarriesItself'
  BY <1>1, <1>2, <1>4 DEF StoreInv, CarriesItself
<1>11. ReadUnderLock'
  BY <1>1, <1>2, <1>3, <1>4, StoreTypes DEF StoreInv, ReadUnderLock
<1>12. NewHaveNoProcess'
  BY <1>1, <1>2 DEF StoreInv, NewHaveNoProcess
<1>13. Serves
  <2>1. c \notin made
    BY <1>1, <1>3, <1>5 DEF StoreInv, MadeInv, UnmadeIsNowhere, Unmade
  <2>2. made' = made
    BY <1>3 DEF made
  <2>. QED BY <1>1, <1>4, <1>5, <2>1, <2>2, Answered
<1>. QED BY <1>1, <1>6, <1>7, <1>8, <1>9, <1>10, <1>11, <1>12, <1>13 DEF StoreInv, TypeOK

\* The store cannot be written: the lock is released, and the change fails.
LEMMA SaveThrowsKeeps ==
  ASSUME TypeOK, LockInv, StoreInv, NEW c \in Claims, SaveThrows(c)
  PROVE  TypeOK' /\ LockInv' /\ StoreInv' /\ Serves
<1>1. /\ LockTypeOK' /\ LockInv' /\ OthersStay({c})
      /\ claim[c].at = "working" /\ claim'[c].at \in {"unlinking", "over"}
  BY ReleasesKeeps DEF SaveThrows, TypeOK
<1>2. /\ causes' = {} => causes = {}
      /\ \A d \in Claims \ {c} : claim'[d].at = claim[d].at /\ claim'[d].process = claim[d].process
  BY <1>1 DEF OthersStay
<1>3. /\ StoreTypeOK
      /\ file' = file /\ Content' = Content /\ serialized' = serialized
      /\ queue' = queue /\ past' = past
      /\ change[c].at \in {"saving", "rotated"}
  BY DEF SaveThrows, Content, TypeOK
<1>4. /\ change' \in [Claims -> ChangeRecords]
      /\ \A d \in Claims : d /= c => change'[d] = change[d]
      /\ change'[c].kind = change[c].kind
      /\ change'[c].at = "idle"
      /\ change'[c].store = {} /\ change'[c].result = "failed"
  <2>. DEFINE nothing == {}
  <2>1. change' = [change EXCEPT ![c].at = "idle", ![c].store = nothing, ![c].result = "failed"]
    BY DEF SaveThrows
  <2>2. nothing \in Contents /\ change \in [Claims -> ChangeRecords]
    BY <1>3, StoreTypes DEF Contents
  <2>. HIDE DEF nothing
  <2>3. /\ change' \in [Claims -> ChangeRecords]
        /\ \A d \in Claims : d /= c => change'[d] = change[d]
        /\ change'[c].kind = change[c].kind
        /\ change'[c].at = "idle"
        /\ change'[c].store = nothing
        /\ change'[c].result = "failed"
    BY <2>1, <2>2, ChangeGivenUp
  <2>. QED BY <2>3 DEF nothing
<1>5. change[c].result = "none"
  BY <1>1, StoreTypes DEF StoreInv, ResultsComeLast, TypeOK
<1>6. StoreTypeOK'
  <2>1. ASSUME NEW d \in Claims, change'[d].at /= "idle"
        PROVE  claim'[d].at = "working"
    <3>1. CASE d = c
      BY <1>1, <1>2, <1>3, <1>4, <2>1, <3>1, StoreTypes
    <3>2. CASE d /= c
      <4>1. change[d].at /= "idle"
        BY <1>4, <2>1, <3>2
      <4>2. claim[d].at = "working"
        BY <1>3, <4>1, StoreTypes
      <4>. QED BY <1>2, <3>2, <4>2
    <3>. QED BY <3>1, <3>2
  <2>. QED BY <1>3, <1>4, <1>5, <2>1, StoreTypes DEF StoreTypeOK, ChangeRecords
<1>7. QueuedStandInQueue'
  BY <1>1, <1>2, <1>3 DEF StoreInv, QueuedStandInQueue
<1>8. ResultsComeLast'
  BY <1>1, <1>2, <1>4 DEF StoreInv, ResultsComeLast
<1>9. MadeInv'
  <2>1. \A d \in Claims : Unmade(d)' => Unmade(d)
    BY <1>1, <1>2, <1>3, <1>4, <1>5 DEF Unmade
  <2>2. made' = made /\ Kept' \subseteq Kept
    BY <1>3, <1>4, <1>5 DEF made, Kept
  <2>3. \A d \in Claims : /\ change'[d].store \subseteq change[d].store
                          /\ change'[d].kind = "touch" => d \notin change'[d].store
    BY <1>4 DEF StoreInv, MadeInv, TouchesMakeNothing
  <2>. QED BY <1>2, <1>3, <2>1, <2>2, <2>3, NothingIsMade DEF StoreInv
<1>10. CarriesItself'
  BY <1>1, <1>2, <1>4 DEF StoreInv, CarriesItself
<1>11. ReadUnderLock'
  BY <1>1, <1>2, <1>3, <1>4, StoreTypes DEF StoreInv, ReadUnderLock
<1>12. NewHaveNoProcess'
  BY <1>1, <1>2 DEF StoreInv, NewHaveNoProcess
<1>13. Serves
  <2>1. c \notin made
    BY <1>1, <1>3, <1>5 DEF StoreInv, MadeInv, UnmadeIsNowhere, Unmade
  <2>2. made' = made
    BY <1>3 DEF made
  <2>. QED BY <1>1, <1>4, <1>5, <2>1, <2>2, Answered
<1>. QED BY <1>1, <1>6, <1>7, <1>8, <1>9, <1>10, <1>11, <1>12, <1>13 DEF StoreInv, TypeOK

\* The file is renamed: its content is only in a backup.
LEMMA RotatesKeeps ==
  ASSUME TypeOK, LockInv, StoreInv, NEW c \in Claims, Rotates(c)
  PROVE  TypeOK' /\ LockInv' /\ StoreInv' /\ Serves
<1>1. /\ LockTypeOK' /\ LockInv'
      /\ claim' = claim /\ causes' = causes
  BY DEF Rotates, lockVars, TypeOK, LockTypeOK, LockInv, LivesAreFaults, ClaimsHaveProcess,
     FileOfCreator, JudgedIsStale, StaleFile, Stale, HeldByWorker, OneUnderWay, OwnersOwn,
     ForcedByWatchdog, LockFileHasOwner, Exists, Alive
<1>2. /\ StoreTypeOK
      /\ claim[c].at = "working" /\ change[c].at = "saving" /\ file /= None
      /\ file' = None /\ Content' = {} /\ serialized' = serialized /\ queue' = queue
  BY DEF Rotates, Content, TypeOK
<1>3. /\ change' \in [Claims -> ChangeRecords]
      /\ \A d \in Claims : d /= c => change'[d] = change[d]
      /\ change'[c].kind = change[c].kind
      /\ change'[c].result = change[c].result /\ change'[c].at = "rotated"
      /\ change'[c].store = change[c].store
  <2>1. change' = [change EXCEPT ![c].at = "rotated"]
    BY DEF Rotates
  <2>. QED BY <1>2, <2>1, StoreTypes DEF ChangeRecords
<1>4. /\ past' \in [rotations : 0..MaxRotations, lost : Contents]
      /\ past'.lost = past.lost \cup Content
  <2>1. /\ past' = [rotations |-> past.rotations + 1, lost |-> past.lost \cup file]
        /\ past.rotations < MaxRotations
    BY DEF Rotates
  <2>2. past.rotations + 1 \in 0..MaxRotations
    BY <1>2, <2>1, StoreTypes, StoreAssumption
  <2>3. past.lost \cup file \in Contents /\ Content = file
    BY <1>2, StoreTypes DEF Contents
  <2>. QED BY <2>1, <2>2, <2>3
<1>5. StoreTypeOK'
  <2>1. \A d \in Claims : change'[d].at /= "idle" => claim'[d].at = "working"
    BY <1>1, <1>2, <1>3, <1>4, StoreTypes
  <2>. QED BY <1>1, <1>2, <1>3, <1>4, <2>1, StoreTypes DEF StoreTypeOK, ChangeRecords
<1>6. QueuedStandInQueue'
  BY <1>1, <1>2, <1>3, <1>4, StoreTypes DEF StoreInv, QueuedStandInQueue
<1>7. ResultsComeLast'
  BY <1>1, <1>2, <1>3, <1>4, StoreTypes DEF StoreInv, ResultsComeLast
<1>8. MadeInv'
  <2>1. \A d \in Claims : Unmade(d)' => Unmade(d)
    BY <1>1, <1>2, <1>3 DEF Unmade
  <2>2. made' = made /\ Kept' = Kept
    BY <1>2, <1>3, <1>4 DEF made, Kept
  <2>3. \A d \in Claims : /\ change'[d].store = change[d].store
                          /\ change'[d].kind = "touch" => d \notin change'[d].store
    BY <1>3 DEF StoreInv, MadeInv, TouchesMakeNothing
  <2>. QED BY <1>1, <1>2, <2>1, <2>2, <2>3, NothingIsMade DEF StoreInv
<1>9. CarriesItself'
  BY <1>1, <1>2, <1>3, <1>4, StoreTypes DEF StoreInv, CarriesItself
<1>10. ReadUnderLock'
  BY <1>1, <1>2, <1>3, <1>4, StoreTypes DEF StoreInv, ReadUnderLock
<1>11. NewHaveNoProcess'
  BY <1>1 DEF StoreInv, NewHaveNoProcess
<1>12. Serves
  <2>1. \A d \in Claims : claim'[d].at = "none" <=> claim[d].at = "none"
    BY <1>1
  <2>2. made' = made
    BY <1>2, <1>4 DEF made
  <2>. QED BY <1>1, <1>3, <2>1, <2>2, NothingIsSeen
<1>. QED BY <1>1, <1>5, <1>6, <1>7, <1>8, <1>9, <1>10, <1>11, <1>12 DEF StoreInv, TypeOK

\* The store in hand is made, in the file or among what is lost, and the change is saved.
LEMMA SavedKeeps ==
  ASSUME TypeOK, LockInv, StoreInv, NEW c \in Claims, UNCHANGED <<lockVars, queue>>,
         claim[c].at = "working", change[c].at \in {"saving", "rotated"},
         /\ change' \in [Claims -> ChangeRecords]
         /\ \A d \in Claims : d /= c => change'[d] = change[d]
         /\ change'[c].kind = change[c].kind
         /\ change'[c].result = change[c].result /\ change'[c].at = "saved"
         /\ change'[c].store = {},
         file' \in Contents \cup {None}, past' \in [rotations : 0..MaxRotations, lost : Contents],
         serialized' \in [Processes -> Contents \cup {None}],
         \A q \in Processes : serialized'[q] = serialized[q] \/ serialized'[q] = change[c].store,
         made' \subseteq made \cup change[c].store,
         causes = {} => made' = made \cup (IF change[c].kind = "touch" THEN {} ELSE {c})
  PROVE  TypeOK' /\ LockInv' /\ StoreInv' /\ Serves
<1>1. /\ LockTypeOK' /\ LockInv'
      /\ claim' = claim /\ causes' = causes
  BY DEF lockVars, TypeOK, LockTypeOK, LockInv, LivesAreFaults, ClaimsHaveProcess,
     FileOfCreator, JudgedIsStale, StaleFile, Stale, HeldByWorker, OneUnderWay, OwnersOwn,
     ForcedByWatchdog, LockFileHasOwner, Exists, Alive
<1>2. /\ StoreTypeOK
      /\ claim[c].at = "working" /\ change[c].at \in {"saving", "rotated"}
      /\ claim[c].process \in Processes
      /\ queue' = queue
  BY DEF TypeOK, LockInv, ClaimsHaveProcess
<1>3. change[c].result = "none" /\ (change[c].kind = "touch" => c \notin change[c].store)
      /\ (change[c].kind /= "touch" => c \in change[c].store)
  BY <1>2, StoreTypes DEF StoreInv, ResultsComeLast, CarriesItself, MadeInv, TouchesMakeNothing
<1>4. StoreTypeOK'
  <2>1. \A d \in Claims : change'[d].at /= "idle" => claim'[d].at = "working"
    BY <1>1, <1>2, StoreTypes
  <2>. QED BY <1>2, <2>1, StoreTypes DEF StoreTypeOK, ChangeRecords
<1>5. QueuedStandInQueue'
  BY <1>1, <1>2 DEF StoreInv, QueuedStandInQueue
<1>6. ResultsComeLast'
  BY <1>1 DEF StoreInv, ResultsComeLast
<1>7. UnmadeIsNowhere'
  <2>1. ASSUME NEW d \in Claims, Unmade(d)'
        PROVE  d /= c /\ Unmade(d) /\ d \notin change[c].store
    <3>1. d /= c
      BY <1>3, <2>1 DEF Unmade
    <3>2. Unmade(d)
      BY <1>1, <2>1, <3>1 DEF Unmade
    <3>. QED BY <3>1, <3>2 DEF StoreInv, MadeInv, UnmadeIsNowhere
  <2>2. ASSUME NEW d \in Claims, Unmade(d)'
        PROVE  /\ d \notin made'
               /\ \A p \in Processes : serialized'[p] /= None => d \notin serialized'[p]
               /\ \A e \in Claims : d /= e => d \notin change'[e].store
    <3>1. /\ d \notin made
          /\ \A p \in Processes : serialized[p] /= None => d \notin serialized[p]
          /\ \A e \in Claims : d /= e => d \notin change[e].store
      BY <2>1, <2>2 DEF StoreInv, MadeInv, UnmadeIsNowhere
    <3>2. d /= c /\ d \notin change[c].store
      BY <2>1, <2>2
    <3>. QED BY <3>1, <3>2
  <2>. QED BY <2>2 DEF UnmadeIsNowhere
<1>8. TouchesMakeNothing' /\ StoreInHand'
  BY <1>1 DEF StoreInv, MadeInv, TouchesMakeNothing, StoreInHand
<1>9. MadeIsKept'
  <2>1. Kept' \subseteq Kept \cup (IF change[c].kind = "touch" THEN {} ELSE {c})
    BY DEF Kept
  <2>. QED BY <1>1, <2>1 DEF StoreInv, MadeInv, MadeIsKept
<1>10. CarriesItself'
  BY <1>1, <1>2 DEF StoreInv, CarriesItself
<1>11. ReadUnderLock'
  <2>1. SUFFICES ASSUME causes' = {}, NEW d \in Claims, change'[d].at \in {"mutating", "saving", "rotated"}
                 PROVE  FALSE
    BY DEF ReadUnderLock
  <2>2. d /= c /\ change[d].at /= "idle"
    BY <2>1
  <2>3. claim[d].at = "working" /\ causes = {}
    BY <1>1, <1>2, <2>1, <2>2, StoreTypes
  <2>. QED BY <1>2, <2>2, <2>3, OnlyOne
<1>12. NewHaveNoProcess'
  BY <1>1 DEF StoreInv, NewHaveNoProcess
<1>13. Serves
  <2>1. /\ asked' = asked /\ answer' = answer /\ broken' = broken
        /\ Service!Pending(c)
    BY <1>1, <1>2, <1>3 DEF asked, answer, broken, Service!Pending
  <2>2. ~broken => made' = made \cup Service!Wanted(c)
    BY <1>2 DEF broken, Service!Wanted, asked
  <2>. QED BY <2>1, <2>2 DEF Serves, Service!Next, Service!Make, Service!Makes
<1>. QED BY <1>1, <1>3, <1>4, <1>5, <1>6, <1>7, <1>8, <1>9, <1>10, <1>11, <1>12, <1>13
         DEF StoreInv, MadeInv, TypeOK

\* The store in hand is written, unless it is the one that is cached.
LEMMA SavesKeeps ==
  ASSUME TypeOK, LockInv, StoreInv, NEW c \in Claims, Saves(c)
  PROVE  TypeOK' /\ LockInv' /\ StoreInv' /\ Serves
<1>1. /\ StoreTypeOK
      /\ claim[c].at = "working" /\ change[c].at \in {"saving", "rotated"}
      /\ claim[c].process \in Processes
  BY DEF Saves, TypeOK, LockInv, ClaimsHaveProcess
<1>2. /\ change[c].result = "none"
      /\ change[c].kind /= "touch" => c \in change[c].store
      /\ change[c].kind = "touch" => c \notin change[c].store
      /\ change[c].kind /= "save" /\ causes = {} => Content \subseteq change[c].store
      /\ causes = {} => change[c].store \subseteq made \cup {c}
  BY <1>1, StoreTypes DEF StoreInv, ResultsComeLast, CarriesItself, ReadUnderLock, MadeInv,
     TouchesMakeNothing, StoreInHand
<1>3. /\ serialized' \in [Processes -> Contents \cup {None}]
      /\ \A q \in Processes : serialized'[q] = serialized[q] \/ serialized'[q] = change[c].store
  <2>1. serialized' = [serialized EXCEPT ![claim[c].process] = change[c].store]
    BY DEF Saves
  <2>. QED BY <1>1, <2>1, StoreTypes
<1>4. Unchanged(c) => change[c].kind = "touch"
  BY <1>1, <1>2, StoreTypes DEF StoreInv, MadeInv, UnmadeIsNowhere, Unmade, Unchanged
<1>5. /\ file' \in Contents \cup {None}
      /\ past' \in [rotations : 0..MaxRotations, lost : Contents]
      /\ \/ Unchanged(c) /\ Content' = Content /\ past' = past /\ file' = file
         \/ /\ ~Unchanged(c) /\ Content' = change[c].store
            /\ past'.lost = (past.lost \cup (IF change[c].kind = "save" THEN Content \ change[c].store
                                             ELSE {})) \ change[c].store
  <2>. DEFINE store == change[c].store
              stale == IF change[c].kind = "save" THEN Content \ store ELSE {}
              lost == (past.lost \cup stale) \ store
  <2>1. CASE Unchanged(c)
    <3>1. file' = file /\ past' = past
      BY <2>1 DEF Saves
    <3>. QED BY <1>1, <2>1, <3>1, StoreTypes DEF Content
  <2>2. CASE ~Unchanged(c)
    <3>1. file' = store /\ past' = [past EXCEPT !.lost = lost]
      BY <2>2 DEF Saves
    <3>2. store \in Contents /\ lost \in Contents /\ store /= None
      BY <1>1, StoreTypes DEF Contents
    <3>3. Content' = store
      BY <3>1, <3>2 DEF Content
    <3>4. past' \in [rotations : 0..MaxRotations, lost : Contents] /\ past'.lost = lost
      <4>. HIDE DEF lost
      <4>. QED BY <1>1, <3>1, <3>2, StoreTypes
    <3>. QED BY <2>2, <3>1, <3>2, <3>3, <3>4
  <2>. QED BY <2>1, <2>2
<1>6. made' \subseteq made \cup change[c].store
  BY <1>5 DEF made
<1>7. causes = {} => made' = made \cup (IF change[c].kind = "touch" THEN {} ELSE {c})
  <2>1. CASE Unchanged(c)
    BY <1>4, <1>5, <2>1 DEF made
  <2>2. CASE ~Unchanged(c)
    <3>1. SUFFICES ASSUME causes = {}
                   PROVE  made' = made \cup (IF change[c].kind = "touch" THEN {} ELSE {c})
      OBVIOUS
    <3>2. made \cup change[c].store = made \cup (IF change[c].kind = "touch" THEN {} ELSE {c})
      BY <1>2, <3>1
    <3>3. made' = made \cup change[c].store
      BY <1>2, <1>5, <2>2, <3>1 DEF made
    <3>. QED BY <3>2, <3>3
  <2>. QED BY <2>1, <2>2
<1>8. /\ change' \in [Claims -> ChangeRecords]
      /\ \A d \in Claims : d /= c => change'[d] = change[d]
      /\ change'[c].kind = change[c].kind
      /\ change'[c].result = change[c].result /\ change'[c].at = "saved"
      /\ change'[c].store = {}
  <2>. DEFINE nothing == {}
  <2>1. change' = [change EXCEPT ![c].at = "saved", ![c].store = nothing]
    BY DEF Saves
  <2>2. nothing \in Contents /\ change \in [Claims -> ChangeRecords]
    BY <1>1, StoreTypes DEF Contents
  <2>. HIDE DEF nothing
  <2>3. /\ change' \in [Claims -> ChangeRecords]
        /\ \A d \in Claims : d /= c => change'[d] = change[d]
        /\ change'[c].kind = change[c].kind /\ change'[c].result = change[c].result
        /\ change'[c].at = "saved" /\ change'[c].store = nothing
    BY <2>1, <2>2, ChangeMoves
  <2>. QED BY <2>3 DEF nothing
<1>. QED BY <1>1, <1>8, <1>3, <1>5, <1>6, <1>7, SavedKeeps DEF Saves

\* No write succeeds, and none fails aloud: what is in hand is lost.
LEMMA SaveSkipsKeeps ==
  ASSUME TypeOK, LockInv, StoreInv, NEW c \in Claims, SaveSkips(c)
  PROVE  TypeOK' /\ LockInv' /\ StoreInv' /\ Serves
<1>1. /\ StoreTypeOK /\ UNCHANGED <<lockVars, queue>>
      /\ claim[c].at = "working" /\ change[c].at \in {"saving", "rotated"}
      /\ file' = file /\ Content' = Content /\ serialized' = serialized
  BY DEF SaveSkips, TypeOK, Content
<1>2. past' \in [rotations : 0..MaxRotations, lost : Contents]
      /\ past'.lost = past.lost \cup (change[c].store \ Content)
  <2>. DEFINE lost == past.lost \cup (change[c].store \ Content)
  <2>1. past' = [past EXCEPT !.lost = lost]
    BY DEF SaveSkips
  <2>2. lost \in Contents
    BY <1>1, StoreTypes DEF Contents
  <2>. HIDE DEF lost
  <2>3. past' \in [rotations : 0..MaxRotations, lost : Contents] /\ past'.lost = lost
    BY <1>1, <2>1, <2>2, StoreTypes
  <2>. QED BY <2>3 DEF lost
<1>3. made' = made \cup change[c].store
  BY <1>1, <1>2 DEF made
<1>4. /\ change[c].kind /= "touch" => c \in change[c].store
      /\ change[c].kind = "touch" => c \notin change[c].store
      /\ causes = {} => change[c].store \subseteq made \cup {c}
  BY <1>1, StoreTypes DEF StoreInv, CarriesItself, MadeInv, TouchesMakeNothing, StoreInHand
<1>5. causes = {} => made' = made \cup (IF change[c].kind = "touch" THEN {} ELSE {c})
  BY <1>3, <1>4
<1>6. /\ file' \in Contents \cup {None} /\ serialized' \in [Processes -> Contents \cup {None}]
      /\ \A q \in Processes : serialized'[q] = serialized[q]
  BY <1>1, StoreTypes
<1>7. /\ change' \in [Claims -> ChangeRecords]
      /\ \A d \in Claims : d /= c => change'[d] = change[d]
      /\ change'[c].kind = change[c].kind
      /\ change'[c].result = change[c].result /\ change'[c].at = "saved"
      /\ change'[c].store = {}
  <2>. DEFINE nothing == {}
  <2>1. change' = [change EXCEPT ![c].at = "saved", ![c].store = nothing]
    BY DEF SaveSkips
  <2>2. nothing \in Contents /\ change \in [Claims -> ChangeRecords]
    BY <1>1, StoreTypes DEF Contents
  <2>. HIDE DEF nothing
  <2>3. /\ change' \in [Claims -> ChangeRecords]
        /\ \A d \in Claims : d /= c => change'[d] = change[d]
        /\ change'[c].kind = change[c].kind /\ change'[c].result = change[c].result
        /\ change'[c].at = "saved" /\ change'[c].store = nothing
    BY <2>1, <2>2, ChangeMoves
  <2>. QED BY <2>3 DEF nothing
<1>. QED BY <1>7, <1>1, <1>2, <1>3, <1>5, <1>6, SavedKeeps

\* The store is written: the lock is released, and the caller is told.
LEMMA FinishesKeeps ==
  ASSUME TypeOK, LockInv, StoreInv, NEW c \in Claims, Finishes(c)
  PROVE  TypeOK' /\ LockInv' /\ StoreInv' /\ Serves
<1>1. /\ LockTypeOK' /\ LockInv' /\ OthersStay({c})
      /\ claim[c].at = "working" /\ claim'[c].at \in {"unlinking", "over"}
  BY ReleasesKeeps DEF Finishes, TypeOK
<1>2. /\ causes' = {} => causes = {}
      /\ \A d \in Claims \ {c} : claim'[d].at = claim[d].at /\ claim'[d].process = claim[d].process
  BY <1>1 DEF OthersStay
<1>3. /\ StoreTypeOK
      /\ file' = file /\ Content' = Content /\ serialized' = serialized
      /\ queue' = queue /\ past' = past
      /\ change[c].at = "saved"
  BY DEF Finishes, Content, TypeOK
<1>4. /\ change' \in [Claims -> ChangeRecords]
      /\ \A d \in Claims : d /= c => change'[d] = change[d]
      /\ change'[c].kind = change[c].kind /\ change'[c].store = change[c].store
      /\ change'[c].at = "idle" /\ change'[c].result = "ok"
  <2>1. change \in [Claims -> ChangeRecords]
    BY <1>3, StoreTypes
  <2>2. change' = [change EXCEPT ![c].at = "idle", ![c].result = "ok"]
    BY DEF Finishes
  <2>. QED BY <2>1, <2>2, ChangeMade
<1>5. StoreTypeOK'
  <2>1. ASSUME NEW d \in Claims, change'[d].at /= "idle"
        PROVE  claim'[d].at = "working"
    <3>1. d /= c /\ change[d].at /= "idle"
      BY <1>4, <2>1
    <3>2. claim[d].at = "working"
      BY <1>3, <3>1, StoreTypes
    <3>. QED BY <1>2, <3>1, <3>2
  <2>. QED BY <1>3, <1>4, <2>1, StoreTypes DEF StoreTypeOK, ChangeRecords
<1>6. QueuedStandInQueue'
  BY <1>1, <1>2, <1>3 DEF StoreInv, QueuedStandInQueue
<1>7. ResultsComeLast'
  BY <1>1, <1>2, <1>4 DEF StoreInv, ResultsComeLast
<1>8. MadeInv'
  <2>1. \A d \in Claims : Unmade(d)' => Unmade(d)
    BY <1>1, <1>2, <1>4 DEF Unmade
  <2>2. made' = made /\ Kept' \subseteq Kept
    BY <1>3, <1>4 DEF made, Kept
  <2>3. \A d \in Claims : /\ change'[d].store \subseteq change[d].store
                          /\ change'[d].kind = "touch" => d \notin change'[d].store
    BY <1>4 DEF StoreInv, MadeInv, TouchesMakeNothing
  <2>. QED BY <1>2, <1>3, <2>1, <2>2, <2>3, NothingIsMade DEF StoreInv
<1>9. CarriesItself'
  BY <1>1, <1>2, <1>4 DEF StoreInv, CarriesItself
<1>10. ReadUnderLock'
  BY <1>1, <1>2, <1>3, <1>4, StoreTypes DEF StoreInv, ReadUnderLock
<1>11. NewHaveNoProcess'
  BY <1>1, <1>2 DEF StoreInv, NewHaveNoProcess
<1>12. Serves
  <2>1. change[c].result = "none"
    BY <1>1, <1>3, StoreTypes DEF StoreInv, ResultsComeLast
  <2>2. causes = {} => change[c].kind = "touch" \/ c \in made
    BY <1>3 DEF StoreInv, MadeInv, MadeIsKept, Kept
  <2>3. made' = made
    BY <1>3 DEF made
  <2>. QED BY <1>1, <1>4, <2>1, <2>2, <2>3, Answered
<1>. QED BY <1>1, <1>5, <1>6, <1>7, <1>8, <1>9, <1>10, <1>11, <1>12 DEF StoreInv, TypeOK

\* The file of a lock that is released or taken away is removed.
LEMMA UnlinksStoreKeeps ==
  ASSUME TypeOK, LockInv, StoreInv, NEW c \in Claims, Unlinks(c), UNCHANGED storeVars
  PROVE  TypeOK' /\ LockInv' /\ StoreInv' /\ Serves
<1>1. /\ LockTypeOK' /\ LockInv' /\ OthersStay({c})
      /\ claim[c].at = "unlinking" /\ claim'[c].at = "over"
  BY UnlinksKeeps DEF Unlinks, TypeOK
<1>2. /\ causes' = {} => causes = {}
      /\ \A d \in Claims \ {c} : claim'[d].at = claim[d].at /\ claim'[d].process = claim[d].process
  BY <1>1 DEF OthersStay
<1>3. /\ StoreTypeOK
      /\ file' = file /\ Content' = Content /\ serialized' = serialized
      /\ queue' = queue /\ change' = change /\ past' = past
  BY DEF storeVars, Content, TypeOK
<1>4. StoreTypeOK'
  <2>1. \A d \in Claims : change'[d].at /= "idle" => claim'[d].at = "working"
    BY <1>1, <1>2, <1>3, StoreTypes
  <2>. QED BY <1>1, <1>2, <1>3, <2>1, StoreTypes DEF StoreTypeOK, ChangeRecords
<1>5. QueuedStandInQueue'
  BY <1>1, <1>2, <1>3, StoreTypes DEF StoreInv, QueuedStandInQueue
<1>6. ResultsComeLast'
  BY <1>1, <1>2, <1>3 DEF StoreInv, ResultsComeLast
<1>7. MadeInv'
  <2>1. \A d \in Claims : Unmade(d)' => Unmade(d)
    BY <1>1, <1>2, <1>3 DEF Unmade
  <2>2. made' = made /\ Kept' = Kept
    BY <1>3 DEF made, Kept
  <2>3. \A d \in Claims : change[d].kind = "touch" => d \notin change[d].store
    BY DEF StoreInv, MadeInv, TouchesMakeNothing
  <2>. QED BY <1>2, <1>3, <2>1, <2>2, <2>3, NothingIsMade DEF StoreInv
<1>8. CarriesItself'
  BY <1>1, <1>2, <1>3, StoreTypes DEF StoreInv, CarriesItself
<1>9. ReadUnderLock'
  BY <1>1, <1>2, <1>3, StoreTypes DEF StoreInv, ReadUnderLock
<1>10. NewHaveNoProcess'
  BY <1>1, <1>2 DEF StoreInv, NewHaveNoProcess
<1>11. Serves
  <2>1. \A d \in Claims : claim'[d].at = "none" <=> claim[d].at = "none"
    BY <1>1, <1>2
  <2>2. made' = made
    BY <1>3 DEF made
  <2>. QED BY <1>2, <1>3, <2>1, <2>2, NothingIsSeen
<1>. QED BY <1>1, <1>4, <1>5, <1>6, <1>7, <1>8, <1>9, <1>10, <1>11 DEF StoreInv, TypeOK

\* The lock is taken away, or its file is removed by the watchdog.
LEMMA LockStoreKeeps ==
  ASSUME TypeOK, LockInv, StoreInv,
         \/ \E c \in Claims : WatchdogUnlinks(c)
         \/ \E p \in Processes : WatchdogReleases(p) \/ Signalled(p),
         UNCHANGED storeVars
  PROVE  TypeOK' /\ LockInv' /\ StoreInv' /\ Serves
<1>1. LockTypeOK' /\ LockInv' /\ OthersStay({})
  BY WatchdogUnlinksKeeps, WatchdogReleasesKeeps, SignalledKeeps DEF TypeOK
<1>2. /\ causes' = {} => causes = {}
      /\ \A d \in Claims : claim'[d].at = claim[d].at /\ claim'[d].process = claim[d].process
  BY <1>1 DEF OthersStay
<1>3. /\ StoreTypeOK
      /\ file' = file /\ Content' = Content /\ serialized' = serialized
      /\ queue' = queue /\ change' = change /\ past' = past
  BY DEF storeVars, Content, TypeOK
<1>4. StoreTypeOK'
  <2>1. \A d \in Claims : change'[d].at /= "idle" => claim'[d].at = "working"
    BY <1>1, <1>2, <1>3, StoreTypes
  <2>. QED BY <1>1, <1>2, <1>3, <2>1, StoreTypes DEF StoreTypeOK, ChangeRecords
<1>5. QueuedStandInQueue'
  BY <1>1, <1>2, <1>3, StoreTypes DEF StoreInv, QueuedStandInQueue
<1>6. ResultsComeLast'
  BY <1>1, <1>2, <1>3 DEF StoreInv, ResultsComeLast
<1>7. MadeInv'
  <2>1. \A d \in Claims : Unmade(d)' => Unmade(d)
    BY <1>2, <1>3 DEF Unmade
  <2>2. made' = made /\ Kept' = Kept
    BY <1>3 DEF made, Kept
  <2>3. \A d \in Claims : change[d].kind = "touch" => d \notin change[d].store
    BY DEF StoreInv, MadeInv, TouchesMakeNothing
  <2>. QED BY <1>2, <1>3, <2>1, <2>2, <2>3, NothingIsMade DEF StoreInv
<1>8. CarriesItself'
  BY <1>1, <1>2, <1>3, StoreTypes DEF StoreInv, CarriesItself
<1>9. ReadUnderLock'
  BY <1>1, <1>2, <1>3, StoreTypes DEF StoreInv, ReadUnderLock
<1>10. NewHaveNoProcess'
  BY <1>2 DEF StoreInv, NewHaveNoProcess
<1>11. Serves
  <2>1. \A d \in Claims : claim'[d].at = "none" <=> claim[d].at = "none"
    BY <1>2
  <2>2. made' = made
    BY <1>3 DEF made
  <2>. QED BY <1>2, <1>3, <2>1, <2>2, NothingIsSeen
<1>. QED BY <1>1, <1>4, <1>5, <1>6, <1>7, <1>8, <1>9, <1>10, <1>11 DEF StoreInv, TypeOK

\* The lock file grows old.
LEMMA AgesKeeps ==
  ASSUME TypeOK, LockInv, StoreInv, Ages
  PROVE  TypeOK' /\ LockInv' /\ StoreInv' /\ Serves
<1>1. LockTypeOK' /\ LockInv' /\ OthersStay({})
  BY LockAgesKeeps DEF Ages, TypeOK
<1>2. /\ causes' = {} => causes = {}
      /\ \A d \in Claims : claim'[d].at = claim[d].at /\ claim'[d].process = claim[d].process
  BY <1>1 DEF OthersStay
<1>3. /\ StoreTypeOK
      /\ file' = file /\ Content' = Content /\ serialized' = serialized
      /\ queue' = queue /\ change' = change /\ past' = past
  BY DEF Ages, storeVars, Content, TypeOK
<1>4. StoreTypeOK'
  <2>1. \A d \in Claims : change'[d].at /= "idle" => claim'[d].at = "working"
    BY <1>1, <1>2, <1>3, StoreTypes
  <2>. QED BY <1>1, <1>2, <1>3, <2>1, StoreTypes DEF StoreTypeOK, ChangeRecords
<1>5. QueuedStandInQueue'
  BY <1>1, <1>2, <1>3, StoreTypes DEF StoreInv, QueuedStandInQueue
<1>6. ResultsComeLast'
  BY <1>1, <1>2, <1>3 DEF StoreInv, ResultsComeLast
<1>7. MadeInv'
  <2>1. \A d \in Claims : Unmade(d)' => Unmade(d)
    BY <1>2, <1>3 DEF Unmade
  <2>2. made' = made /\ Kept' = Kept
    BY <1>3 DEF made, Kept
  <2>3. \A d \in Claims : change[d].kind = "touch" => d \notin change[d].store
    BY DEF StoreInv, MadeInv, TouchesMakeNothing
  <2>. QED BY <1>2, <1>3, <2>1, <2>2, <2>3, NothingIsMade DEF StoreInv
<1>8. CarriesItself'
  BY <1>1, <1>2, <1>3, StoreTypes DEF StoreInv, CarriesItself
<1>9. ReadUnderLock'
  BY <1>1, <1>2, <1>3, StoreTypes DEF StoreInv, ReadUnderLock
<1>10. NewHaveNoProcess'
  BY <1>2 DEF StoreInv, NewHaveNoProcess
<1>11. Serves
  <2>1. \A d \in Claims : claim'[d].at = "none" <=> claim[d].at = "none"
    BY <1>2
  <2>2. made' = made
    BY <1>3 DEF made
  <2>. QED BY <1>2, <1>3, <2>1, <2>2, NothingIsSeen
<1>. QED BY <1>1, <1>4, <1>5, <1>6, <1>7, <1>8, <1>9, <1>10, <1>11 DEF StoreInv, TypeOK

\* A process reads the store.
LEMMA ReadsKeeps ==
  ASSUME TypeOK, LockInv, StoreInv, NEW p \in Processes, Reads(p)
  PROVE  TypeOK' /\ LockInv' /\ StoreInv' /\ Serves
<1>1. /\ LockTypeOK' /\ LockInv'
      /\ claim' = claim /\ causes' = causes
  BY DEF Reads, lockVars, TypeOK, LockTypeOK, LockInv, LivesAreFaults, ClaimsHaveProcess,
     FileOfCreator, JudgedIsStale, StaleFile, Stale, HeldByWorker, OneUnderWay, OwnersOwn,
     ForcedByWatchdog, LockFileHasOwner, Exists, Alive
<1>2. /\ StoreTypeOK
      /\ file' = file /\ Content' = Content /\ queue' = queue /\ change' = change /\ past' = past
  BY DEF Reads, Content, TypeOK
<1>3. /\ serialized' \in [Processes -> Contents \cup {None}]
      /\ \A q \in Processes : serialized'[q] = serialized[q] \/ serialized'[q] = file
  <2>1. serialized' = [serialized EXCEPT ![p] = file]
    BY DEF Reads
  <2>. QED BY <1>2, <2>1, StoreTypes
<1>4. StoreTypeOK'
  <2>1. \A d \in Claims : change'[d].at /= "idle" => claim'[d].at = "working"
    BY <1>1, <1>2, <1>3, StoreTypes
  <2>. QED BY <1>1, <1>2, <1>3, <2>1, StoreTypes DEF StoreTypeOK, ChangeRecords
<1>5. QueuedStandInQueue'
  BY <1>1, <1>2, <1>3, StoreTypes DEF StoreInv, QueuedStandInQueue
<1>6. ResultsComeLast'
  BY <1>1, <1>2, <1>3 DEF StoreInv, ResultsComeLast
<1>7. MadeInv'
  <2>1. \A d \in Claims : Unmade(d)' => Unmade(d)
    BY <1>1, <1>2 DEF Unmade
  <2>2. made' = made /\ Kept' = Kept
    BY <1>2 DEF made, Kept
  <2>3. \A d \in Claims : change[d].kind = "touch" => d \notin change[d].store
    BY DEF StoreInv, MadeInv, TouchesMakeNothing
  <2>. QED BY <1>1, <1>2, <1>3, <2>1, <2>2, <2>3, NothingIsMade DEF StoreInv
<1>8. CarriesItself'
  BY <1>1, <1>2, <1>3, StoreTypes DEF StoreInv, CarriesItself
<1>9. ReadUnderLock'
  BY <1>1, <1>2, <1>3, StoreTypes DEF StoreInv, ReadUnderLock
<1>10. NewHaveNoProcess'
  BY <1>1 DEF StoreInv, NewHaveNoProcess
<1>11. Serves
  <2>1. \A d \in Claims : claim'[d].at = "none" <=> claim[d].at = "none"
    BY <1>1
  <2>2. made' = made
    BY <1>2 DEF made
  <2>. QED BY <1>1, <1>2, <2>1, <2>2, NothingIsSeen
<1>. QED BY <1>1, <1>4, <1>5, <1>6, <1>7, <1>8, <1>9, <1>10, <1>11 DEF StoreInv, TypeOK

\* A process ends, with its changes, and is started again.
LEMMA RestartsKeep ==
  ASSUME TypeOK, LockInv, StoreInv, NEW p \in Processes, NEW killed \in BOOLEAN, Restarts(p, killed)
  PROVE  TypeOK' /\ LockInv' /\ StoreInv' /\ Serves
<1>1. /\ LockTypeOK' /\ LockInv' /\ OthersStay(Under(p))
      /\ \A d \in Under(p) : claim'[d].at = "dead"
      /\ \A d \in Claims : claim[d].process = p /\ claim[d].at \notin {"over", "dead"} => d \in Under(p)
  BY EndsKeeps DEF Restarts, TypeOK, Under
<1>2. /\ causes' = {} => causes = {}
      /\ \A d \in Claims \ Under(p) : claim'[d].at = claim[d].at /\ claim'[d].process = claim[d].process
  BY <1>1 DEF OthersStay
<1>3. /\ StoreTypeOK
      /\ file' = file /\ Content' = Content /\ past' = past
  BY DEF Restarts, Content, TypeOK
<1>4. /\ change' \in [Claims -> ChangeRecords]
      /\ \A d \in Claims : /\ change'[d].kind = change[d].kind /\ change'[d].result = change[d].result
                           /\ change'[d].store \subseteq change[d].store
      /\ \A d \in Under(p) : change'[d].at = "idle"
      /\ \A d \in Claims \ Under(p) : change'[d] = change[d]
  <2>. DEFINE nothing == {}
              ended(d) == [change[d] EXCEPT !.at = "idle", !.store = nothing]
  <2>1. change' = [d \in Claims |-> IF d \in Under(p) THEN ended(d) ELSE change[d]]
    BY DEF Restarts
  <2>2. /\ nothing \in Contents
        /\ \A d \in Claims : change[d] \in ChangeRecords /\ nothing \subseteq change[d].store
    BY <1>3, StoreTypes DEF Contents
  <2>. HIDE DEF nothing
  <2>3. \A d \in Claims : /\ ended(d) \in ChangeRecords
                          /\ ended(d).kind = change[d].kind /\ ended(d).result = change[d].result
                          /\ ended(d).at = "idle" /\ ended(d).store = nothing
    BY <2>2 DEF ChangeRecords
  <2>. HIDE DEF ended
  <2>. QED BY <2>1, <2>2, <2>3 DEF Under
<1>5. serialized' \in [Processes -> Contents \cup {None}]
  <2>1. serialized' = [serialized EXCEPT ![p] = None]
    BY DEF Restarts
  <2>. QED BY <1>3, <2>1, StoreTypes
<1>6. \A q \in Processes : serialized'[q] = serialized[q] \/ serialized'[q] = None
  <2>1. serialized' = [serialized EXCEPT ![p] = None]
    BY DEF Restarts
  <2>. QED BY <1>3, <2>1, StoreTypes
<1>7. /\ queue' \in [Processes -> Seq(Claims)]
      /\ \A q \in Processes : q /= p => queue'[q] = queue[q]
  <2>1. queue' = [queue EXCEPT ![p] = <<>>]
    BY DEF Restarts
  <2>. QED BY <1>3, <2>1, StoreTypes
<1>8. StoreTypeOK'
  <2>1. ASSUME NEW d \in Claims, change'[d].at /= "idle"
        PROVE  claim'[d].at = "working"
    <3>1. d \notin Under(p) /\ change'[d] = change[d]
      BY <1>4, <2>1
    <3>2. claim[d].at = "working"
      BY <1>3, <2>1, <3>1, StoreTypes
    <3>. QED BY <1>2, <3>1, <3>2
  <2>. QED BY <1>3, <1>4, <1>5, <1>7, <2>1, StoreTypes DEF StoreTypeOK, ChangeRecords
<1>9. QueuedStandInQueue'
  <2>1. ASSUME NEW d \in Claims, claim'[d].at = "queued"
        PROVE  \E i \in DOMAIN queue'[claim'[d].process] : queue'[claim'[d].process][i] = d
    <3>1. d \notin Under(p) /\ claim[d].at = "queued" /\ claim'[d].process = claim[d].process
      BY <1>1, <1>2, <2>1
    <3>2. claim[d].process \in Processes /\ claim[d].process /= p
      BY <1>1, <3>1 DEF LockInv, ClaimsHaveProcess
    <3>3. queue'[claim'[d].process] = queue[claim[d].process]
      BY <1>7, <3>1, <3>2
    <3>. QED BY <3>1, <3>3 DEF StoreInv, QueuedStandInQueue
  <2>. QED BY <2>1 DEF QueuedStandInQueue
<1>10. ResultsComeLast'
  BY <1>1, <1>2, <1>4 DEF StoreInv, ResultsComeLast
<1>11. MadeInv'
  <2>1. \A d \in Claims : Unmade(d)' => Unmade(d)
    BY <1>1, <1>2, <1>4 DEF Unmade
  <2>2. made' = made /\ Kept' \subseteq Kept
    BY <1>3, <1>4 DEF made, Kept
  <2>3. \A d \in Claims : change'[d].kind = "touch" => d \notin change'[d].store
    BY <1>4 DEF StoreInv, MadeInv, TouchesMakeNothing
  <2>. QED BY <1>2, <1>3, <1>4, <1>6, <2>1, <2>2, <2>3, NothingIsMade DEF StoreInv
<1>12. CarriesItself'
  BY <1>1, <1>2, <1>4 DEF StoreInv, CarriesItself
<1>13. ReadUnderLock'
  BY <1>1, <1>2, <1>3, <1>4 DEF StoreInv, ReadUnderLock
<1>14. NewHaveNoProcess'
  BY <1>1, <1>2 DEF StoreInv, NewHaveNoProcess
<1>15. Serves
  <2>1. \A d \in Under(p) : claim[d].at /= "none"
    BY LockTypes DEF StoreInv, NewHaveNoProcess, Under, TypeOK
  <2>2. \A d \in Claims : claim'[d].at = "none" <=> claim[d].at = "none"
    BY <1>1, <1>2, <2>1
  <2>3. made' = made
    BY <1>3 DEF made
  <2>. QED BY <1>2, <1>4, <2>2, <2>3, NothingIsSeen
<1>. QED BY <1>1, <1>8, <1>9, <1>10, <1>11, <1>12, <1>13, <1>14, <1>15 DEF StoreInv, TypeOK

\* A change is queued; a save has read the store on its way.
LEMMA EnqueueKeeps ==
  ASSUME TypeOK, LockInv, StoreInv, NEW c \in Claims, NEW p \in Processes, NEW kind \in Kinds,
         Enqueue(c, p, kind)
  PROVE  TypeOK' /\ LockInv' /\ StoreInv' /\ Serves
<1>1. /\ LockTypeOK' /\ LockInv' /\ OthersStay({c})
      /\ claim[c].at = "none" /\ claim'[c].at = "queued" /\ claim'[c].process = p
  BY EnqueuedKeeps DEF Enqueue, TypeOK
<1>2. /\ causes' = {} => causes = {}
      /\ \A d \in Claims \ {c} : claim'[d].at = claim[d].at /\ claim'[d].process = claim[d].process
  BY <1>1 DEF OthersStay
<1>3. /\ StoreTypeOK
      /\ file' = file /\ Content' = Content /\ past' = past
  BY DEF Enqueue, Content, TypeOK
<1>4. /\ change[c].at = "idle" /\ change[c].result = "none"
      /\ kind \in {"update", "touch", "save"}
  BY <1>1, <1>3, StoreTypes, StoreAssumption DEF StoreInv, ResultsComeLast
<1>5. /\ change' \in [Claims -> ChangeRecords]
      /\ \A d \in Claims : d /= c => change'[d] = change[d]
      /\ change'[c].kind = kind /\ change'[c].at = "idle" /\ change'[c].result = "none"
      /\ change'[c].store = IF kind = "save" THEN Content \cup {c} ELSE {}
  <2>. DEFINE store == IF kind = "save" THEN Content \cup {c} ELSE {}
  <2>1. change' = [change EXCEPT ![c].kind = kind, ![c].store = store]
    BY DEF Enqueue
  <2>2. store \in Contents /\ change \in [Claims -> ChangeRecords]
    BY <1>3, StoreTypes DEF Contents
  <2>. HIDE DEF store
  <2>3. /\ change' \in [Claims -> ChangeRecords]
        /\ \A d \in Claims : d /= c => change'[d] = change[d]
        /\ change'[c].kind = kind /\ change'[c].at = "idle" /\ change'[c].result = "none"
        /\ change'[c].store = store
    BY <1>4, <2>1, <2>2 DEF ChangeRecords
  <2>. QED BY <2>3 DEF store
<1>6. /\ serialized' \in [Processes -> Contents \cup {None}]
      /\ \A q \in Processes : serialized'[q] = serialized[q] \/ serialized'[q] = file
  <2>1. serialized \in [Processes -> Contents \cup {None}] /\ file \in Contents \cup {None}
    BY <1>3, StoreTypes
  <2>2. CASE kind = "save"
    <3>1. serialized' = [serialized EXCEPT ![p] = file]
      BY <2>2 DEF Enqueue
    <3>. QED BY <2>1, <3>1
  <2>3. CASE kind /= "save"
    <3>1. serialized' = serialized
      BY <2>3 DEF Enqueue
    <3>. QED BY <2>1, <3>1
  <2>. QED BY <2>2, <2>3
<1>7. queue' \in [Processes -> Seq(Claims)]
  <2>1. queue \in [Processes -> Seq(Claims)] /\ queue' = [queue EXCEPT ![p] = Append(queue[p], c)]
    BY <1>3, StoreTypes DEF Enqueue
  <2>. QED BY <2>1
<1>8. \A q \in Processes : \A i \in DOMAIN queue[q] : i \in DOMAIN queue'[q] /\ queue'[q][i] = queue[q][i]
  <2>1. queue \in [Processes -> Seq(Claims)] /\ queue' = [queue EXCEPT ![p] = Append(queue[p], c)]
    BY <1>3, StoreTypes DEF Enqueue
  <2>. QED BY <2>1
<1>9. \E i \in DOMAIN queue'[p] : queue'[p][i] = c
  <2>1. queue \in [Processes -> Seq(Claims)] /\ queue' = [queue EXCEPT ![p] = Append(queue[p], c)]
    BY <1>3, StoreTypes DEF Enqueue
  <2>2. Len(queue[p]) + 1 \in DOMAIN queue'[p] /\ queue'[p][Len(queue[p]) + 1] = c
    BY <2>1
  <2>. QED BY <2>2
<1>10. StoreTypeOK'
  <2>1. ASSUME NEW d \in Claims, change'[d].at /= "idle"
        PROVE  claim'[d].at = "working"
    <3>1. d /= c /\ change'[d] = change[d]
      BY <1>5, <2>1
    <3>2. claim[d].at = "working"
      BY <1>3, <2>1, <3>1, StoreTypes
    <3>. QED BY <1>2, <3>1, <3>2
  <2>. QED BY <1>3, <1>5, <1>6, <1>7, <2>1, StoreTypes DEF StoreTypeOK, ChangeRecords
<1>11. QueuedStandInQueue'
  <2>1. ASSUME NEW d \in Claims, claim'[d].at = "queued"
        PROVE  \E i \in DOMAIN queue'[claim'[d].process] : queue'[claim'[d].process][i] = d
    <3>1. CASE d = c
      BY <1>1, <1>9, <3>1
    <3>2. CASE d /= c
      <4>1. claim[d].at = "queued" /\ claim'[d].process = claim[d].process
        BY <1>2, <2>1, <3>2
      <4>2. claim[d].process \in Processes
        BY <4>1 DEF LockInv, ClaimsHaveProcess
      <4>3. \E i \in DOMAIN queue[claim[d].process] : queue[claim[d].process][i] = d
        BY <4>1 DEF StoreInv, QueuedStandInQueue
      <4>. QED BY <1>8, <4>1, <4>2, <4>3
    <3>. QED BY <3>1, <3>2
  <2>. QED BY <2>1 DEF QueuedStandInQueue
<1>12. ResultsComeLast'
  BY <1>1, <1>2, <1>5 DEF StoreInv, ResultsComeLast
<1>13. MadeInv'
  <2>1. \A d \in Claims : Unmade(d)' => Unmade(d)
    BY <1>1, <1>2, <1>4, <1>5 DEF Unmade
  <2>2. made' = made /\ Kept' \subseteq Kept
    BY <1>3, <1>4, <1>5 DEF made, Kept
  <2>3. \A d \in Claims : /\ change'[d].store \subseteq change[d].store \cup Content \cup {d}
                          /\ change'[d].kind = "touch" => d \notin change'[d].store
    BY <1>5 DEF StoreInv, MadeInv, TouchesMakeNothing
  <2>. QED BY <1>2, <1>3, <1>6, <2>1, <2>2, <2>3, NothingIsMade DEF StoreInv
<1>14. CarriesItself'
  BY <1>1, <1>2, <1>5 DEF StoreInv, CarriesItself
<1>15. ReadUnderLock'
  BY <1>1, <1>2, <1>3, <1>5 DEF StoreInv, ReadUnderLock
<1>16. NewHaveNoProcess'
  BY <1>1, <1>2 DEF StoreInv, NewHaveNoProcess
<1>17. Serves
  <2>1. asked[c] = "nothing" /\ answer' = answer
    BY <1>1, <1>4, <1>5 DEF asked, answer
  <2>2. asked' = [asked EXCEPT ![c] = IF kind = "touch" THEN "touch" ELSE "change"]
    BY <1>1, <1>2, <1>5 DEF asked
  <2>3. made' = made \cup {} /\ (broken => broken')
    BY <1>2, <1>3 DEF made, broken
  <2>. QED BY <2>1, <2>2, <2>3 DEF Serves, Service!Next, Service!Ask, Service!Makes
<1>. QED BY <1>1, <1>10, <1>11, <1>12, <1>13, <1>14, <1>15, <1>16, <1>17 DEF StoreInv, TypeOK

--------------------------------------------------------------------------------
(* The invariant, and what follows from it.                                 *)

\* The invariant holds when nothing has been queued.
LEMMA InitIInv == Init => IInv
<1>. SUFFICES ASSUME Init PROVE IInv
  OBVIOUS
<1>1. LockTypeOK
  BY LockAssumption DEF Init, LockInit, LockTypeOK, Stages
<1>2. /\ ~Exists /\ causes = {} /\ forced = {}
      /\ \A p \in Processes : life[p] = 0 /\ held[p] = None
      /\ \A c \in Claims : claim[c].at = "none" /\ claim[c].judged = None /\ claim[c].process = None
  BY DEF Init, LockInit, Exists
<1>3. LockInv
  BY <1>1, <1>2, LockTypes DEF LockInv, LivesAreFaults, ClaimsHaveProcess, FileOfCreator, JudgedIsStale,
     HeldByWorker, OneUnderWay, UnderWay, OwnersOwn, Owning, ForcedByWatchdog, LockFileHasOwner
<1>4. /\ Content = {} /\ file = None /\ past = [rotations |-> 0, lost |-> {}]
      /\ \A p \in Processes : serialized[p] = None
      /\ \A c \in Claims : /\ change[c].at = "idle" /\ change[c].store = {}
                           /\ change[c].kind = "update" /\ change[c].result = "none"
  BY DEF Init, Content, NoChange
<1>5. StoreTypeOK
  <2>. DEFINE nothing == {}
  <2>1. /\ serialized \in [Processes -> Contents \cup {None}]
        /\ queue \in [Processes -> Seq(Claims)]
        /\ file = None
    BY DEF Init
  <2>2. nothing \in Contents
    BY DEF Contents
  <2>3. change \in [Claims -> ChangeRecords]
    <3>1. change = [c \in Claims |-> [kind |-> "update", at |-> "idle", store |-> nothing, result |-> "none"]]
      BY DEF Init, NoChange
    <3>. QED BY <2>2, <3>1 DEF ChangeRecords
  <2>4. past \in [rotations : 0..MaxRotations, lost : Contents]
    BY <1>4, <2>2, StoreAssumption
  <2>. QED BY <1>4, <2>1, <2>3, <2>4 DEF StoreTypeOK, ChangeRecords
<1>6. StoreInv
  BY <1>2, <1>4 DEF StoreInv, QueuedStandInQueue, ResultsComeLast, NewHaveNoProcess, CarriesItself,
     ReadUnderLock, MadeInv, UnmadeIsNowhere, TouchesMakeNothing, StoreInHand, MadeIsKept, Kept, made
<1>. QED BY <1>1, <1>3, <1>5, <1>6 DEF IInv, TypeOK

\* Every step keeps the invariant, and is a step of the service.
LEMMA NextIInv == IInv /\ [Next]_vars => IInv' /\ Serves
<1>. SUFFICES ASSUME TypeOK, LockInv, StoreInv, [Next]_vars
              PROVE  TypeOK' /\ LockInv' /\ StoreInv' /\ Serves
  BY DEF IInv
<1>1. ASSUME NEW c \in Claims, ClaimStep(c)
      PROVE  TypeOK' /\ LockInv' /\ StoreInv' /\ Serves
  <2>1. ASSUME Unlocks(c)
        PROVE  TypeOK' /\ LockInv' /\ StoreInv' /\ Serves
    BY <2>1, UnlinksStoreKeeps, LockStoreKeeps DEF Unlocks
  <2>. QED BY <1>1, <2>1, OpensKeeps, WaitsKeeps, FailsKeeps, BeginsKeeps, MutatesKeeps,
              MutatorThrowsKeeps, RotatesKeeps, SavesKeeps, SaveThrowsKeeps,
              SaveSkipsKeeps, FinishesKeeps DEF ClaimStep
<1>2. ASSUME NEW c \in Claims, NEW p \in Processes, NEW kind \in Kinds, Enqueue(c, p, kind)
      PROVE  TypeOK' /\ LockInv' /\ StoreInv' /\ Serves
  BY <1>2, EnqueueKeeps
<1>3. ASSUME NEW p \in Processes, Reads(p)
      PROVE  TypeOK' /\ LockInv' /\ StoreInv' /\ Serves
  BY <1>3, ReadsKeeps
<1>4. ASSUME NEW p \in Processes, LosesLock(p)
      PROVE  TypeOK' /\ LockInv' /\ StoreInv' /\ Serves
  BY <1>4, LockStoreKeeps DEF LosesLock
<1>5. ASSUME NEW p \in Processes, NEW killed \in BOOLEAN, Restarts(p, killed)
      PROVE  TypeOK' /\ LockInv' /\ StoreInv' /\ Serves
  BY <1>5, RestartsKeep
<1>6. ASSUME Ages
      PROVE  TypeOK' /\ LockInv' /\ StoreInv' /\ Serves
  BY <1>6, AgesKeeps
<1>7. ASSUME UNCHANGED vars
      PROVE  TypeOK' /\ LockInv' /\ StoreInv' /\ Serves
  BY <1>7 DEF vars, lockVars, storeVars, TypeOK, LockTypeOK, StoreTypeOK, LockInv, StoreInv,
     LivesAreFaults, ClaimsHaveProcess, FileOfCreator, JudgedIsStale, StaleFile, Stale, HeldByWorker,
     OneUnderWay, OwnersOwn, ForcedByWatchdog, LockFileHasOwner, Exists, Alive, QueuedStandInQueue,
     ResultsComeLast, NewHaveNoProcess, CarriesItself, ReadUnderLock, MadeInv, UnmadeIsNowhere, Unmade,
     TouchesMakeNothing, StoreInHand, MadeIsKept, Kept, made, Content, Serves, Service!vars, asked,
     answer, broken
<1>. QED BY <1>1, <1>2, <1>3, <1>4, <1>5, <1>6, <1>7 DEF Next

\* The inductive invariant of the lock and the store.
LEMMA Invariance == Spec => []IInv
BY InitIInv, NextIInv, PTL DEF Spec

\* The type invariant of the write lock (agents/session-write-lock.ts) and of the store that it
\* guards (config/sessions/store.ts).
THEOREM TypeCorrect == Spec => []TypeOK
<1>1. IInv => TypeOK
  BY DEF IInv
<1>. QED BY <1>1, Invariance, PTL

\* Two claims work under the write lock together only if the watchdog or a signal took the lock
\* away from one, a lock that was alive was judged too old, or a file was removed by its path
\* after another claim had replaced it (session-write-lock.ts).
THEOREM OneHolder == Spec => []OneHolderButForKnownCauses
<1>1. ASSUME IInv
      PROVE  OneHolderButForKnownCauses
  <2>1. SUFFICES ASSUME causes = {}
                 PROVE  ~(Cardinality(Working) > 1)
    BY DEF OneHolderButForKnownCauses
  <2>2. \A c, d \in Working : c = d
    BY <1>1, <2>1, OnlyOne DEF Working, IInv
  <2>3. CASE Working = {}
    BY <2>3, FS_EmptySet
  <2>4. CASE Working /= {}
    <3>1. PICK c : Working = {c}
      BY <2>2, <2>4
    <3>. QED BY <3>1, FS_Singleton
  <2>. QED BY <2>3, <2>4
<1>. QED BY <1>1, Invariance, PTL

\* The lock file of a live process belongs to a claim that will remove it, whatever has
\* happened: no claim has to wait until it is old (session-write-lock.ts).
THEOREM EveryLockIsReleased == Spec => []LockFileHasOwner
<1>1. IInv => LockFileHasOwner
  BY DEF IInv, LockInv
<1>. QED BY <1>1, Invariance, PTL

\* As long as no cause of two holders has come up, a change whose caller was told that it is
\* made is in the file or was lost by a rotation or a save of an old store
\* (updateSessionStore and saveSessionStore, config/sessions/store.ts).
THEOREM ChangesKept == Spec => []ChangesKeptButForKnownCauses
<1>1. IInv => ChangesKeptButForKnownCauses
  BY DEF IInv, StoreInv, MadeInv, MadeIsKept, Kept, made, Reported, ChangesKeptButForKnownCauses
<1>. QED BY <1>1, Invariance, PTL

\* The store is what StoreService says of it: each change is made at one instant, as a whole, before
\* its caller is told; what was refused is not made; until the exclusion breaks (withSessionStoreLock
\* and saveSessionStoreUnlocked, config/sessions/store.ts).
THEOREM Refinement == Spec => ImplementsStoreService
<1>1. Init => Service!Init
  <2>1. ASSUME Init
        PROVE  asked = [c \in Claims |-> "nothing"] /\ answer = [c \in Claims |-> "none"]
    BY <2>1 DEF Init, LockInit, NoChange, asked, answer
  <2>2. ASSUME Init
        PROVE  made = {} /\ broken = FALSE
    BY <2>2 DEF Init, LockInit, Content, made, broken
  <2>. QED BY <2>1, <2>2 DEF Service!Init
<1>2. IInv /\ [Next]_vars => [Service!Next]_Service!vars
  BY NextIInv DEF Serves
<1>. QED BY <1>1, <1>2, Invariance, PTL DEF Spec, ImplementsStoreService, Service!Spec
================================================================================
