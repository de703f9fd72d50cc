--------------------------- MODULE SessionWriteLock ---------------------------
(***************************************************************************)
(* agents/session-write-lock.ts: the lock file that guards one session     *)
(* file between processes.                                                 *)
(*                                                                         *)
(* Everything but the synchronous stretches between awaits may interleave, *)
(* in a process and between processes.  The lock file is found by its path *)
(* alone: whoever removes it removes the file that is there by then.       *)
(*                                                                         *)
(* The actions say what happens to the lock; the module that uses it adds  *)
(* what its claims do.  Nested holds are left out (HeldLock.count is 1):   *)
(* the user, the queue of config/sessions/store.ts, has one claim of a     *)
(* process under way at a time.  So is reclaiming an "orphan" of the same  *)
(* process, which needs a platform without process start times.            *)
(***************************************************************************)
EXTENDS Integers, FiniteSets

CONSTANTS
  Processes,   \* processes that use the session file: the gateway, a command of the CLI
  Claims,      \* calls of acquireSessionWriteLock
  None,        \* no file, no claim, no process
  MaxFaults    \* bound: restarts, locks taken away, and locks that grow old

VARIABLES
  lockFile,   \* the file at lockPath: the claim that created it, and what can be judged from it
  life,       \* the pid and start time of a process
  held,       \* the entry of HELD_LOCKS in each process
  forced,     \* claims whose lock was taken away by the watchdog, while its file is being removed
  claim,      \* where each claim is, and in which process
  causes,     \* history: what may have let in two holders
  faults      \* number of faults so far

lockVars == <<lockFile, life, held, forced, claim, causes, faults>>

\* "queued" is for the user: the claim has not called acquireSessionWriteLock yet.
Stages == {"none", "queued", "retrying", "contended", "reclaiming", "creating", "working",
           "unlinking", "over", "dead"}

Files == [by : Claims, process : Processes, life : 0..MaxFaults, written : BOOLEAN, old : BOOLEAN]

ASSUME LockAssumption ==
  MaxFaults \in Nat /\ None \notin Processes /\ None \notin Claims /\ None \notin Files

LockTypeOK ==
  /\ lockFile \in Files \cup {None}
  /\ life \in [Processes -> 0..MaxFaults]
  /\ held \in [Processes -> Claims \cup {None}]
  /\ forced \subseteq Claims
  /\ claim \in [Claims -> [at : Stages, process : Processes \cup {None},
                           judged : Claims \cup {None}]]
  /\ \A c \in Claims : claim[c].judged /= None => claim[c].at = "reclaiming"
  /\ causes \subseteq {"watchdog", "signal", "old", "raced"}
  /\ faults \in 0..MaxFaults

LockInit ==
  /\ lockFile = None
  /\ life = [p \in Processes |-> 0]
  /\ held = [p \in Processes |-> None]
  /\ forced = {}
  /\ claim = [c \in Claims |-> [at |-> "none", process |-> None, judged |-> None]]
  /\ causes = {}
  /\ faults = 0

Exists == lockFile /= None
Alive(file) == file.life = life[file.process]
Moves(c, stage) == claim' = [claim EXCEPT ![c].at = stage]
Under(p) == {c \in Claims : claim[c].process = p /\ claim[c].at \notin {"over", "dead"}}
Causing(cause, condition) == causes' = causes \cup (IF condition THEN {cause} ELSE {})

Faulty == faults < MaxFaults /\ faults' = faults + 1

\* fs.rm(lockPath, { force: true }), meant for the lock file of claim c.
Removes(c) == lockFile' = None /\ Causing("raced", Exists /\ lockFile.by /= c)

--------------------------------------------------------------------------------
(* acquireSessionWriteLock.                                                 *)

\* fs.open(lockPath, "wx") either creates the file or fails with EEXIST.
OpenSucceeds(c) ==
  /\ ~Exists
  /\ lockFile' = [by |-> c, process |-> claim[c].process, life |-> life[claim[c].process],
                  written |-> FALSE, old |-> FALSE]
  /\ Moves(c, "creating")
  /\ UNCHANGED <<life, held, forced, causes, faults>>

OpenFails(c) ==
  /\ Exists
  /\ Moves(c, "contended")
  /\ UNCHANGED <<lockFile, life, held, forced, causes, faults>>

\* The payload is written to the handle: if the file has been removed, it goes nowhere.
Acquires(c) ==
  /\ claim[c].at = "creating"
  /\ lockFile' = IF Exists /\ lockFile.by = c THEN [lockFile EXCEPT !.written = TRUE]
                 ELSE lockFile
  /\ held' = [held EXCEPT ![claim[c].process] = c]
  /\ Moves(c, "working")
  /\ UNCHANGED <<life, forced, causes, faults>>

\* Mutant: the path is not removed.  Breaks LockFileHasOwner.
CreateFailsLeaving(c) ==
  /\ claim[c].at = "creating"
  /\ Moves(c, "over")
  /\ UNCHANGED <<lockFile, life, held, forced, causes, faults>>

\* writeFile fails: the handle is closed, the path is removed, and the error is thrown.
CreateFails(c) ==
  /\ claim[c].at = "creating"
  /\ Removes(c)
  /\ Moves(c, "over")
  /\ UNCHANGED <<life, held, forced, faults>>

\* Mutant: a file that is not written yet counts as stale.  Breaks OneHolderButForKnownCauses.
StaleUnwritten(file) == file.old \/ ~file.written \/ ~Alive(file)

\* inspectLockPayload, and the age of the file where its payload says nothing: a file that is
\* not written yet is stale only when it is old, one that is written also when its process died.
Stale(file) == file.old \/ (file.written /\ ~Alive(file))

Inspects(c) ==
  /\ claim[c].at = "contended"
  /\ claim' = IF Exists /\ Stale(lockFile)
              THEN [claim EXCEPT ![c].at = "reclaiming", ![c].judged = lockFile.by]
              ELSE [claim EXCEPT ![c].at = "retrying"]
  /\ UNCHANGED <<lockFile, life, held, forced, causes, faults>>

\* The file is removed by its path, whether or not it is still the one that was inspected.
Reclaims(c) ==
  /\ claim[c].at = "reclaiming"
  /\ lockFile' = None
  /\ causes' = causes \cup (IF Exists /\ lockFile.by /= claim[c].judged THEN {"raced"}
                            ELSE IF Exists /\ Alive(lockFile) /\ lockFile.old THEN {"old"}
                            ELSE {})
  /\ claim' = [claim EXCEPT ![c].at = "retrying", ![c].judged = None]
  /\ UNCHANGED <<life, held, forced, faults>>

TimesOut(c) ==
  /\ claim[c].at = "retrying"
  /\ Moves(c, "over")
  /\ UNCHANGED <<lockFile, life, held, forced, causes, faults>>

--------------------------------------------------------------------------------
(* releaseHeldLock, the watchdog and the ends of a process.                 *)

\* The entry is looked up and deleted at once; the file is removed later.  A claim that has
\* lost its entry releases nothing.
Releases(c) ==
  LET p == claim[c].process
      mine == held[p] = c
  IN /\ held' = IF mine THEN [held EXCEPT ![p] = None] ELSE held
     /\ Moves(c, IF mine THEN "unlinking" ELSE "over")
     /\ UNCHANGED <<lockFile, life, forced, causes, faults>>

Unlinks(c) ==
  /\ claim[c].at = "unlinking"
  /\ Removes(c)
  /\ Moves(c, "over")
  /\ UNCHANGED <<life, held, forced, faults>>

\* runLockWatchdogCheck: a lock held for longer than maxHoldMs is taken away from its claim,
\* which goes on working.
WatchdogReleases(p) ==
  /\ Faulty
  /\ held[p] /= None
  /\ forced' = forced \cup {held[p]}
  /\ held' = [held EXCEPT ![p] = None]
  /\ causes' = causes \cup {"watchdog"}
  /\ UNCHANGED <<lockFile, life, claim>>

WatchdogUnlinks(c) ==
  /\ c \in forced
  /\ Removes(c)
  /\ forced' = forced \ {c}
  /\ UNCHANGED <<life, held, claim, faults>>

\* handleTerminationSignal in a process that has listeners of its own, as the gateway has: the
\* locks are removed at once, and the process goes on to shut down.
Signalled(p) ==
  /\ Faulty
  /\ held[p] /= None
  /\ lockFile' = None
  /\ held' = [held EXCEPT ![p] = None]
  /\ causes' = causes \cup {"signal"}
                      \cup (IF Exists /\ lockFile.by /= held[p] THEN {"raced"} ELSE {})
  /\ UNCHANGED <<life, forced, claim>>

\* The process ends and is started again.  At an exit the held lock is removed; a kill leaves it.
Ends(p, killed) ==
  /\ Faulty
  /\ life' = [life EXCEPT ![p] = @ + 1]
  /\ IF killed \/ held[p] = None THEN UNCHANGED <<lockFile, causes>> ELSE Removes(held[p])
  /\ held' = [held EXCEPT ![p] = None]
  /\ forced' = {c \in forced : claim[c].process /= p}
  /\ claim' = [c \in Claims |-> IF c \in Under(p) THEN [claim[c] EXCEPT !.at = "dead",
                                                                        !.judged = None]
                                ELSE claim[c]]

LockAges ==
  /\ Faulty
  /\ Exists /\ ~lockFile.old
  /\ lockFile' = [lockFile EXCEPT !.old = TRUE]
  /\ UNCHANGED <<life, held, forced, claim, causes>>

--------------------------------------------------------------------------------
(* Properties.                                                              *)

Working == {c \in Claims : claim[c].at = "working"}

\* Two claims, of one process or of two, never work under the lock together - but for the four
\* ways the code has of letting them: the watchdog and the signal handler take a lock away from
\* a claim that goes on, a lock that is alive is judged too old, and a file is removed by its
\* path after another claim has replaced it.
OneHolderButForKnownCauses == Cardinality(Working) > 1 => causes /= {}

\* The lock file of a live process belongs to a claim that will remove it: it is being
\* written, is held, or is being removed.  Otherwise every claim would fail until it is old.
LockFileHasOwner ==
  Exists /\ Alive(lockFile) =>
    LET c == lockFile.by
    IN claim[c].at \in {"creating", "unlinking"} \/ held[lockFile.process] = c \/ c \in forced
================================================================================
