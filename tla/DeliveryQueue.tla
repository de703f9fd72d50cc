------------------------------ MODULE DeliveryQueue ------------------------------
(***************************************************************************)
(* openclaw-zero-token/src/infra/outbound: the write-ahead queue of        *)
(* outbound messages.  deliverOutboundPayloads persists a delivery, sends  *)
(* its payloads one by one and then removes the entry or counts a failure; *)
(* at startup recoverPendingDeliveries replays what is left on disk.       *)
(*                                                                         *)
(* A worker is the sender of one delivery or a recovery scan.  They share  *)
(* the directory and nothing locks an entry: an in-process restart scans   *)
(* while older sends, and older scans, go on.  Each file operation and     *)
(* each send is a step, and the process may crash between any two.         *)
(***************************************************************************)
EXTENDS Integers, Sequences, FiniteSets, SequencesExt

CONSTANTS
  MaxDelivery,  \* deliveries are 1..MaxDelivery, in the order they are enqueued
  Payloads,     \* payloads of a delivery
  BestEffort,   \* the deliveries with bestEffort
  OnError,      \* the deliveries whose caller passes onError
  MaxRetries,   \* MAX_RETRIES
  Scans,        \* recovery scans: how many may go on at once
  MaxCrashes    \* bound: crashes explored

Deliveries == 1..MaxDelivery

ASSUME DeliveryAssumption ==
  /\ {MaxDelivery, MaxRetries, MaxCrashes} \subseteq Nat
  /\ Payloads \in Nat \ {0}
  /\ BestEffort \subseteq Deliveries
  /\ OnError \subseteq Deliveries
  /\ Scans \cap Deliveries = {}

VARIABLES
  json,      \* the retryCount in <id>.json, or NoFile; counted up to MaxRetries
  marker,    \* the ids with a file <id>.delivered
  failed,    \* the ids in failed/
  job,       \* what each worker does
  scan,      \* the rest of the list that each recovery scan loaded
  past       \* history, and the crashes so far

vars == <<json, marker, failed, job, scan, past>>
files == <<json, marker, failed>>

Workers == Deliveries \cup Scans
NoFile == -1
Places == {"none", "picking", "sending", "rename", "unlink", "read", "write", "move", "over"}

\* begun: this scan has looked at an entry; deferring: its time budget is used up.
NoJob == [at |-> "none", entry |-> 0, payload |-> 1, hadPartialFailure |-> FALSE,
          aborted |-> FALSE, retryCount |-> 0, begun |-> FALSE, deferring |-> FALSE]

TypeOK ==
  /\ json \in [Deliveries -> NoFile..MaxRetries]
  /\ {marker, failed} \subseteq SUBSET Deliveries
  /\ job \in [Workers -> [at : Places, entry : 0..MaxDelivery, payload : 1..(Payloads + 1),
                          hadPartialFailure : BOOLEAN, aborted : BOOLEAN,
                          retryCount : 0..MaxRetries, begun : BOOLEAN, deferring : BOOLEAN]]
  /\ scan \in [Scans -> Seq([id : Deliveries, retryCount : 0..MaxRetries])]
  /\ past \in [received : SUBSET (Deliveries \X (1..Payloads)), acked : SUBSET Deliveries,
               overlapped : SUBSET Deliveries, crashes : 0..MaxCrashes]

Init ==
  /\ json = [d \in Deliveries |-> NoFile]
  /\ marker = {} /\ failed = {}
  /\ job = [w \in Workers |-> NoJob]
  /\ scan = [r \in Scans |-> <<>>]
  /\ past = [received |-> {}, acked |-> {}, overlapped |-> {}, crashes |-> 0]

--------------------------------------------------------------------------------
(* Sending.                                                                 *)

Working(w) == job[w].at \notin {"none", "over"}

\* A sender that is through, or dead: which entry it had, and whether it was given up.
Over(d) == [NoJob EXCEPT !.at = "over", !.entry = job[d].entry, !.aborted = job[d].aborted]

\* What a worker does when it is through with an entry: the recovery looks at the next one.
Ended(w) ==
  IF w \in Scans THEN [NoJob EXCEPT !.at = "picking", !.begun = TRUE, !.deferring = job[w].deferring]
                 ELSE Over(w)

Goes(w, place) == job' = [job EXCEPT ![w].at = place]
Ends(w) == job' = [job EXCEPT ![w] = Ended(w)]

Bump(n) == IF n < MaxRetries THEN n + 1 ELSE n

\* enqueueDelivery, by temporary file and rename.
Enqueue(d) ==
  /\ job[d].at = "none"
  /\ \A e \in 1..(d - 1) : job[e].at # "none"
  /\ job' = [job EXCEPT ![d] = [NoJob EXCEPT !.at = "sending", !.entry = d]]
  /\ json' = [json EXCEPT ![d] = 0]
  /\ UNCHANGED <<marker, failed, scan, past>>

\* The entry cannot be written: the delivery is sent all the same, and no file knows of it.
EnqueueFails(d) ==
  /\ job[d].at = "none"
  /\ \A e \in 1..(d - 1) : job[e].at # "none"
  /\ job' = [job EXCEPT ![d].at = "over"]
  /\ UNCHANGED <<files, scan, past>>

\* Mutant: the loop runs past the last payload.  Breaks TypeOK.
PayloadSentPastEnd(w) ==
  /\ job[w].at = "sending" /\ ~job[w].aborted /\ job[w].payload <= Payloads + 1
  /\ job' = [job EXCEPT ![w].payload = @ + 1]
  /\ UNCHANGED <<files, scan, past>>

\* The channel accepts the next payload.
PayloadSent(w) ==
  /\ job[w].at = "sending" /\ ~job[w].aborted /\ job[w].payload <= Payloads
  /\ job' = [job EXCEPT ![w].payload = @ + 1]
  /\ past' = [past EXCEPT !.received = @ \cup {<<job[w].entry, job[w].payload>>}]
  /\ UNCHANGED <<files, scan>>

\* Whether the caller of the core passes onError: a sender may, the recovery does not.
TellsErrors(w) == w \notin Scans /\ job[w].entry \in OnError

\* A payload fails (or the sender was aborted) under bestEffort: the error is swallowed and
\* the next one is tried.
PayloadSwallowed(w) ==
  /\ job[w].at = "sending" /\ job[w].payload <= Payloads
  /\ job[w].entry \in BestEffort
  /\ job' = [job EXCEPT ![w].payload = @ + 1, ![w].hadPartialFailure = @ \/ TellsErrors(w)]
  /\ UNCHANGED <<files, scan, past>>

\* Where the core may throw: at any payload without bestEffort, and before the first one when
\* the channel has no handler; under bestEffort when onError itself throws; and after the last
\* payload, when the answer cannot be mirrored into the transcript.
MayThrow(w) ==
  /\ job[w].at = "sending"
  /\ \/ ~job[w].aborted /\ (job[w].entry \notin BestEffort \/ job[w].payload = 1)
     \/ job[w].entry \in BestEffort /\ TellsErrors(w)
     \/ job[w].payload > Payloads

\* Mutant: an error is acknowledged like an abort.  Breaks KeptUntilSentOrBestEffort.
SendThrowsAcked(w) ==
  /\ MayThrow(w)
  /\ Goes(w, "rename")
  /\ UNCHANGED <<files, scan, past>>

\* The core throws: failDelivery.
SendThrows(w) ==
  /\ MayThrow(w)
  /\ Goes(w, "read")
  /\ UNCHANGED <<files, scan, past>>

\* A recovery scan meets one of the permanent errors.
PermanentError(r) ==
  /\ MayThrow(r)
  /\ Goes(r, "move")
  /\ UNCHANGED <<files, scan, past>>

\* The caller of the sender gives up.
Abort(d) ==
  /\ job[d].at = "sending" /\ ~job[d].aborted
  /\ job' = [job EXCEPT ![d].aborted = TRUE]
  /\ UNCHANGED <<files, scan, past>>

\* throwIfAborted: an AbortError is acknowledged.  Under bestEffort it is swallowed above.
AbortThrows(d) ==
  /\ job[d].at = "sending" /\ job[d].aborted
  /\ d \notin BestEffort /\ job[d].payload <= Payloads
  /\ Goes(d, "rename")
  /\ UNCHANGED <<files, scan, past>>

\* The core returns.
CoreReturns(w) ==
  /\ job[w].at = "sending" /\ job[w].payload > Payloads
  /\ Goes(w, IF job[w].hadPartialFailure THEN "read" ELSE "rename")
  /\ UNCHANGED <<files, scan, past>>

--------------------------------------------------------------------------------
(* The files.                                                               *)

\* Mutant: the marker is written but the entry is not renamed.  Breaks AckedNotReplayed.
AckCopy(w) ==
  /\ job[w].at = "rename"
  /\ marker' = marker \cup {job[w].entry}
  /\ Goes(w, "unlink")
  /\ past' = [past EXCEPT !.acked = @ \cup {job[w].entry}]
  /\ UNCHANGED <<json, failed, scan>>

\* ackDelivery, phase 1.
AckRename(w) ==
  LET d == job[w].entry IN
  /\ job[w].at = "rename"
  /\ IF json[d] # NoFile
       THEN /\ json' = [json EXCEPT ![d] = NoFile]
            /\ marker' = marker \cup {d}
            /\ Goes(w, "unlink")
       ELSE /\ marker' = marker \ {d}
            /\ Ends(w)
            /\ UNCHANGED json
  /\ past' = [past EXCEPT !.acked = @ \cup {d}]
  /\ UNCHANGED <<failed, scan>>

\* Phase 2.
AckUnlink(w) ==
  /\ job[w].at = "unlink"
  /\ marker' = marker \ {job[w].entry}
  /\ Ends(w)
  /\ UNCHANGED <<json, failed, scan, past>>

\* failDelivery reads the entry; if it is gone, that is the end of it.
FailRead(w) ==
  LET d == job[w].entry IN
  /\ job[w].at = "read"
  /\ IF json[d] # NoFile
       THEN job' = [job EXCEPT ![w].at = "write", ![w].retryCount = json[d]]
       ELSE Ends(w)
  /\ UNCHANGED <<files, scan, past>>

FailWrite(w) ==
  /\ job[w].at = "write"
  /\ json' = [json EXCEPT ![job[w].entry] = Bump(job[w].retryCount)]
  /\ Ends(w)
  /\ UNCHANGED <<marker, failed, scan, past>>

\* moveToFailed: a rename, and an entry that is gone is only logged.
MoveToFailed(r) ==
  LET d == job[r].entry IN
  /\ job[r].at = "move"
  /\ json' = [json EXCEPT ![d] = NoFile]
  /\ failed' = IF json[d] # NoFile THEN failed \cup {d} ELSE failed
  /\ Ends(r)
  /\ UNCHANGED <<marker, scan, past>>

--------------------------------------------------------------------------------
(* Recovery.                                                                *)

Pending == {d \in Deliveries : json[d] # NoFile}
OldestFirst(list) == \A i, j \in DOMAIN list : i < j => list[i].id < list[j].id

\* What loadPendingDeliveries may return: the one list of what is pending, oldest first.
Loaded ==
  LET entries == {[id |-> d, retryCount |-> json[d]] : d \in Pending} IN
  {list \in [1..Cardinality(Pending) -> entries] : OldestFirst(list)}

\* Other workers are at the entry d, or a scan has it still before it.
InUse(d) ==
  \/ \E w \in Workers : Working(w) /\ job[w].entry = d
  \/ \E r \in Scans : d \in {e.id : e \in ToSet(scan[r])}

StartsScan(r) ==
  /\ job[r].at = "none"
  /\ marker' = {}
  /\ \E list \in Loaded : scan' = [scan EXCEPT ![r] = list]
  /\ past' = [past EXCEPT !.overlapped = @ \cup {d \in Pending : InUse(d)}]
  /\ Goes(r, "picking")
  /\ UNCHANGED failed

\* A scan starts with each start of the gateway, which does not wait for an older one.
\* Leftover markers are unlinked.
StartRecovery(r) == StartsScan(r) /\ UNCHANGED json

Picking(r) == job[r].at = "picking" /\ scan[r] # <<>>
NextUp(r) == Head(scan[r])

Takes(r, place) ==
  /\ Picking(r) /\ ~job[r].deferring
  /\ job' = [job EXCEPT ![r].at = place, ![r].entry = NextUp(r).id]
  /\ scan' = [scan EXCEPT ![r] = Tail(@)]
  /\ UNCHANGED <<files, past>>

Skips(r) ==
  /\ Picking(r) /\ ~job[r].deferring
  /\ job' = [job EXCEPT ![r].begun = TRUE]
  /\ scan' = [scan EXCEPT ![r] = Tail(@)]
  /\ UNCHANGED <<files, past>>

Exhausted(r) == Picking(r) /\ NextUp(r).retryCount >= MaxRetries

\* Mutant: an exhausted entry is passed over, not moved.  Breaks EveryEntryLeaves.
GiveUpLeaving(r) == Exhausted(r) /\ Skips(r)

GiveUp(r) == Exhausted(r) /\ Takes(r, "move")

\* Whether the backoff has elapsed depends on the clock; the first replay does not wait.
SkipForBackoff(r) == Picking(r) /\ ~Exhausted(r) /\ NextUp(r).retryCount > 0 /\ Skips(r)

Replay(r, d) == Picking(r) /\ NextUp(r).id = d /\ ~Exhausted(r) /\ Takes(r, "sending")

\* The time budget, which the first entry cannot have used up.
BudgetExceeded(r) ==
  /\ Picking(r) /\ job[r].begun /\ ~job[r].deferring
  /\ job' = [job EXCEPT ![r].deferring = TRUE]
  /\ UNCHANGED <<files, scan, past>>

\* failDelivery for every entry that is left.
Defer(r) ==
  /\ Picking(r) /\ job[r].deferring
  /\ job' = [job EXCEPT ![r].at = "read", ![r].entry = NextUp(r).id]
  /\ scan' = [scan EXCEPT ![r] = Tail(@)]
  /\ UNCHANGED <<files, past>>

RecoveryEnds(r) ==
  /\ job[r].at = "picking" /\ scan[r] = <<>>
  /\ job' = [job EXCEPT ![r] = NoJob]
  /\ UNCHANGED <<files, scan, past>>

\* The process dies.  Senders do not come back; a later start scans what is on disk.
Crash ==
  /\ past.crashes < MaxCrashes
  /\ \E w \in Workers : Working(w)
  /\ job' = [w \in Workers |-> IF w \in Scans THEN NoJob
                               ELSE IF Working(w) THEN Over(w) ELSE job[w]]
  /\ scan' = [r \in Scans |-> <<>>]
  /\ past' = [past EXCEPT !.crashes = @ + 1]
  /\ UNCHANGED files

SendStep(w) == PayloadSent(w) \/ PayloadSwallowed(w) \/ SendThrows(w) \/ CoreReturns(w)
FileStep(w) == AckRename(w) \/ AckUnlink(w) \/ FailRead(w) \/ FailWrite(w)
RecoveryStep(r) ==
  \/ PermanentError(r) \/ MoveToFailed(r)
  \/ GiveUp(r) \/ SkipForBackoff(r) \/ (\E d \in Deliveries : Replay(r, d))
  \/ BudgetExceeded(r) \/ Defer(r) \/ RecoveryEnds(r)

Next ==
  \/ \E d \in Deliveries : Enqueue(d) \/ EnqueueFails(d) \/ Abort(d) \/ AbortThrows(d)
  \/ \E w \in Workers : SendStep(w) \/ FileStep(w)
  \/ \E r \in Scans : StartRecovery(r) \/ RecoveryStep(r)
  \/ Crash

Spec == Init /\ [][Next]_vars

\* Sends end, one way or another, and files are written.  The gateway is started again and
\* again, since nothing else scans the queue, and not always within the backoff of an entry.
Fairness ==
  /\ \A d \in Deliveries : WF_vars(SendStep(d) \/ AbortThrows(d) \/ FileStep(d))
  /\ \A r \in Scans : WF_vars(SendStep(r) \/ FileStep(r) \/ RecoveryStep(r))
  /\ \A r \in Scans : WF_vars(StartRecovery(r))
  /\ \A r \in Scans, d \in Deliveries : SF_vars(Replay(r, d))

FairSpec == Spec /\ Fairness

--------------------------------------------------------------------------------
(* Safety.                                                                  *)

Queued(d) == job[d].entry = d
Received(d) == \A i \in 1..Payloads : <<d, i>> \in past.received
Kept(d) == json[d] # NoFile \/ d \in failed
KeptOrSettled(d) == Queued(d) => Kept(d) \/ Received(d) \/ job[d].aborted

\* deliver.ts:500, 517-520: once its sender is through, or dead, a persisted delivery is on
\* disk until all of it was sent, unless its caller gave it up.
KeptUntilSent == \A d \in Deliveries : Working(d) \/ KeptOrSettled(d)

\* What the code does guarantee, at all times: bestEffort deliveries are excepted.
KeptUntilSentOrBestEffort == \A d \in Deliveries \ BestEffort : KeptOrSettled(d)

--------------------------------------------------------------------------------
(* Action properties.                                                       *)

\* delivery-queue-storage.ts:153-161: an acknowledged entry does not come back, not even after
\* a crash between the phases, and it is not taken up again, although the list of a scan may be
\* old.  Entries are excepted that a scan loaded while their sender, or another scan, was at work
\* on them: then the failDelivery of one writes the entry back after the ackDelivery of the other.
AckedNotReplayed ==
  [][ \A d \in past.acked \ past'.overlapped :
        /\ json'[d] = NoFile
        /\ \A w \in Workers :
             job'[w].at = "sending" /\ job[w].at # "sending" => job'[w].entry # d ]_vars

--------------------------------------------------------------------------------
(* Liveness.                                                                *)

\* delivery-queue-recovery.ts:99-100, 144-146: every entry leaves the queue: it is sent, given
\* up, or moved to failed/.  None is retried or deferred for ever.
EveryEntryLeaves == \A d \in Deliveries : json[d] # NoFile ~> json[d] = NoFile
================================================================================
