-------------------------- MODULE DeliveryQueueProofs --------------------------
(***************************************************************************)
(* Proofs about the outbound delivery queue, for any deliveries, payloads, *)
(* scans and bounds.                                                       *)
(*                                                                         *)
(* Two arguments.  An entry leaves the disk only through a worker that has *)
(* seen all its payloads accepted, or through its sender's being aborted.  *)
(* And an entry that no scan has loaded while it was in use has one user,  *)
(* so that nobody can write it back once that user has acknowledged it.    *)
(***************************************************************************)
EXTENDS DeliveryQueue, FiniteSetTheorems, TLAPS

--------------------------------------------------------------------------------
(* The inductive invariant.                                                 *)

AtEntry == {"sending", "rename", "unlink", "read", "write", "move"}

\* A sender is at its own delivery, and does not move it to failed/.
SendersHaveOwn ==
  \A d \in Deliveries :
    /\ job[d].at \in {"none", "over"} \/ (job[d].at \in AtEntry \ {"move"} /\ job[d].entry = d)
    /\ job[d].entry \in {0, d}
    /\ job[d].at = "none" => job[d].entry = 0

\* A scan is at an entry from the start of its payloads.
ScansHaveEntries ==
  \A r \in Scans : \/ job[r].at \in {"none", "picking"} /\ job[r].entry = 0 /\ job[r].payload = 1
                   \/ job[r].at \in AtEntry /\ job[r].entry \in Deliveries

\* A worker has passed over no payload of a delivery without bestEffort.
SentSoFar ==
  \A w \in Workers : job[w].at = "sending" /\ job[w].entry \notin BestEffort =>
    \A i \in 1..Payloads : i < job[w].payload => <<job[w].entry, i>> \in past.received

\* What is about to be acknowledged has been sent, or was given up.
AckedWhenSent ==
  \A w \in Workers : job[w].at = "rename" /\ job[w].entry \notin BestEffort =>
    Received(job[w].entry) \/ job[job[w].entry].aborted

Using(w, d) == job[w].at \in AtEntry /\ job[w].entry = d
Listed(r, d) == \E i \in DOMAIN scan[r] : scan[r][i].id = d

ListsAreSorted == \A r \in Scans : OldestFirst(scan[r])

\* A delivery that is not enqueued yet is known to nobody.
FreshIsUnknown ==
  \A d \in Deliveries : job[d].at = "none" =>
    /\ json[d] = NoFile /\ d \notin past.acked
    /\ \A w \in Workers : ~Using(w, d)
    /\ \A r \in Scans : ~Listed(r, d)

\* An entry that was never loaded while it was in use has one user.
OneUser ==
  \A d \in Deliveries \ past.overlapped :
    /\ \A v, w \in Workers : Using(v, d) /\ Using(w, d) => v = w
    /\ \A w \in Workers, r \in Scans : ~(Using(w, d) /\ Listed(r, d))
    /\ \A q, r \in Scans : Listed(q, d) /\ Listed(r, d) => q = r

AckedIsGone ==
  \A d \in past.acked \ past.overlapped :
    /\ json[d] = NoFile
    /\ \A w \in Workers : Using(w, d) => job[w].at = "unlink"
    /\ \A r \in Scans : ~Listed(r, d)

IInv ==
  /\ TypeOK
  /\ SendersHaveOwn
  /\ ScansHaveEntries
  /\ SentSoFar
  /\ AckedWhenSent
  /\ ListsAreSorted
  /\ FreshIsUnknown
  /\ OneUser
  /\ AckedIsGone
  /\ KeptUntilSentOrBestEffort

--------------------------------------------------------------------------------
(* What the operations do to the records.                                   *)

Jobs == [at : Places, entry : 0..MaxDelivery, payload : 1..(Payloads + 1),
         hadPartialFailure : BOOLEAN, aborted : BOOLEAN,
         retryCount : 0..MaxRetries, begun : BOOLEAN, deferring : BOOLEAN]
Entries == [id : Deliveries, retryCount : 0..MaxRetries]
Pasts == [received : SUBSET (Deliveries \X (1..Payloads)), acked : SUBSET Deliveries,
          overlapped : SUBSET Deliveries, crashes : 0..MaxCrashes]

\* The constants, and who is a worker.
LEMMA Constants ==
  /\ MaxDelivery \in Nat /\ MaxRetries \in Nat /\ MaxCrashes \in Nat
  /\ Payloads \in Nat /\ Payloads > 0
  /\ Scans \cap Deliveries = {}
  /\ Deliveries \subseteq Workers /\ Scans \subseteq Workers
  /\ \A w \in Workers : w \notin Scans => w \in Deliveries
  /\ \A d \in Deliveries : d \in Nat /\ d > 0 /\ d <= MaxDelivery /\ d /= 0
  /\ NoFile \notin Nat
BY DeliveryAssumption DEF Deliveries, Workers, NoFile

\* TypeOK, component by component.
LEMMA Types ==
  ASSUME TypeOK
  PROVE  /\ json \in [Deliveries -> NoFile..MaxRetries]
         /\ \A d \in Deliveries : json[d] /= NoFile => json[d] \in 0..MaxRetries
         /\ marker \subseteq Deliveries /\ failed \subseteq Deliveries
         /\ job \in [Workers -> Jobs]
         /\ \A w \in Workers : /\ job[w].at \in Places /\ job[w].entry \in 0..MaxDelivery
                               /\ job[w].payload \in 1..(Payloads + 1)
                               /\ job[w].aborted \in BOOLEAN
                               /\ job[w].retryCount \in 0..MaxRetries
         /\ scan \in [Scans -> Seq(Entries)]
         /\ past \in Pasts
         /\ past.acked \subseteq Deliveries /\ past.overlapped \subseteq Deliveries
<1>1. /\ json \in [Deliveries -> NoFile..MaxRetries]
      /\ marker \subseteq Deliveries /\ failed \subseteq Deliveries
      /\ job \in [Workers -> Jobs]
      /\ scan \in [Scans -> Seq(Entries)]
      /\ past \in Pasts
  BY DEF TypeOK, Jobs, Entries, Pasts
<1>2. \A d \in Deliveries : json[d] /= NoFile => json[d] \in 0..MaxRetries
  BY <1>1, Constants DEF NoFile
<1>3. \A w \in Workers : /\ job[w].at \in Places /\ job[w].entry \in 0..MaxDelivery
                         /\ job[w].payload \in 1..(Payloads + 1)
                         /\ job[w].aborted \in BOOLEAN
                         /\ job[w].retryCount \in 0..MaxRetries
  BY <1>1 DEF Jobs
<1>4. past.acked \subseteq Deliveries /\ past.overlapped \subseteq Deliveries
  BY <1>1 DEF Pasts
<1>. QED BY <1>1, <1>2, <1>3, <1>4

\* The types are kept when those of the variables are.
LEMMA TypesKept ==
  ASSUME json' \in [Deliveries -> NoFile..MaxRetries],
         marker' \subseteq Deliveries, failed' \subseteq Deliveries,
         job' \in [Workers -> Jobs], scan' \in [Scans -> Seq(Entries)], past' \in Pasts
  PROVE  TypeOK'
BY DEF TypeOK, Jobs, Entries, Pasts

\* The records that a worker starts or ends with.
LEMMA FreshJob ==
  /\ NoJob \in Jobs
  /\ NoJob.at = "none" /\ NoJob.entry = 0 /\ NoJob.payload = 1 /\ NoJob.aborted = FALSE
BY Constants DEF NoJob, Jobs, Places

\* A sender that is over keeps its entry, and whether it was given up.
LEMMA OverFacts ==
  ASSUME NEW w \in Workers, job[w] \in Jobs
  PROVE  /\ Over(w) \in Jobs /\ Over(w).at = "over"
         /\ Over(w).entry = job[w].entry /\ Over(w).aborted = job[w].aborted
<1>1. Over(w) \in Jobs
  <2>1. "over" \in Places
    BY DEF Places
  <2>. QED BY <2>1, FreshJob DEF Over, Jobs
<1>. QED BY <1>1 DEF Over, NoJob

\* A worker goes on at another place.
LEMMA GoesFacts ==
  ASSUME TypeOK, NEW w \in Workers, NEW place \in Places, Goes(w, place)
  PROVE  /\ job' \in [Workers -> Jobs]
         /\ \A v \in Workers : v /= w => job'[v] = job[v]
         /\ job'[w].at = place /\ job'[w].entry = job[w].entry
         /\ job'[w].payload = job[w].payload /\ job'[w].aborted = job[w].aborted
<1>1. job \in [Workers -> Jobs]
  BY Types
<1>2. /\ \A v \in Workers : v /= w => job'[v] = job[v]
      /\ job'[w] = [job[w] EXCEPT !.at = place]
      /\ DOMAIN job' = Workers
      /\ job' = [v \in Workers |-> job'[v]]
  BY <1>1 DEF Goes
<1>3. /\ job'[w].at = place /\ job'[w].entry = job[w].entry
      /\ job'[w].payload = job[w].payload /\ job'[w].aborted = job[w].aborted
      /\ job'[w] \in Jobs
  BY <1>1, <1>2 DEF Jobs
<1>4. job' \in [Workers -> Jobs]
  BY <1>1, <1>2, <1>3
<1>. QED BY <1>2, <1>3, <1>4

\* A worker is through with its entry.
LEMMA EndsFacts ==
  ASSUME TypeOK, NEW w \in Workers, Ends(w)
  PROVE  /\ job' \in [Workers -> Jobs]
         /\ \A v \in Workers : v /= w => job'[v] = job[v]
         /\ w \in Scans => /\ job'[w].at = "picking" /\ job'[w].entry = 0
                           /\ job'[w].payload = 1
         /\ w \notin Scans => /\ job'[w].at = "over" /\ job'[w].entry = job[w].entry
                              /\ job'[w].aborted = job[w].aborted
<1>1. job \in [Workers -> Jobs]
  BY Types
<1>2. /\ \A v \in Workers : v /= w => job'[v] = job[v]
      /\ job'[w] = Ended(w)
      /\ DOMAIN job' = Workers
      /\ job' = [v \in Workers |-> job'[v]]
  BY <1>1 DEF Ends
<1>3. job[w] \in Jobs
  BY <1>1
<1>4. CASE w \in Scans
  <2>1. job'[w] = [NoJob EXCEPT !.at = "picking", !.begun = TRUE, !.deferring = job[w].deferring]
    BY <1>2, <1>4 DEF Ended
  <2>2. /\ job'[w] \in Jobs
        /\ job'[w].at = "picking" /\ job'[w].entry = 0 /\ job'[w].payload = 1
    <3>1. job'[w] = [at |-> "picking", entry |-> 0, payload |-> 1,
                     hadPartialFailure |-> FALSE, aborted |-> FALSE,
                     retryCount |-> 0, begun |-> TRUE, deferring |-> job[w].deferring]
      BY <2>1 DEF NoJob
    <3>2. job[w].deferring \in BOOLEAN
      BY <1>3 DEF Jobs
    <3>3. /\ 1 \in 1..(Payloads + 1) /\ 0 \in 0..MaxRetries /\ 0 \in 0..MaxDelivery
          /\ "picking" \in Places
      BY Constants DEF Places
    <3>. QED BY <3>1, <3>2, <3>3 DEF Jobs
  <2>. QED BY <2>2, <1>4, <1>1, <1>2
<1>5. CASE w \notin Scans
  <2>1. job'[w] = Over(w)
    BY <1>2, <1>5 DEF Ended
  <2>2. /\ job'[w] \in Jobs
        /\ job'[w].at = "over" /\ job'[w].entry = job[w].entry
        /\ job'[w].aborted = job[w].aborted
    BY <2>1, <1>3, OverFacts
  <2>. QED BY <2>2, <1>5, <1>1, <1>2
<1>. QED BY <1>4, <1>5

--------------------------------------------------------------------------------
(* Three ways in which a step keeps its part of the invariant.              *)

\* When one worker w goes on, the parts about what workers hold need be looked at for w only.
LEMMA OneWorks ==
  ASSUME SendersHaveOwn, ScansHaveEntries, SentSoFar, AckedWhenSent, NEW w \in Workers,
         \A v \in Workers : v /= w => job'[v] = job[v],
         past.received \subseteq past'.received,
         w \in Deliveries => /\ \/ job'[w].at \in {"none", "over"}
                                \/ job'[w].at \in AtEntry \ {"move"} /\ job'[w].entry = w
                             /\ job'[w].entry \in {0, w}
                             /\ job'[w].at = "none" => job'[w].entry = 0
                             /\ job[w].aborted => job'[w].aborted,
         w \in Scans => \/ /\ job'[w].at \in {"none", "picking"}
                           /\ job'[w].entry = 0 /\ job'[w].payload = 1
                        \/ job'[w].at \in AtEntry /\ job'[w].entry \in Deliveries,
         job'[w].at = "sending" /\ job'[w].entry \notin BestEffort =>
           \A i \in 1..Payloads : i < job'[w].payload => <<job'[w].entry, i>> \in past'.received,
         job'[w].at = "rename" /\ job'[w].entry \notin BestEffort =>
           \/ \A i \in 1..Payloads : <<job'[w].entry, i>> \in past'.received
           \/ job'[job'[w].entry].aborted
  PROVE  SendersHaveOwn' /\ ScansHaveEntries' /\ SentSoFar' /\ AckedWhenSent'
<1>1. SendersHaveOwn'
  BY Constants DEF SendersHaveOwn
<1>2. ScansHaveEntries'
  BY Constants DEF ScansHaveEntries
<1>3. SentSoFar'
  BY DEF SentSoFar
<1>4. \A v \in Workers : job[v].at = "rename" => job[v].entry \in Deliveries
  BY Constants DEF SendersHaveOwn, ScansHaveEntries, AtEntry
<1>5. AckedWhenSent'
  <2>1. SUFFICES ASSUME NEW v \in Workers, v /= w, job[v].at = "rename",
                        job[v].entry \notin BestEffort
                 PROVE  \/ \A i \in 1..Payloads : <<job[v].entry, i>> \in past'.received
                        \/ job'[job[v].entry].aborted
    BY DEF AckedWhenSent, Received
  <2>2. Received(job[v].entry) \/ job[job[v].entry].aborted
    BY <2>1 DEF AckedWhenSent
  <2>3. CASE Received(job[v].entry)
    BY <2>3 DEF Received
  <2>4. CASE job[job[v].entry].aborted
    BY <2>1, <2>4, <1>4, Constants
  <2>. QED BY <2>2, <2>3, <2>4
<1>. QED BY <1>1, <1>2, <1>3, <1>5

\* When nobody comes to an entry, and entries are only written by those who had read them,
\* the parts about who uses an entry are kept.
LEMMA NobodyComes ==
  ASSUME TypeOK, FreshIsUnknown, OneUser, AckedIsGone,
         \A w \in Workers, d \in Deliveries :
           job'[w].at \in AtEntry /\ job'[w].entry = d =>
             /\ job[w].at \in AtEntry /\ job[w].entry = d
             /\ job[w].at = "unlink" => job'[w].at = "unlink",
         \A r \in Scans, d \in Deliveries : Listed(r, d)' => Listed(r, d),
         \A d \in Deliveries : job'[d].at = "none" => job[d].at = "none",
         \A d \in Deliveries : json'[d] /= NoFile =>
           \/ json[d] /= NoFile
           \/ \E w \in Workers : job[w].at = "write" /\ job[w].entry = d,
         past'.acked = past.acked, past'.overlapped = past.overlapped
  PROVE  FreshIsUnknown' /\ OneUser' /\ AckedIsGone'
<1>1. FreshIsUnknown'
  BY DEF FreshIsUnknown, Using, AtEntry
<1>2. OneUser'
  BY DEF OneUser, Using
<1>3. AckedIsGone'
  <2>1. past.acked \subseteq Deliveries
    BY Types
  <2>. QED BY <2>1 DEF AckedIsGone, Using, AtEntry
<1>. QED BY <1>1, <1>2, <1>3

\* A delivery is kept when its entry goes only once it was sent or given up.
LEMMA KeptSo ==
  ASSUME KeptUntilSentOrBestEffort,
         past.received \subseteq past'.received,
         \A d \in Deliveries : job'[d].entry = d => job[d].entry = d \/ json'[d] /= NoFile,
         \A d \in Deliveries : job[d].entry = d /\ job[d].aborted => job'[d].aborted,
         \A d \in Deliveries : json[d] /= NoFile \/ d \in failed =>
           \/ json'[d] /= NoFile \/ d \in failed'
           \/ d \in BestEffort \/ Received(d) \/ job[d].aborted
  PROVE  KeptUntilSentOrBestEffort'
<1>1. SUFFICES ASSUME NEW d \in Deliveries, d \notin BestEffort, job'[d].entry = d,
                      json'[d] = NoFile
               PROVE  \/ d \in failed' \/ job'[d].aborted
                      \/ \A i \in 1..Payloads : <<d, i>> \in past'.received
  BY DEF KeptUntilSentOrBestEffort, KeptOrSettled, Queued, Kept, Received
<1>2. job[d].entry = d
  BY <1>1
<1>3. json[d] /= NoFile \/ d \in failed \/ Received(d) \/ job[d].aborted
  BY <1>1, <1>2 DEF KeptUntilSentOrBestEffort, KeptOrSettled, Queued, Kept
<1>4. Received(d) => \A i \in 1..Payloads : <<d, i>> \in past'.received
  BY DEF Received
<1>. QED BY <1>1, <1>2, <1>3, <1>4

--------------------------------------------------------------------------------
(* The queue starts empty.                                                  *)

LEMMA InitIInv == Init => IInv
<1>. SUFFICES ASSUME Init PROVE IInv
  OBVIOUS
<1>1. /\ \A d \in Deliveries : json[d] = NoFile
      /\ \A w \in Workers : job[w] = NoJob
      /\ \A r \in Scans : scan[r] = <<>>
      /\ past.acked = {} /\ past.overlapped = {}
  BY Constants DEF Init
<1>2. /\ \A w \in Workers : /\ job[w].at = "none" /\ job[w].entry = 0
                            /\ job[w].payload = 1 /\ job[w].aborted = FALSE
      /\ \A w \in Workers, d \in Deliveries : ~Using(w, d)
      /\ \A r \in Scans, d \in Deliveries : ~Listed(r, d)
  BY <1>1, FreshJob DEF Using, AtEntry, Listed
<1>3. TypeOK
  <2>1. json \in [Deliveries -> NoFile..MaxRetries] /\ marker = {} /\ failed = {}
    BY Constants DEF Init, NoFile
  <2>2. job \in [Workers -> Jobs] /\ scan \in [Scans -> Seq(Entries)]
    BY FreshJob DEF Init
  <2>3. past \in Pasts
    BY Constants DEF Init, Pasts
  <2>. QED BY <2>1, <2>2, <2>3 DEF TypeOK, Jobs, Entries, Pasts
<1>4. SendersHaveOwn /\ ScansHaveEntries /\ SentSoFar /\ AckedWhenSent
  BY <1>2, Constants DEF SendersHaveOwn, ScansHaveEntries, SentSoFar, AckedWhenSent
<1>5. ListsAreSorted
  BY <1>1 DEF ListsAreSorted, OldestFirst
<1>6. FreshIsUnknown /\ OneUser /\ AckedIsGone
  BY <1>1, <1>2 DEF FreshIsUnknown, OneUser, AckedIsGone
<1>7. KeptUntilSentOrBestEffort
  BY <1>2, Constants DEF KeptUntilSentOrBestEffort, KeptOrSettled, Queued
<1>. QED BY <1>3, <1>4, <1>5, <1>6, <1>7 DEF IInv

--------------------------------------------------------------------------------
(* Every step keeps the invariant: enqueueing.                              *)

\* Enqueue.  Nobody knows the delivery yet, and its sender is the first to use it.
LEMMA EnqueueKeeps ==
  ASSUME IInv, NEW d \in Deliveries, Enqueue(d)
  PROVE  IInv'
<1>. USE DEF IInv
<1>1. /\ job[d].at = "none"
      /\ job' = [job EXCEPT ![d] = [NoJob EXCEPT !.at = "sending", !.entry = d]]
      /\ json' = [json EXCEPT ![d] = 0]
      /\ marker' = marker /\ failed' = failed /\ scan' = scan /\ past' = past
  BY DEF Enqueue
<1>2. /\ \A e \in Deliveries : e /= d => json'[e] = json[e]
      /\ json'[d] = 0 /\ json'[d] /= NoFile
      /\ json' \in [Deliveries -> NoFile..MaxRetries]
  BY <1>1, Types, Constants DEF NoFile
<1>3. /\ \A v \in Workers : v /= d => job'[v] = job[v]
      /\ job'[d].at = "sending" /\ job'[d].entry = d /\ job'[d].payload = 1
      /\ job' \in [Workers -> Jobs]
  <2>1. /\ \A v \in Workers : v /= d => job'[v] = job[v]
        /\ job'[d] = [NoJob EXCEPT !.at = "sending", !.entry = d]
    BY <1>1, Types, Constants
  <2>2. [NoJob EXCEPT !.at = "sending", !.entry = d] \in Jobs
    <3>1. "sending" \in Places /\ d \in 0..MaxDelivery
      BY Constants DEF Places
    <3>. QED BY <3>1, FreshJob DEF Jobs
  <2>3. job'[d].at = "sending" /\ job'[d].entry = d /\ job'[d].payload = 1
    BY <2>1 DEF NoJob
  <2>. QED BY <1>1, <2>1, <2>2, <2>3, Types
<1>4. /\ \A w \in Workers : ~(job[w].at \in AtEntry /\ job[w].entry = d)
      /\ \A r \in Scans : ~Listed(r, d)
      /\ d \notin past.acked
  BY <1>1 DEF FreshIsUnknown, Using
<1>5. TypeOK'
  BY <1>1, <1>2, <1>3, Types, TypesKept
<1>6. SendersHaveOwn'
  BY <1>3, Constants DEF SendersHaveOwn, AtEntry
<1>7. ScansHaveEntries'
  BY <1>3, Constants DEF ScansHaveEntries
<1>8. SentSoFar'
  BY <1>1, <1>3 DEF SentSoFar
<1>9. AckedWhenSent'
  <2>1. \A v \in Workers : job[v].at = "rename" =>
          job[v].entry \in Deliveries /\ job[v].entry /= d
    BY <1>4, Constants DEF SendersHaveOwn, ScansHaveEntries, AtEntry
  <2>. QED BY <1>1, <1>3, <2>1, Constants DEF AckedWhenSent, Received
<1>10. ListsAreSorted'
  BY <1>1 DEF ListsAreSorted, OldestFirst
<1>11. /\ \A w \in Workers, e \in Deliveries : (w /= d \/ e /= d) =>
            (Using(w, e)' => Using(w, e) /\ job'[w] = job[w])
       /\ \A w \in Workers : Using(w, d)' => w = d
       /\ \A r \in Scans, e \in Deliveries : Listed(r, e)' <=> Listed(r, e)
  BY <1>1, <1>3, <1>4 DEF Using, Listed
<1>12. FreshIsUnknown'
  BY <1>1, <1>2, <1>3, <1>11, Constants DEF FreshIsUnknown
<1>13. OneUser'
  BY <1>1, <1>4, <1>11 DEF OneUser
<1>14. AckedIsGone'
  BY <1>1, <1>2, <1>4, <1>11, Types DEF AckedIsGone
<1>15. KeptUntilSentOrBestEffort'
  BY <1>1, <1>2, <1>3, Constants
     DEF KeptUntilSentOrBestEffort, KeptOrSettled, Queued, Kept, Received
<1>. QED BY <1>5, <1>6, <1>7, <1>8, <1>9, <1>10, <1>12, <1>13, <1>14, <1>15

\* EnqueueFails.
LEMMA EnqueueFailsKeeps ==
  ASSUME IInv, NEW d \in Deliveries, EnqueueFails(d)
  PROVE  IInv'
<1>. USE DEF IInv
<1>1. /\ job[d].at = "none" /\ Goes(d, "over")
      /\ json' = json /\ marker' = marker /\ failed' = failed /\ scan' = scan /\ past' = past
  BY DEF EnqueueFails, Goes, files
<1>2. /\ \A v \in Workers : v /= d => job'[v] = job[v]
      /\ job'[d].at = "over" /\ job'[d].entry = job[d].entry
      /\ job'[d].aborted = job[d].aborted
      /\ job' \in [Workers -> Jobs]
  BY <1>1, GoesFacts, Constants DEF Places
<1>3. TypeOK'
  BY <1>1, <1>2, Types, TypesKept
<1>4. SendersHaveOwn' /\ ScansHaveEntries' /\ SentSoFar' /\ AckedWhenSent'
  <2>1. job'[d].entry \in {0, d}
    BY <1>2 DEF SendersHaveOwn
  <2>. QED BY <1>1, <1>2, <2>1, Constants, OneWorks DEF AtEntry
<1>5. ListsAreSorted'
  BY <1>1 DEF ListsAreSorted, OldestFirst
<1>6. FreshIsUnknown' /\ OneUser' /\ AckedIsGone'
  <2>1. \A w \in Workers : w /= d \/ job'[w].at \notin AtEntry
    BY <1>2 DEF AtEntry
  <2>2. \A r \in Scans, e \in Deliveries : Listed(r, e)' => Listed(r, e)
    BY <1>1 DEF Listed
  <2>3. \A e \in Deliveries : job'[e].at = "none" => job[e].at = "none"
    BY <1>2, Constants
  <2>. QED BY <1>1, <1>2, <2>1, <2>2, <2>3, NobodyComes
<1>7. KeptUntilSentOrBestEffort'
  BY <1>1, <1>2, Constants, KeptSo
<1>. QED BY <1>3, <1>4, <1>5, <1>6, <1>7

--------------------------------------------------------------------------------
(* Sending.                                                                 *)

\* A worker leaves the payloads for the files: it acknowledges only what was sent or given up.
LEMMA LeavesSending ==
  ASSUME IInv, NEW w \in Workers, NEW place \in {"rename", "read", "move"},
         job[w].at = "sending", Goes(w, place), UNCHANGED <<files, scan, past>>,
         place = "move" => w \in Scans,
         place = "rename" /\ job[w].entry \notin BestEffort =>
           Received(job[w].entry) \/ job[job[w].entry].aborted
  PROVE  IInv'
<1>. USE DEF IInv
<1>1. json' = json /\ marker' = marker /\ failed' = failed /\ scan' = scan /\ past' = past
  BY DEF files
<1>2. /\ \A v \in Workers : v /= w => job'[v] = job[v]
      /\ job'[w].at = place /\ job'[w].entry = job[w].entry
      /\ job'[w].aborted = job[w].aborted
      /\ job' \in [Workers -> Jobs]
  <2>1. place \in Places
    BY DEF Places
  <2>. QED BY <2>1, GoesFacts
<1>3. TypeOK'
  BY <1>1, <1>2, Types, TypesKept
<1>4. \A v \in Workers : job'[v].entry = job[v].entry /\ job'[v].aborted = job[v].aborted
  BY <1>2
<1>5. SendersHaveOwn' /\ ScansHaveEntries' /\ SentSoFar' /\ AckedWhenSent'
  <2>1. w \in Deliveries => /\ job'[w].at \in AtEntry \ {"move"} /\ job'[w].entry = w
                            /\ job'[w].at /= "none"
    BY <1>2, Constants DEF SendersHaveOwn, AtEntry
  <2>2. w \in Scans => job'[w].at \in AtEntry /\ job'[w].entry \in Deliveries
    BY <1>2 DEF ScansHaveEntries, AtEntry
  <2>3. job[w].entry \in Deliveries
    BY <2>1, <2>2, <1>2, Constants
  <2>4. place = "rename" /\ job[w].entry \notin BestEffort =>
          \/ \A i \in 1..Payloads : <<job'[w].entry, i>> \in past'.received
          \/ job'[job'[w].entry].aborted
    BY <1>1, <1>4, <2>3, Constants DEF Received
  <2>. QED BY <1>1, <1>2, <2>1, <2>2, <2>4, OneWorks
<1>6. ListsAreSorted'
  BY <1>1 DEF ListsAreSorted, OldestFirst
<1>7. FreshIsUnknown' /\ OneUser' /\ AckedIsGone'
  <2>1. \A v \in Workers, e \in Deliveries :
          job'[v].at \in AtEntry /\ job'[v].entry = e =>
             /\ job[v].at \in AtEntry /\ job[v].entry = e
             /\ job[v].at = "unlink" => job'[v].at = "unlink"
    BY <1>2 DEF AtEntry
  <2>2. \A r \in Scans, e \in Deliveries : Listed(r, e)' => Listed(r, e)
    BY <1>1 DEF Listed
  <2>3. \A e \in Deliveries : job'[e].at = "none" => job[e].at = "none"
    BY <1>2, Constants
  <2>. QED BY <1>1, <2>1, <2>2, <2>3, NobodyComes
<1>8. KeptUntilSentOrBestEffort'
  BY <1>1, <1>4, Constants, KeptSo
<1>. QED BY <1>3, <1>5, <1>6, <1>7, <1>8

\* Where a worker is that sends, and what is kept when it goes on with its payloads.
LEMMA GoesOnSending ==
  ASSUME IInv, NEW w \in Workers, job[w].at = "sending",
         \A v \in Workers : v /= w => job'[v] = job[v],
         job' \in [Workers -> Jobs],
         job'[w].at = "sending", job'[w].entry = job[w].entry,
         job[w].aborted => job'[w].aborted,
         past' \in Pasts, past'.acked = past.acked, past'.overlapped = past.overlapped,
         past.received \subseteq past'.received,
         job'[w].entry \notin BestEffort => \A i \in 1..Payloads :
           i < job'[w].payload => <<job'[w].entry, i>> \in past'.received,
         UNCHANGED <<files, scan>>
  PROVE  IInv'
<1>. USE DEF IInv
<1>1. json' = json /\ marker' = marker /\ failed' = failed /\ scan' = scan
  BY DEF files
<1>2. TypeOK'
  BY <1>1, Types, TypesKept
<1>3. SendersHaveOwn' /\ ScansHaveEntries' /\ SentSoFar' /\ AckedWhenSent'
  <2>1. w \in Deliveries => /\ job'[w].at \in AtEntry \ {"move"} /\ job'[w].entry = w
                            /\ job'[w].at /= "none"
    BY Constants DEF SendersHaveOwn, AtEntry
  <2>2. w \in Scans => job'[w].at \in AtEntry /\ job'[w].entry \in Deliveries
    BY DEF ScansHaveEntries, AtEntry
  <2>. QED BY <2>1, <2>2, OneWorks
<1>4. ListsAreSorted'
  BY <1>1 DEF ListsAreSorted, OldestFirst
<1>5. FreshIsUnknown' /\ OneUser' /\ AckedIsGone'
  <2>1. \A v \in Workers, e \in Deliveries :
          job'[v].at \in AtEntry /\ job'[v].entry = e =>
             /\ job[v].at \in AtEntry /\ job[v].entry = e
             /\ job[v].at = "unlink" => job'[v].at = "unlink"
    BY DEF AtEntry
  <2>2. \A r \in Scans, e \in Deliveries : Listed(r, e)' => Listed(r, e)
    BY <1>1 DEF Listed
  <2>3. \A e \in Deliveries : job'[e].at = "none" => job[e].at = "none"
    BY Constants
  <2>. QED BY <1>1, <2>1, <2>2, <2>3, NobodyComes
<1>6. KeptUntilSentOrBestEffort'
  <2>1. \A e \in Deliveries : /\ job'[e].entry = e => job[e].entry = e
                              /\ job[e].aborted => job'[e].aborted
    BY Constants
  <2>. QED BY <1>1, <2>1, KeptSo
<1>. QED BY <1>2, <1>3, <1>4, <1>5, <1>6

\* PayloadSent: the payload before which the worker stood has now been received.
LEMMA PayloadSentKeeps ==
  ASSUME IInv, NEW w \in Workers, PayloadSent(w)
  PROVE  IInv'
<1>. USE DEF IInv
<1>1. /\ job[w].at = "sending" /\ job[w].payload <= Payloads
      /\ job' = [job EXCEPT ![w].payload = @ + 1]
      /\ past' = [past EXCEPT !.received = @ \cup {<<job[w].entry, job[w].payload>>}]
      /\ UNCHANGED <<files, scan>>
  BY DEF PayloadSent
<1>2. job[w].entry \in Deliveries /\ job[w].payload \in 1..Payloads
  BY <1>1, Types, Constants DEF SendersHaveOwn, ScansHaveEntries, AtEntry
<1>3. /\ \A v \in Workers : v /= w => job'[v] = job[v]
      /\ job'[w].at = "sending" /\ job'[w].entry = job[w].entry
      /\ job'[w].payload = job[w].payload + 1 /\ job'[w].aborted = job[w].aborted
      /\ job' \in [Workers -> Jobs]
  <2>1. /\ \A v \in Workers : v /= w => job'[v] = job[v]
        /\ job'[w] = [job[w] EXCEPT !.payload = @ + 1]
        /\ job[w] \in Jobs /\ job[w].payload + 1 \in 1..(Payloads + 1)
    BY <1>1, <1>2, Types, Constants
  <2>2. /\ job'[w].at = "sending" /\ job'[w].entry = job[w].entry
        /\ job'[w].payload = job[w].payload + 1 /\ job'[w].aborted = job[w].aborted
        /\ job'[w] \in Jobs
    BY <1>1, <2>1 DEF Jobs
  <2>. QED BY <1>1, <2>1, <2>2, Types
<1>4. /\ past' \in Pasts /\ past'.acked = past.acked /\ past'.overlapped = past.overlapped
      /\ past'.received = past.received \cup {<<job[w].entry, job[w].payload>>}
  <2>1. past \in Pasts /\ <<job[w].entry, job[w].payload>> \in Deliveries \X (1..Payloads)
    BY <1>2, Types
  <2>. HIDE <1>2
  <2>. QED BY <1>1, <2>1 DEF Pasts
<1>5. job'[w].entry \notin BestEffort => \A i \in 1..Payloads :
         i < job'[w].payload => <<job'[w].entry, i>> \in past'.received
  <2>1. \A i \in 1..Payloads : i < job'[w].payload => i < job[w].payload \/ i = job[w].payload
    BY <1>2, <1>3
  <2>. QED BY <1>1, <1>3, <1>4, <2>1 DEF SentSoFar
<1>. QED BY <1>1, <1>3, <1>4, <1>5, GoesOnSending

\* PayloadSwallowed, which only bestEffort does.
LEMMA PayloadSwallowedKeeps ==
  ASSUME IInv, NEW w \in Workers, PayloadSwallowed(w)
  PROVE  IInv'
<1>. USE DEF IInv
<1>1. /\ job[w].at = "sending" /\ job[w].payload <= Payloads /\ job[w].entry \in BestEffort
      /\ job' = [job EXCEPT ![w].payload = @ + 1, ![w].hadPartialFailure = @ \/ TellsErrors(w)]
      /\ past' = past /\ UNCHANGED <<files, scan>>
  BY DEF PayloadSwallowed
<1>2. /\ \A v \in Workers : v /= w => job'[v] = job[v]
      /\ job'[w].at = "sending" /\ job'[w].entry = job[w].entry
      /\ job'[w].aborted = job[w].aborted
      /\ job' \in [Workers -> Jobs]
  <2>. DEFINE partial == job[w].hadPartialFailure \/ TellsErrors(w)
  <2>1. /\ \A v \in Workers : v /= w => job'[v] = job[v]
        /\ job'[w] = [job[w] EXCEPT !.payload = @ + 1, !.hadPartialFailure = partial]
        /\ job[w] \in Jobs /\ job[w].payload + 1 \in 1..(Payloads + 1)
    BY <1>1, Types, Constants
  <2>2. partial \in BOOLEAN
    BY <2>1 DEF Jobs
  <2>. HIDE DEF partial
  <2>3. job'[w].at = job[w].at /\ job'[w].entry = job[w].entry
    BY <2>1 DEF Jobs
  <2>4. job'[w].aborted = job[w].aborted
    BY <2>1 DEF Jobs
  <2>5. job'[w] \in Jobs
    BY <2>1, <2>2 DEF Jobs
  <2>. QED BY <1>1, <2>1, <2>3, <2>4, <2>5, Types
<1>. QED BY <1>1, <1>2, Types, GoesOnSending

\* Abort.
LEMMA AbortKeeps ==
  ASSUME IInv, NEW d \in Deliveries, Abort(d)
  PROVE  IInv'
<1>. USE DEF IInv
<1>1. /\ job[d].at = "sending"
      /\ job' = [job EXCEPT ![d].aborted = TRUE]
      /\ past' = past /\ UNCHANGED <<files, scan>>
  BY DEF Abort
<1>2. /\ \A v \in Workers : v /= d => job'[v] = job[v]
      /\ job'[d].at = "sending" /\ job'[d].entry = job[d].entry
      /\ job'[d].payload = job[d].payload /\ job'[d].aborted
      /\ job' \in [Workers -> Jobs]
  <2>1. /\ \A v \in Workers : v /= d => job'[v] = job[v]
        /\ job'[d] = [job[d] EXCEPT !.aborted = TRUE]
        /\ job[d] \in Jobs
    BY <1>1, Types, Constants
  <2>2. /\ job'[d].at = "sending" /\ job'[d].entry = job[d].entry
        /\ job'[d].payload = job[d].payload
    BY <1>1, <2>1 DEF Jobs
  <2>3. job'[d].aborted = TRUE
    BY <2>1 DEF Jobs
  <2>4. job'[d] \in Jobs
    BY <2>1 DEF Jobs
  <2>. QED BY <1>1, <2>1, <2>2, <2>3, <2>4, Types
<1>3. job'[d].entry \notin BestEffort => \A i \in 1..Payloads :
         i < job'[d].payload => <<job'[d].entry, i>> \in past'.received
  <2>1. job[d].entry \notin BestEffort =>
          \A i \in 1..Payloads : i < job[d].payload => <<job[d].entry, i>> \in past.received
    BY <1>1, Constants DEF SentSoFar
  <2>2. job'[d].entry = job[d].entry /\ job'[d].payload = job[d].payload
    BY <1>2
  <2>3. past'.received = past.received
    BY <1>1
  <2>. HIDE DEF IInv
  <2>. QED BY <2>1, <2>2, <2>3
<1>4. /\ d \in Workers /\ past' \in Pasts /\ past.received \subseteq past'.received
      /\ past'.acked = past.acked /\ past'.overlapped = past.overlapped
  BY <1>1, Types, Constants
<1>5. UNCHANGED <<files, scan>>
  BY <1>1
<1>6. job[d].aborted => job'[d].aborted
  BY <1>2
<1>. QED BY <1>1, <1>2, <1>3, <1>4, <1>5, <1>6, GoesOnSending

\* SendThrows, PermanentError, AbortThrows and CoreReturns.
LEMMA SendingEnds ==
  ASSUME IInv, NEW w \in Workers,
         \/ SendThrows(w)
         \/ w \in Scans /\ PermanentError(w)
         \/ w \in Deliveries /\ AbortThrows(w)
         \/ CoreReturns(w)
  PROVE  IInv'
<1>. USE DEF IInv
<1>1. CASE SendThrows(w)
  BY <1>1, LeavesSending DEF SendThrows, MayThrow
<1>2. CASE w \in Scans /\ PermanentError(w)
  BY <1>2, LeavesSending DEF PermanentError, MayThrow
<1>3. CASE w \in Deliveries /\ AbortThrows(w)
  <2>1. job[w].entry = w
    BY <1>3 DEF AbortThrows, SendersHaveOwn
  <2>. QED BY <1>3, <2>1, LeavesSending DEF AbortThrows
<1>4. CASE CoreReturns(w)
  <2>1. /\ job[w].at = "sending" /\ job[w].payload > Payloads
        /\ Goes(w, IF job[w].hadPartialFailure THEN "read" ELSE "rename")
        /\ UNCHANGED <<files, scan, past>>
    BY <1>4 DEF CoreReturns
  <2>2. job[w].entry \notin BestEffort => Received(job[w].entry)
    <3>1. \A i \in 1..Payloads : i < job[w].payload
      BY <2>1, Types, Constants
    <3>. QED BY <2>1, <3>1 DEF SentSoFar, Received
  <2>3. CASE job[w].hadPartialFailure
    BY <2>1, <2>3, LeavesSending
  <2>4. CASE ~job[w].hadPartialFailure
    BY <2>1, <2>2, <2>4, LeavesSending
  <2>. QED BY <2>3, <2>4
<1>. QED BY <1>1, <1>2, <1>3, <1>4

--------------------------------------------------------------------------------
(* The files.                                                               *)

\* The parts about what workers hold, when one is through with its entry.
LEMMA EndsKeepsHolders ==
  ASSUME IInv, NEW w \in Workers, job[w].at \in AtEntry, Ends(w), past'.received = past.received
  PROVE  /\ SendersHaveOwn' /\ ScansHaveEntries' /\ SentSoFar' /\ AckedWhenSent'
         /\ job[w].entry \in Deliveries
         /\ \A d \in Deliveries : /\ job'[d].entry = job[d].entry
                                  /\ job[d].aborted => job'[d].aborted
                                  /\ job'[d].at = "none" => job[d].at = "none"
         /\ job'[w].at \notin AtEntry
<1>. USE DEF IInv
<1>1. /\ \A v \in Workers : v /= w => job'[v] = job[v]
      /\ w \in Scans => /\ job'[w].at = "picking" /\ job'[w].entry = 0 /\ job'[w].payload = 1
      /\ w \notin Scans => /\ job'[w].at = "over" /\ job'[w].entry = job[w].entry
                           /\ job'[w].aborted = job[w].aborted
  BY EndsFacts
<1>2. /\ w \in Deliveries => job[w].entry = w
      /\ w \in Scans => job[w].entry \in Deliveries
  BY DEF SendersHaveOwn, ScansHaveEntries, AtEntry
<1>3. job'[w].at \in {"picking", "over"}
  BY <1>1
<1>4. SendersHaveOwn' /\ ScansHaveEntries' /\ SentSoFar' /\ AckedWhenSent'
  BY <1>1, <1>2, <1>3, OneWorks, Constants
<1>5. job[w].entry \in Deliveries
  BY <1>2, Constants
<1>6. \A d \in Deliveries : /\ job'[d].entry = job[d].entry
                            /\ job[d].aborted => job'[d].aborted
                            /\ job'[d].at = "none" => job[d].at = "none"
  BY <1>1, Constants
<1>. QED BY <1>3, <1>4, <1>5, <1>6 DEF AtEntry

\* AckRename, while the entry is there: it goes, after all of it was sent.
LEMMA AckRenameKeeps ==
  ASSUME IInv, NEW w \in Workers, AckRename(w), json[job[w].entry] /= NoFile
  PROVE  IInv'
<1>. USE DEF IInv
<1>. DEFINE d == job[w].entry
<1>1. /\ job[w].at = "rename" /\ json[d] /= NoFile
      /\ json' = [json EXCEPT ![d] = NoFile]
      /\ marker' = marker \cup {d}
      /\ Goes(w, "unlink")
      /\ past' = [past EXCEPT !.acked = @ \cup {d}]
      /\ failed' = failed /\ scan' = scan
  BY DEF AckRename
<1>2. /\ \A v \in Workers : v /= w => job'[v] = job[v]
      /\ job'[w].at = "unlink" /\ job'[w].entry = d /\ job'[w].aborted = job[w].aborted
      /\ job' \in [Workers -> Jobs]
  BY <1>1, GoesFacts DEF Places
<1>3. w \in Deliveries => d = w
  BY <1>1 DEF SendersHaveOwn
<1>4. d \in Deliveries
  BY <1>1, <1>3, Constants DEF ScansHaveEntries
<1>5. /\ past' \in Pasts /\ past'.received = past.received /\ past'.overlapped = past.overlapped
      /\ past'.acked = past.acked \cup {d}
  <2>1. past \in Pasts
    BY Types
  <2>. HIDE DEF d
  <2>. QED BY <1>1, <1>4, <2>1 DEF Pasts
<1>6. /\ \A e \in Deliveries : e /= d => json'[e] = json[e]
      /\ json'[d] = NoFile
      /\ json' \in [Deliveries -> NoFile..MaxRetries]
  BY <1>1, <1>4, Types, Constants DEF NoFile
<1>7. /\ d \in BestEffort \/ Received(d) \/ job[d].aborted
      /\ Using(w, d)
  BY <1>1 DEF AckedWhenSent, Using, AtEntry
<1>. HIDE DEF d
<1>8. TypeOK'
  BY <1>1, <1>2, <1>4, <1>5, <1>6, Types, TypesKept
<1>9. SendersHaveOwn' /\ ScansHaveEntries' /\ SentSoFar' /\ AckedWhenSent'
  <2>1. w \in Deliveries => /\ job'[w].at \in AtEntry \ {"move"} /\ job'[w].entry = w
                            /\ job'[w].at /= "none"
    BY <1>2, <1>3 DEF AtEntry
  <2>2. w \in Scans => job'[w].at \in AtEntry /\ job'[w].entry \in Deliveries
    BY <1>2, <1>4 DEF AtEntry
  <2>. QED BY <1>2, <1>5, <2>1, <2>2, OneWorks
<1>10. ListsAreSorted'
  BY <1>1 DEF ListsAreSorted, OldestFirst
<1>11. /\ \A v \in Workers, e \in Deliveries : Using(v, e)' => Using(v, e)
       /\ \A v \in Workers : Using(v, d)' /\ v /= w => v \in Workers /\ Using(v, d)
       /\ \A v \in Workers, e \in Deliveries : Using(v, e)' /\ job[v].at = "unlink" => job'[v].at = "unlink"
       /\ \A r \in Scans, e \in Deliveries : Listed(r, e)' <=> Listed(r, e)
       /\ \A e \in Deliveries : job'[e].at = "none" => job[e].at = "none"
  BY <1>1, <1>2, Constants DEF Using, Listed, AtEntry, d
<1>12. FreshIsUnknown'
  BY <1>4, <1>5, <1>6, <1>7, <1>11 DEF FreshIsUnknown
<1>13. OneUser'
  BY <1>5, <1>11 DEF OneUser
<1>14. AckedIsGone'
  <2>1. SUFFICES ASSUME NEW e \in past.acked \cup {d}, e \notin past.overlapped
                 PROVE  /\ json'[e] = NoFile
                        /\ \A v \in Workers : Using(v, e)' => job'[v].at = "unlink"
                        /\ \A r \in Scans : ~Listed(r, e)'
    BY <1>5 DEF AckedIsGone
  <2>2. CASE e = d
    BY <1>2, <1>4, <1>6, <1>7, <1>11, <2>1, <2>2 DEF OneUser
  <2>3. CASE e /= d
    <3>1. e \in Deliveries /\ e \in past.acked
      BY <2>1, <2>3, Types
    <3>. QED BY <1>6, <1>11, <2>1, <2>3, <3>1 DEF AckedIsGone
  <2>. QED BY <2>2, <2>3
<1>15. KeptUntilSentOrBestEffort'
  <2>1. \A e \in Deliveries : /\ job'[e].entry = job[e].entry
                              /\ job[e].aborted => job'[e].aborted
    BY <1>2, Constants DEF d
  <2>. QED BY <1>1, <1>4, <1>5, <1>6, <1>7, <2>1, KeptSo
<1>. QED BY <1>8, <1>9, <1>10, <1>12, <1>13, <1>14, <1>15

\* AckRename, when the entry is gone already.
LEMMA AckGoneKeeps ==
  ASSUME IInv, NEW w \in Workers, AckRename(w), json[job[w].entry] = NoFile
  PROVE  IInv'
<1>. USE DEF IInv
<1>. DEFINE d == job[w].entry
<1>1. /\ job[w].at = "rename" /\ json[d] = NoFile
      /\ json' = json /\ marker' = marker \ {d} /\ failed' = failed /\ scan' = scan
      /\ Ends(w)
      /\ past' = [past EXCEPT !.acked = @ \cup {d}]
  BY DEF AckRename
<1>2. Using(w, d) /\ job[w].at \in AtEntry
  BY <1>1 DEF Using, AtEntry
<1>3. /\ past.received = past'.received
      /\ job' \in [Workers -> Jobs]
      /\ \A v \in Workers : v /= w => job'[v] = job[v]
  BY <1>1, EndsFacts, Types DEF Pasts
<1>4. /\ SendersHaveOwn' /\ ScansHaveEntries' /\ SentSoFar' /\ AckedWhenSent'
      /\ d \in Deliveries
      /\ \A e \in Deliveries : /\ job'[e].entry = job[e].entry
                               /\ job[e].aborted => job'[e].aborted
                               /\ job'[e].at = "none" => job[e].at = "none"
      /\ job'[w].at \notin AtEntry
  BY <1>1, <1>2, <1>3, EndsKeepsHolders
<1>. HIDE DEF d
<1>5. /\ past' \in Pasts /\ past'.overlapped = past.overlapped
      /\ past'.acked = past.acked \cup {d}
  <2>1. past \in Pasts
    BY Types
  <2>. QED BY <1>1, <1>4, <2>1 DEF Pasts
<1>6. TypeOK'
  BY <1>1, <1>3, <1>5, Types, TypesKept
<1>7. ListsAreSorted'
  BY <1>1 DEF ListsAreSorted, OldestFirst
<1>8. /\ \A v \in Workers, e \in Deliveries : Using(v, e)' => v /= w /\ Using(v, e) /\ job'[v] = job[v]
      /\ \A r \in Scans, e \in Deliveries : Listed(r, e)' <=> Listed(r, e)
  BY <1>1, <1>3, <1>4 DEF Using, Listed
<1>9. FreshIsUnknown'
  BY <1>1, <1>2, <1>4, <1>5, <1>8 DEF FreshIsUnknown
<1>10. OneUser'
  BY <1>5, <1>8 DEF OneUser
<1>11. AckedIsGone'
  <2>1. SUFFICES ASSUME NEW e \in past.acked \cup {d}, e \notin past.overlapped
                 PROVE  /\ json'[e] = NoFile
                        /\ \A v \in Workers : Using(v, e)' => job'[v].at = "unlink"
                        /\ \A r \in Scans : ~Listed(r, e)'
    BY <1>5 DEF AckedIsGone
  <2>2. CASE e = d
    BY <1>1, <1>2, <1>4, <1>8, <2>1, <2>2 DEF OneUser
  <2>3. CASE e /= d
    <3>1. e \in Deliveries /\ e \in past.acked
      BY <2>1, <2>3, Types
    <3>. QED BY <1>1, <1>8, <2>1, <2>3, <3>1 DEF AckedIsGone
  <2>. QED BY <2>2, <2>3
<1>12. KeptUntilSentOrBestEffort'
  BY <1>1, <1>3, <1>4, KeptSo
<1>. QED BY <1>4, <1>6, <1>7, <1>9, <1>10, <1>11, <1>12

\* A worker is through with its entry, and has left the lists alone: it may have written the
\* entry back that it had read, or have taken the entry away after all was sent, or to failed/.
LEMMA EndKeeps ==
  ASSUME IInv, NEW w \in Workers, job[w].at \in AtEntry, Ends(w), past' = past, scan' = scan,
         json' \in [Deliveries -> NoFile..MaxRetries],
         marker' \subseteq Deliveries, failed' \subseteq Deliveries,
         \A d \in Deliveries : json'[d] /= NoFile =>
           json[d] /= NoFile \/ (job[w].at = "write" /\ job[w].entry = d),
         \A d \in Deliveries : json[d] /= NoFile \/ d \in failed =>
           json'[d] /= NoFile \/ d \in failed'
  PROVE  IInv'
<1>. USE DEF IInv
<1>1. /\ job' \in [Workers -> Jobs]
      /\ \A v \in Workers : v /= w => job'[v] = job[v]
  BY EndsFacts
<1>2. TypeOK'
  BY <1>1, Types, TypesKept
<1>3. /\ SendersHaveOwn' /\ ScansHaveEntries' /\ SentSoFar' /\ AckedWhenSent'
      /\ \A e \in Deliveries : /\ job'[e].entry = job[e].entry
                               /\ job[e].aborted => job'[e].aborted
                               /\ job'[e].at = "none" => job[e].at = "none"
      /\ job'[w].at \notin AtEntry
  BY EndsKeepsHolders
<1>4. ListsAreSorted'
  BY DEF ListsAreSorted, OldestFirst
<1>5. FreshIsUnknown' /\ OneUser' /\ AckedIsGone'
  <2>1. \A v \in Workers, e \in Deliveries :
          job'[v].at \in AtEntry /\ job'[v].entry = e =>
             /\ job[v].at \in AtEntry /\ job[v].entry = e
             /\ job[v].at = "unlink" => job'[v].at = "unlink"
    BY <1>1, <1>3
  <2>2. \A r \in Scans, e \in Deliveries : Listed(r, e)' => Listed(r, e)
    BY DEF Listed
  <2>3. \A e \in Deliveries : job'[e].at = "none" => job[e].at = "none"
    BY <1>3
  <2>4. \A d \in Deliveries : json'[d] /= NoFile =>
          json[d] /= NoFile \/ \E v \in Workers : job[v].at = "write" /\ job[v].entry = d
    OBVIOUS
  <2>. QED BY <2>1, <2>2, <2>3, <2>4, NobodyComes
<1>6. KeptUntilSentOrBestEffort'
  BY <1>3, KeptSo
<1>. QED BY <1>2, <1>3, <1>4, <1>5, <1>6

\* AckUnlink, FailWrite and MoveToFailed.
LEMMA FilesKeep ==
  ASSUME IInv, NEW w \in Workers,
         AckUnlink(w) \/ FailWrite(w) \/ (w \in Scans /\ MoveToFailed(w))
  PROVE  IInv'
<1>1. CASE AckUnlink(w)
  <2>1. /\ job[w].at \in AtEntry /\ Ends(w) /\ past' = past /\ scan' = scan
        /\ json' = json /\ failed' = failed /\ marker' \subseteq marker
    BY <1>1 DEF AckUnlink, AtEntry
  <2>. QED BY <2>1, Types, EndKeeps DEF IInv
<1>2. CASE FailWrite(w)
  <2>1. /\ job[w].at = "write" /\ Ends(w) /\ past' = past /\ scan' = scan
        /\ json' = [json EXCEPT ![job[w].entry] = Bump(job[w].retryCount)]
        /\ failed' = failed /\ marker' = marker
    BY <1>2 DEF FailWrite
  <2>2. Bump(job[w].retryCount) \in 0..MaxRetries
    BY Types, Constants DEF Bump, IInv
  <2>3. Bump(job[w].retryCount) \in NoFile..MaxRetries /\ Bump(job[w].retryCount) /= NoFile
    BY <2>2, Constants DEF NoFile
  <2>4. /\ json' \in [Deliveries -> NoFile..MaxRetries]
        /\ \A d \in Deliveries : IF d = job[w].entry THEN json'[d] /= NoFile ELSE json'[d] = json[d]
    BY <2>1, <2>3, Types DEF IInv
  <2>5. job[w].at \in AtEntry
    BY <2>1 DEF AtEntry
  <2>. QED BY <2>1, <2>4, <2>5, Types, EndKeeps DEF IInv
<1>3. CASE w \in Scans /\ MoveToFailed(w)
  <2>. DEFINE d == job[w].entry
  <2>1. /\ job[w].at = "move" /\ Ends(w) /\ past' = past /\ scan' = scan
        /\ json' = [json EXCEPT ![d] = NoFile]
        /\ failed' = IF json[d] # NoFile THEN failed \cup {d} ELSE failed
        /\ marker' = marker
    BY <1>3 DEF MoveToFailed
  <2>2. d \in Deliveries /\ job[w].at \in AtEntry
    BY <1>3, <2>1 DEF IInv, ScansHaveEntries, AtEntry
  <2>. HIDE DEF d
  <2>3. /\ json' \in [Deliveries -> NoFile..MaxRetries]
        /\ json'[d] = NoFile
        /\ \A e \in Deliveries : e /= d => json'[e] = json[e]
    BY <2>1, <2>2, Types, Constants DEF IInv, NoFile
  <2>4. /\ failed' \subseteq Deliveries /\ failed \subseteq failed'
        /\ json[d] /= NoFile => d \in failed'
    BY <2>1, <2>2, Types DEF IInv
  <2>5. marker' \subseteq Deliveries
    BY <2>1, Types DEF IInv
  <2>6. /\ \A e \in Deliveries : json'[e] /= NoFile => json[e] /= NoFile
        /\ \A e \in Deliveries : json[e] /= NoFile \/ e \in failed =>
             json'[e] /= NoFile \/ e \in failed'
    BY <2>3, <2>4
  <2>. QED BY <2>1, <2>2, <2>3, <2>4, <2>5, <2>6, EndKeeps
<1>. QED BY <1>1, <1>2, <1>3

\* FailRead: the worker keeps the count it has read, or ends when the entry is gone.
LEMMA FailReadKeeps ==
  ASSUME IInv, NEW w \in Workers, FailRead(w)
  PROVE  IInv'
<1>. USE DEF IInv
<1>. DEFINE d == job[w].entry
<1>1. /\ job[w].at = "read"
      /\ IF json[d] # NoFile
           THEN job' = [job EXCEPT ![w].at = "write", ![w].retryCount = json[d]]
           ELSE Ends(w)
      /\ json' = json /\ marker' = marker /\ failed' = failed /\ scan' = scan /\ past' = past
  BY DEF FailRead, files
<1>2. CASE json[d] = NoFile
  <2>1. Ends(w) /\ job[w].at \in AtEntry
    BY <1>1, <1>2 DEF AtEntry
  <2>. QED BY <1>1, <2>1, Types, EndKeeps
<1>3. CASE json[d] # NoFile
  <2>1. /\ w \in Deliveries => d = w
        /\ d \in Deliveries
    BY <1>1, Constants DEF SendersHaveOwn, ScansHaveEntries
  <2>2. /\ \A v \in Workers : v /= w => job'[v] = job[v]
        /\ job'[w].at = "write" /\ job'[w].entry = d
        /\ job'[w].aborted = job[w].aborted
        /\ job' \in [Workers -> Jobs]
    <3>. DEFINE n == json[d]
    <3>1. /\ \A v \in Workers : v /= w => job'[v] = job[v]
          /\ job'[w] = [job[w] EXCEPT !.at = "write", !.retryCount = n]
          /\ job[w] \in Jobs /\ n \in 0..MaxRetries /\ "write" \in Places
      BY <1>1, <1>3, <2>1, Types DEF Places
    <3>. HIDE DEF n
    <3>2. job'[w].at = "write" /\ job'[w].entry = d /\ job'[w].aborted = job[w].aborted
      BY <3>1 DEF Jobs
    <3>3. job'[w] \in Jobs
      BY <3>1 DEF Jobs
    <3>4. job' = [job EXCEPT ![w] = job'[w]]
      BY <1>1, <1>3, <3>1, Types
    <3>. QED BY <3>1, <3>2, <3>3, <3>4, Types
  <2>. HIDE DEF d
  <2>3. TypeOK'
    BY <1>1, <2>2, Types, TypesKept
  <2>4. SendersHaveOwn' /\ ScansHaveEntries' /\ SentSoFar' /\ AckedWhenSent'
    <3>1. w \in Deliveries => /\ job'[w].at \in AtEntry \ {"move"} /\ job'[w].entry = w
                              /\ job'[w].at /= "none"
      BY <2>1, <2>2 DEF AtEntry
    <3>2. w \in Scans => job'[w].at \in AtEntry /\ job'[w].entry \in Deliveries
      BY <2>1, <2>2 DEF AtEntry
    <3>. QED BY <1>1, <2>2, <3>1, <3>2, OneWorks
  <2>5. ListsAreSorted'
    BY <1>1 DEF ListsAreSorted, OldestFirst
  <2>6. FreshIsUnknown' /\ OneUser' /\ AckedIsGone'
    <3>1. \A v \in Workers, e \in Deliveries :
            job'[v].at \in AtEntry /\ job'[v].entry = e =>
               /\ job[v].at \in AtEntry /\ job[v].entry = e
               /\ job[v].at = "unlink" => job'[v].at = "unlink"
      BY <1>1, <2>2 DEF AtEntry, d
    <3>2. \A r \in Scans, e \in Deliveries : Listed(r, e)' => Listed(r, e)
      BY <1>1 DEF Listed
    <3>3. \A e \in Deliveries : job'[e].at = "none" => job[e].at = "none"
      BY <2>2, Constants
    <3>. QED BY <1>1, <3>1, <3>2, <3>3, NobodyComes
  <2>7. KeptUntilSentOrBestEffort'
    <3>1. \A e \in Deliveries : /\ job'[e].entry = job[e].entry
                                /\ job[e].aborted => job'[e].aborted
      BY <2>2, Constants DEF d
    <3>. QED BY <1>1, <3>1, KeptSo
  <2>. QED BY <2>3, <2>4, <2>5, <2>6, <2>7
<1>. QED BY <1>2, <1>3

--------------------------------------------------------------------------------
(* Recovery.                                                                *)

\* The rest of a list is sorted, and has the first entry no more.
LEMMA TailFacts ==
  ASSUME NEW s \in Seq(Entries), s /= <<>>, OldestFirst(s)
  PROVE  /\ Tail(s) \in Seq(Entries) /\ OldestFirst(Tail(s))
         /\ Head(s) \in Entries /\ 1 \in DOMAIN s /\ Head(s) = s[1]
         /\ \A i \in DOMAIN Tail(s) : /\ i + 1 \in DOMAIN s /\ Tail(s)[i] = s[i + 1]
                                      /\ Tail(s)[i].id /= Head(s).id
<1>1. Len(s) \in Nat /\ Len(s) > 0 /\ DOMAIN s = 1..Len(s)
  OBVIOUS
<1>2. /\ Tail(s) \in Seq(Entries) /\ DOMAIN Tail(s) = 1..(Len(s) - 1)
      /\ \A i \in 1..(Len(s) - 1) : Tail(s)[i] = s[i + 1]
  BY <1>1
<1>3. /\ Head(s) \in Entries /\ 1 \in DOMAIN s /\ Head(s) = s[1]
  BY <1>1
<1>4. \A i \in DOMAIN s : s[i].id \in Int
  <2>1. \A i \in DOMAIN s : s[i] \in Entries
    BY <1>1
  <2>. QED BY <2>1, Constants DEF Entries
<1>5. \A i \in DOMAIN Tail(s) : i + 1 \in DOMAIN s /\ Tail(s)[i] = s[i + 1] /\ 1 < i + 1
  BY <1>1, <1>2
<1>6. \A i \in DOMAIN Tail(s) : Tail(s)[i].id /= Head(s).id
  <2>1. SUFFICES ASSUME NEW i \in DOMAIN Tail(s)
                 PROVE  Tail(s)[i].id /= Head(s).id
    OBVIOUS
  <2>2. s[1].id < s[i + 1].id
    BY <1>3, <1>5 DEF OldestFirst
  <2>3. s[1].id \in Int /\ s[i + 1].id \in Int
    BY <1>3, <1>4, <1>5
  <2>. QED BY <1>3, <1>5, <2>2, <2>3
<1>7. OldestFirst(Tail(s))
  <2>1. SUFFICES ASSUME NEW i \in DOMAIN Tail(s), NEW j \in DOMAIN Tail(s), i < j
                 PROVE  Tail(s)[i].id < Tail(s)[j].id
    BY DEF OldestFirst
  <2>2. i + 1 < j + 1
    BY <1>1, <1>2, <2>1
  <2>. QED BY <1>5, <2>2 DEF OldestFirst
<1>. QED BY <1>2, <1>3, <1>5, <1>6, <1>7

\* A scan takes the next entry of its list: the list loses it.
LEMMA NextUpLeaves ==
  ASSUME IInv, NEW r \in Scans, scan[r] /= <<>>, scan' = [scan EXCEPT ![r] = Tail(@)]
  PROVE  /\ scan' \in [Scans -> Seq(Entries)]
         /\ ListsAreSorted'
         /\ \A q \in Scans, d \in Deliveries : Listed(q, d)' => Listed(q, d)
         /\ NextUp(r).id \in Deliveries
         /\ Listed(r, NextUp(r).id)
         /\ \A d \in Deliveries : d = NextUp(r).id => ~Listed(r, d)'
<1>1. scan \in [Scans -> Seq(Entries)] /\ OldestFirst(scan[r])
  BY Types DEF IInv, ListsAreSorted
<1>2. /\ \A q \in Scans : q /= r => scan'[q] = scan[q]
      /\ scan'[r] = Tail(scan[r])
  BY <1>1
<1>3. /\ Tail(scan[r]) \in Seq(Entries) /\ OldestFirst(Tail(scan[r]))
      /\ Head(scan[r]) \in Entries /\ 1 \in DOMAIN scan[r] /\ Head(scan[r]) = scan[r][1]
      /\ \A i \in DOMAIN Tail(scan[r]) :
           /\ i + 1 \in DOMAIN scan[r] /\ Tail(scan[r])[i] = scan[r][i + 1]
           /\ Tail(scan[r])[i].id /= Head(scan[r]).id
  BY <1>1, TailFacts
<1>4. scan' \in [Scans -> Seq(Entries)]
  BY <1>1, <1>3
<1>5. ListsAreSorted'
  <2>1. \A q \in Scans : OldestFirst(scan[q])
    BY DEF IInv, ListsAreSorted
  <2>2. \A q \in Scans : q /= r => OldestFirst(scan'[q])
    BY <1>2, <2>1
  <2>3. OldestFirst(scan'[r])
    BY <1>2, <1>3
  <2>. QED BY <2>2, <2>3 DEF ListsAreSorted, OldestFirst
<1>6. \A q \in Scans, d \in Deliveries : Listed(q, d)' => Listed(q, d)
  BY <1>2, <1>3 DEF Listed
<1>7. NextUp(r).id \in Deliveries
  BY <1>3 DEF NextUp, Entries
<1>8. Listed(r, NextUp(r).id)
  BY <1>3 DEF NextUp, Listed
<1>9. \A d \in Deliveries : d = NextUp(r).id => ~Listed(r, d)'
  <2>. DEFINE first == Head(scan[r]).id
  <2>1. \A i \in DOMAIN scan'[r] : scan'[r][i].id /= first
    BY <1>2, <1>3
  <2>2. NextUp(r).id = first /\ (first \in Deliveries)
    BY <1>3 DEF NextUp, Entries
  <2>. HIDE DEF first
  <2>3. ~\E i \in DOMAIN scan'[r] : scan'[r][i].id = first
    BY <2>1
  <2>. QED BY <2>2, <2>3 DEF Listed
<1>. QED BY <1>4, <1>5, <1>6, <1>7, <1>8, <1>9

\* The record of a scan that takes an entry.
LEMMA TakesFacts ==
  ASSUME TypeOK, NEW r \in Workers, NEW place \in Places, NEW e \in 0..MaxDelivery,
         job' = [job EXCEPT ![r].at = place, ![r].entry = e]
  PROVE  /\ job' \in [Workers -> Jobs]
         /\ \A v \in Workers : v /= r => job'[v] = job[v]
         /\ job'[r].at = place /\ job'[r].entry = e /\ job'[r].payload = job[r].payload
<1>1. job \in [Workers -> Jobs]
  BY Types
<1>2. /\ \A v \in Workers : v /= r => job'[v] = job[v]
      /\ job'[r] = [job[r] EXCEPT !.at = place, !.entry = e]
      /\ DOMAIN job' = Workers
      /\ job' = [v \in Workers |-> job'[v]]
  BY <1>1
<1>3. /\ job'[r].at = place /\ job'[r].entry = e /\ job'[r].payload = job[r].payload
      /\ job'[r] \in Jobs
  BY <1>1, <1>2 DEF Jobs
<1>4. job' \in [Workers -> Jobs]
  BY <1>1, <1>2, <1>3
<1>. QED BY <1>2, <1>3, <1>4

\* GiveUp, Replay and Defer: the scan is the user of the entry that it takes off its list.
LEMMA TakesKeeps ==
  ASSUME IInv, NEW r \in Scans, NEW place \in {"sending", "move", "read"},
         Picking(r),
         job' = [job EXCEPT ![r].at = place, ![r].entry = NextUp(r).id],
         scan' = [scan EXCEPT ![r] = Tail(@)],
         UNCHANGED <<files, past>>
  PROVE  IInv'
<1>. USE DEF IInv
<1>. DEFINE d == NextUp(r).id
<1>1. /\ job[r].at = "picking" /\ scan[r] /= <<>>
      /\ json' = json /\ marker' = marker /\ failed' = failed /\ past' = past
  BY DEF Picking, files
<1>2. /\ scan' \in [Scans -> Seq(Entries)]
      /\ ListsAreSorted'
      /\ \A q \in Scans, e \in Deliveries : Listed(q, e)' => Listed(q, e)
      /\ d \in Deliveries
      /\ Listed(r, d) /\ \A e \in Deliveries : e = d => ~Listed(r, e)'
  BY <1>1, NextUpLeaves
<1>. HIDE DEF d
<1>3. /\ \A v \in Workers : v /= r => job'[v] = job[v]
      /\ job'[r].at = place /\ job'[r].entry = d /\ job'[r].payload = job[r].payload
      /\ job' \in [Workers -> Jobs]
  <2>1. d \in 0..MaxDelivery /\ place \in Places /\ r \in Workers
    BY <1>2, Constants DEF Places
  <2>2. PICK e \in 0..MaxDelivery : e = NextUp(r).id
    BY <2>1 DEF d
  <2>3. job' = [job EXCEPT ![r].at = place, ![r].entry = e]
    BY <2>2
  <2>4. /\ job' \in [Workers -> Jobs]
        /\ \A v \in Workers : v /= r => job'[v] = job[v]
        /\ job'[r].at = place /\ job'[r].entry = e /\ job'[r].payload = job[r].payload
    BY <2>1, <2>3, TakesFacts
  <2>. QED BY <2>2, <2>4 DEF d
<1>4. TypeOK'
  BY <1>1, <1>2, <1>3, Types, TypesKept
<1>5. SendersHaveOwn' /\ ScansHaveEntries' /\ SentSoFar' /\ AckedWhenSent'
  <2>1. job'[r].at \in AtEntry /\ job'[r].at /= "rename" /\ job'[r].payload = 1
    BY <1>1, <1>3 DEF AtEntry, ScansHaveEntries
  <2>2. \A i \in 1..Payloads : ~(i < 1)
    BY Constants
  <2>. QED BY <1>1, <1>2, <1>3, <2>1, <2>2, OneWorks, Constants
<1>6. /\ \A w \in Workers, e \in Deliveries : Using(w, e)' =>
            (Using(w, e) /\ job'[w] = job[w]) \/ (w = r /\ e = d)
      /\ \A e \in Deliveries : job'[e].at = "none" => job[e].at = "none"
  <2>1. \A w \in Workers, e \in Deliveries : w /= r /\ Using(w, e)' =>
          Using(w, e) /\ job'[w] = job[w]
    BY <1>3 DEF Using
  <2>2. \A e \in Deliveries : Using(r, e)' => e = d
    BY <1>3 DEF Using
  <2>3. \A e \in Deliveries : job'[e] = job[e]
    BY <1>3, Constants
  <2>. QED BY <2>1, <2>2, <2>3
<1>7. FreshIsUnknown'
  BY <1>1, <1>2, <1>6 DEF FreshIsUnknown
<1>8. OneUser'
  <2>1. SUFFICES ASSUME NEW e \in Deliveries, e \notin past.overlapped
                 PROVE  /\ \A v, w \in Workers : Using(v, e)' /\ Using(w, e)' => v = w
                        /\ \A w \in Workers, q \in Scans : ~(Using(w, e)' /\ Listed(q, e)')
                        /\ \A p, q \in Scans : Listed(p, e)' /\ Listed(q, e)' => p = q
    BY <1>1 DEF OneUser
  <2>2. CASE e = d
    <3>1. /\ \A w \in Workers : ~Using(w, d)
          /\ \A q \in Scans : Listed(q, d) => q = r
      BY <1>2, <2>1, <2>2 DEF OneUser
    <3>. QED BY <1>2, <1>6, <2>2, <3>1
  <2>3. CASE e /= d
    BY <1>2, <1>6, <2>1, <2>3 DEF OneUser
  <2>. QED BY <2>2, <2>3
<1>9. AckedIsGone'
  <2>1. \A e \in past.acked : e \in Deliveries
    BY Types
  <2>2. d \notin past.acked \ past.overlapped
    BY <1>2 DEF AckedIsGone
  <2>3. SUFFICES ASSUME NEW e \in past.acked \ past.overlapped
                 PROVE  /\ json[e] = NoFile
                        /\ \A v \in Workers : Using(v, e)' => job'[v].at = "unlink"
                        /\ \A q \in Scans : ~Listed(q, e)'
    BY <1>1 DEF AckedIsGone
  <2>4. e \in Deliveries /\ e /= d
    BY <2>1, <2>2
  <2>. QED BY <1>2, <1>6, <2>4 DEF AckedIsGone
<1>10. KeptUntilSentOrBestEffort'
  <2>1. \A e \in Deliveries : job'[e] = job[e]
    BY <1>3, Constants
  <2>. QED BY <1>1, <2>1, KeptSo
<1>. QED BY <1>2, <1>4, <1>5, <1>7, <1>8, <1>9, <1>10

\* A scan that stays between entries, whatever it notes about its work, or whose list ends or
\* loses an entry.
LEMMA ScanIdles ==
  ASSUME IInv, NEW r \in Scans, job[r].at = "picking",
         \A v \in Workers : v /= r => job'[v] = job[v],
         job' \in [Workers -> Jobs],
         job'[r].at \in {"none", "picking"}, job'[r].entry = 0, job'[r].payload = 1,
         scan' \in [Scans -> Seq(Entries)], ListsAreSorted',
         \A q \in Scans, e \in Deliveries : Listed(q, e)' => Listed(q, e),
         UNCHANGED <<files, past>>
  PROVE  IInv'
<1>. USE DEF IInv
<1>1. json' = json /\ marker' = marker /\ failed' = failed /\ past' = past
  BY DEF files
<1>2. TypeOK'
  BY <1>1, Types, TypesKept
<1>3. SendersHaveOwn' /\ ScansHaveEntries' /\ SentSoFar' /\ AckedWhenSent'
  BY <1>1, OneWorks, Constants
<1>4. \A e \in Deliveries : job'[e] = job[e]
  BY Constants
<1>5. FreshIsUnknown' /\ OneUser' /\ AckedIsGone'
  <2>1. \A v \in Workers, e \in Deliveries :
          job'[v].at \in AtEntry /\ job'[v].entry = e =>
             /\ job[v].at \in AtEntry /\ job[v].entry = e
             /\ job[v].at = "unlink" => job'[v].at = "unlink"
    BY DEF AtEntry
  <2>. QED BY <1>1, <1>4, <2>1, NobodyComes
<1>6. KeptUntilSentOrBestEffort'
  BY <1>1, <1>4, KeptSo
<1>. QED BY <1>2, <1>3, <1>5, <1>6

\* SkipForBackoff, BudgetExceeded and RecoveryEnds.
LEMMA IdlingKeeps ==
  ASSUME IInv, NEW r \in Scans, SkipForBackoff(r) \/ BudgetExceeded(r) \/ RecoveryEnds(r)
  PROVE  IInv'
<1>. USE DEF IInv
<1>1. CASE SkipForBackoff(r)
  <2>1. /\ job[r].at = "picking" /\ scan[r] /= <<>>
        /\ job' = [job EXCEPT ![r].begun = TRUE]
        /\ scan' = [scan EXCEPT ![r] = Tail(@)]
        /\ UNCHANGED <<files, past>>
    BY <1>1 DEF SkipForBackoff, Skips, Picking
  <2>2. /\ scan' \in [Scans -> Seq(Entries)]
        /\ ListsAreSorted'
        /\ \A q \in Scans, e \in Deliveries : Listed(q, e)' => Listed(q, e)
    BY <2>1, NextUpLeaves
  <2>3. /\ \A v \in Workers : v /= r => job'[v] = job[v]
        /\ job'[r] = [job[r] EXCEPT !.begun = TRUE]
        /\ job[r] \in Jobs
    BY <2>1, Types, Constants
  <2>4. /\ job'[r].at = job[r].at /\ job'[r].entry = job[r].entry
        /\ job'[r].payload = job[r].payload
    BY <2>3 DEF Jobs
  <2>5. job'[r] \in Jobs
    BY <2>3 DEF Jobs
  <2>6. job' \in [Workers -> Jobs]
    BY <2>1, <2>3, <2>5, Types
  <2>7. job'[r].at = "picking" /\ job'[r].entry = 0 /\ job'[r].payload = 1
    BY <2>1, <2>4 DEF ScansHaveEntries, AtEntry
  <2>. QED BY <2>1, <2>2, <2>3, <2>6, <2>7, ScanIdles
<1>2. CASE BudgetExceeded(r)
  <2>1. /\ job[r].at = "picking"
        /\ job' = [job EXCEPT ![r].deferring = TRUE]
        /\ scan' = scan
        /\ UNCHANGED <<files, past>>
    BY <1>2 DEF BudgetExceeded, Picking, files
  <2>2. /\ scan' \in [Scans -> Seq(Entries)]
        /\ ListsAreSorted'
        /\ \A q \in Scans, e \in Deliveries : Listed(q, e)' => Listed(q, e)
    BY <2>1, Types DEF ListsAreSorted, OldestFirst, Listed
  <2>3. /\ \A v \in Workers : v /= r => job'[v] = job[v]
        /\ job'[r] = [job[r] EXCEPT !.deferring = TRUE]
        /\ job[r] \in Jobs
    BY <2>1, Types, Constants
  <2>4. /\ job'[r].at = job[r].at /\ job'[r].entry = job[r].entry
        /\ job'[r].payload = job[r].payload
    BY <2>3 DEF Jobs
  <2>5. job'[r] \in Jobs
    BY <2>3 DEF Jobs
  <2>6. job' \in [Workers -> Jobs]
    BY <2>1, <2>3, <2>5, Types
  <2>7. job'[r].at = "picking" /\ job'[r].entry = 0 /\ job'[r].payload = 1
    BY <2>1, <2>4 DEF ScansHaveEntries, AtEntry
  <2>. QED BY <2>1, <2>2, <2>3, <2>6, <2>7, ScanIdles
<1>3. CASE RecoveryEnds(r)
  <2>1. /\ job[r].at = "picking"
        /\ job' = [job EXCEPT ![r] = NoJob]
        /\ scan' = scan
        /\ UNCHANGED <<files, past>>
    BY <1>3 DEF RecoveryEnds, files
  <2>2. /\ scan' \in [Scans -> Seq(Entries)]
        /\ ListsAreSorted'
        /\ \A q \in Scans, e \in Deliveries : Listed(q, e)' => Listed(q, e)
    BY <2>1, Types DEF ListsAreSorted, OldestFirst, Listed
  <2>3. /\ \A v \in Workers : v /= r => job'[v] = job[v]
        /\ job'[r] = NoJob
        /\ job' \in [Workers -> Jobs]
    BY <2>1, Types, Constants, FreshJob
  <2>. QED BY <2>1, <2>2, <2>3, FreshJob, ScanIdles
<1>. QED BY <1>1, <1>2, <1>3

\* What loadPendingDeliveries returns: entries that are pending, each with the count on disk.
LEMMA LoadedFacts ==
  ASSUME TypeOK, NEW list \in Loaded
  PROVE  /\ list \in Seq(Entries) /\ OldestFirst(list)
         /\ \A i \in DOMAIN list : json[list[i].id] /= NoFile
<1>. DEFINE entries == {[id |-> d, retryCount |-> json[d]] : d \in Pending}
<1>1. Cardinality(Pending) \in Nat
  <2>1. IsFiniteSet(Deliveries)
    BY FS_Interval, Constants DEF Deliveries
  <2>2. Pending \subseteq Deliveries
    BY DEF Pending
  <2>. QED BY <2>1, <2>2, FS_Subset, FS_CardinalityType
<1>2. /\ entries \subseteq Entries
      /\ \A e \in entries : json[e.id] /= NoFile
  BY Types DEF Pending, Entries
<1>3. list \in [1..Cardinality(Pending) -> entries] /\ OldestFirst(list)
  BY DEF Loaded
<1>. HIDE DEF entries
<1>4. list \in Seq(Entries)
  BY <1>1, <1>2, <1>3
<1>. QED BY <1>2, <1>3, <1>4

\* StartRecovery: what is in use when it is loaded is recorded; the rest has no user yet.
LEMMA StartRecoveryKeeps ==
  ASSUME IInv, NEW r \in Scans, StartRecovery(r)
  PROVE  IInv'
<1>. USE DEF IInv
<1>1. /\ job[r].at = "none" /\ Goes(r, "picking")
      /\ json' = json /\ marker' = {} /\ failed' = failed
      /\ past' = [past EXCEPT !.overlapped = @ \cup {d \in Pending : InUse(d)}]
  BY DEF StartRecovery, StartsScan
<1>2. PICK list \in Loaded : scan' = [scan EXCEPT ![r] = list]
  BY DEF StartRecovery, StartsScan
<1>3. /\ list \in Seq(Entries) /\ OldestFirst(list)
      /\ \A i \in DOMAIN list : json[list[i].id] /= NoFile
  BY LoadedFacts
<1>4. /\ \A q \in Scans : q /= r => scan'[q] = scan[q]
      /\ scan'[r] = list
      /\ scan' \in [Scans -> Seq(Entries)]
  BY <1>2, <1>3, Types
<1>5. /\ \A v \in Workers : v /= r => job'[v] = job[v]
      /\ job'[r].at = "picking" /\ job'[r].entry = job[r].entry
      /\ job'[r].payload = job[r].payload
      /\ job' \in [Workers -> Jobs]
  BY <1>1, GoesFacts, Constants DEF Places
<1>6. /\ past' \in Pasts /\ past'.received = past.received /\ past'.acked = past.acked
      /\ past'.overlapped = past.overlapped \cup {d \in Pending : InUse(d)}
  <2>. DEFINE more == {d \in Pending : InUse(d)}
  <2>1. more \subseteq Deliveries /\ past \in Pasts
    BY Types DEF Pending
  <2>2. past' = [past EXCEPT !.overlapped = @ \cup more]
    BY <1>1
  <2>. HIDE DEF more
  <2>3. /\ past' \in Pasts /\ past'.received = past.received /\ past'.acked = past.acked
        /\ past'.overlapped = past.overlapped \cup more
    BY <2>1, <2>2 DEF Pasts
  <2>. QED BY <2>3 DEF more
<1>7. TypeOK'
  BY <1>1, <1>4, <1>5, <1>6, Types, TypesKept
<1>8. SendersHaveOwn' /\ ScansHaveEntries' /\ SentSoFar' /\ AckedWhenSent'
  <2>1. job'[r].entry = 0 /\ job'[r].payload = 1
    BY <1>1, <1>5 DEF ScansHaveEntries, AtEntry
  <2>. QED BY <1>5, <1>6, <2>1, OneWorks, Constants
<1>9. ListsAreSorted'
  <2>1. \A q \in Scans : OldestFirst(scan'[q])
    BY <1>3, <1>4 DEF ListsAreSorted
  <2>. QED BY <2>1 DEF ListsAreSorted, OldestFirst
<1>10. /\ \A w \in Workers, d \in Deliveries : Using(w, d)' => Using(w, d) /\ job'[w] = job[w]
       /\ \A q \in Scans, d \in Deliveries : Listed(q, d)' =>
            \/ q /= r /\ Listed(q, d)
            \/ q = r /\ json[d] /= NoFile
       /\ \A d \in Deliveries : job'[d] = job[d]
  <2>1. \A w \in Workers, d \in Deliveries : Using(w, d)' => Using(w, d) /\ job'[w] = job[w]
    BY <1>5 DEF Using, AtEntry
  <2>2. \A d \in Deliveries : Listed(r, d)' => json[d] /= NoFile
    BY <1>3, <1>4 DEF Listed
  <2>3. \A q \in Scans, d \in Deliveries : q /= r /\ Listed(q, d)' => Listed(q, d)
    BY <1>4 DEF Listed
  <2>. QED BY <1>5, <2>1, <2>2, <2>3, Constants
<1>11. \A d \in Deliveries : json[d] /= NoFile /\ d \notin past'.overlapped =>
          /\ \A w \in Workers : ~Using(w, d)
          /\ \A q \in Scans : ~Listed(q, d)
  <2>1. SUFFICES ASSUME NEW d \in Deliveries, json[d] /= NoFile, ~InUse(d)
                 PROVE  /\ \A w \in Workers : ~Using(w, d)
                        /\ \A q \in Scans : ~Listed(q, d)
    BY <1>6 DEF Pending
  <2>2. \A w \in Workers : ~Using(w, d)
    BY <2>1 DEF InUse, Using, AtEntry, Working
  <2>3. \A q \in Scans : ~Listed(q, d)
    BY <2>1 DEF InUse, Listed, ToSet
  <2>. QED BY <2>2, <2>3
<1>12. FreshIsUnknown'
  BY <1>1, <1>6, <1>10 DEF FreshIsUnknown
<1>13. OneUser'
  <2>1. SUFFICES ASSUME NEW e \in Deliveries, e \notin past'.overlapped
                 PROVE  /\ \A v, w \in Workers : Using(v, e)' /\ Using(w, e)' => v = w
                        /\ \A w \in Workers, q \in Scans : ~(Using(w, e)' /\ Listed(q, e)')
                        /\ \A p, q \in Scans : Listed(p, e)' /\ Listed(q, e)' => p = q
    BY DEF OneUser
  <2>2. e \notin past.overlapped
    BY <1>6, <2>1
  <2>. QED BY <1>10, <1>11, <2>1, <2>2 DEF OneUser
<1>14. AckedIsGone'
  <2>1. \A e \in past.acked : e \in Deliveries
    BY Types
  <2>. QED BY <1>1, <1>6, <1>10, <2>1 DEF AckedIsGone
<1>15. KeptUntilSentOrBestEffort'
  BY <1>1, <1>6, <1>10, KeptSo
<1>. QED BY <1>7, <1>8, <1>9, <1>12, <1>13, <1>14, <1>15

\* Crash.
LEMMA CrashKeeps ==
  ASSUME IInv, Crash
  PROVE  IInv'
<1>. USE DEF IInv
<1>1. /\ past.crashes < MaxCrashes
      /\ job' = [w \in Workers |-> IF w \in Scans THEN NoJob
                                   ELSE IF Working(w) THEN Over(w) ELSE job[w]]
      /\ scan' = [r \in Scans |-> <<>>]
      /\ past' = [past EXCEPT !.crashes = @ + 1]
      /\ json' = json /\ marker' = marker /\ failed' = failed
  BY DEF Crash, files
<1>2. /\ \A r \in Scans : job'[r] = NoJob
      /\ \A d \in Deliveries : Working(d) => job'[d] = Over(d)
      /\ \A d \in Deliveries : ~Working(d) => job'[d] = job[d]
  BY <1>1, Constants
<1>3. \A d \in Deliveries : job[d] \in Jobs
  BY Types, Constants
<1>4. \A d \in Deliveries : /\ job'[d].at \in {"none", "over"}
                            /\ job'[d].entry = job[d].entry
                            /\ job[d].aborted => job'[d].aborted
                            /\ job'[d].at = "none" => job[d].at = "none"
                            /\ job'[d] \in Jobs
  <2>1. SUFFICES ASSUME NEW d \in Deliveries
                 PROVE  /\ job'[d].at \in {"none", "over"}
                        /\ job'[d].entry = job[d].entry
                        /\ job[d].aborted => job'[d].aborted
                        /\ job'[d].at = "none" => job[d].at = "none"
                        /\ job'[d] \in Jobs
    OBVIOUS
  <2>2. CASE Working(d)
    BY <1>2, <1>3, <2>2, OverFacts, Constants
  <2>3. CASE ~Working(d)
    BY <1>2, <1>3, <2>3 DEF Working
  <2>. QED BY <2>2, <2>3
<1>5. job' \in [Workers -> Jobs]
  BY <1>1, <1>2, <1>4, FreshJob, Constants
<1>6. /\ past' \in Pasts /\ past'.received = past.received /\ past'.acked = past.acked
      /\ past'.overlapped = past.overlapped
  <2>1. past \in Pasts /\ past.crashes + 1 \in 0..MaxCrashes
    BY <1>1, Types, Constants DEF Pasts
  <2>. QED BY <1>1, <2>1 DEF Pasts
<1>7. scan' \in [Scans -> Seq(Entries)] /\ \A r \in Scans : scan'[r] = <<>>
  BY <1>1
<1>8. TypeOK'
  BY <1>1, <1>5, <1>6, <1>7, Types, TypesKept
<1>9. SendersHaveOwn'
  BY <1>4 DEF SendersHaveOwn
<1>10. ScansHaveEntries'
  BY <1>2, FreshJob DEF ScansHaveEntries
<1>11. \A w \in Workers : job'[w].at \in {"none", "over"}
  BY <1>2, <1>4, FreshJob, Constants
<1>12. SentSoFar' /\ AckedWhenSent'
  BY <1>11 DEF SentSoFar, AckedWhenSent
<1>13. ListsAreSorted'
  BY <1>7 DEF ListsAreSorted, OldestFirst
<1>14. FreshIsUnknown' /\ OneUser' /\ AckedIsGone'
  <2>1. \A w \in Workers : job'[w].at \notin AtEntry
    BY <1>11 DEF AtEntry
  <2>2. \A r \in Scans, d \in Deliveries : Listed(r, d)' => Listed(r, d)
    BY <1>7 DEF Listed
  <2>. QED BY <1>1, <1>4, <1>6, <2>1, <2>2, NobodyComes
<1>15. KeptUntilSentOrBestEffort'
  BY <1>1, <1>4, <1>6, KeptSo
<1>. QED BY <1>8, <1>9, <1>10, <1>12, <1>13, <1>14, <1>15

--------------------------------------------------------------------------------
(* Every step keeps the invariant.                                          *)

\* Nothing changes.
LEMMA StutterKeeps ==
  ASSUME IInv, UNCHANGED vars
  PROVE  IInv'
<1>1. /\ json' = json /\ marker' = marker /\ failed' = failed
      /\ job' = job /\ scan' = scan /\ past' = past
  BY DEF vars
<1>2. TypeOK'
  BY <1>1 DEF IInv, TypeOK
<1>3. SendersHaveOwn' /\ ScansHaveEntries' /\ SentSoFar' /\ AckedWhenSent'
  BY <1>1 DEF IInv, SendersHaveOwn, ScansHaveEntries, SentSoFar, AckedWhenSent, Received
<1>4. ListsAreSorted'
  BY <1>1 DEF IInv, ListsAreSorted, OldestFirst
<1>5. FreshIsUnknown' /\ OneUser' /\ AckedIsGone'
  BY <1>1, NobodyComes DEF IInv, Listed
<1>6. KeptUntilSentOrBestEffort'
  BY <1>1, KeptSo DEF IInv
<1>. QED BY <1>2, <1>3, <1>4, <1>5, <1>6 DEF IInv

LEMMA NextIInv == IInv /\ [Next]_vars => IInv'
<1>. SUFFICES ASSUME IInv, [Next]_vars PROVE IInv'
  OBVIOUS
<1>1. ASSUME NEW d \in Deliveries,
             Enqueue(d) \/ EnqueueFails(d) \/ Abort(d) \/ AbortThrows(d)
      PROVE  IInv'
  <2>1. d \in Workers
    BY Constants
  <2>. QED BY <1>1, <2>1, EnqueueKeeps, EnqueueFailsKeeps, AbortKeeps, SendingEnds
<1>2. ASSUME NEW w \in Workers, SendStep(w)
      PROVE  IInv'
  BY <1>2, PayloadSentKeeps, PayloadSwallowedKeeps, SendingEnds DEF SendStep
<1>3. ASSUME NEW w \in Workers, FileStep(w)
      PROVE  IInv'
  BY <1>3, AckRenameKeeps, AckGoneKeeps, FilesKeep, FailReadKeeps DEF FileStep
<1>4. ASSUME NEW r \in Scans, StartRecovery(r)
      PROVE  IInv'
  BY <1>4, StartRecoveryKeeps
<1>5. ASSUME NEW r \in Scans, RecoveryStep(r)
      PROVE  IInv'
  <2>1. r \in Workers
    BY Constants
  <2>2. CASE PermanentError(r) \/ MoveToFailed(r)
    BY <2>1, <2>2, SendingEnds, FilesKeep
  <2>3. CASE GiveUp(r)
    BY <2>3, TakesKeeps DEF GiveUp, Takes
  <2>4. CASE \E d \in Deliveries : Replay(r, d)
    BY <2>4, TakesKeeps DEF Replay, Takes
  <2>5. CASE Defer(r)
    BY <2>5, TakesKeeps DEF Defer
  <2>6. CASE SkipForBackoff(r) \/ BudgetExceeded(r) \/ RecoveryEnds(r)
    BY <2>6, IdlingKeeps
  <2>. QED BY <1>5, <2>2, <2>3, <2>4, <2>5, <2>6 DEF RecoveryStep
<1>6. CASE Crash
  BY <1>6, CrashKeeps
<1>7. CASE UNCHANGED vars
  BY <1>7, StutterKeeps
<1>. QED BY <1>1, <1>2, <1>3, <1>4, <1>5, <1>6, <1>7 DEF Next

LEMMA Invariance == Spec => []IInv
BY InitIInv, NextIInv, PTL DEF Spec

--------------------------------------------------------------------------------
(* The theorems.                                                            *)

\* The variables of the queue have the types of the code's files and locals.
THEOREM TypeCorrect == Spec => []TypeOK
<1>1. IInv => TypeOK
  BY DEF IInv
<1>. QED BY <1>1, Invariance, PTL

\* A delivery without bestEffort that was persisted stays on disk, in the queue or in failed/,
\* until the channel has accepted all its payloads or its caller has given it up: whatever
\* senders, scans and crashes do.
THEOREM KeptUntilSentTheorem == Spec => []KeptUntilSentOrBestEffort
<1>1. IInv => KeptUntilSentOrBestEffort
  BY DEF IInv
<1>. QED BY <1>1, Invariance, PTL

\* What was acknowledged is remembered.
LEMMA AckedForEver ==
  ASSUME IInv, [Next]_vars
  PROVE  past.acked \subseteq past'.acked
<1>1. past \in Pasts
  BY Types DEF IInv
<1>2. CASE past' = past
  BY <1>2
<1>3. ASSUME NEW w \in Workers, PayloadSent(w) \/ AckRename(w)
      PROVE  past.acked \subseteq past'.acked
  BY <1>1, <1>3 DEF PayloadSent, AckRename, Pasts
<1>4. ASSUME NEW r \in Scans, StartRecovery(r)
      PROVE  past.acked \subseteq past'.acked
  BY <1>1, <1>4 DEF StartRecovery, StartsScan, Pasts
<1>5. CASE Crash
  BY <1>1, <1>5 DEF Crash, Pasts
<1>6. past' = past \/ (\E w \in Workers : PayloadSent(w) \/ AckRename(w))
        \/ (\E r \in Scans : StartRecovery(r)) \/ Crash
  BY DEF Next, vars, SendStep, FileStep, RecoveryStep, Enqueue, EnqueueFails, Abort, AbortThrows,
         PayloadSwallowed, SendThrows, CoreReturns, AckUnlink, FailRead, FailWrite, PermanentError,
         MoveToFailed, GiveUp, Takes, SkipForBackoff, Skips, Replay, BudgetExceeded, Defer,
         RecoveryEnds
<1>. QED BY <1>2, <1>3, <1>4, <1>5, <1>6

\* An acknowledged entry neither comes back nor is taken up again, unless a scan had loaded it
\* while another worker was at it.
THEOREM AckedStaysGone == Spec => AckedNotReplayed
<1>. DEFINE NotReplayed ==
       \A d \in past.acked \ past'.overlapped :
          /\ json'[d] = NoFile
          /\ \A w \in Workers :
               job'[w].at = "sending" /\ job[w].at # "sending" => job'[w].entry # d
<1>1. ASSUME IInv, IInv', [Next]_vars
      PROVE  [NotReplayed]_vars
  <2>1. SUFFICES ASSUME NEW d \in past.acked, d \notin past'.overlapped
                 PROVE  /\ json'[d] = NoFile
                        /\ \A w \in Workers : job'[w].at = "sending" => job'[w].entry # d
    OBVIOUS
  <2>2. d \in past'.acked
    BY <1>1, AckedForEver
  <2>3. AckedIsGone'
    BY <1>1 DEF IInv
  <2>. QED BY <2>1, <2>2, <2>3 DEF AckedIsGone, Using, AtEntry
<1>. QED BY <1>1, Invariance, PTL DEF Spec, AckedNotReplayed
================================================================================
