--------------------------- MODULE SystemRunsProofs ---------------------------
(***************************************************************************)
(* Proofs about SystemRuns: types; nobody who waits is forgotten; everyone *)
(* hears the decision; and commands run only as approved.                  *)
(*                                                                         *)
(* The life of an entry carries the argument.  An entry is registered for  *)
(* a fresh record (Untouched), its expiry timer is armed exactly while it  *)
(* is open (Armed), whoever waits waits for the open entry (Attended), and *)
(* it leaves the table only after it was settled (Settled).  What is in    *)
(* the record of the entry is what the approver was told (Told), which is  *)
(* what callers heard (Heard) and what commands were let through on        *)
(* (Granted).                                                              *)
(***************************************************************************)
EXTENDS SystemRuns, TLAPS

Records == [decision : Decisions \cup {"undefined"}, resolved : BOOLEAN,
            by : {"nobody", "approver", "no route"},
            clock : {"before", "at", "after"},
            promise : Decisions \cup {"null", "open"}]
Requesters == [at : {"idle", "forwarding", "waiting", "over"}, got : Answers]
Listeners == [at : {"idle", "waiting", "over"}, on : Requests \cup {None}, got : Answers]

\* The answer to a request, by what the approver was told.
Decided(told) == IF told = "none" THEN "null" ELSE told

Armed == timers.expiry = {r \in Requests : entry = r /\ ~record[r].resolved}

Settled ==
  /\ \A r \in timers.grace : record[r].resolved
  /\ \A r \in Requests : record[r].promise = "open" <=> ~record[r].resolved

Untouched ==
  /\ \A r \in Requests : request[r].at = "idle" => record[r] = NewRecord /\ entry /= r
  /\ \A w \in Waiters : waiter[w].at = "idle" => waiter[w].on = None

Attended ==
  /\ \A r \in Requests :
       /\ request[r].at = "forwarding" /\ ~record[r].resolved => entry = r
       /\ request[r].at = "waiting" => entry = r /\ ~record[r].resolved
  /\ \A w \in Waiters :
       waiter[w].at = "waiting" => entry /= None /\ waiter[w].on = entry /\ ~record[entry].resolved

Told ==
  \A r \in Requests :
    /\ ~record[r].resolved => /\ record[r].by = "nobody" /\ record[r].decision = "undefined"
                              /\ granted.told[r] = "none"
    /\ entry = r /\ record[r].by = "approver" => record[r].decision \in {"undefined", granted.told[r]}
    /\ entry = r /\ record[r].by /= "approver" =>
         granted.told[r] = "none" /\ record[r].decision = "undefined"

Heard ==
  /\ \A r \in Requests :
       /\ record[r].resolved => record[r].promise = Decided(granted.told[r])
       /\ \/ request[r].got \in {"none", "refused"} \/ r \in granted.unrouted
          \/ record[r].resolved /\ request[r].got = Decided(granted.told[r])
  /\ \A w \in Waiters :
       /\ waiter[w].at \in {"idle", "waiting"} => waiter[w].got = "none"
       /\ waiter[w].on /= None /\ waiter[w].got /= "none" =>
            record[waiter[w].on].resolved /\ waiter[w].got = Decided(granted.told[waiter[w].on])

Granted ==
  /\ \A i \in Invokes :
       LET r == grants[i].on
       IN IF r = None THEN grants[i].as = "none"
          ELSE /\ record[r].resolved
               /\ granted.told[r] = IF grants[i].as = "fallback" THEN "none" ELSE grants[i].as
               /\ grants[i].as = "allow-once" /\ entry = r => record[r].decision = "undefined"
  /\ \A i, j \in Invokes : grants[i].as = "allow-once" /\ grants[j] = grants[i] => i = j

\* A connection is opened after those before it have been lost.
InOrder ==
  \A c, d \in Connections : d < c /\ link[c] /= "new" => link[d] \in {"lost", "closed"}

ApprovalsInv == ApprovalsTypeOK /\ Armed /\ Settled /\ Untouched /\ Attended /\ Told /\ Heard
RegistryInv == RegistryTypeOK /\ InOrder /\ PendingInvokesAreAwaited /\ ConnectedNodeIsFound
GrantsTyped == grants \in [Invokes -> [on : Requests \cup {None},
                                       as : {"none", "allow-once", "allow-always", "fallback"}]]
IInv == ApprovalsInv /\ RegistryInv /\ GrantsTyped /\ Granted

--------------------------------------------------------------------------------
(* What settling an entry does.                                             *)

\* An answer ends a call.
LEMMA AnswerEnds ==
  /\ \A call \in Requesters, s \in Answers :
       LET x == Answered(call, s) IN x \in Requesters /\ x.at = "over" /\ x.got = s
  /\ \A call \in Listeners, s \in Answers :
       LET x == Answered(call, s)
       IN x \in Listeners /\ x.at = "over" /\ x.on = call.on /\ x.got = s
  BY DEF Answered, Requesters, Listeners

\* What the promise of a record is resolved with.
Promise(d) == IF d = "undefined" THEN "null" ELSE d

\* What Settle does: only the entry and those who wait for it change.
SettledEntry(d, by) ==
  /\ record' \in [Requests -> Records]
  /\ record'[entry].resolved /\ record'[entry].decision = d /\ record'[entry].by = by
  /\ record'[entry].promise = Promise(d)
  /\ \A r \in Requests \ {entry} : record'[r] = record[r]
  /\ timers' = [expiry |-> timers.expiry \ {entry}, grace |-> timers.grace \cup {entry}]
SettledCalls(d, calls) ==
  /\ request' \in [Requests -> Requesters]
  /\ \/ calls[entry].at = "waiting" /\ request'[entry].at = "over" /\ request'[entry].got = Promise(d)
     \/ calls[entry].at /= "waiting" /\ request'[entry] = calls[entry]
  /\ \A r \in Requests \ {entry} : request'[r] = calls[r]
  /\ waiter' \in [Waiters -> Listeners]
  /\ \A w \in Waiters :
       \/ waiter'[w].at = "over" /\ waiter'[w].on = entry /\ waiter'[w].got = Promise(d)
       \/ waiter'[w] = waiter[w] /\ ~(waiter[w].at = "waiting" /\ waiter[w].on = entry)

LEMMA SettleEffect ==
  ASSUME ApprovalsTypeOK, Open, NEW d \in Decisions \cup {"undefined"},
         NEW by \in {"nobody", "approver", "no route"}, NEW STATE calls, calls \in [Requests -> Requesters],
         Settle(d, by, calls)
  PROVE  entry \in Requests /\ SettledEntry(d, by) /\ SettledCalls(d, calls)
<1>0. PICK s : s = Promise(d)
  OBVIOUS
<1> DEFINE e == entry
<1>1. e \in Requests
  BY DEF Open, ApprovalsTypeOK
<1>2. s \in Decisions \cup {"null"}
  BY <1>0 DEF Promise
<1>3. record \in [Requests -> Records] /\ waiter \in [Waiters -> Listeners]
  BY DEF ApprovalsTypeOK, Records, Listeners
<1>4. record' = [record EXCEPT ![e] = [decision |-> d, resolved |-> TRUE, by |-> by,
                                       clock |-> record[e].clock, promise |-> s]]
  BY <1>0, <1>1, <1>3 DEF Settle, Promise
<1>5. /\ record' \in [Requests -> Records]
      /\ record'[e].resolved /\ record'[e].decision = d /\ record'[e].by = by
      /\ record'[e].promise = s
      /\ \A r \in Requests \ {e} : record'[r] = record[r]
  BY <1>1, <1>2, <1>3, <1>4 DEF Records
<1>7. timers' = [expiry |-> timers.expiry \ {e}, grace |-> timers.grace \cup {e}]
  BY DEF Settle, Promise
<1>8. request' = IF calls[e].at = "waiting" THEN [calls EXCEPT ![e] = Answered(calls[e], s)]
                 ELSE calls
  BY <1>0 DEF Settle, Promise
<1>9. s \in Answers
  BY <1>2 DEF Answers
<1>10. /\ request' \in [Requests -> Requesters]
       /\ \/ calls[e].at = "waiting" /\ request'[e].at = "over" /\ request'[e].got = s
          \/ calls[e].at /= "waiting" /\ request'[e] = calls[e]
       /\ \A r \in Requests \ {e} : request'[r] = calls[r]
  <2>1. CASE calls[e].at = "waiting"
    <3>1. PICK x : x = Answered(calls[e], s)
      OBVIOUS
    <3>2. x \in Requesters /\ x.at = "over" /\ x.got = s
      BY <1>1, <1>9, <3>1, AnswerEnds
    <3>3. request' = [calls EXCEPT ![e] = x]
      BY <1>8, <2>1, <3>1
    <3> QED BY <1>1, <2>1, <3>2, <3>3
  <2>2. CASE calls[e].at /= "waiting"
    BY <1>8, <2>2
  <2> QED BY <2>1, <2>2
<1>11. waiter' = [w \in Waiters |-> IF waiter[w].at = "waiting" /\ waiter[w].on = e
                                    THEN Answered(waiter[w], s) ELSE waiter[w]]
  BY <1>0 DEF Settle, Promise
<1>12. /\ waiter' \in [Waiters -> Listeners]
       /\ \A w \in Waiters :
            \/ waiter'[w].at = "over" /\ waiter'[w].on = entry /\ waiter'[w].got = s
            \/ waiter'[w] = waiter[w] /\ ~(waiter[w].at = "waiting" /\ waiter[w].on = entry)
  BY <1>3, <1>9, <1>11, AnswerEnds
<1> QED BY <1>0, <1>1, <1>5, <1>7, <1>10, <1>12 DEF SettledEntry, SettledCalls


\* What the step that settles an entry does besides: it tells the approver, and it may have
\* answered calls that found no approver.
ToldEntry(d) ==
  /\ granted' \in [told : [Requests -> Decisions \cup {"none"}], unrouted : SUBSET Requests]
  /\ granted.unrouted \subseteq granted'.unrouted
  /\ \A r \in Requests \ {entry} : granted'.told[r] = granted.told[r]
  /\ granted'.told[entry] = IF d = "undefined" THEN "none" ELSE d
CallsGoOn(calls) ==
  /\ calls \in [Requests -> Requesters]
  /\ \A r \in Requests :
       calls[r] = request[r] \/ (calls[r].at = "over" /\ r \in granted'.unrouted)

\* Settling the open entry keeps the invariant.
LEMMA SettlingKeeps ==
  ASSUME ApprovalsInv, GrantsTyped, Granted, Open,
         NEW d \in Decisions \cup {"undefined"}, NEW by \in {"nobody", "approver", "no route"},
         by = "approver" <=> d /= "undefined",
         NEW STATE calls, CallsGoOn(calls), Settle(d, by, calls), ToldEntry(d),
         UNCHANGED <<entry, grants>>
  PROVE  ApprovalsInv' /\ Granted'
<1>0. entry' = entry /\ grants' = grants
  OBVIOUS
<1>1. entry \in Requests /\ SettledEntry(d, by) /\ SettledCalls(d, calls)
  BY SettleEffect DEF ApprovalsInv, CallsGoOn
<1>2. /\ record \in [Requests -> Records] /\ request \in [Requests -> Requesters]
      /\ waiter \in [Waiters -> Listeners]
      /\ timers \in [expiry : SUBSET Requests, grace : SUBSET Requests]
      /\ granted \in [told : [Requests -> Decisions \cup {"none"}], unrouted : SUBSET Requests]
  BY DEF ApprovalsInv, ApprovalsTypeOK, Records, Requesters, Listeners
<1>3. ~record[entry].resolved
  BY DEF Open
<1>20. /\ \A r \in Requests \ {entry} : record'[r] = record[r] /\ request'[r] = calls[r]
                                       /\ granted'.told[r] = granted.told[r]
       /\ record'[entry].resolved /\ record'[entry].decision = d /\ record'[entry].by = by
       /\ record'[entry].promise = Promise(d)
       /\ Promise(d) /= "open"
  BY <1>1 DEF SettledEntry, SettledCalls, ToldEntry, Promise, Decisions
<1>21. request'[entry].at \notin {"idle", "waiting"}
       /\ (request'[entry].got = Promise(d) \/ request'[entry] = calls[entry])
  <2>1. calls[entry].at /= "idle"
    BY <1>1 DEF CallsGoOn, ApprovalsInv, Untouched
  <2> QED BY <1>1, <2>1 DEF SettledCalls
<1>22. \A w \in Waiters :
         \/ waiter'[w].at = "over" /\ waiter'[w].on = entry /\ waiter'[w].got = Promise(d)
         \/ waiter'[w] = waiter[w] /\ ~(waiter[w].at = "waiting" /\ waiter[w].on = entry)
  BY <1>1 DEF SettledCalls
<1>4. ApprovalsTypeOK'
  <2>1. /\ entry' \in Requests \cup {None}
        /\ record' \in [Requests -> Records] /\ request' \in [Requests -> Requesters]
        /\ waiter' \in [Waiters -> Listeners]
    BY <1>0, <1>1 DEF SettledEntry, SettledCalls
  <2>2. timers' \in [expiry : SUBSET Requests, grace : SUBSET Requests]
    BY <1>1, <1>2 DEF SettledEntry
  <2>3. granted' \in [told : [Requests -> Decisions \cup {"none"}], unrouted : SUBSET Requests]
    BY DEF ToldEntry
  <2> QED BY <2>1, <2>2, <2>3 DEF ApprovalsTypeOK, Records, Requesters, Listeners
<1>5. Armed'
  BY <1>0, <1>1, <1>2 DEF ApprovalsInv, Armed, SettledEntry
<1>6. Settled'
  <2>1. ASSUME NEW r \in timers'.grace PROVE record'[r].resolved
    BY <1>1, <1>2 DEF ApprovalsInv, Settled, SettledEntry
  <2>2. \A r \in Requests : record'[r].promise = "open" <=> ~record'[r].resolved
    BY <1>20 DEF ApprovalsInv, Settled
  <2> QED BY <2>1, <2>2 DEF Settled
<1>7. Untouched'
  <2>1. ASSUME NEW r \in Requests, request'[r].at = "idle"
        PROVE  record'[r] = NewRecord /\ entry' /= r
    <3>1. r /= entry
      BY <1>21, <2>1
    <3>2. calls[r] = request[r] /\ request[r].at = "idle"
      BY <1>20, <2>1, <3>1 DEF CallsGoOn
    <3> QED BY <1>0, <1>20, <3>1, <3>2 DEF ApprovalsInv, Untouched
  <2>2. ASSUME NEW w \in Waiters, waiter'[w].at = "idle" PROVE waiter'[w].on = None
    BY <1>22, <2>2 DEF ApprovalsInv, Untouched
  <2> QED BY <2>1, <2>2 DEF Untouched
<1>8. Attended'
  <2>1. ASSUME NEW r \in Requests
        PROVE  /\ request'[r].at = "forwarding" /\ ~record'[r].resolved => entry' = r
               /\ request'[r].at = "waiting" => entry' = r /\ ~record'[r].resolved
    <3>1. CASE r = entry
      BY <1>0, <1>20, <1>21, <3>1
    <3>2. CASE r /= entry
      <4>1. request'[r].at = request[r].at \/ request'[r].at = "over"
        BY <1>20, <3>2 DEF CallsGoOn
      <4>2. record'[r] = record[r]
        BY <1>20, <3>2
      <4> QED BY <3>2, <4>1, <4>2 DEF ApprovalsInv, Attended
    <3> QED BY <3>1, <3>2
  <2>2. ASSUME NEW w \in Waiters PROVE waiter'[w].at /= "waiting"
    BY <1>22 DEF ApprovalsInv, Attended
  <2> QED BY <2>1, <2>2 DEF Attended
<1>9. Told'
  <2> SUFFICES ASSUME NEW r \in Requests
               PROVE  /\ ~record'[r].resolved =>
                           /\ record'[r].by = "nobody" /\ record'[r].decision = "undefined"
                           /\ granted'.told[r] = "none"
                      /\ entry' = r /\ record'[r].by = "approver" =>
                           record'[r].decision \in {"undefined", granted'.told[r]}
                      /\ entry' = r /\ record'[r].by /= "approver" =>
                           granted'.told[r] = "none" /\ record'[r].decision = "undefined"
    BY DEF Told
  <2>1. CASE r = entry
    BY <1>20, <2>1 DEF ToldEntry
  <2>2. CASE r /= entry
    <3>1. record'[r] = record[r] /\ granted'.told[r] = granted.told[r] /\ entry' /= r
      BY <1>0, <1>20, <2>2
    <3> QED BY <3>1 DEF ApprovalsInv, Told
  <2> QED BY <2>1, <2>2
<1>10. Heard'
  <2>1. Decided(granted'.told[entry]) = Promise(d)
    BY <1>0 DEF Decided, Promise, Decisions, ToldEntry
  <2>2. \A r \in Requests \ {entry} : Decided(granted'.told[r]) = Decided(granted.told[r])
    BY DEF Decided, ToldEntry
  <2>3. ASSUME NEW r \in Requests
        PROVE  /\ record'[r].resolved => record'[r].promise = Decided(granted'.told[r])
               /\ \/ request'[r].got \in {"none", "refused"} \/ r \in granted'.unrouted
                  \/ record'[r].resolved /\ request'[r].got = Decided(granted'.told[r])
    <3>1. \/ calls[r].got \in {"none", "refused"} \/ r \in granted'.unrouted
          \/ record[r].resolved /\ calls[r].got = Decided(granted.told[r])
      BY DEF ApprovalsInv, Heard, CallsGoOn, ToldEntry
    <3>2. CASE r = entry
      BY <1>3, <1>20, <1>21, <2>1, <3>1, <3>2
    <3>3. CASE r /= entry
      BY <1>20, <2>2, <3>1, <3>3 DEF ApprovalsInv, Heard
    <3> QED BY <3>2, <3>3
  <2>4. ASSUME NEW w \in Waiters
        PROVE  /\ waiter'[w].at \in {"idle", "waiting"} => waiter'[w].got = "none"
               /\ waiter'[w].on /= None /\ waiter'[w].got /= "none" =>
                    record'[waiter'[w].on].resolved /\ waiter'[w].got = Decided(granted'.told[waiter'[w].on])
    <3>1. CASE waiter'[w].at = "over" /\ waiter'[w].on = entry /\ waiter'[w].got = Promise(d)
      <4>1. Decided(granted'.told[waiter'[w].on]) = Promise(d)
        BY <2>1, <3>1 DEF Decided
      <4> QED BY <1>20, <3>1, <4>1
    <3>2. CASE waiter'[w] = waiter[w]
      <4>1. ASSUME waiter[w].on /= None, waiter[w].got /= "none"
            PROVE  record'[waiter[w].on].resolved /\ waiter[w].got = Decided(granted'.told[waiter[w].on])
        <5>1. record[waiter[w].on].resolved /\ waiter[w].got = Decided(granted.told[waiter[w].on])
          BY <4>1 DEF ApprovalsInv, Heard
        <5>2. waiter[w].on \in Requests \ {entry}
          BY <1>2, <1>3, <4>1, <5>1 DEF Listeners
        <5>3. record'[waiter[w].on] = record[waiter[w].on]
          BY <1>20, <5>2
        <5>4. Decided(granted'.told[waiter[w].on]) = Decided(granted.told[waiter[w].on])
          BY <5>2 DEF Decided, ToldEntry
        <5> QED BY <5>1, <5>3, <5>4
      <4> QED BY <3>2, <4>1 DEF ApprovalsInv, Heard
    <3> QED BY <1>22, <3>1, <3>2
  <2> QED BY <2>3, <2>4 DEF Heard
<1>11. Granted'
  <2>1. ASSUME NEW i \in Invokes, grants[i].on /= None
        PROVE  LET r == grants[i].on
               IN /\ record'[r].resolved
                  /\ granted'.told[r] = IF grants[i].as = "fallback" THEN "none" ELSE grants[i].as
                  /\ grants[i].as = "allow-once" /\ entry' = r => record'[r].decision = "undefined"
    <3>1. grants[i].on \in Requests /\ record[grants[i].on].resolved
      BY <2>1 DEF Granted, GrantsTyped
    <3>2. grants[i].on /= entry
      BY <1>3, <3>1
    <3> QED BY <1>0, <1>20, <2>1, <3>1, <3>2 DEF Granted
  <2> QED BY <1>0, <2>1 DEF Granted
<1> QED BY <1>4, <1>5, <1>6, <1>7, <1>8, <1>9, <1>10, <1>11 DEF ApprovalsInv

\* The types of the approvals, one by one.
LEMMA Types ==
  ASSUME ApprovalsTypeOK
  PROVE  /\ entry \in Requests \cup {None}
         /\ record \in [Requests -> Records] /\ request \in [Requests -> Requesters]
         /\ waiter \in [Waiters -> Listeners]
         /\ timers \in [expiry : SUBSET Requests, grace : SUBSET Requests]
         /\ granted \in [told : [Requests -> Decisions \cup {"none"}], unrouted : SUBSET Requests]
  BY DEF ApprovalsTypeOK, Records, Requesters, Listeners

\* A step that leaves the approvals alone.
LEMMA Rests ==
  ASSUME ApprovalsInv, Granted, UNCHANGED <<approvalVars, grants>>
  PROVE  ApprovalsInv' /\ Granted'
<1>1. /\ entry' = entry /\ record' = record /\ timers' = timers /\ request' = request
      /\ waiter' = waiter /\ granted' = granted /\ grants' = grants
  BY DEF approvalVars
<1>2. ApprovalsTypeOK'
  BY <1>1 DEF ApprovalsInv, ApprovalsTypeOK
<1>3. Armed' /\ Settled' /\ Untouched' /\ Attended'
  BY <1>1 DEF ApprovalsInv, Armed, Settled, Untouched, Attended
<1>4. Told' /\ Heard' /\ Granted'
  BY <1>1 DEF ApprovalsInv, Told, Heard, Granted
<1> QED BY <1>2, <1>3, <1>4 DEF ApprovalsInv

\* The expiry timer settles the entry with no decision, if it is still open.
LEMMA ExpiryFiresKeeps ==
  ASSUME ApprovalsInv, GrantsTyped, Granted, NEW r \in Requests, ExpiryFires(r), grants' = grants
  PROVE  ApprovalsInv' /\ Granted'
<1>1. /\ Expire("nobody", request)
      /\ entry' = entry /\ granted' = granted
  BY DEF ExpiryFires
<1>2. CASE Open
  <2>1. Settle("undefined", "nobody", request)
    BY <1>1, <1>2 DEF Expire
  <2>2. CallsGoOn(request)
    BY Types DEF ApprovalsInv, CallsGoOn
  <2>3. ToldEntry("undefined")
    <3>1. entry \in Requests /\ ~record[entry].resolved
      BY <1>2 DEF Open, ApprovalsInv, ApprovalsTypeOK
    <3>2. granted.told[entry] = "none"
      BY <3>1 DEF ApprovalsInv, Told
    <3> QED BY <1>1, <3>2, Types DEF ToldEntry, ApprovalsInv
  <2> QED BY <1>1, <1>2, <2>1, <2>2, <2>3, SettlingKeeps
<1>3. CASE ~Open
  <2>1. UNCHANGED <<approvalVars, grants>>
    BY <1>1, <1>3 DEF Expire, approvalVars
  <2> QED BY <2>1, Rests
<1> QED BY <1>2, <1>3

\* An approver decides.
LEMMA ResolvesKeeps ==
  ASSUME ApprovalsInv, GrantsTyped, Granted, NEW d \in Decisions, Resolves(d), grants' = grants
  PROVE  ApprovalsInv' /\ Granted'
<1>1. /\ Open /\ Settle(d, "approver", request) /\ entry' = entry
      /\ granted' = [granted EXCEPT !.told[entry] = d]
  BY DEF Resolves
<1>2. CallsGoOn(request)
  BY Types DEF ApprovalsInv, CallsGoOn
<1>3. entry \in Requests
  BY <1>1 DEF Open, ApprovalsInv, ApprovalsTypeOK
<1>4. granted' = [granted EXCEPT !.told = [granted.told EXCEPT ![entry] = d]]
  BY <1>1
<1>5. d /= "undefined"
  BY DEF Decisions
<1>6. ToldEntry(d)
  <2>1. PICK told : told = [granted.told EXCEPT ![entry] = d]
    OBVIOUS
  <2>2. told \in [Requests -> Decisions \cup {"none"}] /\ told[entry] = d
        /\ \A r \in Requests \ {entry} : told[r] = granted.told[r]
    BY <1>3, <2>1, Types DEF ApprovalsInv
  <2>3. granted'.told = told /\ granted'.unrouted = granted.unrouted
        /\ granted' \in [told : [Requests -> Decisions \cup {"none"}], unrouted : SUBSET Requests]
    BY <1>4, <2>1, <2>2, Types DEF ApprovalsInv
  <2> QED BY <1>5, <2>2, <2>3 DEF ToldEntry
<1> QED BY <1>1, <1>2, <1>5, <1>6, SettlingKeeps

\* A request for which nobody was there is answered null, and settles the entry if it is open.
LEMMA UnroutedKeeps ==
  ASSUME ApprovalsInv, GrantsTyped, Granted, NEW r \in Requests, Unrouted(r), grants' = grants
  PROVE  ApprovalsInv' /\ Granted'
<1>1. PICK calls : calls = [request EXCEPT ![r] = Answered(request[r], "null")]
  OBVIOUS
<1>2. /\ request[r].at = "forwarding" /\ Expire("no route", calls) /\ entry' = entry
      /\ granted' = [granted EXCEPT !.unrouted = granted.unrouted \cup {r}]
  BY <1>1 DEF Unrouted
<1>3. /\ granted' \in [told : [Requests -> Decisions \cup {"none"}], unrouted : SUBSET Requests]
      /\ granted'.told = granted.told /\ granted'.unrouted = granted.unrouted \cup {r}
  BY <1>2, Types DEF ApprovalsInv
<1>4. /\ calls \in [Requests -> Requesters] /\ calls[r].at = "over"
      /\ \A q \in Requests \ {r} : calls[q] = request[q]
  <2>1. PICK x : x = Answered(request[r], "null")
    OBVIOUS
  <2>2. x \in Requesters /\ x.at = "over"
    BY <2>1, AnswerEnds, Types DEF ApprovalsInv, Answers
  <2> QED BY <1>1, <2>1, <2>2, Types DEF ApprovalsInv
<1>5. CallsGoOn(calls)
  BY <1>3, <1>4 DEF CallsGoOn
<1>6. CASE Open
  <2>1. Settle("undefined", "no route", calls)
    BY <1>2, <1>6 DEF Expire
  <2>2. entry \in Requests /\ ~record[entry].resolved
    BY <1>6 DEF Open, ApprovalsInv, ApprovalsTypeOK
  <2>3. granted.told[entry] = "none"
    BY <2>2 DEF ApprovalsInv, Told
  <2>4. ToldEntry("undefined")
    BY <1>3, <2>3 DEF ToldEntry
  <2> QED BY <1>2, <1>5, <1>6, <2>1, <2>4, SettlingKeeps
<1>7. CASE ~Open
  <2>1. request' = calls /\ record' = record /\ timers' = timers /\ waiter' = waiter
    BY <1>2, <1>7 DEF Expire
  <2>2. ApprovalsTypeOK'
    BY <1>2, <1>3, <1>4, <2>1, Types DEF ApprovalsInv, ApprovalsTypeOK, Records, Requesters, Listeners
  <2>3. Armed' /\ Settled' /\ Told'
    BY <1>2, <1>3, <2>1 DEF ApprovalsInv, Armed, Settled, Told
  <2>4. Untouched'
    BY <1>2, <1>4, <2>1 DEF ApprovalsInv, Untouched
  <2>5. Attended'
    BY <1>2, <1>4, <2>1 DEF ApprovalsInv, Attended
  <2>6. Heard'
    BY <1>2, <1>3, <1>4, <2>1 DEF ApprovalsInv, Heard
  <2>7. Granted'
    BY <1>2, <1>3, <2>1 DEF Granted
  <2> QED BY <2>2, <2>3, <2>4, <2>5, <2>6, <2>7 DEF ApprovalsInv
<1> QED BY <1>6, <1>7

\* A step that changes the record of one request, and lets nobody hear of it.
LEMMA RecordChanges ==
  ASSUME ApprovalsInv, NEW r \in Requests, NEW STATE x, x \in Records,
         record' = [record EXCEPT ![r] = x], x.promise = record[r].promise,
         x.resolved = record[r].resolved,
         UNCHANGED <<entry, timers, request, waiter, granted>>,
         entry = r,
         x.decision = record[r].decision \/ x.decision = "undefined", x.by = record[r].by
  PROVE  /\ ApprovalsInv'
         /\ record'[r] = x /\ \A q \in Requests \ {r} : record'[q] = record[q]
<1>1. /\ entry' = entry /\ timers' = timers /\ request' = request /\ waiter' = waiter
      /\ granted' = granted
  OBVIOUS
<1>2. record'[r] = x /\ \A q \in Requests \ {r} : record'[q] = record[q]
  BY Types DEF ApprovalsInv
<1>3. \A q \in Requests : record'[q].resolved = record[q].resolved /\ record'[q].promise = record[q].promise
  BY <1>2
<1>4. ApprovalsTypeOK'
  <2>1. record' \in [Requests -> Records]
    BY Types DEF ApprovalsInv
  <2>2. /\ entry' \in Requests \cup {None} /\ request' \in [Requests -> Requesters]
        /\ waiter' \in [Waiters -> Listeners]
        /\ timers' \in [expiry : SUBSET Requests, grace : SUBSET Requests]
        /\ granted' \in [told : [Requests -> Decisions \cup {"none"}], unrouted : SUBSET Requests]
    BY <1>1, Types DEF ApprovalsInv
  <2> QED BY <2>1, <2>2 DEF ApprovalsTypeOK, Records, Requesters, Listeners
<1>5. Armed'
  BY <1>1, <1>3 DEF ApprovalsInv, Armed
<1>6. Settled'
  BY <1>1, <1>3, Types DEF ApprovalsInv, Settled
<1>7. Untouched'
  BY <1>1, <1>2 DEF ApprovalsInv, Untouched
<1>8. Attended'
  BY <1>1, <1>3, Types DEF ApprovalsInv, Attended
<1>9. Told'
  <2>1. record'[r].by = record[r].by
        /\ (record'[r].decision = record[r].decision \/ record'[r].decision = "undefined")
    BY <1>2
  <2> QED BY <1>1, <1>2, <1>3, <2>1 DEF ApprovalsInv, Told
<1>10. Heard'
  BY <1>1, <1>3, Types DEF ApprovalsInv, Heard, Listeners
<1> QED BY <1>2, <1>4, <1>5, <1>6, <1>7, <1>8, <1>9, <1>10 DEF ApprovalsInv

\* Time passes for the record of the entry.
LEMMA ClockAdvancesKeeps ==
  ASSUME ApprovalsInv, GrantsTyped, Granted, NEW r \in Requests, ClockAdvances(r), grants' = grants
  PROVE  ApprovalsInv' /\ Granted'
<1>1. PICK c \in {"at", "after"} : record' = [record EXCEPT ![r] = [record[r] EXCEPT !.clock = c]]
  BY DEF ClockAdvances
<1>2. PICK x : x = [record[r] EXCEPT !.clock = c]
  OBVIOUS
<1>3. /\ x \in Records /\ x.promise = record[r].promise /\ x.resolved = record[r].resolved
      /\ x.decision = record[r].decision /\ x.by = record[r].by
  <2>1. record[r] \in Records
    BY Types DEF ApprovalsInv
  <2> QED BY <1>2, <2>1 DEF Records
<1>4. /\ ApprovalsInv'
      /\ record'[r] = x /\ \A q \in Requests \ {r} : record'[q] = record[q]
  BY <1>1, <1>2, <1>3, RecordChanges DEF ClockAdvances
<1>5. Granted'
  BY <1>3, <1>4, Types DEF ClockAdvances, Granted, GrantsTyped
<1> QED BY <1>4, <1>5

\* The entry of a settled request is deleted.
LEMMA GraceEndsKeeps ==
  ASSUME ApprovalsInv, GrantsTyped, Granted, NEW r \in Requests, GraceEnds(r), grants' = grants
  PROVE  ApprovalsInv' /\ Granted'
<1>1. PICK x : x = [NewRecord EXCEPT !.resolved = TRUE, !.promise = record[r].promise]
  OBVIOUS
<1>2. /\ r \in timers.grace /\ timers' = [timers EXCEPT !.grace = timers.grace \ {r}]
      /\ entry' = IF entry = r THEN None ELSE entry
      /\ record' = [record EXCEPT ![r] = x]
      /\ request' = request /\ waiter' = waiter /\ granted' = granted
  BY <1>1 DEF GraceEnds
<1>3. x \in Records /\ x.resolved /\ x.promise = record[r].promise
  BY <1>1, Types DEF ApprovalsInv, Records, NewRecord
<1>4. record[r].resolved
  BY <1>2 DEF ApprovalsInv, Settled
<1>5. /\ record' \in [Requests -> Records] /\ record'[r] = x
      /\ \A q \in Requests \ {r} : record'[q] = record[q]
  BY <1>2, <1>3, Types DEF ApprovalsInv
<1>6. \A q \in Requests : /\ record'[q].resolved <=> record[q].resolved
                          /\ record'[q].promise = record[q].promise
  BY <1>3, <1>4, <1>5
<1>7. entry' /= r /\ (entry' = entry \/ (entry' = None /\ entry = r))
  BY <1>2, ApprovalsAssumption
<1>8. timers'.expiry = timers.expiry /\ timers'.grace = timers.grace \ {r}
      /\ timers' \in [expiry : SUBSET Requests, grace : SUBSET Requests]
  BY <1>2, Types DEF ApprovalsInv
<1>9. ApprovalsTypeOK'
  BY <1>2, <1>5, <1>8, Types DEF ApprovalsInv, ApprovalsTypeOK, Records, Requesters, Listeners
<1>10. Armed'
  BY <1>4, <1>6, <1>7, <1>8, ApprovalsAssumption DEF ApprovalsInv, Armed
<1>11. Settled'
  BY <1>6, <1>8, Types DEF ApprovalsInv, Settled
<1>12. Untouched'
  <2>1. request[r].at /= "idle"
    BY <1>4 DEF ApprovalsInv, Untouched, NewRecord
  <2> QED BY <1>2, <1>5, <1>7, <2>1, ApprovalsAssumption DEF ApprovalsInv, Untouched
<1>13. Attended'
  <2>1. ASSUME NEW q \in Requests
        PROVE  /\ request'[q].at = "forwarding" /\ ~record'[q].resolved => entry' = q
               /\ request'[q].at = "waiting" => entry' = q /\ ~record'[q].resolved
    BY <1>2, <1>4, <1>6, <1>7 DEF ApprovalsInv, Attended
  <2>2. ASSUME NEW w \in Waiters, waiter'[w].at = "waiting"
        PROVE  entry' /= None /\ waiter'[w].on = entry' /\ ~record'[entry'].resolved
    <3>1. entry /= None /\ waiter[w].on = entry /\ ~record[entry].resolved
      BY <1>2, <2>2 DEF ApprovalsInv, Attended
    <3>2. entry' = entry /\ entry \in Requests
      BY <1>4, <1>7, <3>1, Types DEF ApprovalsInv
    <3> QED BY <1>2, <1>6, <3>1, <3>2
  <2> QED BY <2>1, <2>2 DEF Attended
<1>14. Told'
  <2>1. ASSUME NEW q \in Requests \ {r}
        PROVE  record'[q] = record[q] /\ (entry' = q => entry = q)
    BY <1>5, <1>7, ApprovalsAssumption
  <2>2. record'[r].resolved /\ entry' /= r
    BY <1>3, <1>5, <1>7
  <2> QED BY <1>2, <2>1, <2>2 DEF ApprovalsInv, Told
<1>15. Heard'
  BY <1>2, <1>6, Types DEF ApprovalsInv, Heard, Listeners
<1>16. Granted'
  BY <1>2, <1>5, <1>6, <1>7, Types, ApprovalsAssumption DEF Granted, GrantsTyped
<1> QED BY <1>9, <1>10, <1>11, <1>12, <1>13, <1>14, <1>15, <1>16 DEF ApprovalsInv

\* A new entry, if the id has none; else the request is refused.
LEMMA AsksApprovalKeeps ==
  ASSUME ApprovalsInv, GrantsTyped, Granted, NEW r \in Requests, AsksApproval(r), grants' = grants
  PROVE  ApprovalsInv' /\ Granted'
<1>1. /\ request[r].at = "idle" /\ record' = record /\ waiter' = waiter /\ granted' = granted
  BY DEF AsksApproval
<1>2. record[r] = NewRecord /\ entry /= r /\ ~record[r].resolved /\ record[r].decision = "undefined"
      /\ record[r].by = "nobody"
  BY <1>1 DEF ApprovalsInv, Untouched, NewRecord
<1>3. granted.told[r] = "none" /\ record[r].promise = "open"
  BY <1>2 DEF ApprovalsInv, Told, Settled
<1>4. CASE entry = None
  <2>1. PICK x : x = [request[r] EXCEPT !.at = "forwarding"]
    OBVIOUS
  <2>2. x \in Requesters /\ x.at = "forwarding" /\ x.got = request[r].got
    <3>1. request[r] \in Requesters
      BY Types DEF ApprovalsInv
    <3> QED BY <2>1, <3>1 DEF Requesters
  <2>3. /\ entry' = r /\ timers' = [timers EXCEPT !.expiry = timers.expiry \cup {r}]
        /\ request' = [request EXCEPT ![r] = x]
    BY <1>4, <2>1 DEF AsksApproval, Register
  <2>4. /\ timers'.expiry = timers.expiry \cup {r} /\ timers'.grace = timers.grace
        /\ timers' \in [expiry : SUBSET Requests, grace : SUBSET Requests]
    BY <2>3, Types DEF ApprovalsInv
  <2>5. /\ request' \in [Requests -> Requesters] /\ request'[r].at = "forwarding"
        /\ request'[r].got = request[r].got
        /\ \A q \in Requests \ {r} : request'[q] = request[q]
    BY <2>2, <2>3, Types DEF ApprovalsInv
  <2>6. ApprovalsTypeOK'
    BY <1>1, <2>3, <2>4, <2>5, Types DEF ApprovalsInv, ApprovalsTypeOK, Records, Requesters, Listeners
  <2>7. Armed'
    BY <1>1, <1>2, <1>4, <2>3, <2>4, ApprovalsAssumption DEF ApprovalsInv, Armed
  <2>8. Settled'
    BY <1>1, <2>4 DEF ApprovalsInv, Settled
  <2>9. Untouched'
    BY <1>1, <2>3, <2>5 DEF ApprovalsInv, Untouched
  <2>10. Attended'
    <3>1. \A q \in Requests \ {r} : /\ request[q].at = "forwarding" => record[q].resolved
                                    /\ request[q].at /= "waiting"
      BY <1>4, ApprovalsAssumption DEF ApprovalsInv, Attended
    <3>2. \A w \in Waiters : waiter[w].at /= "waiting"
      BY <1>4 DEF ApprovalsInv, Attended
    <3> QED BY <1>1, <2>3, <2>5, <3>1, <3>2 DEF Attended
  <2>11. Told'
    <3>1. ASSUME NEW q \in Requests \ {r} PROVE entry' /= q
      BY <2>3
    <3> QED BY <1>1, <1>2, <1>3, <2>3, <3>1 DEF ApprovalsInv, Told
  <2>12. Heard'
    BY <1>1, <2>5 DEF ApprovalsInv, Heard
  <2>13. Granted'
    <3>1. \A i \in Invokes : grants[i].on /= None => grants[i].on /= r
      BY <1>2 DEF Granted
    <3> QED BY <1>1, <2>3, <3>1 DEF Granted
  <2> QED BY <2>6, <2>7, <2>8, <2>9, <2>10, <2>11, <2>12, <2>13 DEF ApprovalsInv
<1>5. CASE entry /= None
  <2>1. PICK x : x = Answered(request[r], "refused")
    OBVIOUS
  <2>2. x \in Requesters /\ x.at = "over" /\ x.got = "refused"
    BY <2>1, AnswerEnds, Types DEF ApprovalsInv, Answers
  <2>3. entry' = entry /\ timers' = timers /\ request' = [request EXCEPT ![r] = x]
    BY <1>5, <2>1 DEF AsksApproval
  <2>4. /\ request' \in [Requests -> Requesters] /\ request'[r] = x
        /\ \A q \in Requests \ {r} : request'[q] = request[q]
    BY <2>2, <2>3, Types DEF ApprovalsInv
  <2>5. ApprovalsTypeOK'
    BY <1>1, <2>3, <2>4, Types DEF ApprovalsInv, ApprovalsTypeOK, Records, Requesters, Listeners
  <2>6. Armed' /\ Settled' /\ Told'
    BY <1>1, <2>3 DEF ApprovalsInv, Armed, Settled, Told
  <2>7. Untouched'
    BY <1>1, <2>2, <2>3, <2>4 DEF ApprovalsInv, Untouched
  <2>8. Attended'
    BY <1>1, <2>2, <2>3, <2>4 DEF ApprovalsInv, Attended
  <2>9. Heard'
    BY <1>1, <2>2, <2>4 DEF ApprovalsInv, Heard
  <2>10. Granted'
    BY <1>1, <2>3 DEF Granted
  <2> QED BY <2>5, <2>6, <2>7, <2>8, <2>9, <2>10 DEF ApprovalsInv
<1> QED BY <1>4, <1>5

\* The request was forwarded; it waits, or is answered if it was decided meanwhile.
LEMMA RoutedKeeps ==
  ASSUME ApprovalsInv, GrantsTyped, Granted, NEW r \in Requests, Routed(r), grants' = grants
  PROVE  ApprovalsInv' /\ Granted'
<1>1. PICK x : x = Awaits(request[r], r)
  OBVIOUS
<1>2. /\ request[r].at = "forwarding" /\ request' = [request EXCEPT ![r] = x]
      /\ entry' = entry /\ record' = record /\ timers' = timers /\ waiter' = waiter
      /\ granted' = granted
  BY <1>1 DEF Routed
<1>3. request[r] \in Requesters /\ record[r] \in Records
  BY Types DEF ApprovalsInv
<1>4. /\ x \in Requesters
      /\ \/ x.at = "waiting" /\ x.got = request[r].got /\ record[r].promise = "open"
         \/ x.at = "over" /\ x.got = record[r].promise /\ record[r].promise /= "open"
  <2>1. CASE record[r].promise = "open"
    BY <1>1, <1>3, <2>1 DEF Awaits, Requesters
  <2>2. CASE record[r].promise /= "open"
    <3>1. record[r].promise \in Answers
      BY <1>3, <2>2 DEF Records, Answers
    <3> QED BY <1>1, <1>3, <2>2, <3>1, AnswerEnds DEF Awaits
  <2> QED BY <2>1, <2>2
<1>5. /\ request' \in [Requests -> Requesters] /\ request'[r] = x
      /\ \A q \in Requests \ {r} : request'[q] = request[q]
  BY <1>2, <1>4, Types DEF ApprovalsInv
<1>6. ApprovalsTypeOK'
  BY <1>2, <1>5, Types DEF ApprovalsInv, ApprovalsTypeOK, Records, Requesters, Listeners
<1>7. Armed' /\ Settled' /\ Told'
  BY <1>2 DEF ApprovalsInv, Armed, Settled, Told
<1>8. Untouched'
  BY <1>2, <1>4, <1>5 DEF ApprovalsInv, Untouched
<1>9. record[r].promise = "open" => ~record[r].resolved /\ entry = r
  BY <1>2 DEF ApprovalsInv, Attended, Settled
<1>10. Attended'
  BY <1>2, <1>4, <1>5, <1>9 DEF ApprovalsInv, Attended
<1>11. record[r].promise /= "open" =>
         record[r].resolved /\ record[r].promise = Decided(granted.told[r])
  BY DEF ApprovalsInv, Settled, Heard
<1>12. Heard'
  BY <1>2, <1>4, <1>5, <1>11 DEF ApprovalsInv, Heard
<1>13. Granted'
  BY <1>2 DEF Granted
<1> QED BY <1>6, <1>7, <1>8, <1>10, <1>12, <1>13 DEF ApprovalsInv

\* A call of waitDecision is refused, waits for the entry, or is answered.
LEMMA WaitsDecisionKeeps ==
  ASSUME ApprovalsInv, GrantsTyped, Granted, NEW w \in Waiters, WaitsDecision(w), grants' = grants
  PROVE  ApprovalsInv' /\ Granted'
<1>1. PICK x : x = IF entry = None THEN Answered(waiter[w], "refused")
                   ELSE Awaits([waiter[w] EXCEPT !.on = entry], entry)
  OBVIOUS
<1>2. /\ waiter[w].at = "idle" /\ waiter' = [waiter EXCEPT ![w] = x]
      /\ entry' = entry /\ record' = record /\ timers' = timers /\ request' = request
      /\ granted' = granted
  BY <1>1 DEF WaitsDecision
<1>3. waiter[w] \in Listeners /\ waiter[w].on = None /\ waiter[w].got = "none"
  BY <1>2, Types DEF ApprovalsInv, Untouched, Heard
<1>4. /\ x \in Listeners
      /\ \/ x.at = "over" /\ x.on = None
         \/ entry \in Requests /\ x.at = "waiting" /\ x.on = entry /\ x.got = "none"
              /\ record[entry].promise = "open"
         \/ entry \in Requests /\ x.at = "over" /\ x.on = entry
              /\ x.got = record[entry].promise /\ record[entry].promise /= "open"
  <2>1. CASE entry = None
    BY <1>1, <1>3, <2>1, AnswerEnds DEF Answers
  <2>2. CASE entry /= None
    <3>1. entry \in Requests /\ record[entry] \in Records
      BY <2>2, Types DEF ApprovalsInv
    <3>2. PICK y : y = [waiter[w] EXCEPT !.on = entry]
      OBVIOUS
    <3>3. y \in Listeners /\ y.at = "idle" /\ y.on = entry /\ y.got = "none"
      BY <1>2, <1>3, <3>1, <3>2 DEF Listeners
    <3>4. CASE record[entry].promise = "open"
      <4>1. x = [y EXCEPT !.at = "waiting"]
        BY <1>1, <2>2, <3>2, <3>4 DEF Awaits
      <4>2. x \in Listeners /\ x.at = "waiting" /\ x.on = entry /\ x.got = "none"
        BY <3>3, <4>1 DEF Listeners
      <4> QED BY <3>1, <3>4, <4>2
    <3>5. CASE record[entry].promise /= "open"
      <4>1. record[entry].promise \in Answers
        BY <3>1, <3>5 DEF Records, Answers
      <4>2. x = Answered(y, record[entry].promise)
        BY <1>1, <2>2, <3>2, <3>5 DEF Awaits
      <4> QED BY <3>1, <3>3, <3>5, <4>1, <4>2, AnswerEnds
    <3> QED BY <3>4, <3>5
  <2> QED BY <2>1, <2>2
<1>5. /\ waiter' \in [Waiters -> Listeners] /\ waiter'[w] = x
      /\ \A v \in Waiters \ {w} : waiter'[v] = waiter[v]
  BY <1>2, <1>4, Types DEF ApprovalsInv
<1>6. ApprovalsTypeOK'
  BY <1>2, <1>5, Types DEF ApprovalsInv, ApprovalsTypeOK, Records, Requesters, Listeners
<1>7. Armed' /\ Settled' /\ Told'
  BY <1>2 DEF ApprovalsInv, Armed, Settled, Told
<1>8. Untouched'
  BY <1>2, <1>4, <1>5 DEF ApprovalsInv, Untouched
<1>9. Attended'
  <2>1. x.at = "waiting" => entry /= None /\ x.on = entry /\ ~record[entry].resolved
    BY <1>4, ApprovalsAssumption DEF ApprovalsInv, Settled
  <2> QED BY <1>2, <1>5, <2>1 DEF ApprovalsInv, Attended
<1>10. Heard'
  <2>1. /\ x.at \in {"idle", "waiting"} => x.got = "none"
        /\ x.on /= None /\ x.got /= "none" =>
             record[x.on].resolved /\ x.got = Decided(granted.told[x.on])
    BY <1>4 DEF ApprovalsInv, Settled, Heard
  <2> QED BY <1>2, <1>5, <2>1 DEF ApprovalsInv, Heard
<1>11. Granted'
  BY <1>2 DEF Granted
<1> QED BY <1>6, <1>7, <1>8, <1>9, <1>10, <1>11 DEF ApprovalsInv

\* What a command is let through on is what the approver of the entry was told, or the timeout.
LEMMA AllowedAsTold ==
  ASSUME ApprovalsInv, NEW g, g = Allowed(entry), entry /= None, g /= "none"
  PROVE  /\ entry \in Requests /\ g \in {"allow-once", "allow-always", "fallback"}
         /\ record[entry].resolved
         /\ granted.told[entry] = IF g = "fallback" THEN "none" ELSE g
         /\ g = "allow-once" => record[entry].decision = "allow-once"
<1>1. entry \in Requests
  BY Types DEF ApprovalsInv
<1>2. \/ g \in {"allow-once", "allow-always"} /\ record[entry].decision = g
      \/ g = "fallback" /\ record[entry].resolved /\ record[entry].decision = "undefined"
           /\ record[entry].by = "nobody"
  BY DEF Allowed
<1> QED BY <1>1, <1>2 DEF ApprovalsInv, Told

\* A command is let through: a decision for one run is consumed.
LEMMA ForwardsKeeps ==
  ASSUME ApprovalsInv, GrantsTyped, Granted, NEW i \in Invokes, Forwards(i)
  PROVE  ApprovalsInv' /\ GrantsTyped' /\ Granted'
<1>1. PICK g : g = Allowed(entry)
  OBVIOUS
<1>2. /\ entry /= None /\ g /= "none"
      /\ record' = IF g = "allow-once" THEN Consumed(entry) ELSE record
      /\ entry' = entry /\ timers' = timers /\ request' = request /\ waiter' = waiter
      /\ granted' = granted
  BY <1>1 DEF Forwards, Permitted
<1>3. /\ entry \in Requests /\ g \in {"allow-once", "allow-always", "fallback"}
      /\ record[entry].resolved
      /\ granted.told[entry] = IF g = "fallback" THEN "none" ELSE g
      /\ g = "allow-once" => record[entry].decision = "allow-once"
  BY <1>1, <1>2, AllowedAsTold
<1>4. PICK x : x = [on |-> entry, as |-> g]
  OBVIOUS
<1>5. x.on = entry /\ x.as = g
      /\ x \in [on : Requests \cup {None},
                as : {"none", "allow-once", "allow-always", "fallback"}]
  BY <1>3, <1>4
<1>6. grants' = [grants EXCEPT ![i] = x]
  BY <1>1, <1>4 DEF Forwards
<1>7. GrantsTyped' /\ grants'[i] = x /\ \A j \in Invokes \ {i} : grants'[j] = grants[j]
  BY <1>5, <1>6 DEF GrantsTyped
<1>8. /\ ApprovalsInv'
      /\ \A r \in Requests : record'[r].resolved = record[r].resolved
      /\ \A r \in Requests :
           record'[r].decision = record[r].decision \/ record'[r].decision = "undefined"
      /\ g = "allow-once" => record'[entry].decision = "undefined"
  <2>1. CASE g = "allow-once"
    <3>1. PICK y : y = [record[entry] EXCEPT !.decision = "undefined"]
      OBVIOUS
    <3>2. record[entry] \in Records
      BY <1>3, Types DEF ApprovalsInv
    <3>3. /\ y \in Records /\ y.decision = "undefined" /\ y.promise = record[entry].promise
          /\ y.resolved = record[entry].resolved /\ y.by = record[entry].by
      BY <3>1, <3>2 DEF Records
    <3>4. record' = [record EXCEPT ![entry] = y]
      BY <1>2, <2>1, <3>1 DEF Consumed
    <3>5. /\ ApprovalsInv'
          /\ record'[entry] = y /\ \A r \in Requests \ {entry} : record'[r] = record[r]
      BY <1>2, <1>3, <3>3, <3>4, RecordChanges
    <3> QED BY <3>3, <3>5
  <2>2. CASE g /= "allow-once"
    <3>1. record' = record
      BY <1>2, <2>2
    <3>2. ApprovalsTypeOK'
      BY <1>2, <3>1 DEF ApprovalsInv, ApprovalsTypeOK
    <3>3. Armed' /\ Settled' /\ Untouched' /\ Attended'
      BY <1>2, <3>1 DEF ApprovalsInv, Armed, Settled, Untouched, Attended
    <3>4. Told' /\ Heard'
      BY <1>2, <3>1 DEF ApprovalsInv, Told, Heard
    <3> QED BY <2>2, <3>1, <3>2, <3>3, <3>4 DEF ApprovalsInv
  <2> QED BY <2>1, <2>2
<1>9. Granted'
  <2>1. ASSUME NEW j \in Invokes
        PROVE  LET r == grants'[j].on
               IN IF r = None THEN grants'[j].as = "none"
                  ELSE /\ record'[r].resolved
                       /\ granted'.told[r] = IF grants'[j].as = "fallback" THEN "none" ELSE grants'[j].as
                       /\ grants'[j].as = "allow-once" /\ entry' = r => record'[r].decision = "undefined"
    <3>1. CASE j = i
      BY <1>2, <1>3, <1>5, <1>7, <1>8, <3>1
    <3>2. CASE j /= i
      <4>1. grants'[j] = grants[j] /\ grants[j].on \in Requests \cup {None}
        BY <1>7, <3>2 DEF GrantsTyped
      <4> QED BY <1>2, <1>8, <4>1 DEF Granted
    <3> QED BY <3>1, <3>2
  <2>2. ASSUME NEW j \in Invokes \ {i}, grants[j] = x PROVE g /= "allow-once"
    BY <1>2, <1>3, <1>5, <2>2 DEF Granted
  <2>3. ASSUME NEW j \in Invokes, NEW k \in Invokes,
               grants'[j].as = "allow-once", grants'[k] = grants'[j]
        PROVE  j = k
    <3>1. CASE j /= i /\ k /= i
      BY <1>7, <2>3, <3>1 DEF Granted
    <3>2. CASE j = i /\ k /= i
      BY <1>5, <1>7, <2>2, <2>3, <3>2
    <3>3. CASE j /= i /\ k = i
      BY <1>5, <1>7, <2>2, <2>3, <3>3
    <3> QED BY <3>1, <3>2, <3>3
  <2> QED BY <2>1, <2>3 DEF Granted
<1> QED BY <1>7, <1>8, <1>9

\* Every step of an approval.
LEMMA ApprovalStepKeeps ==
  ASSUME ApprovalsInv, GrantsTyped, Granted, ApprovalStep, grants' = grants
  PROVE  ApprovalsInv' /\ Granted'
<1>1. CASE \E r \in Requests : ExpiryFires(r)
  BY <1>1, ExpiryFiresKeeps
<1>2. CASE \E r \in Requests : GraceEnds(r)
  BY <1>2, GraceEndsKeeps
<1>3. CASE \E r \in Requests : ClockAdvances(r)
  BY <1>3, ClockAdvancesKeeps
<1>4. CASE \E r \in Requests : AsksApproval(r)
  BY <1>4, AsksApprovalKeeps
<1>5. CASE \E r \in Requests : Routed(r)
  BY <1>5, RoutedKeeps
<1>6. CASE \E r \in Requests : Unrouted(r)
  BY <1>6, UnroutedKeeps
<1>7. CASE \E w \in Waiters : WaitsDecision(w)
  BY <1>7, WaitsDecisionKeeps
<1>8. CASE \E d \in Decisions : Resolves(d)
  BY <1>8, ResolvesKeeps
<1> QED BY <1>1, <1>2, <1>3, <1>4, <1>5, <1>6, <1>7, <1>8 DEF ApprovalStep

--------------------------------------------------------------------------------
(* Connections and invokes.                                                 *)

\* A step of the registry keeps its invariant.
LEMMA RegistryStepKeeps ==
  ASSUME RegistryInv, RegistryStep
  PROVE  RegistryInv'
<1> USE RegistryAssumption DEF RegistryInv
<1>1. ASSUME NEW c \in Connections, Connects(c) PROVE RegistryInv'
  <2>1. RegistryTypeOK'
    BY <1>1 DEF Connects, RegistryTypeOK
  <2>2. /\ \A d \in Connections \ {c} : link'[d] = link[d]
        /\ link'[c] = "open" /\ link[c] = "new" /\ session' = c /\ overtaken' = overtaken
    BY <1>1 DEF Connects, RegistryTypeOK
  <2>3. \A d \in Connections : d < c => link[d] \in {"lost", "closed"}
    BY <1>1 DEF Connects
  <2>4. InOrder'
    BY <2>2, <2>3 DEF InOrder, Connections
  <2>5. PendingInvokesAreAwaited'
    BY <1>1 DEF Connects, PendingInvokesAreAwaited
  <2>6. ConnectedNodeIsFound'
    <3>1. \A d \in Connections \ {c} : link[d] /= "open"
      BY <2>2, <2>3 DEF InOrder, Connections
    <3> QED BY <2>2, <3>1 DEF ConnectedNodeIsFound
  <2> QED BY <2>1, <2>4, <2>5, <2>6
<1>2. ASSUME NEW c \in Connections, Loses(c) PROVE RegistryInv'
  <2>1. RegistryTypeOK'
    BY <1>2 DEF Loses, Cut, RegistryTypeOK
  <2>2. /\ \A d \in Connections \ {c} : link'[d] = link[d]
        /\ link'[c] = "lost" /\ link[c] = "open" /\ session' = session /\ overtaken' = overtaken
    BY <1>2 DEF Loses, RegistryTypeOK
  <2>3. InOrder' /\ ConnectedNodeIsFound'
    BY <2>2 DEF InOrder, ConnectedNodeIsFound, Connections
  <2>4. PendingInvokesAreAwaited'
    BY <1>2 DEF Loses, PendingInvokesAreAwaited
  <2> QED BY <2>1, <2>3, <2>4
<1>3. ASSUME NEW c \in Connections, Closes(c) PROVE RegistryInv'
  <2>1. RegistryTypeOK'
    BY <1>3 DEF Closes, Unregister, Cut, RegistryTypeOK
  <2>2. /\ \A d \in Connections \ {c} : link'[d] = link[d]
        /\ link'[c] = "closed" /\ link[c] /= "new" /\ overtaken' = (overtaken \/ session /= c)
    BY <1>3 DEF Closes, RegistryTypeOK
  <2>3. InOrder' /\ ConnectedNodeIsFound'
    BY <2>2 DEF InOrder, ConnectedNodeIsFound, Connections
  <2>4. PendingInvokesAreAwaited'
    BY <1>3 DEF Closes, Unregister, RegistryTypeOK, PendingInvokesAreAwaited
  <2> QED BY <2>1, <2>3, <2>4
<1>4. ASSUME NEW i \in Invokes, InvokeTimesOut(i) PROVE RegistryInv'
  BY <1>4 DEF InvokeTimesOut, Over, RegistryTypeOK, InOrder, PendingInvokesAreAwaited,
              ConnectedNodeIsFound
<1>5. ASSUME NEW i \in Invokes, NodeRuns(i) PROVE RegistryInv'
  BY <1>5 DEF NodeRuns, RegistryTypeOK, InOrder, PendingInvokesAreAwaited, ConnectedNodeIsFound
<1>6. ASSUME NEW i \in Invokes, NodeAnswers(i) PROVE RegistryInv'
  BY <1>6 DEF NodeAnswers, Over, RegistryTypeOK, InOrder, PendingInvokesAreAwaited,
              ConnectedNodeIsFound
<1> QED BY <1>1, <1>2, <1>3, <1>4, <1>5, <1>6 DEF RegistryStep

\* So do the steps of a command that is not pending: it is sent, or stays out of the table.
LEMMA InvokeKeeps ==
  ASSUME RegistryInv, NEW i \in Invokes,
         Wakes(i) \/ WakeFails(i) \/ Forwards(i) \/ ForwardsPlainly(i) \/ Refuses(i)
  PROVE  RegistryInv'
<1> USE DEF RegistryInv
<1>1. /\ link' = link /\ session' = session /\ byConn' = byConn /\ finished' = finished
      /\ overtaken' = overtaken /\ invoke[i] /= "sent"
  BY DEF Wakes, WakeFails, Forwards, ForwardsPlainly, Refuses
<1>2. InOrder' /\ ConnectedNodeIsFound'
  BY <1>1 DEF InOrder, ConnectedNodeIsFound
<1>3. CASE Wakes(i) \/ WakeFails(i) \/ Refuses(i)
  BY <1>1, <1>2, <1>3 DEF Wakes, WakeFails, Refuses, Over, RegistryTypeOK, PendingInvokesAreAwaited
<1>4. CASE Forwards(i) \/ ForwardsPlainly(i)
  <2>1. Sends(i) /\ session \in Connections
    BY <1>4 DEF Forwards, ForwardsPlainly, RegistryTypeOK
  <2>2. RegistryTypeOK'
    BY <1>1, <2>1 DEF Sends, Over, RegistryTypeOK
  <2>3. PendingInvokesAreAwaited'
    BY <1>1, <2>1 DEF Sends, Over, RegistryTypeOK, PendingInvokesAreAwaited
  <2> QED BY <1>2, <2>2, <2>3
<1> QED BY <1>3, <1>4

\* And so does a step of the approvals.
LEMMA RegistryRests ==
  ASSUME RegistryInv, UNCHANGED registryVars
  PROVE  RegistryInv'
  BY DEF RegistryInv, RegistryTypeOK, InOrder, PendingInvokesAreAwaited, ConnectedNodeIsFound,
         registryVars

--------------------------------------------------------------------------------
(* The invariant, and what follows from it.                                 *)

LEMMA InitIInv == Init => IInv
<1> SUFFICES ASSUME Init PROVE IInv
  OBVIOUS
<1> USE DEF Init, ApprovalsInit, RegistryInit
<1>1. NewRecord \in Records
  BY DEF NewRecord, Records
<1>2. /\ entry = None /\ \A r \in Requests : record[r] = NewRecord
      /\ \A r \in Requests : request[r].at = "idle" /\ request[r].got = "none"
      /\ \A w \in Waiters : waiter[w].at = "idle" /\ waiter[w].on = None /\ waiter[w].got = "none"
      /\ timers.expiry = {} /\ timers.grace = {}
      /\ \A r \in Requests : granted.told[r] = "none"
  OBVIOUS
<1>3. ApprovalsTypeOK
  <2>1. record \in [Requests -> Records]
    BY <1>1
  <2>2. request \in [Requests -> Requesters] /\ waiter \in [Waiters -> Listeners]
    BY DEF Requesters, Listeners, Answers
  <2>3. /\ timers \in [expiry : SUBSET Requests, grace : SUBSET Requests]
        /\ granted \in [told : [Requests -> Decisions \cup {"none"}], unrouted : SUBSET Requests]
    OBVIOUS
  <2> QED BY <1>2, <2>1, <2>2, <2>3 DEF ApprovalsTypeOK, Records, Requesters, Listeners
<1>4. Armed /\ Settled /\ Untouched /\ Attended /\ Told
  BY <1>2, ApprovalsAssumption DEF NewRecord, Armed, Settled, Untouched, Attended, Told
<1>5. Heard
  BY <1>2 DEF NewRecord, Heard
<1>6. RegistryInv
  BY DEF RegistryInv, RegistryTypeOK, InOrder, PendingInvokesAreAwaited, ConnectedNodeIsFound
<1>7. GrantsTyped /\ Granted
  BY DEF GrantsTyped, Granted, NoGrant
<1> QED BY <1>3, <1>4, <1>5, <1>6, <1>7 DEF IInv, ApprovalsInv

LEMMA NextIInv == IInv /\ [Next]_vars => IInv'
<1> SUFFICES ASSUME IInv, [Next]_vars PROVE IInv'
  OBVIOUS
<1> USE DEF IInv
<1>1. CASE ApprovalStep /\ UNCHANGED <<registryVars, grants>>
  <2>1. ApprovalsInv' /\ Granted'
    BY <1>1, ApprovalStepKeeps
  <2>2. RegistryInv'
    BY <1>1, RegistryRests
  <2>3. GrantsTyped'
    BY <1>1 DEF GrantsTyped
  <2> QED BY <2>1, <2>2, <2>3
<1>2. CASE RegistryStep /\ UNCHANGED <<approvalVars, grants>>
  <2>1. ApprovalsInv' /\ Granted'
    BY <1>2, Rests
  <2>2. RegistryInv'
    BY <1>2, RegistryStepKeeps
  <2>3. GrantsTyped'
    BY <1>2 DEF GrantsTyped
  <2> QED BY <2>1, <2>2, <2>3
<1>3. ASSUME NEW i \in Invokes, Wakes(i) \/ WakeFails(i) \/ ForwardsPlainly(i) \/ Refuses(i)
      PROVE  IInv'
  <2>1. UNCHANGED <<approvalVars, grants>>
    BY <1>3 DEF Wakes, WakeFails, ForwardsPlainly, Refuses
  <2>2. ApprovalsInv' /\ Granted'
    BY <2>1, Rests
  <2>3. RegistryInv'
    BY <1>3, InvokeKeeps
  <2>4. GrantsTyped'
    BY <2>1 DEF GrantsTyped
  <2> QED BY <2>2, <2>3, <2>4
<1>4. ASSUME NEW i \in Invokes, Forwards(i) PROVE IInv'
  BY <1>4, ForwardsKeeps, InvokeKeeps
<1>5. CASE UNCHANGED vars
  <2>1. UNCHANGED <<approvalVars, grants>> /\ UNCHANGED registryVars
    BY <1>5 DEF vars
  <2>2. ApprovalsInv' /\ Granted'
    BY <2>1, Rests
  <2>3. RegistryInv'
    BY <2>1, RegistryRests
  <2>4. GrantsTyped'
    BY <2>1 DEF GrantsTyped
  <2> QED BY <2>2, <2>3, <2>4
<1> QED BY <1>1, <1>2, <1>3, <1>4, <1>5 DEF Next

LEMMA Invariance == Spec => []IInv
<1> QED BY InitIInv, NextIInv, PTL DEF Spec

\* The variables of the approvals, the registry and the grants keep their types, whatever the
\* order of decisions, timers, connections and commands.
THEOREM TypeCorrect == Spec => []TypeOK
<1>1. IInv => TypeOK
  BY DEF IInv, ApprovalsInv, RegistryInv, GrantsTyped, TypeOK
<1> QED BY <1>1, Invariance, PTL

\* What an approver was told is what the request and all who wait for its decision are answered,
\* for any number of requests under the id, of waiting calls and of commands.
THEOREM DecisionHeard == Spec => []EveryoneHearsTheDecision
<1>1. IInv => EveryoneHearsTheDecision
  <2> SUFFICES ASSUME IInv, NEW r \in Requests
               PROVE  /\ \/ request[r].got \in {"none", "refused", Decided(granted.told[r])}
                         \/ r \in granted.unrouted
                      /\ \A w \in Waiters : waiter[w].on = r =>
                           waiter[w].got \in {"none", Decided(granted.told[r])}
    BY DEF EveryoneHearsTheDecision, Decided
  <2> QED BY ApprovalsAssumption DEF IInv, ApprovalsInv, Heard
<1> QED BY <1>1, Invariance, PTL

\* A decision for one run lets one command through, and each that overrides the node goes
\* on what an approver decided or on a request that timed out, for any number of commands and connections.
THEOREM RunsAsApproved == Spec => []RunsOnlyAsApproved
<1>1. IInv => RunsOnlyAsApproved
  BY DEF IInv, Granted, RunsOnlyAsApproved
<1> QED BY <1>1, Invariance, PTL

\* Whoever waits for a decision has the open entry and its timer, whoever waits for a command is
\* in the table of pending invokes, and a connected node is found unless an older connection of
\* it closed late.
THEOREM NobodyForgotten == Spec => []NobodyIsForgotten
<1>1. IInv => NobodyWaitsInVain
  BY DEF IInv, ApprovalsInv, Attended, Armed, NobodyWaitsInVain
<1>2. IInv => PendingInvokesAreAwaited /\ ConnectedNodeIsFound
  BY DEF IInv, RegistryInv
<1> QED BY <1>1, <1>2, Invariance, PTL DEF NobodyIsForgotten
================================================================================
