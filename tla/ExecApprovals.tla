----------------------------- MODULE ExecApprovals -----------------------------
(***************************************************************************)
(* gateway/exec-approval-manager.ts and the handlers of                    *)
(* gateway/server-methods/exec-approval.ts, for one approval id.           *)
(*                                                                         *)
(* A client asks for approval under an id of its own, and may use the id   *)
(* again; each request that is registered has an entry, a record and a     *)
(* promise.  An approver's decision races the expiry timer, the forwarding *)
(* of the request to approvers, and the timer that deletes a resolved      *)
(* entry after a grace period.  Time is what the code compares it with:    *)
(* whether it is before, at or after the record's expiresAtMs.             *)
(***************************************************************************)
EXTENDS Integers, FiniteSets

CONSTANTS
  Requests,   \* calls of exec.approval.request under this id
  Waiters,    \* calls of exec.approval.waitDecision
  None        \* no entry, no request

ASSUME ApprovalsAssumption == None \notin Requests

VARIABLES
  entry,      \* ExecApprovalManager.pending: the request whose entry the id has
  record,     \* of each request: its record, and what its promise was resolved with
  timers,     \* expiry timers and grace timers that are armed
  request,    \* where each call of exec.approval.request is, and what it answered
  waiter,     \* the same for exec.approval.waitDecision, with the request it waits for
  granted     \* history: what an approver was told is decided; answers given for want of a route

approvalVars == <<entry, record, timers, request, waiter, granted>>

Decisions == {"allow-once", "allow-always", "deny"}
Answers == Decisions \cup {"null", "refused", "none"}

NewRecord == [decision |-> "undefined", resolved |-> FALSE, by |-> "nobody",
              clock |-> "before", promise |-> "open"]

ApprovalsTypeOK ==
  /\ entry \in Requests \cup {None}
  /\ record \in [Requests -> [decision : Decisions \cup {"undefined"}, resolved : BOOLEAN,
                              by : {"nobody", "approver", "no route"},
                              clock : {"before", "at", "after"},
                              promise : Decisions \cup {"null", "open"}]]
  /\ timers \in [expiry : SUBSET Requests, grace : SUBSET Requests]
  /\ request \in [Requests -> [at : {"idle", "forwarding", "waiting", "over"}, got : Answers]]
  /\ waiter \in [Waiters -> [at : {"idle", "waiting", "over"}, on : Requests \cup {None},
                             got : Answers]]
  /\ granted \in [told : [Requests -> Decisions \cup {"none"}], unrouted : SUBSET Requests]

ApprovalsInit ==
  /\ entry = None
  /\ record = [r \in Requests |-> NewRecord]
  /\ timers = [expiry |-> {}, grace |-> {}]
  /\ request = [r \in Requests |-> [at |-> "idle", got |-> "none"]]
  /\ waiter = [w \in Waiters |-> [at |-> "idle", on |-> None, got |-> "none"]]
  /\ granted = [told |-> [r \in Requests |-> "none"], unrouted |-> {}]

--------------------------------------------------------------------------------
(* ExecApprovalManager.                                                     *)

\* Mutant: nobody looks whether the entry is resolved already.  Breaks EveryoneHearsTheDecision.
Found == entry /= None

Open == entry /= None /\ ~record[entry].resolved

\* register, for an id that has no entry.
Register(r) == entry' = r /\ timers' = [timers EXCEPT !.expiry = @ \cup {r}]

Answered(call, answer) == [call EXCEPT !.at = "over", !.got = answer]

\* resolve and expire: the entry is found by its id, and only one of them settles it.  Those
\* who await the promise are answered before anything else runs.
Settle(decision, by, calls) ==
  LET e == entry
      settled == IF decision = "undefined" THEN "null" ELSE decision
  IN /\ record' = [record EXCEPT ![e] = [decision |-> decision, resolved |-> TRUE, by |-> by,
                                          clock |-> record[e].clock, promise |-> settled]]
     /\ timers' = [expiry |-> timers.expiry \ {e}, grace |-> timers.grace \cup {e}]
     /\ request' = IF calls[e].at = "waiting" THEN [calls EXCEPT ![e] = Answered(@, settled)] ELSE calls
     /\ waiter' = [w \in Waiters |-> IF waiter[w].at = "waiting" /\ waiter[w].on = e
                                     THEN Answered(waiter[w], settled) ELSE waiter[w]]

Expire(by, calls) ==
  IF Open THEN Settle("undefined", by, calls)
  ELSE request' = calls /\ UNCHANGED <<record, timers, waiter>>

\* The expiry timer of a record; the clock has reached expiresAtMs by then.
ExpiryFires(r) ==
  /\ r \in timers.expiry /\ record[r].clock /= "before"
  /\ Expire("nobody", request)
  /\ UNCHANGED <<entry, granted>>

\* The entry is deleted, unless another has its place; only the promise is left of its record.
GraceEnds(r) ==
  /\ r \in timers.grace
  /\ timers' = [timers EXCEPT !.grace = @ \ {r}]
  /\ entry' = IF entry = r THEN None ELSE entry
  /\ record' = [record EXCEPT ![r] = [NewRecord EXCEPT !.resolved = TRUE, !.promise = record[r].promise]]
  /\ UNCHANGED <<request, waiter, granted>>

\* Mutant: the decision is not cleared.  Breaks RunsOnlyAsApproved.
NotConsumed(r) == record

\* Mutant: the decision is cleared to null, not to undefined.  Breaks TypeOK.
ConsumedToNull(r) == [record EXCEPT ![r].decision = "null"]

\* consumeAllowOnce.
Consumed(r) == [record EXCEPT ![r].decision = "undefined"]

\* Nobody looks at the clock for a record that is not in the table.
ClockAdvances(r) ==
  /\ entry = r /\ record[r].clock /= "after"
  /\ record' = [record EXCEPT ![r].clock = IF @ = "before" THEN "at" ELSE "after"]
  /\ UNCHANGED <<entry, timers, request, waiter, granted>>

--------------------------------------------------------------------------------
(* The handlers.                                                            *)

\* exec.approval.request, up to the forwarding of the request to approvers.
AsksApproval(r) ==
  /\ request[r].at = "idle"
  /\ IF entry = None
     THEN Register(r) /\ request' = [request EXCEPT ![r].at = "forwarding"]
     ELSE request' = [request EXCEPT ![r] = Answered(@, "refused")] /\ UNCHANGED <<entry, timers>>
  /\ UNCHANGED <<record, waiter, granted>>

\* A call that awaits the promise of r: it is answered at once when that is settled.
Awaits(call, r) ==
  IF record[r].promise = "open" THEN [call EXCEPT !.at = "waiting"] ELSE Answered(call, record[r].promise)

\* Somebody was there to ask.
Routed(r) ==
  /\ request[r].at = "forwarding"
  /\ request' = [request EXCEPT ![r] = Awaits(@, r)]
  /\ UNCHANGED <<entry, record, timers, waiter, granted>>

\* Nobody was there: the entry is expired, if it is still open, and the answer is null.
Unrouted(r) ==
  /\ request[r].at = "forwarding"
  /\ Expire("no route", [request EXCEPT ![r] = Answered(@, "null")])
  /\ granted' = [granted EXCEPT !.unrouted = @ \cup {r}]
  /\ UNCHANGED entry

\* exec.approval.waitDecision: awaitDecision finds a promise while the id has an entry.
WaitsDecision(w) ==
  /\ waiter[w].at = "idle"
  /\ waiter' = [waiter EXCEPT ![w] = IF entry = None THEN Answered(@, "refused")
                                     ELSE Awaits([@ EXCEPT !.on = entry], entry)]
  /\ UNCHANGED <<entry, record, timers, request, granted>>

\* exec.approval.resolve by an approver, who is told whether the decision was taken.
Resolves(decision) ==
  /\ Open
  /\ Settle(decision, "approver", request)
  /\ granted' = [granted EXCEPT !.told[entry] = decision]
  /\ UNCHANGED entry

ApprovalStep ==
  \/ \E r \in Requests : \/ ExpiryFires(r) \/ GraceEnds(r) \/ ClockAdvances(r)
                         \/ AsksApproval(r) \/ Routed(r) \/ Unrouted(r)
  \/ \E w \in Waiters : WaitsDecision(w)
  \/ \E decision \in Decisions : Resolves(decision)

--------------------------------------------------------------------------------
(* Properties.                                                              *)

\* What an approver was told is decided is what the request and all who wait for it are
\* answered; without a decision they are answered null.  The exception: a request that found no
\* approver when its forwarding ended is answered null, also when it was decided by then.
EveryoneHearsTheDecision ==
  \A r \in Requests :
    LET decided == IF granted.told[r] = "none" THEN "null" ELSE granted.told[r]
    IN /\ request[r].got \in {"none", "refused", decided} \/ r \in granted.unrouted
       /\ \A w \in Waiters : waiter[w].on = r => waiter[w].got \in {"none", decided}

\* Nobody waits for what will not come: while a call awaits a promise, the entry is in the
\* table, where approvers find it, and its expiry timer is armed.
NobodyWaitsInVain ==
  \A r \in Requests :
    request[r].at = "waiting" \/ (\E w \in Waiters : waiter[w].at = "waiting" /\ waiter[w].on = r)
    => entry = r /\ ~record[r].resolved /\ r \in timers.expiry
================================================================================
