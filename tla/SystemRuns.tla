------------------------------ MODULE SystemRuns ------------------------------
(***************************************************************************)
(* Commands that the gateway has a node run (node.invoke of system.run in  *)
(* gateway/server-methods/nodes.ts), and the approvals they need           *)
(* (gateway/node-invoke-system-run-approval.ts): composes ExecApprovals    *)
(* and NodeRegistry.  The client that invokes is the one that asked for    *)
(* the approval; it may invoke again under the same approval.              *)
(***************************************************************************)
EXTENDS ExecApprovals, NodeRegistry

VARIABLE grants   \* history: the request and the decision an invoke was forwarded on

vars == <<approvalVars, registryVars, grants>>

NoGrant == [on |-> None, as |-> "none"]

TypeOK ==
  /\ ApprovalsTypeOK
  /\ RegistryTypeOK
  /\ grants \in [Invokes -> [on : Requests \cup {None},
                             as : {"none", "allow-once", "allow-always", "fallback"}]]

Init ==
  /\ ApprovalsInit
  /\ RegistryInit
  /\ grants = [i \in Invokes |-> NoGrant]

\* sanitizeSystemRunParamsForForwarding: the decision in the record allows the run; so does a
\* request that timed out, for a client that may approve runs itself.
Allowed(r) ==
  IF record[r].clock = "after" THEN "none"
  ELSE CASE record[r].decision \in {"allow-once", "allow-always"} -> record[r].decision
         [] record[r].resolved /\ record[r].decision = "undefined" /\ record[r].by = "nobody"
              -> "fallback"
         [] OTHER -> "none"

Permitted == entry /= None /\ Allowed(entry) /= "none"

\* A node that is not connected is woken, and the handler waits for it to come back.
Wakes(i) ==
  /\ invoke[i] = "idle" /\ session = Nobody
  /\ invoke' = [invoke EXCEPT ![i] = "waking"]
  /\ UNCHANGED <<approvalVars, link, session, byConn, pending, wire, finished, overtaken, grants>>

\* It did not come back: its user is nudged, and the answer is given whatever happens meanwhile.
WakeFails(i) ==
  /\ \/ /\ invoke[i] = "waking" /\ session = Nobody
        /\ invoke' = [invoke EXCEPT ![i] = "nudging"]
     \/ invoke[i] = "nudging" /\ invoke' = Over(i)
  /\ UNCHANGED <<approvalVars, link, session, byConn, pending, wire, finished, overtaken, grants>>

\* The approval is looked up, a decision for one run is consumed, and the command is sent,
\* without an await in between.
Forwards(i) ==
  /\ invoke[i] \in {"idle", "waking"} /\ session /= Nobody
  /\ Permitted
  /\ record' = IF Allowed(entry) = "allow-once" THEN Consumed(entry) ELSE record
  /\ grants' = [grants EXCEPT ![i] = [on |-> entry, as |-> Allowed(entry)]]
  /\ Sends(i)
  /\ UNCHANGED <<entry, timers, request, waiter, granted, link, session, byConn, finished, overtaken>>

\* A command for which no override is asked is sent without the fields that would approve it, and
\* the node decides.
ForwardsPlainly(i) ==
  /\ invoke[i] \in {"idle", "waking"} /\ session /= Nobody
  /\ Sends(i)
  /\ UNCHANGED <<approvalVars, link, session, byConn, finished, overtaken, grants>>

\* The node does not take the command, the request does not match the approval, or that allows
\* nothing.
Refuses(i) ==
  /\ invoke[i] \in {"idle", "waking"} /\ session /= Nobody
  /\ invoke' = Over(i)
  /\ UNCHANGED <<approvalVars, link, session, byConn, pending, wire, finished, overtaken, grants>>

Next ==
  \/ ApprovalStep /\ UNCHANGED <<registryVars, grants>>
  \/ RegistryStep /\ UNCHANGED <<approvalVars, grants>>
  \/ \E i \in Invokes : Wakes(i) \/ WakeFails(i) \/ Forwards(i) \/ ForwardsPlainly(i) \/ Refuses(i)

Spec == Init /\ [][Next]_vars

--------------------------------------------------------------------------------
(* Properties.                                                              *)

\* Of the commands that ask for the approval to override the node's own policy: a decision for one
\* run lets one through, however often the client invokes, while it is kept and after its id is
\* used again; and none is sent as approved but on a decision of an approver, or when the request
\* for one has timed out.
RunsOnlyAsApproved ==
  /\ \A i, j \in Invokes : grants[i].as = "allow-once" /\ grants[j] = grants[i] => i = j
  /\ \A i \in Invokes :
       LET told == granted.told[grants[i].on]
       IN grants[i].on /= None => told = IF grants[i].as = "fallback" THEN "none" ELSE grants[i].as

\* Whoever waits has somebody or a timer to answer him, and a node that is connected is found.
NobodyIsForgotten == NobodyWaitsInVain /\ PendingInvokesAreAwaited /\ ConnectedNodeIsFound
================================================================================
