----------------------------- MODULE NodeRegistry -----------------------------
(***************************************************************************)
(* gateway/node-registry.ts, with the ends of a connection in              *)
(* gateway/server/ws-connection.ts and the results of                      *)
(* gateway/server-methods/nodes.handlers.invoke-result.ts, for one node.   *)
(*                                                                         *)
(* The node connects again when it has lost its connection; the gateway    *)
(* hears of the loss when the old socket closes, before or after the node  *)
(* is back.  A command is sent on the newest connection, its result may    *)
(* come on any, and the timer of an invoke races both.                     *)
(***************************************************************************)
EXTENDS Integers, FiniteSets

CONSTANTS
  MaxConnections,   \* bound: connections of the node, numbered in their order
  Invokes,          \* calls of NodeRegistry.invoke
  Nobody            \* no connection

ASSUME RegistryAssumption == MaxConnections \in Nat

VARIABLES
  link,       \* each connection: "new", "open", "lost" (the gateway does not know yet), "closed"
  session,    \* nodesById: the connection of the node
  byConn,     \* nodesByConn: the connections that are registered
  pending,    \* pendingInvokes
  invoke,     \* where each invoke is
  wire,       \* the connection on which the command of an invoke is on its way to the node
  finished,   \* commands that the node has run and not answered yet
  overtaken   \* history: an older connection closed after the node was registered again

registryVars == <<link, session, byConn, pending, invoke, wire, finished, overtaken>>

Connections == 1..MaxConnections

RegistryTypeOK ==
  /\ link \in [Connections -> {"new", "open", "lost", "closed"}]
  /\ session \in Connections \cup {Nobody}
  /\ byConn \subseteq Connections
  /\ pending \subseteq Invokes
  /\ invoke \in [Invokes -> {"idle", "waking", "nudging", "sent", "over"}]
  /\ wire \in [Invokes -> Connections \cup {Nobody}]
  /\ finished \subseteq Invokes
  /\ overtaken \in BOOLEAN

RegistryInit ==
  /\ link = [c \in Connections |-> "new"]
  /\ session = Nobody
  /\ byConn = {}
  /\ pending = {}
  /\ invoke = [i \in Invokes |-> "idle"]
  /\ wire = [i \in Invokes |-> Nobody]
  /\ finished = {}
  /\ overtaken = FALSE

Over(i) == [invoke EXCEPT ![i] = "over"]

--------------------------------------------------------------------------------
(* Connections.                                                             *)

\* register.  The node has one connection that it uses, the newest.
Connects(c) ==
  /\ link[c] = "new"
  /\ \A d \in Connections : d < c => link[d] \in {"lost", "closed"}
  /\ link' = [link EXCEPT ![c] = "open"]
  /\ session' = c
  /\ byConn' = byConn \cup {c}
  /\ UNCHANGED <<pending, invoke, wire, finished, overtaken>>

\* What is on its way to the node is lost with the connection.
Cut(c) == wire' = [i \in Invokes |-> IF wire[i] = c THEN Nobody ELSE wire[i]]

\* The network goes; the gateway does not hear of it.
Loses(c) ==
  /\ link[c] = "open"
  /\ link' = [link EXCEPT ![c] = "lost"]
  /\ Cut(c)
  /\ UNCHANGED <<session, byConn, pending, invoke, finished, overtaken>>

\* Mutant: invokes are rejected and stay in the table.  Breaks NobodyIsForgotten.
UnregisterKeeping(c) ==
  /\ byConn' = byConn \ {c}
  /\ session' = Nobody
  /\ invoke' = [i \in Invokes |-> IF i \in pending THEN "over" ELSE invoke[i]]
  /\ UNCHANGED pending

\* unregister goes from the connection to the node, and removes whatever session the node has.
Unregister(c) ==
  /\ byConn' = byConn \ {c}
  /\ session' = Nobody
  /\ invoke' = [i \in Invokes |-> IF i \in pending THEN "over" ELSE invoke[i]]
  /\ pending' = {}

Closes(c) ==
  /\ link[c] \in {"open", "lost"}
  /\ link' = [link EXCEPT ![c] = "closed"]
  /\ Unregister(c)
  /\ Cut(c)
  /\ overtaken' = (overtaken \/ session /= c)
  /\ UNCHANGED finished

--------------------------------------------------------------------------------
(* Invokes.                                                                 *)

\* NodeRegistry.invoke with a session: the request is sent, and its timer starts.  What is sent
\* on a lost connection may be taken by the socket.
Sends(i) ==
  \/ /\ invoke' = [invoke EXCEPT ![i] = "sent"]
     /\ pending' = pending \cup {i}
     /\ wire' = IF link[session] = "open" THEN [wire EXCEPT ![i] = session] ELSE wire
  \/ /\ link[session] = "lost"
     /\ invoke' = Over(i)
     /\ UNCHANGED <<pending, wire>>

InvokeTimesOut(i) ==
  /\ i \in pending
  /\ pending' = pending \ {i}
  /\ invoke' = Over(i)
  /\ UNCHANGED <<link, session, byConn, wire, finished, overtaken>>

\* The node receives a command and runs it, also when its invoke has timed out.
NodeRuns(i) ==
  /\ wire[i] /= Nobody
  /\ wire' = [wire EXCEPT ![i] = Nobody]
  /\ finished' = finished \cup {i}
  /\ UNCHANGED <<link, session, byConn, pending, invoke, overtaken>>

\* node.invoke.result: handleInvokeResult ignores a result that nobody waits for.
NodeAnswers(i) ==
  /\ i \in finished
  /\ \E c \in Connections : link[c] = "open"
  /\ finished' = finished \ {i}
  /\ invoke' = IF i \in pending THEN Over(i) ELSE invoke
  /\ pending' = pending \ {i}
  /\ UNCHANGED <<link, session, byConn, wire, overtaken>>

RegistryStep ==
  \/ \E c \in Connections : Connects(c) \/ Loses(c) \/ Closes(c)
  \/ \E i \in Invokes : InvokeTimesOut(i) \/ NodeRuns(i) \/ NodeAnswers(i)

--------------------------------------------------------------------------------
(* Properties.                                                              *)

\* A node that is connected is found, on the connection it uses - unless an older connection of
\* it was closed after it came back: that close removes the new session.
ConnectedNodeIsFound ==
  \A c \in Connections : link[c] = "open" => session = c \/ overtaken

\* An invoke is in the table of pending invokes exactly while its caller waits for it.
PendingInvokesAreAwaited == pending = {i \in Invokes : invoke[i] = "sent"}
================================================================================
