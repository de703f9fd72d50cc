------------------------------- MODULE WsRelay -------------------------------
(***************************************************************************)
(* CLIProxyAPI/internal/wsrelay: one websocket session of a client that    *)
(* serves model requests, and the calls that are relayed through it.       *)
(*                                                                         *)
(* Five kinds of goroutines meet in a session: the HTTP handler that       *)
(* registers it, the reader, whoever runs cleanup first (the reader, the   *)
(* heartbeat or Manager.Stop), one watcher per call that waits for the end *)
(* of its context, and the callers.  sync.Map makes each operation on      *)
(* session.pending a step; channels are used between these steps.          *)
(*                                                                         *)
(* sdk/cliproxy/service.go gives the manager no ProviderFactory, so each   *)
(* connection has a provider name of its own, which is also the id of the  *)
(* credential it offers; sessions share nothing else, and one is modelled. *)
(***************************************************************************)
EXTENDS Integers, Sequences, FiniteSets

CONSTANTS
  Calls,       \* the calls made through this session
  Buffer,      \* capacity of a response channel; 8 in the code
  MaxChunks    \* bound: chunks the client sends for a call

ASSUME RelayAssumption ==
  /\ Buffer \in Nat \ {0}
  /\ MaxChunks \in Nat

VARIABLES
  handler,   \* how far handleWebsocket is: "upgraded", "registered", "serving"
  inMap,     \* Manager.sessions has this session
  auth,      \* the service offers the credential of this session
  stopping,  \* Manager.Stop has taken the session out of the map and goes to clean it up
  closed,    \* session.closed is closed
  cleaner,   \* the one run of cleanup: where it is, which entries Range must still visit, and holds
  reader,    \* the run loop: where it is, and the message it dispatches
  pending,   \* the calls in session.pending
  ch,        \* the response channel of each call
  chClosed,  \* whether it is closed
  call,      \* where each caller is, and what it got
  watch,     \* the goroutine that waits for the end of the context
  done,      \* the calls whose context is cancelled
  client,    \* the client: calls it knows, chunks sent for each, calls it has ended
  crashed,   \* an unrecovered panic has ended the process
  past       \* history: calls that lost a message to a full channel, and an early cleanup

vars == <<handler, inMap, auth, stopping, closed, cleaner, reader, pending, ch, chClosed,
          call, watch, done, client, crashed, past>>

connection == <<handler, inMap, auth, stopping>>
calls == <<pending, ch, chClosed, call, watch, done>>

Kinds == {"chunk", "end", "error"}
NoCall == "no call"
Holds == Calls \cup {NoCall}
Results == {"none", "ok", "error", "cancelled", "panicked"}

Places == {"idle", "found", "stored", "checked", "waiting", "over"}
Callers == [at : Places, stream : BOOLEAN, got : Nat, result : Results]

SessionTyped ==
  /\ handler \in {"upgraded", "registered", "serving"}
  /\ {inMap, auth, stopping, closed, crashed} \subseteq BOOLEAN
CleanerTyped ==
  cleaner \in [at : {"none", "range", "visit", "swap", "unmap", "done"},
               todo : SUBSET Calls, visited : SUBSET Calls, holds : Holds]
ReaderTyped ==
  reader \in [at : {"off", "reading", "found", "offered", "over"}, holds : Holds, kind : Kinds]
MapTyped ==
  /\ pending \in SUBSET Calls /\ chClosed \in [Calls -> BOOLEAN]
  /\ watch \in [Calls -> {"off", "on", "over"}] /\ done \in SUBSET Calls
ChannelsTyped == ch \in [Calls -> Seq(Kinds)] /\ \A c \in Calls : Len(ch[c]) <= Buffer
CallersTyped == call \in [Calls -> Callers]
ClientTyped == client \in [knows : SUBSET Calls, sent : [Calls -> 0..MaxChunks], ended : SUBSET Calls]
PastTyped == past \in [overflow : SUBSET Calls, early : BOOLEAN]

TypeOK ==
  /\ SessionTyped /\ CleanerTyped /\ ReaderTyped /\ MapTyped
  /\ ChannelsTyped /\ CallersTyped /\ ClientTyped /\ PastTyped

Init ==
  /\ handler = "upgraded"
  /\ inMap = FALSE /\ auth = FALSE /\ stopping = FALSE /\ closed = FALSE /\ crashed = FALSE
  /\ cleaner = [at |-> "none", todo |-> {}, visited |-> {}, holds |-> NoCall]
  /\ reader = [at |-> "off", holds |-> NoCall, kind |-> "chunk"]
  /\ pending = {} /\ done = {}
  /\ ch = [c \in Calls |-> <<>>]
  /\ chClosed = [c \in Calls |-> FALSE]
  /\ call = [c \in Calls |-> [at |-> "idle", stream |-> FALSE, got |-> 0, result |-> "none"]]
  /\ watch = [c \in Calls |-> "off"]
  /\ client = [knows |-> {}, sent |-> [c \in Calls |-> 0], ended |-> {}]
  /\ past = [overflow |-> {}, early |-> FALSE]

--------------------------------------------------------------------------------
(* The life of the session.                                                 *)

\* handleWebsocket enters the session in the map.
Register ==
  /\ handler = "upgraded"
  /\ handler' = "registered" /\ inMap' = TRUE
  /\ UNCHANGED <<auth, stopping, closed, cleaner, reader, calls, client, crashed, past>>

\* onConnected, which adds the credential, and go s.run.
Announce ==
  /\ handler = "registered"
  /\ handler' = "serving" /\ auth' = TRUE
  /\ reader' = [reader EXCEPT !.at = "reading"]
  /\ UNCHANGED <<inMap, stopping, closed, cleaner, calls, client, crashed, past>>

\* The first cleanup closes closed; Range will visit what is pending now, and perhaps more.
Closes ==
  /\ cleaner.at = "none"
  /\ closed' = TRUE
  /\ cleaner' = [cleaner EXCEPT !.at = "range", !.todo = pending]

\* The reader's ReadJSON fails: the connection is lost, a peer is silent for 60 s, or it was closed.
ReadFails ==
  /\ reader.at = "reading"
  /\ reader' = [reader EXCEPT !.at = "over"]
  /\ \/ Closes
     \/ cleaner.at # "none" /\ UNCHANGED <<closed, cleaner>>
  /\ UNCHANGED <<connection, calls, client, crashed, past>>

\* A ping of the heartbeat fails.  The first one is sent 30 s after the upgrade.
HeartbeatFails ==
  /\ handler = "serving"
  /\ Closes
  /\ UNCHANGED <<connection, reader, calls, client, crashed, past>>

\* Manager.Stop swaps the map under its mutex, ...
Stop ==
  /\ inMap
  /\ inMap' = FALSE /\ stopping' = TRUE
  /\ UNCHANGED <<handler, auth, closed, cleaner, reader, calls, client, crashed, past>>

\* ... and then cleans up the sessions it found.
StopCleansUp ==
  /\ stopping
  /\ stopping' = FALSE
  /\ \/ Closes
     \/ cleaner.at # "none" /\ UNCHANGED <<closed, cleaner>>
  /\ UNCHANGED <<handler, inMap, auth, reader, calls, client, crashed, past>>

\* A channel takes a message if it has room, else the message is dropped.
Offer(c, kind) ==
  /\ ch' = [ch EXCEPT ![c] = IF Len(@) < Buffer THEN Append(@, kind) ELSE @]
  /\ past' = [past EXCEPT !.overflow = IF Len(ch[c]) < Buffer THEN @ ELSE @ \cup {c}]

\* Range yields the next entry.
RangeYields(c) ==
  /\ cleaner.at = "range" /\ c \in pending \ cleaner.visited
  /\ cleaner' = [cleaner EXCEPT !.at = "visit", !.holds = c,
                                !.visited = @ \cup {c}, !.todo = @ \ {c}]
  /\ UNCHANGED <<connection, closed, reader, calls, client, crashed, past>>

\* Mutant: the channel is closed without an error message.  Breaks TruncatedOnlyByOverflow.
TellSilently ==
  /\ cleaner.at = "visit"
  /\ chClosed' = [chClosed EXCEPT ![cleaner.holds] = TRUE]
  /\ cleaner' = [cleaner EXCEPT !.at = "range", !.holds = NoCall]
  /\ UNCHANGED <<connection, closed, reader, pending, ch, call, watch, done, client, crashed, past>>

\* Mutant: the error is sent, but the channel stays open.  Breaks CloseEndsCalls.
TellOpen ==
  /\ cleaner.at = "visit"
  /\ Offer(cleaner.holds, "error")
  /\ cleaner' = [cleaner EXCEPT !.at = "range", !.holds = NoCall]
  /\ UNCHANGED <<connection, closed, reader, pending, chClosed, call, watch, done, client, crashed>>

\* It is sent an error and closed; if somebody has closed it since, the send panics.
TellCall ==
  /\ cleaner.at = "visit"
  /\ LET c == cleaner.holds IN
       \/ /\ chClosed[c]
          /\ crashed' = TRUE
          /\ UNCHANGED <<cleaner, ch, chClosed, past>>
       \/ /\ ~chClosed[c]
          /\ Offer(c, "error")
          /\ chClosed' = [chClosed EXCEPT ![c] = TRUE]
          /\ cleaner' = [cleaner EXCEPT !.at = "range", !.holds = NoCall]
          /\ UNCHANGED crashed
  /\ UNCHANGED <<connection, closed, reader, pending, call, watch, done, client>>

\* Every entry that was there at the start, and still is, has been visited.
RangeEnds ==
  /\ cleaner.at = "range" /\ cleaner.todo \cap pending = {}
  /\ cleaner' = [cleaner EXCEPT !.at = "swap", !.todo = {}, !.visited = {}]
  /\ UNCHANGED <<connection, closed, reader, calls, client, crashed, past>>

\* The assignment of a new map is complete, and the connection is closed.
SwapEnds ==
  /\ cleaner.at = "swap"
  /\ pending' = {}
  /\ cleaner' = [cleaner EXCEPT !.at = "unmap"]
  /\ UNCHANGED <<connection, closed, reader, ch, chClosed, call, watch, done, client, crashed, past>>

\* Mutant: onDisconnected only for the session that is still in the map.  Breaks AuthGoneWithSession.
SessionClosedIfMapped ==
  /\ cleaner.at = "unmap"
  /\ cleaner' = [cleaner EXCEPT !.at = "done"]
  /\ inMap' = FALSE
  /\ auth' = (auth /\ ~inMap)
  /\ past' = [past EXCEPT !.early = handler # "serving"]
  /\ UNCHANGED <<handler, stopping, closed, reader, calls, client, crashed>>

\* handleSessionClosed removes the session from the map; onDisconnected removes the credential.
HandleSessionClosed ==
  /\ cleaner.at = "unmap"
  /\ cleaner' = [cleaner EXCEPT !.at = "done"]
  /\ inMap' = FALSE
  /\ auth' = FALSE
  /\ past' = [past EXCEPT !.early = handler # "serving"]
  /\ UNCHANGED <<handler, stopping, closed, reader, calls, client, crashed>>

--------------------------------------------------------------------------------
(* Calls.                                                                   *)

\* A caller is through; what it stored is deleted and closed.
Drop(c) ==
  /\ pending' = pending \ {c}
  /\ chClosed' = [chClosed EXCEPT ![c] = @ \/ c \in pending]

Returns(c, result) == call' = [call EXCEPT ![c].at = "over", ![c].result = result]

\* Manager.Stream or NonStream looks the session up; callers know it by its credential.
Lookup(c, stream) ==
  /\ call[c].at = "idle" /\ handler = "serving"
  /\ \/ inMap /\ call' = [call EXCEPT ![c].at = "found", ![c].stream = stream]
     \/ ~inMap /\ Returns(c, "error")
  /\ UNCHANGED <<connection, closed, cleaner, reader, pending, ch, chClosed, watch, done,
                 client, crashed, past>>

\* request stores the new channel; the id is a new UUID.
StoreCall(c) ==
  /\ call[c].at = "found"
  /\ pending' = pending \cup {c}
  /\ call' = [call EXCEPT ![c].at = "stored"]
  /\ UNCHANGED <<connection, closed, cleaner, reader, ch, chClosed, watch, done, client, crashed, past>>

\* Mutant: send does not look at closed.  Breaks ToldWhenSessionDies.
CheckNothing(c) ==
  /\ call[c].at = "stored"
  /\ \/ c \notin pending /\ Returns(c, "panicked")
     \/ c \in pending /\ call' = [call EXCEPT ![c].at = "checked"]
  /\ UNCHANGED <<connection, closed, cleaner, reader, pending, ch, chClosed, watch, done,
                 client, crashed, past>>

\* It loads what it stored, which panics if the map was replaced, and send looks at closed.
CheckClosed(c) ==
  /\ call[c].at = "stored"
  /\ \/ c \notin pending /\ Returns(c, "panicked") /\ UNCHANGED <<pending, chClosed>>
     \/ c \in pending /\ closed /\ Returns(c, "error") /\ Drop(c)
     \/ /\ c \in pending /\ ~closed
        /\ call' = [call EXCEPT ![c].at = "checked"]
        /\ UNCHANGED <<pending, chClosed>>
  /\ UNCHANGED <<connection, closed, cleaner, reader, ch, watch, done, client, crashed, past>>

\* The request is written; the watcher of the context starts and the caller has its channel.
WriteRequest(c) ==
  /\ call[c].at = "checked" /\ cleaner.at \notin {"unmap", "done"}
  /\ call' = [call EXCEPT ![c].at = "waiting"]
  /\ watch' = [watch EXCEPT ![c] = "on"]
  /\ client' = [client EXCEPT !.knows = @ \cup {c}]
  /\ UNCHANGED <<connection, closed, cleaner, reader, pending, ch, chClosed, done, crashed, past>>

\* The write fails.
WriteFails(c) ==
  /\ call[c].at = "checked"
  /\ Returns(c, "error") /\ Drop(c)
  /\ UNCHANGED <<connection, closed, cleaner, reader, ch, watch, done, client, crashed, past>>

\* The caller's client goes away.
Cancel(c) ==
  /\ call[c].at \notin {"idle", "over"} /\ c \notin done
  /\ done' = done \cup {c}
  /\ UNCHANGED <<connection, closed, cleaner, reader, pending, ch, chClosed, call, watch,
                 client, crashed, past>>

\* The watcher deletes and closes the call, or leaves that to the cleanup.  A context also
\* ends when its call has returned.
WatcherEnds(c) ==
  /\ watch[c] = "on"
  /\ watch' = [watch EXCEPT ![c] = "over"]
  /\ \/ (c \in done \/ call[c].at = "over") /\ Drop(c)
     \/ closed /\ UNCHANGED <<pending, chClosed>>
  /\ UNCHANGED <<connection, closed, cleaner, reader, ch, call, done, client, crashed, past>>

\* The caller takes the next message.
Receive(c) ==
  /\ call[c].at = "waiting" /\ ch[c] # <<>>
  /\ ch' = [ch EXCEPT ![c] = Tail(@)]
  /\ \/ Head(ch[c]) = "chunk" /\ call' = [call EXCEPT ![c].got = @ + 1]
     \/ Head(ch[c]) = "end" /\ Returns(c, "ok")
     \/ Head(ch[c]) = "error" /\ Returns(c, "error")
  /\ UNCHANGED <<connection, closed, cleaner, reader, pending, chClosed, watch, done, client,
                 crashed, past>>

\* The channel is closed: NonStream takes what it has of a stream for the whole answer.
ReceiveClosed(c) ==
  /\ call[c].at = "waiting" /\ ch[c] = <<>> /\ chClosed[c]
  /\ Returns(c, IF call[c].got > 0 /\ ~call[c].stream THEN "ok" ELSE "error")
  /\ UNCHANGED <<connection, closed, cleaner, reader, pending, ch, chClosed, watch, done,
                 client, crashed, past>>

\* The caller sees the end of its context first.
ReceiveDone(c) ==
  /\ call[c].at = "waiting" /\ c \in done
  /\ Returns(c, "cancelled")
  /\ UNCHANGED <<connection, closed, cleaner, reader, pending, ch, chClosed, watch, done,
                 client, crashed, past>>

--------------------------------------------------------------------------------
(* The reader.                                                              *)

\* A message for a call arrives, and dispatch loads the call.
DispatchLoads(c, kind) ==
  /\ reader.at = "reading" /\ cleaner.at \notin {"unmap", "done"}
  /\ c \in client.knows \ client.ended
  /\ kind = "chunk" => client.sent[c] < MaxChunks
  /\ client' = IF kind = "chunk" THEN [client EXCEPT !.sent[c] = @ + 1]
                                 ELSE [client EXCEPT !.ended = @ \cup {c}]
  /\ \/ c \in pending /\ reader' = [at |-> "found", holds |-> c, kind |-> kind]
     \/ c \notin pending /\ UNCHANGED reader
  /\ UNCHANGED <<connection, closed, cleaner, calls, crashed, past>>

\* It offers the message to the channel; if that was closed since, the send panics.
DispatchOffers ==
  /\ reader.at = "found"
  /\ LET c == reader.holds IN
       \/ chClosed[c] /\ crashed' = TRUE /\ UNCHANGED <<reader, ch, past>>
       \/ /\ ~chClosed[c]
          /\ Offer(c, reader.kind)
          /\ reader' = IF reader.kind = "chunk"
                         THEN [at |-> "reading", holds |-> NoCall, kind |-> "chunk"]
                         ELSE [reader EXCEPT !.at = "offered"]
          /\ UNCHANGED crashed
  /\ UNCHANGED <<connection, closed, cleaner, pending, chClosed, call, watch, done, client>>

\* After the message that ends the call, the entry is deleted and its channel closed.
DispatchEnds ==
  /\ reader.at = "offered"
  /\ Drop(reader.holds)
  /\ reader' = [at |-> "reading", holds |-> NoCall, kind |-> "chunk"]
  /\ UNCHANGED <<connection, closed, cleaner, ch, call, watch, done, client, crashed, past>>

\* session.pending is assigned while others use it (a data race): they may find a map that is
\* half replaced.  In a handler the panic is recovered, in other goroutines it is not.
SwapRace ==
  /\ cleaner.at = "swap"
  /\ \/ /\ \E c \in Calls : call[c].at \in {"found", "stored", "checked"} /\ Returns(c, "panicked")
        /\ UNCHANGED crashed
     \/ /\ \/ reader.at = "reading" /\ client.knows \ client.ended # {}
           \/ reader.at = "offered"
           \/ \E c \in Calls : watch[c] = "on" /\ (c \in done \/ call[c].at = "over")
        /\ crashed' = TRUE
        /\ UNCHANGED call
  /\ UNCHANGED <<connection, closed, cleaner, reader, pending, ch, chClosed, watch, done, client, past>>

--------------------------------------------------------------------------------

CallStep(c) ==
  \/ \E stream \in BOOLEAN : Lookup(c, stream)
  \/ StoreCall(c) \/ CheckClosed(c) \/ WriteRequest(c) \/ WriteFails(c)
  \/ Cancel(c) \/ WatcherEnds(c) \/ Receive(c) \/ ReceiveClosed(c) \/ ReceiveDone(c)
  \/ RangeYields(c)
  \/ \E kind \in Kinds : DispatchLoads(c, kind)

SessionStep ==
  \/ Register \/ Announce \/ ReadFails \/ HeartbeatFails \/ Stop \/ StopCleansUp
  \/ TellCall \/ RangeEnds \/ SwapEnds \/ HandleSessionClosed
  \/ DispatchOffers \/ DispatchEnds \/ SwapRace

Next == ~crashed /\ (SessionStep \/ \E c \in Calls : CallStep(c))

Spec == Init /\ [][Next]_vars

\* Goroutines run.  No fairness for the network, the client, cancellation and Stop.
Fairness ==
  /\ WF_vars(~crashed /\ (Register \/ Announce))
  /\ WF_vars(~crashed /\ StopCleansUp)
  /\ WF_vars(~crashed /\ (TellCall \/ RangeEnds \/ SwapEnds \/ HandleSessionClosed
                            \/ \E c \in Calls : RangeYields(c)))
  /\ WF_vars(~crashed /\ (DispatchOffers \/ DispatchEnds))
  /\ \A c \in Calls :
       WF_vars(~crashed /\ (StoreCall(c) \/ CheckClosed(c) \/ WriteRequest(c) \/ WriteFails(c)
                              \/ Receive(c) \/ ReceiveClosed(c)))

FairSpec == Spec /\ Fairness

--------------------------------------------------------------------------------
(* Properties.                                                              *)

\* A call that has passed send's look at closed is never left alone by a session that dies:
\* once cleanup's Range is over, its channel is closed.  This rests on the order in both:
\* request stores before it looks, cleanup closes before it ranges.
ToldWhenSessionDies ==
  cleaner.at \in {"swap", "unmap", "done"} =>
    \A c \in Calls : call[c].at \in {"checked", "waiting"} => chClosed[c]

\* An answer that NonStream or Stream reports as complete was ended by the client and has
\* every chunk it sent, unless the channel overflowed or the caller had given up.
TruncatedOnlyByOverflow ==
  \A c \in Calls : call[c].result = "ok" /\ c \notin past.overflow \cup done
                     => c \in client.ended /\ call[c].got = client.sent[c]

\* The credential of a session is withdrawn when the session ends, also if Stop has already taken
\* it out of the map; the exception is a session that ended before it was announced.
AuthGoneWithSession ==
  cleaner.at = "done" /\ handler = "serving" /\ ~past.early => ~auth

\* When a session closes, every call through it returns.
CloseEndsCalls ==
  \A c \in Calls : (closed /\ call[c].at = "waiting") ~> (crashed \/ call[c].at = "over")

\* manager.go:95 "Stop gracefully closes all active websocket sessions": neither the end of a
\* session nor the end of a call takes the process down.
NeverCrashes == ~crashed
================================================================================
