---------------------------- MODULE WsRelayProofs ----------------------------
(***************************************************************************)
(* Proofs about WsRelay, for any set of calls and any size of the response *)
(* channels.  The inductive invariant says what each part may rely on: the *)
(* place of cleanup (Visiting), where a call is while nobody has told it   *)
(* anything (Entered), and how the messages that were sent are spread over *)
(* the reader, the channel and the caller (Accounted).                     *)
(***************************************************************************)
EXTENDS WsRelay, TLAPS

\* A chunk of c is in the hands of the reader.
InHand(c) == IF reader.at = "found" /\ reader.holds = c /\ reader.kind = "chunk" THEN 1 ELSE 0

\* cleanup and the reader hold calls where they use them; a reader's call is known to the client.
Held ==
  /\ closed = (cleaner.at # "none")
  /\ cleaner.at = "visit" => cleaner.holds \in Calls
  /\ reader.at \in {"found", "offered"} =>
       /\ reader.holds \in client.knows
       /\ reader.kind # "chunk" => reader.holds \in client.ended
  /\ reader.at = "offered" => reader.kind # "chunk"
  /\ client.knows \subseteq Calls
  /\ handler # "serving" => reader.at = "off"

\* A session that was cleaned up without having been announced is marked.
Announced == cleaner.at = "done" => past.early \/ (handler = "serving" /\ ~auth)

\* A call whose channel nobody has closed is in the map that cleanup ranges over.
Entered == \A c \in Calls : call[c].at \in {"checked", "waiting"} => c \in pending \/ chClosed[c]

\* While cleanup ranges, a call that was past the look at closed has been told or is yet to be visited.
Visiting ==
  cleaner.at \in {"range", "visit"} =>
    \A c \in Calls : call[c].at \in {"checked", "waiting"} =>
      chClosed[c] \/ c \in cleaner.todo \/ (cleaner.at = "visit" /\ cleaner.holds = c)

\* A call that is not stored has an empty channel, and one that was not written is unknown.
Fresh ==
  \A c \in Calls :
    /\ call[c].at # "over" => call[c].result = "none"
    /\ call[c].at \in {"idle", "found"} =>
         ch[c] = <<>> /\ ~chClosed[c] /\ c \notin pending /\ ~(cleaner.at = "visit"
              /\ cleaner.holds = c)
    /\ call[c].at \in {"idle", "found", "stored", "checked"} =>
         c \notin client.knows /\ call[c].got = 0 /\ client.sent[c] = 0 /\ c \notin client.ended

\* Nothing has ended c yet: all that was sent is with the reader, in the channel or received.
Flowing(c) ==
  /\ \A i \in 1..Len(ch[c]) : ch[c][i] = "chunk"
  /\ ~chClosed[c]
  /\ ~(reader.at = "offered" /\ reader.holds = c)
  /\ call[c].got + Len(ch[c]) + InHand(c) = client.sent[c]

\* Message k of the channel of c ends it; if it is the client's end, all chunks come before it.
EndsAt(c, k) ==
  /\ \A i \in 1..(k - 1) : ch[c][i] = "chunk"
  /\ \/ ch[c][k] = "error"
     \/ ch[c][k] = "end" /\ c \in client.ended /\ call[c].got + k - 1 = client.sent[c]

Accountable(c) == Flowing(c) \/ \E k \in 1..Len(ch[c]) : EndsAt(c, k)

Accounted ==
  \A c \in Calls \ (past.overflow \cup done) :
    call[c].at \in {"stored", "checked", "waiting"} => Accountable(c)

IInv ==
  /\ TypeOK /\ Held /\ Announced /\ Entered /\ Visiting /\ Fresh
  /\ ToldWhenSessionDies /\ TruncatedOnlyByOverflow /\ Accounted
--------------------------------------------------------------------------------

\* What a step of a caller writes about itself is of the right type.
LEMMA CallerMoves ==
  ASSUME call \in [Calls -> Callers], NEW c \in Calls
  PROVE  /\ \A p \in Places : [call EXCEPT ![c].at = p] \in [Calls -> Callers]
         /\ \A p \in Places, s \in BOOLEAN : [call EXCEPT ![c].at = p, ![c].stream = s] \in [Calls -> Callers]
         /\ \A r \in Results : [call EXCEPT ![c].at = "over", ![c].result = r] \in [Calls -> Callers]
         /\ [call EXCEPT ![c].got = @ + 1] \in [Calls -> Callers]
<1> USE DEF Callers, Places
<1>1. ASSUME NEW p \in Places PROVE [call EXCEPT ![c].at = p] \in [Calls -> Callers]
  <2>1. [call[c] EXCEPT !.at = p] \in Callers
    OBVIOUS
  <2> QED
    BY <2>1
<1>2. ASSUME NEW p \in Places, NEW s \in BOOLEAN
      PROVE  [call EXCEPT ![c].at = p, ![c].stream = s] \in [Calls -> Callers]
  <2>1. [call[c] EXCEPT !.at = p, !.stream = s] \in Callers
    OBVIOUS
  <2> QED
    BY <2>1
<1>3. ASSUME NEW r \in Results PROVE [call EXCEPT ![c].at = "over", ![c].result = r] \in [Calls -> Callers]
  <2>1. [call[c] EXCEPT !.at = "over", !.result = r] \in Callers
    OBVIOUS
  <2> QED
    BY <2>1
<1>4. [call EXCEPT ![c].got = @ + 1] \in [Calls -> Callers]
  <2>1. [call[c] EXCEPT !.got = @ + 1] \in Callers
    OBVIOUS
  <2> QED
    BY <2>1
<1> QED
  BY <1>1, <1>2, <1>3, <1>4

\* So is what it writes when it returns.
LEMMA CallerReturns ==
  ASSUME TypeOK, NEW c \in Calls, NEW result \in Results, Returns(c, result)
  PROVE  CallersTyped'
  BY CallerMoves DEF TypeOK, CallersTyped, Returns

\* A return changes nothing else.
LEMMA ReturnsOnly ==
  ASSUME TypeOK, NEW c \in Calls, NEW result \in Results, Returns(c, result)
  PROVE  /\ call'[c].at = "over" /\ call'[c].result = result /\ call'[c].got = call[c].got
         /\ \A d \in Calls \ {c} : call'[d] = call[d]
  BY DEF TypeOK, CallersTyped, Callers, Returns

\* A message offered to a channel leaves it within its capacity.
LEMMA OfferFits ==
  ASSUME TypeOK, NEW c \in Calls, NEW kind \in Kinds, Offer(c, kind)
  PROVE  ChannelsTyped' /\ PastTyped' /\ past'.early = past.early
<1> USE RelayAssumption
<1>1. /\ ch[c] \in Seq(Kinds) /\ Len(ch[c]) \in Nat /\ Buffer \in Nat
      /\ Append(ch[c], kind) \in Seq(Kinds) /\ Len(Append(ch[c], kind)) = Len(ch[c]) + 1
  BY DEF TypeOK, ChannelsTyped
<1>2. ChannelsTyped'
  BY <1>1 DEF TypeOK, ChannelsTyped, Offer
<1>3. PastTyped' /\ past'.early = past.early
  BY DEF TypeOK, PastTyped, Offer
<1> QED
  BY <1>2, <1>3
\* A message is appended to its channel, or its loss is recorded.
LEMMA OfferGrows ==
  ASSUME TypeOK, NEW c \in Calls, NEW kind \in Kinds, Offer(c, kind)
  PROVE  /\ past.overflow \subseteq past'.overflow
         /\ c \in past'.overflow \/ ch'[c] = Append(ch[c], kind)
         /\ \A d \in Calls \ {c} : ch'[d] = ch[d]
<1> USE RelayAssumption
<1>1. Len(ch[c]) \in Nat
  BY DEF TypeOK, ChannelsTyped
<1> QED
  BY <1>1 DEF TypeOK, ChannelsTyped, PastTyped, Offer

\* Every step keeps the types.  The interesting steps take a call from the reader or from cleanup.
LEMMA TypeStep ==
  ASSUME TypeOK, Held, [Next]_vars
  PROVE  TypeOK'
<1> USE RelayAssumption
<1>1. CASE UNCHANGED vars
  BY <1>1 DEF TypeOK, vars, connection, calls, SessionTyped, CleanerTyped, ReaderTyped, MapTyped,
     ChannelsTyped, CallersTyped, ClientTyped, PastTyped
<1>2. CASE Register
  <2>1. CleanerTyped' /\ ReaderTyped' /\ MapTyped' /\ ChannelsTyped' /\ CallersTyped'
       /\ ClientTyped' /\ PastTyped'
    BY <1>2 DEF TypeOK, Register, connection, calls, CleanerTyped, ReaderTyped, MapTyped,
       ChannelsTyped, CallersTyped, ClientTyped, PastTyped
  <2>2. SessionTyped'
    BY <1>2 DEF TypeOK, Register, connection, SessionTyped
  <2> QED
    BY <2>1, <2>2 DEF TypeOK
<1>3. CASE Announce
  <2>1. CleanerTyped' /\ MapTyped' /\ ChannelsTyped' /\ CallersTyped' /\ ClientTyped' /\ PastTyped'
    BY <1>3 DEF TypeOK, Announce, connection, calls, CleanerTyped, MapTyped, ChannelsTyped,
       CallersTyped, ClientTyped, PastTyped
  <2>2. SessionTyped'
    BY <1>3 DEF TypeOK, Announce, connection, SessionTyped
  <2>3. ReaderTyped'
    BY <1>3 DEF TypeOK, Announce, connection, ReaderTyped, Holds, Kinds
  <2> QED
    BY <2>1, <2>2, <2>3 DEF TypeOK
<1>4. CASE ReadFails
  <2>1. MapTyped' /\ ChannelsTyped' /\ CallersTyped' /\ ClientTyped' /\ PastTyped'
    BY <1>4 DEF TypeOK, ReadFails, Closes, connection, calls, MapTyped, ChannelsTyped, CallersTyped,
       ClientTyped, PastTyped
  <2>2. SessionTyped'
    BY <1>4 DEF TypeOK, ReadFails, Closes, connection, SessionTyped
  <2>3. CleanerTyped'
    BY <1>4 DEF TypeOK, ReadFails, Closes, connection, CleanerTyped, Holds, Kinds, MapTyped
  <2>4. ReaderTyped'
    BY <1>4 DEF TypeOK, ReadFails, Closes, connection, ReaderTyped, Holds, Kinds
  <2> QED
    BY <2>1, <2>2, <2>3, <2>4 DEF TypeOK
<1>5. CASE HeartbeatFails
  <2>1. ReaderTyped' /\ MapTyped' /\ ChannelsTyped' /\ CallersTyped' /\ ClientTyped' /\ PastTyped'
    BY <1>5 DEF TypeOK, HeartbeatFails, Closes, connection, calls, ReaderTyped, MapTyped,
       ChannelsTyped, CallersTyped, ClientTyped, PastTyped
  <2>2. SessionTyped'
    BY <1>5 DEF TypeOK, HeartbeatFails, Closes, connection, SessionTyped
  <2>3. CleanerTyped'
    BY <1>5 DEF TypeOK, HeartbeatFails, Closes, connection, CleanerTyped, Holds, Kinds, MapTyped
  <2> QED
    BY <2>1, <2>2, <2>3 DEF TypeOK
<1>6. CASE Stop
  <2>1. CleanerTyped' /\ ReaderTyped' /\ MapTyped' /\ ChannelsTyped' /\ CallersTyped'
       /\ ClientTyped' /\ PastTyped'
    BY <1>6 DEF TypeOK, Stop, connection, calls, CleanerTyped, ReaderTyped, MapTyped, ChannelsTyped,
       CallersTyped, ClientTyped, PastTyped
  <2>2. SessionTyped'
    BY <1>6 DEF TypeOK, Stop, connection, SessionTyped
  <2> QED
    BY <2>1, <2>2 DEF TypeOK
<1>7. CASE StopCleansUp
  <2>1. ReaderTyped' /\ MapTyped' /\ ChannelsTyped' /\ CallersTyped' /\ ClientTyped' /\ PastTyped'
    BY <1>7 DEF TypeOK, StopCleansUp, Closes, connection, calls, ReaderTyped, MapTyped,
       ChannelsTyped, CallersTyped, ClientTyped, PastTyped
  <2>2. SessionTyped'
    BY <1>7 DEF TypeOK, StopCleansUp, Closes, connection, SessionTyped
  <2>3. CleanerTyped'
    BY <1>7 DEF TypeOK, StopCleansUp, Closes, connection, CleanerTyped, Holds, Kinds, MapTyped
  <2> QED
    BY <2>1, <2>2, <2>3 DEF TypeOK
<1>8. CASE TellCall
  <2>1. ReaderTyped' /\ CallersTyped' /\ ClientTyped'
    BY <1>8 DEF TypeOK, TellCall, Offer, connection, calls, ReaderTyped, CallersTyped, ClientTyped
  <2>2. SessionTyped'
    BY <1>8 DEF TypeOK, TellCall, Offer, connection, SessionTyped
  <2>3. CleanerTyped'
    BY <1>8 DEF TypeOK, TellCall, Offer, connection, CleanerTyped, Holds, Kinds
  <2>4. MapTyped'
    BY <1>8 DEF TypeOK, TellCall, Offer, connection, MapTyped, Held
  <2>5. ChannelsTyped' /\ PastTyped'
    BY <1>8, OfferFits DEF TypeOK, Held, TellCall, CleanerTyped, ReaderTyped, ChannelsTyped,
       PastTyped, ClientTyped, Kinds
  <2> QED
    BY <2>1, <2>2, <2>3, <2>4, <2>5 DEF TypeOK
<1>9. CASE RangeEnds
  <2>1. SessionTyped' /\ ReaderTyped' /\ MapTyped' /\ ChannelsTyped' /\ CallersTyped'
       /\ ClientTyped' /\ PastTyped'
    BY <1>9 DEF TypeOK, RangeEnds, connection, calls, SessionTyped, ReaderTyped, MapTyped,
       ChannelsTyped, CallersTyped, ClientTyped, PastTyped
  <2>2. CleanerTyped'
    BY <1>9 DEF TypeOK, RangeEnds, connection, CleanerTyped, Holds, Kinds
  <2> QED
    BY <2>1, <2>2 DEF TypeOK
<1>10. CASE SwapEnds
  <2>1. SessionTyped' /\ ReaderTyped' /\ ChannelsTyped' /\ CallersTyped' /\ ClientTyped' /\ PastTyped'
    BY <1>10 DEF TypeOK, SwapEnds, connection, calls, SessionTyped, ReaderTyped, ChannelsTyped,
       CallersTyped, ClientTyped, PastTyped
  <2>2. CleanerTyped'
    BY <1>10 DEF TypeOK, SwapEnds, connection, CleanerTyped, Holds, Kinds
  <2>3. MapTyped'
    BY <1>10 DEF TypeOK, SwapEnds, connection, MapTyped
  <2> QED
    BY <2>1, <2>2, <2>3 DEF TypeOK
<1>11. CASE HandleSessionClosed
  <2>1. ReaderTyped' /\ MapTyped' /\ ChannelsTyped' /\ CallersTyped' /\ ClientTyped'
    BY <1>11 DEF TypeOK, HandleSessionClosed, connection, calls, ReaderTyped, MapTyped,
       ChannelsTyped, CallersTyped, ClientTyped
  <2>2. SessionTyped'
    BY <1>11 DEF TypeOK, HandleSessionClosed, connection, SessionTyped
  <2>3. CleanerTyped'
    BY <1>11 DEF TypeOK, HandleSessionClosed, connection, CleanerTyped, Holds, Kinds
  <2>4. PastTyped'
    BY <1>11 DEF TypeOK, HandleSessionClosed, connection, PastTyped
  <2> QED
    BY <2>1, <2>2, <2>3, <2>4 DEF TypeOK
<1>12. CASE DispatchOffers
  <2>1. CleanerTyped' /\ MapTyped' /\ CallersTyped' /\ ClientTyped'
    BY <1>12 DEF TypeOK, DispatchOffers, Offer, connection, calls, CleanerTyped, MapTyped,
       CallersTyped, ClientTyped
  <2>2. SessionTyped'
    BY <1>12 DEF TypeOK, DispatchOffers, Offer, connection, SessionTyped
  <2>3. ReaderTyped'
    BY <1>12 DEF TypeOK, DispatchOffers, Offer, connection, ReaderTyped, Holds, Kinds
  <2>4. ChannelsTyped' /\ PastTyped'
    BY <1>12, OfferFits DEF TypeOK, Held, DispatchOffers, CleanerTyped, ReaderTyped, ChannelsTyped,
       PastTyped, ClientTyped, Kinds
  <2> QED
    BY <2>1, <2>2, <2>3, <2>4 DEF TypeOK
<1>13. CASE DispatchEnds
  <2>1. SessionTyped' /\ CleanerTyped' /\ ChannelsTyped' /\ CallersTyped' /\ ClientTyped' /\ PastTyped'
    BY <1>13 DEF TypeOK, DispatchEnds, Drop, connection, calls, SessionTyped, CleanerTyped,
       ChannelsTyped, CallersTyped, ClientTyped, PastTyped
  <2>2. ReaderTyped'
    BY <1>13 DEF TypeOK, DispatchEnds, Drop, connection, ReaderTyped, Holds, Kinds
  <2>3. MapTyped'
    BY <1>13 DEF TypeOK, DispatchEnds, Drop, connection, MapTyped, Held, ReaderTyped, ClientTyped
  <2> QED
    BY <2>1, <2>2, <2>3 DEF TypeOK
<1>14. CASE SwapRace
  <2>1. CleanerTyped' /\ ReaderTyped' /\ MapTyped' /\ ChannelsTyped' /\ ClientTyped' /\ PastTyped'
    BY <1>14 DEF TypeOK, SwapRace, Returns, connection, calls, CleanerTyped, ReaderTyped, MapTyped,
       ChannelsTyped, ClientTyped, PastTyped
  <2>2. SessionTyped'
    BY <1>14 DEF TypeOK, SwapRace, Returns, connection, SessionTyped
  <2>3. CallersTyped'
    BY <1>14, CallerReturns DEF TypeOK, SwapRace, CallersTyped, Results
  <2> QED
    BY <2>1, <2>2, <2>3 DEF TypeOK
<1>15. ASSUME NEW c \in Calls, NEW stream \in BOOLEAN, Lookup(c, stream) PROVE TypeOK'
  <2>1. SessionTyped' /\ CleanerTyped' /\ ReaderTyped' /\ MapTyped' /\ ChannelsTyped'
       /\ ClientTyped' /\ PastTyped'
    BY <1>15 DEF TypeOK, Lookup, Returns, connection, calls, SessionTyped, CleanerTyped, ReaderTyped,
       MapTyped, ChannelsTyped, ClientTyped, PastTyped
  <2>2. CallersTyped'
    <3>1. CASE inMap /\ call' = [call EXCEPT ![c].at = "found", ![c].stream = stream]
      BY <3>1, CallerMoves DEF TypeOK, CallersTyped, Places
    <3> QED
      BY <1>15, <3>1, CallerReturns DEF Lookup, Results
  <2> QED
    BY <2>1, <2>2 DEF TypeOK
<1>16. ASSUME NEW c \in Calls, StoreCall(c) PROVE TypeOK'
  <2>1. SessionTyped' /\ CleanerTyped' /\ ReaderTyped' /\ ChannelsTyped' /\ ClientTyped' /\ PastTyped'
    BY <1>16 DEF TypeOK, StoreCall, connection, calls, SessionTyped, CleanerTyped, ReaderTyped,
       ChannelsTyped, ClientTyped, PastTyped
  <2>2. MapTyped'
    BY <1>16 DEF TypeOK, StoreCall, connection, MapTyped
  <2>3. CallersTyped'
    BY <1>16, CallerMoves DEF TypeOK, StoreCall, connection, CallersTyped, Places, Results
  <2> QED
    BY <2>1, <2>2, <2>3 DEF TypeOK
<1>17. ASSUME NEW c \in Calls, CheckClosed(c) PROVE TypeOK'
  <2>1. SessionTyped' /\ CleanerTyped' /\ ReaderTyped' /\ ChannelsTyped' /\ ClientTyped' /\ PastTyped'
    BY <1>17 DEF TypeOK, CheckClosed, Drop, Returns, connection, calls, SessionTyped, CleanerTyped,
       ReaderTyped, ChannelsTyped, ClientTyped, PastTyped
  <2>2. MapTyped'
    BY <1>17 DEF TypeOK, CheckClosed, Drop, Returns, connection, MapTyped
  <2>3. CallersTyped'
    <3>1. CASE call' = [call EXCEPT ![c].at = "checked"]
      BY <3>1, CallerMoves DEF TypeOK, CallersTyped, Places
    <3> QED
      BY <1>17, <3>1, CallerReturns DEF CheckClosed, Results
  <2> QED
    BY <2>1, <2>2, <2>3 DEF TypeOK
<1>18. ASSUME NEW c \in Calls, WriteRequest(c) PROVE TypeOK'
  <2>1. SessionTyped' /\ CleanerTyped' /\ ReaderTyped' /\ ChannelsTyped' /\ PastTyped'
    BY <1>18 DEF TypeOK, WriteRequest, connection, calls, SessionTyped, CleanerTyped, ReaderTyped,
       ChannelsTyped, PastTyped
  <2>2. MapTyped'
    BY <1>18 DEF TypeOK, WriteRequest, connection, MapTyped
  <2>3. CallersTyped'
    BY <1>18, CallerMoves DEF TypeOK, WriteRequest, connection, CallersTyped, Places, Results
  <2>4. ClientTyped'
    BY <1>18 DEF TypeOK, WriteRequest, connection, ClientTyped
  <2> QED
    BY <2>1, <2>2, <2>3, <2>4 DEF TypeOK
<1>19. ASSUME NEW c \in Calls, WriteFails(c) PROVE TypeOK'
  <2>1. SessionTyped' /\ CleanerTyped' /\ ReaderTyped' /\ ChannelsTyped' /\ ClientTyped' /\ PastTyped'
    BY <1>19 DEF TypeOK, WriteFails, Drop, Returns, connection, calls, SessionTyped, CleanerTyped,
       ReaderTyped, ChannelsTyped, ClientTyped, PastTyped
  <2>2. MapTyped'
    BY <1>19 DEF TypeOK, WriteFails, Drop, Returns, connection, MapTyped
  <2>3. CallersTyped'
    BY <1>19, CallerMoves DEF TypeOK, WriteFails, Drop, Returns, connection, CallersTyped, Places,
       Results
  <2> QED
    BY <2>1, <2>2, <2>3 DEF TypeOK
<1>20. ASSUME NEW c \in Calls, Cancel(c) PROVE TypeOK'
  <2>1. SessionTyped' /\ CleanerTyped' /\ ReaderTyped' /\ ChannelsTyped' /\ CallersTyped'
       /\ ClientTyped' /\ PastTyped'
    BY <1>20 DEF TypeOK, Cancel, connection, calls, SessionTyped, CleanerTyped, ReaderTyped,
       ChannelsTyped, CallersTyped, ClientTyped, PastTyped
  <2>2. MapTyped'
    BY <1>20 DEF TypeOK, Cancel, connection, MapTyped
  <2> QED
    BY <2>1, <2>2 DEF TypeOK
<1>21. ASSUME NEW c \in Calls, WatcherEnds(c) PROVE TypeOK'
  <2>1. SessionTyped' /\ CleanerTyped' /\ ReaderTyped' /\ ChannelsTyped' /\ CallersTyped'
       /\ ClientTyped' /\ PastTyped'
    BY <1>21 DEF TypeOK, WatcherEnds, Drop, connection, calls, SessionTyped, CleanerTyped,
       ReaderTyped, ChannelsTyped, CallersTyped, ClientTyped, PastTyped
  <2>2. MapTyped'
    BY <1>21 DEF TypeOK, WatcherEnds, Drop, connection, MapTyped
  <2> QED
    BY <2>1, <2>2 DEF TypeOK
<1>22. ASSUME NEW c \in Calls, Receive(c) PROVE TypeOK'
  <2>1. SessionTyped' /\ CleanerTyped' /\ ReaderTyped' /\ MapTyped' /\ ClientTyped' /\ PastTyped'
    BY <1>22 DEF TypeOK, Receive, Returns, connection, calls, SessionTyped, CleanerTyped,
       ReaderTyped, MapTyped, ClientTyped, PastTyped
  <2>2. CallersTyped'
    <3>1. CASE call' = [call EXCEPT ![c].got = @ + 1]
      BY <3>1, CallerMoves DEF TypeOK, CallersTyped
    <3> QED
      BY <1>22, <3>1, CallerReturns DEF Receive, Results
  <2>3. ChannelsTyped'
    BY <1>22 DEF TypeOK, Receive, Returns, connection, ChannelsTyped
  <2> QED
    BY <2>1, <2>2, <2>3 DEF TypeOK
<1>23. ASSUME NEW c \in Calls, ReceiveClosed(c) PROVE TypeOK'
  <2>1. SessionTyped' /\ CleanerTyped' /\ ReaderTyped' /\ MapTyped' /\ ChannelsTyped'
       /\ ClientTyped' /\ PastTyped'
    BY <1>23 DEF TypeOK, ReceiveClosed, Returns, connection, calls, SessionTyped, CleanerTyped,
       ReaderTyped, MapTyped, ChannelsTyped, ClientTyped, PastTyped
  <2>2. CallersTyped'
    BY <1>23, CallerMoves DEF TypeOK, ReceiveClosed, Returns, connection, CallersTyped, Places, Results
  <2> QED
    BY <2>1, <2>2 DEF TypeOK
<1>24. ASSUME NEW c \in Calls, ReceiveDone(c) PROVE TypeOK'
  <2>1. SessionTyped' /\ CleanerTyped' /\ ReaderTyped' /\ MapTyped' /\ ChannelsTyped'
       /\ ClientTyped' /\ PastTyped'
    BY <1>24 DEF TypeOK, ReceiveDone, Returns, connection, calls, SessionTyped, CleanerTyped,
       ReaderTyped, MapTyped, ChannelsTyped, ClientTyped, PastTyped
  <2>2. CallersTyped'
    BY <1>24, CallerMoves DEF TypeOK, ReceiveDone, Returns, connection, CallersTyped, Places, Results
  <2> QED
    BY <2>1, <2>2 DEF TypeOK
<1>25. ASSUME NEW c \in Calls, RangeYields(c) PROVE TypeOK'
  <2>1. SessionTyped' /\ ReaderTyped' /\ MapTyped' /\ ChannelsTyped' /\ CallersTyped'
       /\ ClientTyped' /\ PastTyped'
    BY <1>25 DEF TypeOK, RangeYields, connection, calls, SessionTyped, ReaderTyped, MapTyped,
       ChannelsTyped, CallersTyped, ClientTyped, PastTyped
  <2>2. CleanerTyped'
    BY <1>25 DEF TypeOK, RangeYields, connection, CleanerTyped, Holds, Kinds, MapTyped
  <2> QED
    BY <2>1, <2>2 DEF TypeOK
<1>26. ASSUME NEW c \in Calls, NEW kind \in Kinds, DispatchLoads(c, kind) PROVE TypeOK'
  <2>1. SessionTyped' /\ CleanerTyped' /\ MapTyped' /\ ChannelsTyped' /\ CallersTyped' /\ PastTyped'
    BY <1>26 DEF TypeOK, DispatchLoads, connection, calls, SessionTyped, CleanerTyped, MapTyped,
       ChannelsTyped, CallersTyped, PastTyped
  <2>2. ReaderTyped'
    BY <1>26 DEF TypeOK, DispatchLoads, connection, ReaderTyped, Holds, Kinds
  <2>3. ClientTyped'
    BY <1>26 DEF TypeOK, DispatchLoads, connection, ClientTyped
  <2> QED
    BY <2>1, <2>2, <2>3 DEF TypeOK
<1> QED
  BY <1>1, <1>2, <1>3, <1>4, <1>5, <1>6, <1>7, <1>8, <1>9, <1>10, <1>11, <1>12, <1>13, <1>14, <1>15,
     <1>16, <1>17, <1>18, <1>19, <1>20, <1>21, <1>22, <1>23, <1>24, <1>25, <1>26 DEF Next,
     SessionStep, CallStep

\* Cleanup and the reader hold calls that the client knows.
LEMMA HeldStep ==
  ASSUME TypeOK, Held, [Next]_vars
  PROVE  Held'
<1>1. CASE UNCHANGED vars
  BY <1>1 DEF Held, vars, connection, calls, TypeOK, SessionTyped, CleanerTyped, ReaderTyped,
     ClientTyped, MapTyped
<1>2. CASE Stop \/ SwapRace
  BY <1>2 DEF Held, Stop, SwapRace, connection, calls, TypeOK, SessionTyped, CleanerTyped,
     ReaderTyped, ClientTyped, MapTyped
<1>3. ASSUME NEW c \in Calls, \E stream \in BOOLEAN : Lookup(c, stream) \/ StoreCall(c) \/ CheckClosed(c)
        \/ WriteFails(c) \/ Cancel(c) \/ WatcherEnds(c) \/ Receive(c)
        \/ ReceiveClosed(c) \/ ReceiveDone(c)
      PROVE  Held'
  BY <1>3 DEF Held, Lookup, StoreCall, CheckClosed, WriteFails, Cancel, WatcherEnds, Receive,
     ReceiveClosed, ReceiveDone, connection, calls, TypeOK, SessionTyped, CleanerTyped, ReaderTyped,
     ClientTyped, MapTyped
<1>4. CASE Register
  BY <1>4 DEF Held, Register, connection, calls, TypeOK, SessionTyped, CleanerTyped, ReaderTyped,
     ClientTyped, MapTyped
<1>5. CASE Announce
  BY <1>5 DEF Held, Announce, connection, calls, TypeOK, SessionTyped, CleanerTyped, ReaderTyped,
     ClientTyped, MapTyped
<1>6. CASE ReadFails
  BY <1>6 DEF Held, ReadFails, Closes, connection, calls, TypeOK, SessionTyped, CleanerTyped,
     ReaderTyped, ClientTyped, MapTyped
<1>7. CASE HeartbeatFails
  BY <1>7 DEF Held, HeartbeatFails, Closes, connection, calls, TypeOK, SessionTyped, CleanerTyped,
     ReaderTyped, ClientTyped, MapTyped
<1>8. CASE StopCleansUp
  BY <1>8 DEF Held, StopCleansUp, Closes, connection, calls, TypeOK, SessionTyped, CleanerTyped,
     ReaderTyped, ClientTyped, MapTyped
<1>9. CASE TellCall
  BY <1>9 DEF Held, TellCall, Offer, connection, calls, TypeOK, SessionTyped, CleanerTyped,
     ReaderTyped, ClientTyped, MapTyped
<1>10. CASE RangeEnds
  BY <1>10 DEF Held, RangeEnds, connection, calls, TypeOK, SessionTyped, CleanerTyped, ReaderTyped,
     ClientTyped, MapTyped
<1>11. CASE SwapEnds
  BY <1>11 DEF Held, SwapEnds, connection, calls, TypeOK, SessionTyped, CleanerTyped, ReaderTyped,
     ClientTyped, MapTyped
<1>12. CASE HandleSessionClosed
  BY <1>12 DEF Held, HandleSessionClosed, connection, calls, TypeOK, SessionTyped, CleanerTyped,
     ReaderTyped, ClientTyped, MapTyped
<1>13. CASE DispatchOffers
  <2>1. CASE UNCHANGED reader
    BY <1>13, <2>1 DEF Held, DispatchOffers, connection
  <2>2. CASE reader'.at = "reading"
    BY <1>13, <2>2 DEF Held, DispatchOffers, connection
  <2>3. CASE reader.kind # "chunk" /\ reader' = [reader EXCEPT !.at = "offered"]
    BY <1>13, <2>3 DEF Held, DispatchOffers, connection, TypeOK, ReaderTyped
  <2> QED
    BY <1>13, <2>1, <2>2, <2>3 DEF DispatchOffers
<1>14. CASE DispatchEnds
  BY <1>14 DEF Held, DispatchEnds, Drop, connection, calls, TypeOK, SessionTyped, CleanerTyped,
     ReaderTyped, ClientTyped, MapTyped
<1>15. ASSUME NEW c \in Calls, WriteRequest(c) PROVE Held'
  BY <1>15 DEF Held, WriteRequest, connection, calls, TypeOK, SessionTyped, CleanerTyped,
     ReaderTyped, ClientTyped, MapTyped
<1>16. ASSUME NEW c \in Calls, RangeYields(c) PROVE Held'
  BY <1>16 DEF Held, RangeYields, connection, calls, TypeOK, SessionTyped, CleanerTyped, ReaderTyped,
     ClientTyped, MapTyped
<1>17. ASSUME NEW c \in Calls, NEW kind \in Kinds, DispatchLoads(c, kind) PROVE Held'
  BY <1>17 DEF Held, DispatchLoads, connection, calls, TypeOK, SessionTyped, CleanerTyped,
     ReaderTyped, ClientTyped, MapTyped
<1> QED
  BY <1>1, <1>2, <1>3, <1>4, <1>5, <1>6, <1>7, <1>8, <1>9, <1>10, <1>11, <1>12, <1>13, <1>14, <1>15,
     <1>16, <1>17 DEF Next, SessionStep, CallStep

\* A session that ends before it is announced is marked as such.
LEMMA AnnouncedStep ==
  ASSUME TypeOK, Announced, [Next]_vars
  PROVE  Announced'
<1>1. CASE UNCHANGED vars
  BY <1>1 DEF Announced, vars, connection, calls, TypeOK, CleanerTyped, PastTyped, SessionTyped
<1>2. CASE Stop \/ DispatchEnds \/ SwapRace
  BY <1>2 DEF Announced, Stop, DispatchEnds, SwapRace, connection, calls, TypeOK, CleanerTyped,
     PastTyped, SessionTyped
<1>3. ASSUME NEW c \in Calls, \E stream \in BOOLEAN : Lookup(c, stream) \/ StoreCall(c) \/ CheckClosed(c)
        \/ WriteRequest(c) \/ WriteFails(c) \/ Cancel(c) \/ WatcherEnds(c)
        \/ Receive(c) \/ ReceiveClosed(c) \/ ReceiveDone(c)
        \/ \E kind \in Kinds : DispatchLoads(c, kind)
      PROVE  Announced'
  BY <1>3 DEF Announced, Lookup, StoreCall, CheckClosed, WriteRequest, WriteFails, Cancel,
     WatcherEnds, Receive, ReceiveClosed, ReceiveDone, DispatchLoads, connection, calls, TypeOK,
     CleanerTyped, PastTyped, SessionTyped
<1>4. CASE Register
  BY <1>4 DEF Announced, Register, connection, calls, TypeOK, CleanerTyped, PastTyped, SessionTyped
<1>5. CASE Announce
  BY <1>5 DEF Announced, Announce, connection, calls, TypeOK, CleanerTyped, PastTyped, SessionTyped
<1>6. CASE ReadFails
  BY <1>6 DEF Announced, ReadFails, Closes, connection, calls, TypeOK, CleanerTyped, PastTyped,
     SessionTyped
<1>7. CASE HeartbeatFails
  BY <1>7 DEF Announced, HeartbeatFails, Closes, connection, calls, TypeOK, CleanerTyped, PastTyped,
     SessionTyped
<1>8. CASE StopCleansUp
  BY <1>8 DEF Announced, StopCleansUp, Closes, connection, calls, TypeOK, CleanerTyped, PastTyped,
     SessionTyped
<1>9. CASE TellCall
  BY <1>9 DEF Announced, TellCall, Offer, connection, calls, TypeOK, CleanerTyped, PastTyped,
     SessionTyped
<1>10. CASE RangeEnds
  BY <1>10 DEF Announced, RangeEnds, connection, calls, TypeOK, CleanerTyped, PastTyped, SessionTyped
<1>11. CASE SwapEnds
  BY <1>11 DEF Announced, SwapEnds, connection, calls, TypeOK, CleanerTyped, PastTyped, SessionTyped
<1>12. CASE HandleSessionClosed
  BY <1>12 DEF Announced, HandleSessionClosed, connection, calls, TypeOK, CleanerTyped, PastTyped,
     SessionTyped
<1>13. CASE DispatchOffers
  BY <1>13 DEF Announced, DispatchOffers, Offer, connection, calls, TypeOK, CleanerTyped, PastTyped,
     SessionTyped
<1>14. ASSUME NEW c \in Calls, RangeYields(c) PROVE Announced'
  BY <1>14 DEF Announced, RangeYields, connection, calls, TypeOK, CleanerTyped, PastTyped, SessionTyped
<1> QED
  BY <1>1, <1>2, <1>3, <1>4, <1>5, <1>6, <1>7, <1>8, <1>9, <1>10, <1>11, <1>12, <1>13,
     <1>14 DEF Next, SessionStep, CallStep

\* A call leaves the map only when its channel is closed, or when cleanup has closed it.
LEMMA EnteredStep ==
  ASSUME TypeOK, Entered, ToldWhenSessionDies, [Next]_vars
  PROVE  Entered'
<1>1. CASE UNCHANGED vars
  BY <1>1 DEF Entered, vars, connection, calls, TypeOK, CallersTyped, MapTyped, Callers, Places
<1>2. CASE Register \/ Announce \/ ReadFails \/ HeartbeatFails \/ Stop \/ StopCleansUp
        \/ RangeEnds \/ HandleSessionClosed \/ DispatchOffers
  BY <1>2 DEF Entered, Register, Announce, ReadFails, HeartbeatFails, Stop, StopCleansUp, RangeEnds,
     HandleSessionClosed, DispatchOffers, connection, calls, TypeOK, CallersTyped, MapTyped, Callers,
     Places
<1>3. ASSUME NEW c \in Calls, Cancel(c) \/ RangeYields(c) \/ \E kind \in Kinds : DispatchLoads(c, kind)
      PROVE  Entered'
  BY <1>3 DEF Entered, Cancel, RangeYields, DispatchLoads, connection, calls, TypeOK, CallersTyped,
     MapTyped, Callers, Places
<1>4. CASE TellCall
  BY <1>4 DEF Entered, TellCall, Offer, connection, calls, TypeOK, CallersTyped, MapTyped, Callers,
     Places
<1>5. CASE SwapEnds
  BY <1>5 DEF Entered, SwapEnds, connection, calls, TypeOK, CallersTyped, MapTyped, Callers, Places,
     ToldWhenSessionDies
<1>6. CASE DispatchEnds
  BY <1>6 DEF Entered, DispatchEnds, Drop, connection, calls, TypeOK, CallersTyped, MapTyped,
     Callers, Places
<1>7. CASE SwapRace
  BY <1>7, ReturnsOnly DEF Entered, SwapRace, Results, TypeOK, CallersTyped, CleanerTyped, MapTyped,
     calls
<1>8. ASSUME NEW c \in Calls, NEW stream \in BOOLEAN, Lookup(c, stream) PROVE Entered'
  BY <1>8 DEF Entered, Lookup, Returns, connection, calls, TypeOK, CallersTyped, MapTyped, Callers,
     Places
<1>9. ASSUME NEW c \in Calls, StoreCall(c) PROVE Entered'
  BY <1>9 DEF Entered, StoreCall, connection, calls, TypeOK, CallersTyped, MapTyped, Callers, Places
<1>10. ASSUME NEW c \in Calls, CheckClosed(c) PROVE Entered'
  BY <1>10 DEF Entered, CheckClosed, Drop, Returns, connection, calls, TypeOK, CallersTyped,
     MapTyped, Callers, Places
<1>11. ASSUME NEW c \in Calls, WriteRequest(c) PROVE Entered'
  BY <1>11 DEF Entered, WriteRequest, connection, calls, TypeOK, CallersTyped, MapTyped, Callers, Places
<1>12. ASSUME NEW c \in Calls, WriteFails(c) PROVE Entered'
  BY <1>12 DEF Entered, WriteFails, Drop, Returns, connection, calls, TypeOK, CallersTyped, MapTyped,
     Callers, Places
<1>13. ASSUME NEW c \in Calls, WatcherEnds(c) PROVE Entered'
  BY <1>13 DEF Entered, WatcherEnds, Drop, connection, calls, TypeOK, CallersTyped, MapTyped,
     Callers, Places
<1>14. ASSUME NEW c \in Calls, Receive(c) PROVE Entered'
  BY <1>14 DEF Entered, Receive, Returns, connection, calls, TypeOK, CallersTyped, MapTyped, Callers,
     Places
<1>15. ASSUME NEW c \in Calls, ReceiveClosed(c) PROVE Entered'
  BY <1>15 DEF Entered, ReceiveClosed, Returns, connection, calls, TypeOK, CallersTyped, MapTyped,
     Callers, Places
<1>16. ASSUME NEW c \in Calls, ReceiveDone(c) PROVE Entered'
  BY <1>16 DEF Entered, ReceiveDone, Returns, connection, calls, TypeOK, CallersTyped, MapTyped,
     Callers, Places
<1> QED
  BY <1>1, <1>2, <1>3, <1>4, <1>5, <1>6, <1>7, <1>8, <1>9, <1>10, <1>11, <1>12, <1>13, <1>14, <1>15,
     <1>16 DEF Next, SessionStep, CallStep

\* While cleanup ranges, no call is overlooked.
LEMMA VisitingStep ==
  ASSUME TypeOK, Held, Entered, Visiting, [Next]_vars
  PROVE  Visiting'
<1>1. CASE UNCHANGED vars
  BY <1>1 DEF Visiting, vars, connection, calls, TypeOK, CleanerTyped, CallersTyped, MapTyped,
     Callers, Places
<1>2. CASE Register \/ Announce \/ Stop \/ DispatchOffers
  BY <1>2 DEF Visiting, Register, Announce, Stop, DispatchOffers, connection, calls, TypeOK,
     CleanerTyped, CallersTyped, MapTyped, Callers, Places
<1>3. ASSUME NEW c \in Calls, Cancel(c) \/ \E kind \in Kinds : DispatchLoads(c, kind)
      PROVE  Visiting'
  BY <1>3 DEF Visiting, Cancel, DispatchLoads, connection, calls, TypeOK, CleanerTyped, CallersTyped,
     MapTyped, Callers, Places
<1>4. CASE ReadFails
  BY <1>4 DEF Visiting, ReadFails, Closes, connection, calls, TypeOK, CleanerTyped, CallersTyped,
     MapTyped, Callers, Places, Held, Entered
<1>5. CASE HeartbeatFails
  BY <1>5 DEF Visiting, HeartbeatFails, Closes, connection, calls, TypeOK, CleanerTyped,
     CallersTyped, MapTyped, Callers, Places, Held, Entered
<1>6. CASE StopCleansUp
  <2>1. CASE Closes
    BY <1>6, <2>1 DEF Visiting, StopCleansUp, Closes, connection, calls, TypeOK, CleanerTyped,
       CallersTyped, MapTyped, Callers, Places, Held, Entered
  <2>2. CASE UNCHANGED <<closed, cleaner>>
    BY <1>6, <2>2 DEF Visiting, StopCleansUp, connection, calls
  <2> QED
    BY <1>6, <2>1, <2>2 DEF StopCleansUp
<1>7. CASE TellCall
  BY <1>7 DEF Visiting, TellCall, Offer, connection, calls, TypeOK, CleanerTyped, CallersTyped,
     MapTyped, Callers, Places
<1>8. CASE RangeEnds
  BY <1>8 DEF Visiting, RangeEnds, connection, calls, TypeOK, CleanerTyped, CallersTyped, MapTyped,
     Callers, Places
<1>9. CASE SwapEnds
  BY <1>9 DEF Visiting, SwapEnds, connection, calls, TypeOK, CleanerTyped, CallersTyped, MapTyped,
     Callers, Places
<1>10. CASE HandleSessionClosed
  BY <1>10 DEF Visiting, HandleSessionClosed, connection, calls, TypeOK, CleanerTyped, CallersTyped,
     MapTyped, Callers, Places
<1>11. CASE DispatchEnds
  BY <1>11 DEF Visiting, DispatchEnds, Drop, connection, calls, TypeOK, CleanerTyped, CallersTyped,
     MapTyped, Callers, Places
<1>12. CASE SwapRace
  BY <1>12 DEF Visiting, SwapRace, Returns, connection, calls, TypeOK, CleanerTyped, CallersTyped,
     MapTyped, Callers, Places
<1>13. ASSUME NEW c \in Calls, NEW stream \in BOOLEAN, Lookup(c, stream) PROVE Visiting'
  BY <1>13 DEF Visiting, Lookup, Returns, connection, calls, TypeOK, CleanerTyped, CallersTyped,
     MapTyped, Callers, Places
<1>14. ASSUME NEW c \in Calls, StoreCall(c) PROVE Visiting'
  BY <1>14 DEF Visiting, StoreCall, connection, calls, TypeOK, CleanerTyped, CallersTyped, MapTyped,
     Callers, Places
<1>15. ASSUME NEW c \in Calls, CheckClosed(c) PROVE Visiting'
  <2>1. CASE \E result \in Results : Returns(c, result) /\ (Drop(c) \/ UNCHANGED <<pending, chClosed>>)
    BY <1>15, <2>1, ReturnsOnly DEF Visiting, CheckClosed, Drop, connection, TypeOK, CallersTyped,
       CleanerTyped, MapTyped, Callers, Places, Held, calls
  <2>2. CASE c \in pending /\ ~closed /\ call' = [call EXCEPT ![c].at = "checked"]
       /\ UNCHANGED <<pending, chClosed>>
    BY <1>15, <2>2 DEF Visiting, CheckClosed, connection, TypeOK, CallersTyped, CleanerTyped,
       MapTyped, Callers, Places, Held, calls
  <2> QED
    BY <1>15, <2>1, <2>2 DEF CheckClosed, Results
<1>16. ASSUME NEW c \in Calls, WriteRequest(c) PROVE Visiting'
  BY <1>16 DEF Visiting, WriteRequest, connection, calls, TypeOK, CleanerTyped, CallersTyped,
     MapTyped, Callers, Places
<1>17. ASSUME NEW c \in Calls, WriteFails(c) PROVE Visiting'
  BY <1>17 DEF Visiting, WriteFails, Drop, Returns, connection, calls, TypeOK, CleanerTyped,
     CallersTyped, MapTyped, Callers, Places
<1>18. ASSUME NEW c \in Calls, WatcherEnds(c) PROVE Visiting'
  BY <1>18 DEF Visiting, WatcherEnds, Drop, connection, calls, TypeOK, CleanerTyped, CallersTyped,
     MapTyped, Callers, Places
<1>19. ASSUME NEW c \in Calls, Receive(c) PROVE Visiting'
  BY <1>19 DEF Visiting, Receive, Returns, connection, calls, TypeOK, CleanerTyped, CallersTyped,
     MapTyped, Callers, Places
<1>20. ASSUME NEW c \in Calls, ReceiveClosed(c) PROVE Visiting'
  BY <1>20 DEF Visiting, ReceiveClosed, Returns, connection, calls, TypeOK, CleanerTyped,
     CallersTyped, MapTyped, Callers, Places
<1>21. ASSUME NEW c \in Calls, ReceiveDone(c) PROVE Visiting'
  BY <1>21 DEF Visiting, ReceiveDone, Returns, connection, calls, TypeOK, CleanerTyped, CallersTyped,
     MapTyped, Callers, Places
<1>22. ASSUME NEW c \in Calls, RangeYields(c) PROVE Visiting'
  BY <1>22 DEF Visiting, RangeYields, connection, calls, TypeOK, CleanerTyped, CallersTyped,
     MapTyped, Callers, Places
<1> QED
  BY <1>1, <1>2, <1>3, <1>4, <1>5, <1>6, <1>7, <1>8, <1>9, <1>10, <1>11, <1>12, <1>13, <1>14, <1>15,
     <1>16, <1>17, <1>18, <1>19, <1>20, <1>21, <1>22 DEF Next, SessionStep, CallStep

\* When the range is over, every call has been told.
LEMMA ToldStep ==
  ASSUME TypeOK, Held, Entered, Visiting, ToldWhenSessionDies, [Next]_vars
  PROVE  ToldWhenSessionDies'
<1>1. CASE UNCHANGED vars
  BY <1>1 DEF ToldWhenSessionDies, vars, connection, calls, TypeOK, CleanerTyped, CallersTyped,
     MapTyped, Callers, Places
<1>2. CASE Register \/ Announce \/ Stop \/ DispatchOffers
  BY <1>2 DEF ToldWhenSessionDies, Register, Announce, Stop, DispatchOffers, connection, calls,
     TypeOK, CleanerTyped, CallersTyped, MapTyped, Callers, Places
<1>3. ASSUME NEW c \in Calls, Cancel(c) \/ \E kind \in Kinds : DispatchLoads(c, kind)
      PROVE  ToldWhenSessionDies'
  BY <1>3 DEF ToldWhenSessionDies, Cancel, DispatchLoads, connection, calls, TypeOK, CleanerTyped,
     CallersTyped, MapTyped, Callers, Places
<1>4. CASE ReadFails
  BY <1>4 DEF ToldWhenSessionDies, ReadFails, Closes, connection, calls, TypeOK, CleanerTyped,
     CallersTyped, MapTyped, Callers, Places
<1>5. CASE HeartbeatFails
  BY <1>5 DEF ToldWhenSessionDies, HeartbeatFails, Closes, connection, calls, TypeOK, CleanerTyped,
     CallersTyped, MapTyped, Callers, Places
<1>6. CASE StopCleansUp
  BY <1>6 DEF ToldWhenSessionDies, StopCleansUp, Closes, connection, calls, TypeOK, CleanerTyped,
     CallersTyped, MapTyped, Callers, Places
<1>7. CASE TellCall
  BY <1>7 DEF ToldWhenSessionDies, TellCall, Offer, connection, calls, TypeOK, CleanerTyped,
     CallersTyped, MapTyped, Callers, Places
<1>8. CASE RangeEnds
  BY <1>8 DEF ToldWhenSessionDies, RangeEnds, connection, calls, TypeOK, CleanerTyped, CallersTyped,
     MapTyped, Callers, Places, Held, Entered, Visiting
<1>9. CASE SwapEnds
  BY <1>9 DEF ToldWhenSessionDies, SwapEnds, connection, calls, TypeOK, CleanerTyped, CallersTyped,
     MapTyped, Callers, Places
<1>10. CASE HandleSessionClosed
  BY <1>10 DEF ToldWhenSessionDies, HandleSessionClosed, connection, calls, TypeOK, CleanerTyped,
     CallersTyped, MapTyped, Callers, Places
<1>11. CASE DispatchEnds
  BY <1>11 DEF ToldWhenSessionDies, DispatchEnds, Drop, connection, calls, TypeOK, CleanerTyped,
     CallersTyped, MapTyped, Callers, Places
<1>12. CASE SwapRace
  BY <1>12, ReturnsOnly DEF ToldWhenSessionDies, SwapRace, Results, TypeOK, CallersTyped,
     CleanerTyped, MapTyped, calls
<1>13. ASSUME NEW c \in Calls, NEW stream \in BOOLEAN, Lookup(c, stream) PROVE ToldWhenSessionDies'
  BY <1>13 DEF ToldWhenSessionDies, Lookup, Returns, connection, calls, TypeOK, CleanerTyped,
     CallersTyped, MapTyped, Callers, Places
<1>14. ASSUME NEW c \in Calls, StoreCall(c) PROVE ToldWhenSessionDies'
  BY <1>14 DEF ToldWhenSessionDies, StoreCall, connection, calls, TypeOK, CleanerTyped, CallersTyped,
     MapTyped, Callers, Places
<1>15. ASSUME NEW c \in Calls, CheckClosed(c) PROVE ToldWhenSessionDies'
  <2>1. CASE \E result \in Results : Returns(c, result) /\ (Drop(c) \/ UNCHANGED <<pending, chClosed>>)
    BY <1>15, <2>1, ReturnsOnly DEF ToldWhenSessionDies, CheckClosed, Drop, connection, TypeOK,
       CallersTyped, CleanerTyped, MapTyped, Callers, Places, Held, calls
  <2>2. CASE c \in pending /\ ~closed /\ call' = [call EXCEPT ![c].at = "checked"]
       /\ UNCHANGED <<pending, chClosed>>
    BY <1>15, <2>2 DEF ToldWhenSessionDies, CheckClosed, connection, TypeOK, CallersTyped,
       CleanerTyped, MapTyped, Callers, Places, Held, calls
  <2> QED
    BY <1>15, <2>1, <2>2 DEF CheckClosed, Results
<1>16. ASSUME NEW c \in Calls, WriteRequest(c) PROVE ToldWhenSessionDies'
  BY <1>16 DEF ToldWhenSessionDies, WriteRequest, connection, calls, TypeOK, CleanerTyped,
     CallersTyped, MapTyped, Callers, Places
<1>17. ASSUME NEW c \in Calls, WriteFails(c) PROVE ToldWhenSessionDies'
  BY <1>17 DEF ToldWhenSessionDies, WriteFails, Drop, Returns, connection, calls, TypeOK,
     CleanerTyped, CallersTyped, MapTyped, Callers, Places
<1>18. ASSUME NEW c \in Calls, WatcherEnds(c) PROVE ToldWhenSessionDies'
  BY <1>18 DEF ToldWhenSessionDies, WatcherEnds, Drop, connection, calls, TypeOK, CleanerTyped,
     CallersTyped, MapTyped, Callers, Places
<1>19. ASSUME NEW c \in Calls, Receive(c) PROVE ToldWhenSessionDies'
  BY <1>19 DEF ToldWhenSessionDies, Receive, Returns, connection, calls, TypeOK, CleanerTyped,
     CallersTyped, MapTyped, Callers, Places
<1>20. ASSUME NEW c \in Calls, ReceiveClosed(c) PROVE ToldWhenSessionDies'
  BY <1>20 DEF ToldWhenSessionDies, ReceiveClosed, Returns, connection, calls, TypeOK, CleanerTyped,
     CallersTyped, MapTyped, Callers, Places
<1>21. ASSUME NEW c \in Calls, ReceiveDone(c) PROVE ToldWhenSessionDies'
  BY <1>21 DEF ToldWhenSessionDies, ReceiveDone, Returns, connection, calls, TypeOK, CleanerTyped,
     CallersTyped, MapTyped, Callers, Places
<1>22. ASSUME NEW c \in Calls, RangeYields(c) PROVE ToldWhenSessionDies'
  BY <1>22 DEF ToldWhenSessionDies, RangeYields, connection, calls, TypeOK, CleanerTyped,
     CallersTyped, MapTyped, Callers, Places
<1> QED
  BY <1>1, <1>2, <1>3, <1>4, <1>5, <1>6, <1>7, <1>8, <1>9, <1>10, <1>11, <1>12, <1>13, <1>14, <1>15,
     <1>16, <1>17, <1>18, <1>19, <1>20, <1>21, <1>22 DEF Next, SessionStep, CallStep

\* Nothing happens to a call before it is stored, nor is it known before it is written.
LEMMA FreshStep ==
  ASSUME TypeOK, Held, Fresh, [Next]_vars
  PROVE  Fresh'
<1>1. CASE UNCHANGED vars
  BY <1>1 DEF Fresh, vars, connection, calls, TypeOK, CleanerTyped, CallersTyped, MapTyped,
     ChannelsTyped, ClientTyped, Callers, Places
<1>2. CASE Register \/ Announce \/ Stop
  BY <1>2 DEF Fresh, Register, Announce, Stop, connection, calls, TypeOK, CleanerTyped, CallersTyped,
     MapTyped, ChannelsTyped, ClientTyped, Callers, Places
<1>3. ASSUME NEW c \in Calls, Cancel(c)
      PROVE  Fresh'
  BY <1>3 DEF Fresh, Cancel, connection, calls, TypeOK, CleanerTyped, CallersTyped, MapTyped,
     ChannelsTyped, ClientTyped, Callers, Places
<1>4. CASE ReadFails
  <2>1. CASE Closes
    BY <1>4, <2>1 DEF Fresh, ReadFails, Closes, connection, calls, TypeOK, CleanerTyped,
       CallersTyped, MapTyped, Callers, Places
  <2>2. CASE UNCHANGED <<closed, cleaner>>
    BY <1>4, <2>2 DEF Fresh, ReadFails, connection, calls
  <2> QED
    BY <1>4, <2>1, <2>2 DEF ReadFails
<1>5. CASE HeartbeatFails
  BY <1>5 DEF Fresh, HeartbeatFails, Closes, connection, calls, TypeOK, CleanerTyped, CallersTyped,
     MapTyped, ChannelsTyped, ClientTyped, Callers, Places
<1>6. CASE StopCleansUp
  BY <1>6 DEF Fresh, StopCleansUp, Closes, connection, calls, TypeOK, CleanerTyped, CallersTyped,
     MapTyped, ChannelsTyped, ClientTyped, Callers, Places
<1>7. CASE TellCall
  <2> DEFINE h == cleaner.holds
  <2>1. h \in Calls /\ call[h].at \notin {"idle", "found"}
    BY <1>7 DEF TellCall, Held, Fresh
  <2>2. \A d \in Calls \ {h} : ch'[d] = ch[d] /\ chClosed'[d] = chClosed[d]
    BY <1>7, <2>1 DEF TellCall, Offer, TypeOK, ChannelsTyped, MapTyped
  <2>3. UNCHANGED <<pending, call, client>> /\ (cleaner'.at = "visit" => cleaner' = cleaner)
    BY <1>7 DEF TellCall, TypeOK, CleanerTyped
  <2> QED
    BY <1>7, <2>1, <2>2, <2>3 DEF Fresh
<1>8. CASE RangeEnds
  BY <1>8 DEF Fresh, RangeEnds, connection, calls, TypeOK, CleanerTyped, CallersTyped, MapTyped,
     ChannelsTyped, ClientTyped, Callers, Places
<1>9. CASE SwapEnds
  BY <1>9 DEF Fresh, SwapEnds, connection, calls, TypeOK, CleanerTyped, CallersTyped, MapTyped,
     ChannelsTyped, ClientTyped, Callers, Places
<1>10. CASE HandleSessionClosed
  BY <1>10 DEF Fresh, HandleSessionClosed, connection, calls, TypeOK, CleanerTyped, CallersTyped,
     MapTyped, ChannelsTyped, ClientTyped, Callers, Places
<1>11. CASE DispatchOffers
  BY <1>11 DEF Fresh, DispatchOffers, Offer, connection, calls, TypeOK, CleanerTyped, CallersTyped,
     MapTyped, ChannelsTyped, ClientTyped, Callers, Places, Held, ReaderTyped
<1>12. CASE DispatchEnds
  BY <1>12 DEF Fresh, DispatchEnds, Drop, connection, calls, TypeOK, CleanerTyped, CallersTyped,
     MapTyped, ChannelsTyped, ClientTyped, Callers, Places, Held, ReaderTyped
<1>13. CASE SwapRace
  BY <1>13, ReturnsOnly DEF Fresh, SwapRace, Results, TypeOK, CallersTyped, CleanerTyped, MapTyped,
     calls
<1>14. ASSUME NEW c \in Calls, NEW stream \in BOOLEAN, Lookup(c, stream) PROVE Fresh'
  <2>1. CASE call' = [call EXCEPT ![c].at = "found", ![c].stream = stream]
    BY <1>14, <2>1 DEF Fresh, Lookup, TypeOK, CallersTyped, Callers
  <2>2. CASE Returns(c, "error")
    BY <1>14, <2>2, ReturnsOnly DEF Fresh, Lookup, Results
  <2> QED
    BY <1>14, <2>1, <2>2 DEF Lookup
<1>15. ASSUME NEW c \in Calls, StoreCall(c) PROVE Fresh'
  BY <1>15 DEF Fresh, StoreCall, connection, calls, TypeOK, CleanerTyped, CallersTyped, MapTyped,
     ChannelsTyped, ClientTyped, Callers, Places
<1>16. ASSUME NEW c \in Calls, CheckClosed(c) PROVE Fresh'
  <2>1. CASE \E result \in Results : Returns(c, result) /\ (Drop(c) \/ UNCHANGED <<pending, chClosed>>)
    BY <1>16, <2>1, ReturnsOnly DEF Fresh, CheckClosed, Drop, connection, TypeOK, CallersTyped,
       CleanerTyped, MapTyped, Callers, Places, calls
  <2>2. CASE c \in pending /\ ~closed /\ call' = [call EXCEPT ![c].at = "checked"]
       /\ UNCHANGED <<pending, chClosed>>
    BY <1>16, <2>2 DEF Fresh, CheckClosed, connection, TypeOK, CallersTyped, CleanerTyped, MapTyped,
       Callers, Places, calls
  <2> QED
    BY <1>16, <2>1, <2>2 DEF CheckClosed, Results
<1>17. ASSUME NEW c \in Calls, WriteRequest(c) PROVE Fresh'
  BY <1>17 DEF Fresh, WriteRequest, connection, calls, TypeOK, CleanerTyped, CallersTyped, MapTyped,
     ChannelsTyped, ClientTyped, Callers, Places
<1>18. ASSUME NEW c \in Calls, WriteFails(c) PROVE Fresh'
  BY <1>18 DEF Fresh, WriteFails, Drop, Returns, connection, calls, TypeOK, CleanerTyped,
     CallersTyped, MapTyped, ChannelsTyped, ClientTyped, Callers, Places
<1>19. ASSUME NEW c \in Calls, WatcherEnds(c) PROVE Fresh'
  <2>1. CASE Drop(c)
    BY <1>19, <2>1 DEF Fresh, WatcherEnds, Drop, TypeOK, MapTyped
  <2>2. CASE UNCHANGED <<pending, chClosed>>
    BY <1>19, <2>2 DEF Fresh, WatcherEnds
  <2> QED
    BY <1>19, <2>1, <2>2 DEF WatcherEnds
<1>20. ASSUME NEW c \in Calls, Receive(c) PROVE Fresh'
  BY <1>20 DEF Fresh, Receive, Returns, connection, calls, TypeOK, CleanerTyped, CallersTyped,
     MapTyped, ChannelsTyped, ClientTyped, Callers, Places
<1>21. ASSUME NEW c \in Calls, ReceiveClosed(c) PROVE Fresh'
  BY <1>21 DEF Fresh, ReceiveClosed, Returns, connection, calls, TypeOK, CleanerTyped, CallersTyped,
     MapTyped, ChannelsTyped, ClientTyped, Callers, Places
<1>22. ASSUME NEW c \in Calls, ReceiveDone(c) PROVE Fresh'
  BY <1>22 DEF Fresh, ReceiveDone, Returns, connection, calls, TypeOK, CleanerTyped, CallersTyped,
     MapTyped, ChannelsTyped, ClientTyped, Callers, Places
<1>23. ASSUME NEW c \in Calls, RangeYields(c) PROVE Fresh'
  BY <1>23 DEF Fresh, RangeYields, connection, calls, TypeOK, CleanerTyped, CallersTyped, MapTyped,
     ChannelsTyped, ClientTyped, Callers, Places
<1>24. ASSUME NEW c \in Calls, NEW kind \in Kinds, DispatchLoads(c, kind) PROVE Fresh'
  BY <1>24 DEF Fresh, DispatchLoads, connection, calls, TypeOK, CleanerTyped, CallersTyped, MapTyped,
     ChannelsTyped, ClientTyped, Callers, Places
<1> QED
  BY <1>1, <1>2, <1>3, <1>4, <1>5, <1>6, <1>7, <1>8, <1>9, <1>10, <1>11, <1>12, <1>13, <1>14, <1>15,
     <1>16, <1>17, <1>18, <1>19, <1>20, <1>21, <1>22, <1>23, <1>24 DEF Next, SessionStep, CallStep

\* A complete answer has been accounted for.
LEMMA TruncatedStep ==
  ASSUME TypeOK, Held, Fresh, Accounted, TruncatedOnlyByOverflow, [Next]_vars
  PROVE  TruncatedOnlyByOverflow'
<1>1. CASE UNCHANGED vars
  BY <1>1 DEF TruncatedOnlyByOverflow, vars, connection, calls, TypeOK, CallersTyped, Callers,
     Places, ClientTyped, PastTyped, MapTyped
<1>2. CASE Register \/ Announce \/ ReadFails \/ HeartbeatFails \/ Stop \/ StopCleansUp
        \/ RangeEnds \/ SwapEnds \/ DispatchEnds
  BY <1>2 DEF TruncatedOnlyByOverflow, Register, Announce, ReadFails, HeartbeatFails, Stop,
     StopCleansUp, RangeEnds, SwapEnds, DispatchEnds, connection, calls, TypeOK, CallersTyped,
     Callers, Places, ClientTyped, PastTyped, MapTyped
<1>3. ASSUME NEW c \in Calls, WatcherEnds(c) \/ RangeYields(c)
      PROVE  TruncatedOnlyByOverflow'
  BY <1>3 DEF TruncatedOnlyByOverflow, WatcherEnds, RangeYields, connection, calls, TypeOK,
     CallersTyped, Callers, Places, ClientTyped, PastTyped, MapTyped
<1>4. CASE TellCall
  BY <1>4, OfferGrows DEF TruncatedOnlyByOverflow, TellCall, connection, calls, TypeOK, CallersTyped,
     Callers, Places, ClientTyped, PastTyped, MapTyped, Held, CleanerTyped, ReaderTyped, Kinds
<1>5. CASE HandleSessionClosed
  BY <1>5 DEF TruncatedOnlyByOverflow, HandleSessionClosed, connection, calls, TypeOK, CallersTyped,
     Callers, Places, ClientTyped, PastTyped, MapTyped
<1>6. CASE DispatchOffers
  BY <1>6, OfferGrows DEF TruncatedOnlyByOverflow, DispatchOffers, connection, calls, TypeOK,
     CallersTyped, Callers, Places, ClientTyped, PastTyped, MapTyped, Held, CleanerTyped,
     ReaderTyped, Kinds
<1>7. CASE SwapRace
  BY <1>7, ReturnsOnly DEF TruncatedOnlyByOverflow, SwapRace, Results, TypeOK, CallersTyped, Callers,
     connection, calls
<1>8. ASSUME NEW c \in Calls, NEW stream \in BOOLEAN, Lookup(c, stream) PROVE TruncatedOnlyByOverflow'
  <2>1. CASE call' = [call EXCEPT ![c].at = "found", ![c].stream = stream]
    BY <1>8, <2>1 DEF TruncatedOnlyByOverflow, Lookup, TypeOK, CallersTyped, Callers
  <2>2. CASE Returns(c, "error")
    BY <1>8, <2>2, ReturnsOnly DEF TruncatedOnlyByOverflow, Lookup, Results
  <2> QED
    BY <1>8, <2>1, <2>2 DEF Lookup
<1>9. ASSUME NEW c \in Calls, StoreCall(c) PROVE TruncatedOnlyByOverflow'
  BY <1>9 DEF TruncatedOnlyByOverflow, StoreCall, connection, calls, TypeOK, CallersTyped, Callers,
     Places, ClientTyped, PastTyped, MapTyped
<1>10. ASSUME NEW c \in Calls, CheckClosed(c) PROVE TruncatedOnlyByOverflow'
  <2>1. CASE \E result \in {"panicked", "error"} : Returns(c, result)
    BY <1>10, <2>1, ReturnsOnly DEF TruncatedOnlyByOverflow, CheckClosed, Results
  <2>2. CASE call' = [call EXCEPT ![c].at = "checked"]
    BY <1>10, <2>2 DEF TruncatedOnlyByOverflow, CheckClosed, TypeOK, CallersTyped, Callers
  <2> QED
    BY <1>10, <2>1, <2>2 DEF CheckClosed
<1>11. ASSUME NEW c \in Calls, WriteRequest(c) PROVE TruncatedOnlyByOverflow'
  BY <1>11 DEF TruncatedOnlyByOverflow, WriteRequest, connection, calls, TypeOK, CallersTyped,
     Callers, Places, ClientTyped, PastTyped, MapTyped
<1>12. ASSUME NEW c \in Calls, WriteFails(c) PROVE TruncatedOnlyByOverflow'
  BY <1>12, ReturnsOnly DEF TruncatedOnlyByOverflow, WriteFails, Results, TypeOK, CallersTyped,
     Callers, connection, calls
<1>13. ASSUME NEW c \in Calls, Cancel(c) PROVE TruncatedOnlyByOverflow'
  BY <1>13 DEF TruncatedOnlyByOverflow, Cancel, connection, calls, TypeOK, CallersTyped, Callers,
     Places, ClientTyped, PastTyped, MapTyped
<1>14. ASSUME NEW c \in Calls, Receive(c) PROVE TruncatedOnlyByOverflow'
  <2>1. CASE Head(ch[c]) = "chunk"
    <3>1. call' = [call EXCEPT ![c].got = call[c].got + 1] /\ UNCHANGED <<past, done, client>>
      BY <1>14, <2>1 DEF Receive
    <3>2. call[c].result = "none"
      BY <1>14 DEF Receive, Fresh
    <3>3. call'[c].result = "none" /\ \A d \in Calls \ {c} : call'[d] = call[d]
      BY <3>1, <3>2 DEF TypeOK, CallersTyped, Callers
    <3> QED
      BY <3>1, <3>3 DEF TruncatedOnlyByOverflow
  <2>2. CASE Head(ch[c]) = "error"
    BY <1>14, <2>2, ReturnsOnly DEF TruncatedOnlyByOverflow, Receive, Results
  <2>3. CASE Head(ch[c]) = "end"
    <3>1. ch[c] # <<>> /\ ch[c] \in Seq(Kinds) /\ Len(ch[c]) \in Nat /\ Head(ch[c]) = ch[c][1]
      BY <1>14 DEF Receive, TypeOK, ChannelsTyped
    <3>2. ASSUME c \notin past.overflow \cup done
          PROVE  c \in client.ended /\ call[c].got = client.sent[c]
      <4>1. Accountable(c)
        BY <1>14, <3>2 DEF Accounted, Receive
      <4>2. ~Flowing(c)
        BY <2>3, <3>1 DEF Flowing
      <4>3. PICK k \in 1..Len(ch[c]) : EndsAt(c, k)
        BY <4>1, <4>2 DEF Accountable
      <4>4. k = 1
        BY <2>3, <3>1, <4>3 DEF EndsAt
      <4> QED
        BY <2>3, <3>1, <4>3, <4>4 DEF EndsAt, TypeOK, CallersTyped, Callers, ClientTyped
    <3> QED
      BY <1>14, <2>3, <3>2, ReturnsOnly DEF TruncatedOnlyByOverflow, Receive, Results
  <2> QED
    BY <1>14, <2>1, <2>2, <2>3 DEF Receive
<1>15. ASSUME NEW c \in Calls, ReceiveClosed(c) PROVE TruncatedOnlyByOverflow'
  <2>1. c \in past.overflow \cup done
    BY <1>15 DEF ReceiveClosed, Accounted, Accountable, Flowing
  <2> QED
    BY <1>15, <2>1, ReturnsOnly DEF TruncatedOnlyByOverflow, ReceiveClosed, Results
<1>16. ASSUME NEW c \in Calls, ReceiveDone(c) PROVE TruncatedOnlyByOverflow'
  BY <1>16, ReturnsOnly DEF TruncatedOnlyByOverflow, ReceiveDone, Results, TypeOK, CallersTyped,
     Callers, connection, calls
<1>17. ASSUME NEW c \in Calls, NEW kind \in Kinds, DispatchLoads(c, kind) PROVE TruncatedOnlyByOverflow'
  BY <1>17 DEF TruncatedOnlyByOverflow, DispatchLoads, connection, calls, TypeOK, CallersTyped,
     Callers, Places, ClientTyped, PastTyped, MapTyped
<1> QED
  BY <1>1, <1>2, <1>3, <1>4, <1>5, <1>6, <1>7, <1>8, <1>9, <1>10, <1>11, <1>12, <1>13, <1>14, <1>15,
     <1>16, <1>17 DEF Next, SessionStep, CallStep

\* What a step leaves alone: the messages of d and what is known of them.
Undisturbed(d) ==
  /\ ch'[d] = ch[d] /\ (chClosed'[d] => chClosed[d])
  /\ call'[d].got = call[d].got /\ client'.sent[d] = client.sent[d]
  /\ d \in client.ended => d \in client'.ended
  /\ InHand(d)' = InHand(d)
  /\ reader'.at = "offered" /\ reader'.holds = d => reader.at = "offered" /\ reader.holds = d

\* An account stays in order if the step does not disturb it.
LEMMA AccountKept ==
  ASSUME NEW d \in Calls, Undisturbed(d), Accountable(d)
  PROVE  Accountable(d)'
<1>1. CASE Flowing(d)
  BY <1>1 DEF Flowing, Undisturbed, Accountable
<1>2. CASE \E k \in 1..Len(ch[d]) : EndsAt(d, k)
  <2>1. PICK k \in 1..Len(ch[d]) : EndsAt(d, k)
    BY <1>2
  <2>2. k \in 1..Len(ch'[d]) /\ EndsAt(d, k)'
    BY <2>1 DEF Undisturbed, EndsAt
  <2> QED
    BY <2>2 DEF Accountable
<1> QED
  BY <1>1, <1>2 DEF Accountable

\* A closed channel, or one with an end in it, stays in order while the client may not send more.
LEMMA EndKept ==
  ASSUME NEW d \in Calls, ChannelsTyped, NEW k \in 1..Len(ch[d]), EndsAt(d, k),
         \/ ch'[d] = ch[d]
         \/ \E kind \in Kinds : ch'[d] = Append(ch[d], kind),
         call'[d].got = call[d].got,
         d \in client.ended => d \in client'.ended /\ client'.sent[d] = client.sent[d]
  PROVE  Accountable(d)'
<1>1. ch[d] \in Seq(Kinds) /\ Len(ch[d]) \in Nat
  BY DEF ChannelsTyped
<1>2. k \in 1..Len(ch'[d]) /\ \A i \in 1..k : ch'[d][i] = ch[d][i]
  BY <1>1
<1>3. EndsAt(d, k)'
  BY <1>2 DEF EndsAt
<1> QED
  BY <1>2, <1>3 DEF Accountable

\* Every message that was sent stays accounted for.
LEMMA AccountedStep ==
  ASSUME TypeOK, Held, Entered, Fresh, Accounted, [Next]_vars
  PROVE  Accounted'
<1> USE DEF TypeOK
<1>0. ASSUME \A d \in Calls :
               \/ d \in past'.overflow \cup done'
               \/ call'[d].at \notin {"stored", "checked", "waiting"}
               \/ Accountable(d)'
               \/ /\ Undisturbed(d) /\ past.overflow \subseteq past'.overflow /\ done \subseteq done'
                  /\ call[d].at \in {"stored", "checked", "waiting"}
      PROVE  Accounted'
  BY <1>0, AccountKept DEF Accounted
<1>1. CASE UNCHANGED vars
  BY <1>1, <1>0 DEF vars, connection, calls, Accounted, Accountable, Flowing, EndsAt, InHand
<1>2. CASE Register
  <2>1. \A d \in Calls : Undisturbed(d) /\ UNCHANGED <<call, done, past.overflow>>
    BY <1>2 DEF Register, connection, calls, Undisturbed, InHand, Held, ReaderTyped, PastTyped
  <2> QED
    BY <2>1, <1>0 DEF Accounted
<1>3. CASE Announce
  <2>1. \A d \in Calls : Undisturbed(d) /\ UNCHANGED <<call, done, past.overflow>>
    BY <1>3 DEF Announce, connection, calls, Undisturbed, InHand, Held, ReaderTyped, PastTyped
  <2> QED
    BY <2>1, <1>0 DEF Accounted
<1>4. CASE ReadFails
  <2>1. \A d \in Calls : Undisturbed(d) /\ UNCHANGED <<call, done, past.overflow>>
    BY <1>4 DEF ReadFails, connection, calls, Undisturbed, InHand, Held, ReaderTyped, PastTyped
  <2> QED
    BY <2>1, <1>0 DEF Accounted
<1>5. CASE HeartbeatFails
  <2>1. \A d \in Calls : Undisturbed(d) /\ UNCHANGED <<call, done, past.overflow>>
    BY <1>5 DEF HeartbeatFails, connection, calls, Undisturbed, InHand, Held, ReaderTyped, PastTyped
  <2> QED
    BY <2>1, <1>0 DEF Accounted
<1>6. CASE Stop
  <2>1. \A d \in Calls : Undisturbed(d) /\ UNCHANGED <<call, done, past.overflow>>
    BY <1>6 DEF Stop, connection, calls, Undisturbed, InHand, Held, ReaderTyped, PastTyped
  <2> QED
    BY <2>1, <1>0 DEF Accounted
<1>7. CASE StopCleansUp
  <2>1. \A d \in Calls : Undisturbed(d) /\ UNCHANGED <<call, done, past.overflow>>
    BY <1>7 DEF StopCleansUp, connection, calls, Undisturbed, InHand, Held, ReaderTyped, PastTyped
  <2> QED
    BY <2>1, <1>0 DEF Accounted
<1>8. CASE RangeEnds
  <2>1. \A d \in Calls : Undisturbed(d) /\ UNCHANGED <<call, done, past.overflow>>
    BY <1>8 DEF RangeEnds, connection, calls, Undisturbed, InHand, Held, ReaderTyped, PastTyped
  <2> QED
    BY <2>1, <1>0 DEF Accounted
<1>9. CASE SwapEnds
  <2>1. \A d \in Calls : Undisturbed(d) /\ UNCHANGED <<call, done, past.overflow>>
    BY <1>9 DEF SwapEnds, connection, calls, Undisturbed, InHand, Held, ReaderTyped, PastTyped
  <2> QED
    BY <2>1, <1>0 DEF Accounted
<1>10. CASE HandleSessionClosed
  <2>1. \A d \in Calls : Undisturbed(d) /\ UNCHANGED <<call, done, past.overflow>>
    BY <1>10 DEF HandleSessionClosed, connection, calls, Undisturbed, InHand, Held, ReaderTyped,
       PastTyped
  <2> QED
    BY <2>1, <1>0 DEF Accounted
<1>11. CASE TellCall
  <2> PICK h \in Calls : h = cleaner.holds
    BY <1>11 DEF TellCall, Held
  <2>1. UNCHANGED <<call, client, reader, done>>
    BY <1>11 DEF TellCall
  <2>2. CASE chClosed[h]
    <3>1. \A d \in Calls : Undisturbed(d) /\ UNCHANGED <<call, done, past>>
      BY <1>11, <2>1, <2>2 DEF TellCall, Undisturbed, InHand
    <3> QED
      BY <3>1, <1>0 DEF Accounted
  <2>3. CASE ~chClosed[h]
    <3>1. Offer(h, "error") /\ "error" \in Kinds
      BY <1>11, <2>3 DEF TellCall, Held, Kinds
    <3>2. \A d \in Calls \ {h} : Undisturbed(d)
      BY <1>11, <2>1, <2>3, <3>1, OfferGrows DEF TellCall, Undisturbed, InHand, MapTyped
    <3>3. ASSUME h \notin past'.overflow, Accountable(h) PROVE Accountable(h)'
      <4>1. ch'[h] = Append(ch[h], "error")
        BY <3>1, <3>3, OfferGrows
      <4>2. CASE Flowing(h)
        <5>1. ch[h] \in Seq(Kinds) /\ Len(ch[h]) \in Nat
          BY <3>1 DEF ChannelsTyped
        <5>2. PICK k \in Nat : k = Len(ch[h]) + 1
          BY <5>1
        <5>3. EndsAt(h, k)' /\ k \in 1..Len(ch'[h])
          BY <4>1, <4>2, <5>1, <5>2 DEF EndsAt, Flowing
        <5> QED
          BY <5>3 DEF Accountable
      <4> QED
        BY <2>1, <3>1, <3>3, <4>1, <4>2, EndKept DEF Accountable
    <3>4. past.overflow \subseteq past'.overflow
      BY <3>1, OfferGrows
    <3> QED
      BY <1>0, <2>1, <3>2, <3>3, <3>4 DEF Accounted
  <2> QED
    BY <2>2, <2>3
<1>12. CASE DispatchOffers
  <2> PICK h \in Calls : h = reader.holds
    BY <1>12 DEF DispatchOffers, Held
  <2>1. UNCHANGED <<call, client, chClosed, done>> /\ reader.at = "found" /\ h \in client.knows
    BY <1>12 DEF DispatchOffers, Held, ReaderTyped
  <2>2. CASE chClosed[h]
    <3>1. \A d \in Calls : Undisturbed(d) /\ UNCHANGED <<call, done, past>>
      BY <1>12, <2>1, <2>2 DEF DispatchOffers, Undisturbed, InHand
    <3> QED
      BY <3>1, <1>0 DEF Accounted
  <2>3. CASE ~chClosed[h]
    <3>1. Offer(h, reader.kind) /\ reader.kind \in Kinds
      BY <1>12, <2>3 DEF DispatchOffers, ReaderTyped
    <3>2. InHand(h)' = 0 /\ \A d \in Calls \ {h} : InHand(d) = 0 /\ InHand(d)' = 0
                         /\ (reader'.at = "offered" => reader'.holds # d)
      <4>1. CASE reader.kind = "chunk"
        BY <1>12, <2>1, <2>3, <4>1 DEF DispatchOffers, InHand
      <4>2. CASE reader.kind # "chunk"
        BY <1>12, <2>1, <2>3, <4>2 DEF DispatchOffers, InHand, ReaderTyped
      <4> QED
        BY <4>1, <4>2
    <3>3. \A d \in Calls \ {h} : Undisturbed(d)
      BY <2>1, <3>1, <3>2, OfferGrows DEF Undisturbed
    <3>4. ASSUME h \notin past'.overflow, Accountable(h) PROVE Accountable(h)'
      <4>1. ch'[h] = Append(ch[h], reader.kind)
        BY <3>1, <3>4, OfferGrows
      <4>2. ch[h] \in Seq(Kinds) /\ Len(ch[h]) \in Nat /\ call[h].got \in Nat /\ client.sent[h] \in Nat
        BY <2>1 DEF ChannelsTyped, CallersTyped, Callers, ClientTyped
      <4>3. CASE Flowing(h) /\ reader.kind = "chunk"
        <5>1. InHand(h) = 1 /\ reader'.at = "reading"
          BY <1>12, <2>1, <2>3, <4>3 DEF InHand, DispatchOffers
        <5>2. Flowing(h)'
          BY <2>1, <2>3, <3>2, <4>1, <4>2, <4>3, <5>1 DEF Flowing
        <5> QED
          BY <5>2 DEF Accountable
      <4>4. CASE Flowing(h) /\ reader.kind # "chunk"
        <5>1. InHand(h) = 0 /\ h \in client.ended
          BY <2>1, <4>4 DEF InHand, Held
        <5>2. PICK k \in Nat : k = Len(ch[h]) + 1
          BY <4>2
        <5>3. EndsAt(h, k)' /\ k \in 1..Len(ch'[h])
          BY <2>1, <3>1, <4>1, <4>2, <4>4, <5>1, <5>2 DEF EndsAt, Flowing, Kinds
        <5> QED
          BY <5>3 DEF Accountable
      <4> QED
        BY <2>1, <3>1, <3>4, <4>1, <4>3, <4>4, EndKept DEF Accountable
    <3>5. past.overflow \subseteq past'.overflow
      BY <2>1, <3>1, OfferGrows
    <3> QED
      BY <1>0, <2>1, <3>3, <3>4, <3>5 DEF Accounted
  <2> QED
    BY <2>2, <2>3
<1>13. CASE DispatchEnds
  <2> PICK h \in Calls : h = reader.holds
    BY <1>13 DEF DispatchEnds, Held
  <2>1. UNCHANGED <<ch, call, client, past, done>> /\ reader.at = "offered" /\ reader'.at = "reading"
    BY <1>13 DEF DispatchEnds
  <2>2. \A d \in Calls \ {h} : Undisturbed(d)
    BY <1>13, <2>1 DEF DispatchEnds, Drop, MapTyped, Undisturbed, InHand
  <2>3. ASSUME Accountable(h) PROVE Accountable(h)'
    <3>1. ~Flowing(h)
      BY <2>1 DEF Flowing
    <3>2. PICK k \in 1..Len(ch[h]) : EndsAt(h, k)
      BY <2>3, <3>1 DEF Accountable
    <3> QED
      BY <2>1, <3>2, EndKept
  <2> QED
    BY <1>0, <2>1, <2>2, <2>3 DEF Accounted
<1>14. CASE SwapRace
  <2>1. UNCHANGED <<ch, chClosed, reader, client, past, done>>
    BY <1>14 DEF SwapRace
  <2>2. ASSUME NEW c \in Calls, Returns(c, "panicked") PROVE Accounted'
    BY <1>0, <2>1, <2>2, ReturnsOnly DEF Accounted, Undisturbed, InHand, Results
  <2>3. CASE UNCHANGED call
    BY <1>0, <2>1, <2>3 DEF Accounted, Undisturbed, InHand
  <2> QED
    BY <1>14, <2>2, <2>3 DEF SwapRace
<1>15. ASSUME NEW c \in Calls, NEW stream \in BOOLEAN, Lookup(c, stream) PROVE Accounted'
  <2>1. UNCHANGED <<ch, chClosed, reader, client, past, done>>
    BY <1>15 DEF Lookup, calls
  <2>2. /\ \A d \in Calls \ {c} : call'[d] = call[d]
        /\ call'[c].at \in {"found", "over"}
    <3>1. CASE call' = [call EXCEPT ![c].at = "found", ![c].stream = stream]
      BY <3>1 DEF CallersTyped, Callers
    <3> QED
      BY <1>15, <3>1, ReturnsOnly DEF Lookup, Results
  <2> QED
    BY <1>0, <2>1, <2>2 DEF Accounted, Undisturbed, InHand
<1>16. ASSUME NEW c \in Calls, StoreCall(c) PROVE Accounted'
  <2>1. UNCHANGED <<ch, chClosed, reader, client, past, done>>
    BY <1>16 DEF StoreCall
  <2>2. (\A d \in Calls \ {c} : call'[d] = call[d]) /\ call'[c].got = call[c].got
    BY <1>16 DEF StoreCall, CallersTyped, Callers
  <2>3. Flowing(c)'
    <3>1. ch'[c] = <<>> /\ ~chClosed'[c] /\ call'[c].got = 0 /\ client'.sent[c] = 0
         /\ c \notin client.knows
      BY <1>16, <2>1, <2>2 DEF StoreCall, Fresh
    <3>2. InHand(c)' = 0 /\ ~(reader'.at = "offered" /\ reader'.holds = c)
      BY <2>1, <3>1 DEF InHand, Held
    <3> QED
      BY <3>1, <3>2 DEF Flowing
  <2> QED
    BY <1>0, <2>1, <2>2, <2>3 DEF Accounted, Accountable, Undisturbed, InHand
<1>17. ASSUME NEW c \in Calls, CheckClosed(c) PROVE Accounted'
  <2>1. UNCHANGED <<ch, reader, client, past, done>>
    BY <1>17 DEF CheckClosed
  <2>2. CASE \E result \in {"panicked", "error"} : Returns(c, result)
    BY <1>17, <1>0, <2>1, <2>2, ReturnsOnly DEF CheckClosed, Drop, MapTyped, Accounted, Undisturbed,
       InHand, Results
  <2>3. CASE call' = [call EXCEPT ![c].at = "checked"] /\ UNCHANGED chClosed
    <3>1. \A d \in Calls : Undisturbed(d) /\ (d # c => call'[d] = call[d])
      BY <1>17, <2>1, <2>3 DEF CheckClosed, Undisturbed, InHand, CallersTyped, Callers
    <3> QED
      BY <1>17, <1>0, <2>1, <3>1 DEF Accounted, CheckClosed
  <2> QED
    BY <1>17, <2>2, <2>3 DEF CheckClosed
<1>18. ASSUME NEW c \in Calls, WriteRequest(c) PROVE Accounted'
  <2>1. UNCHANGED <<ch, chClosed, reader, past, done>> /\ client'.sent = client.sent
       /\ client'.ended = client.ended
    BY <1>18 DEF WriteRequest, ClientTyped
  <2>2. \A d \in Calls : Undisturbed(d) /\ (d # c => call'[d] = call[d])
    BY <1>18, <2>1 DEF WriteRequest, Undisturbed, InHand, CallersTyped, Callers
  <2> QED
    BY <1>18, <1>0, <2>1, <2>2 DEF Accounted, WriteRequest
<1>19. ASSUME NEW c \in Calls, WriteFails(c) PROVE Accounted'
  <2>1. UNCHANGED <<ch, reader, client, past, done>>
    BY <1>19 DEF WriteFails
  <2>2. \A d \in Calls \ {c} : call'[d] = call[d] /\ chClosed'[d] = chClosed[d]
    BY <1>19, ReturnsOnly DEF WriteFails, Drop, MapTyped, Results
  <2>3. call'[c].at = "over"
    BY <1>19, ReturnsOnly DEF WriteFails, Results
  <2> QED
    BY <1>0, <2>1, <2>2, <2>3 DEF Accounted, Undisturbed, InHand
<1>20. ASSUME NEW c \in Calls, Cancel(c) PROVE Accounted'
  <2>1. \A d \in Calls : Undisturbed(d)
    BY <1>20 DEF Cancel, Undisturbed, InHand
  <2> QED
    BY <1>20, <1>0, <2>1 DEF Accounted, Cancel
<1>21. ASSUME NEW c \in Calls, WatcherEnds(c) PROVE Accounted'
  <2>1. UNCHANGED <<ch, reader, client, past, done, call>>
    BY <1>21 DEF WatcherEnds
  <2>2. \A d \in Calls \ {c} : Undisturbed(d)
    BY <1>21, <2>1 DEF WatcherEnds, Drop, MapTyped, Undisturbed, InHand
  <2>3. c \in done \/ call[c].at = "over" \/ Undisturbed(c)
    BY <1>21, <2>1 DEF WatcherEnds, Undisturbed, InHand
  <2> QED
    BY <1>0, <2>1, <2>2, <2>3 DEF Accounted
<1>22. ASSUME NEW c \in Calls, Receive(c) PROVE Accounted'
  <2>1. UNCHANGED <<chClosed, reader, client, past, done>>
    BY <1>22 DEF Receive
  <2>2. \A d \in Calls \ {c} : ch'[d] = ch[d]
    BY <1>22 DEF Receive, ChannelsTyped
  <2>3. CASE Head(ch[c]) # "chunk"
    <3>1. \E result \in {"ok", "error"} : Returns(c, result)
      BY <1>22, <2>3 DEF Receive
    <3> QED
      BY <1>0, <2>1, <2>2, <3>1, ReturnsOnly DEF Accounted, Undisturbed, InHand, Results
  <2>4. CASE Head(ch[c]) = "chunk"
    <3>1. call' = [call EXCEPT ![c].got = call[c].got + 1]
      BY <1>22, <2>4 DEF Receive
    <3>2. call'[c].got = call[c].got + 1 /\ call'[c].at = call[c].at
         /\ \A d \in Calls \ {c} : call'[d] = call[d]
      BY <3>1 DEF CallersTyped, Callers
    <3>3. call[c].got \in Nat /\ client.sent[c] \in Nat
      BY DEF CallersTyped, Callers, ClientTyped
    <3>4. /\ Len(ch[c]) \in Nat /\ Len(ch'[c]) \in Nat /\ Len(ch[c]) = Len(ch'[c]) + 1
          /\ \A i \in 1..Len(ch'[c]) : ch'[c][i] = ch[c][i + 1]
          /\ ch[c][1] = "chunk"
      <4>1. ch[c] \in Seq(Kinds) /\ ch[c] # <<>> /\ ch'[c] = Tail(ch[c]) /\ ch[c][1] = "chunk"
        BY <1>22, <2>4 DEF Receive, ChannelsTyped
      <4> QED
        BY <4>1
    <3>5. CASE Flowing(c)
      <4>1. InHand(c)' = InHand(c) /\ InHand(c) \in Nat
        BY <2>1 DEF InHand
      <4>2. \A i \in 1..Len(ch'[c]) : ch'[c][i] = "chunk"
        BY <3>4, <3>5 DEF Flowing
      <4>3. call'[c].got + Len(ch'[c]) + InHand(c)' = client'.sent[c]
        <5>1. call[c].got + Len(ch[c]) + InHand(c) = client.sent[c]
          BY <3>5 DEF Flowing
        <5>2. call'[c].got = call[c].got + 1 /\ client'.sent[c] = client.sent[c]
          BY <2>1, <3>2
        <5>3. call[c].got + Len(ch[c]) + InHand(c) = (call[c].got + 1) + Len(ch'[c]) + InHand(c)
          <6>1. Len(ch[c]) = Len(ch'[c]) + 1 /\ Len(ch'[c]) \in Nat
            BY <3>4
          <6>2. ASSUME NEW a \in Nat, NEW b \in Nat, NEW d \in Nat PROVE a + (b + 1) + d = (a + 1) + b + d
            OBVIOUS
          <6> QED
            BY <3>3, <4>1, <6>1, <6>2
        <5> QED
          BY <4>1, <5>1, <5>2, <5>3
      <4>4. Flowing(c)'
        BY <2>1, <3>5, <4>2, <4>3 DEF Flowing
      <4> QED
        BY <1>0, <2>1, <2>2, <3>2, <4>4 DEF Accounted, Accountable, Undisturbed, InHand
    <3>6. CASE \E k \in 1..Len(ch[c]) : EndsAt(c, k)
      <4>1. PICK k \in 1..Len(ch[c]) : EndsAt(c, k)
        BY <3>6
      <4>2. k # 1
        BY <3>4, <4>1 DEF EndsAt
      <4>3. PICK n \in Nat : n \in 1..Len(ch'[c]) /\ k = n + 1
        BY <3>4, <4>1, <4>2
      <4>4. \A i \in 1..(n - 1) : ch'[c][i] = "chunk"
        <5>1. ASSUME NEW i \in 1..(n - 1) PROVE i \in 1..Len(ch'[c]) /\ i + 1 \in 1..(k - 1)
          BY <3>4, <4>3
        <5>2. \A i \in 1..(k - 1) : ch[c][i] = "chunk"
          BY <4>1 DEF EndsAt
        <5> QED
          BY <3>4, <5>1, <5>2
      <4>5. ch'[c][n] = ch[c][k] /\ call'[c].got + n - 1 = call[c].got + k - 1
        <5>1. ch'[c][n] = ch[c][n + 1]
          BY <3>4, <4>3
        <5>2. call'[c].got = call[c].got + 1
          BY <3>2
        <5> QED
          BY <3>3, <4>3, <5>1, <5>2
      <4>6. EndsAt(c, n)'
        BY <2>1, <4>1, <4>4, <4>5 DEF EndsAt
      <4> QED
        BY <1>0, <2>1, <2>2, <3>2, <4>3, <4>6 DEF Accounted, Accountable, Undisturbed, InHand
    <3>7. CASE ~Accountable(c)
      BY <1>22, <1>0, <2>1, <2>2, <3>2, <3>7 DEF Accounted, Receive, Undisturbed, InHand
    <3> QED
      BY <3>5, <3>6, <3>7 DEF Accountable
  <2> QED
    BY <2>3, <2>4
<1>23. ASSUME NEW c \in Calls, ReceiveClosed(c) PROVE Accounted'
  <2>1. UNCHANGED <<ch, chClosed, reader, client, past, done>>
    BY <1>23 DEF ReceiveClosed
  <2>2. \E result \in Results : Returns(c, result)
    BY <1>23 DEF ReceiveClosed, Results
  <2> QED
    BY <1>0, <2>1, <2>2, ReturnsOnly DEF Accounted, Undisturbed, InHand
<1>24. ASSUME NEW c \in Calls, ReceiveDone(c) PROVE Accounted'
  <2>1. UNCHANGED <<ch, chClosed, reader, client, past, done>>
    BY <1>24 DEF ReceiveDone
  <2>2. \E result \in Results : Returns(c, result)
    BY <1>24 DEF ReceiveDone, Results
  <2> QED
    BY <1>0, <2>1, <2>2, ReturnsOnly DEF Accounted, Undisturbed, InHand
<1>25. ASSUME NEW c \in Calls, RangeYields(c) PROVE Accounted'
  <2>1. \A d \in Calls : Undisturbed(d) /\ UNCHANGED <<call, done, past>>
    BY <1>25 DEF RangeYields, calls, Undisturbed, InHand
  <2> QED
    BY <1>0, <2>1 DEF Accounted
<1>26. ASSUME NEW c \in Calls, NEW kind \in Kinds, DispatchLoads(c, kind) PROVE Accounted'
  <2>1. UNCHANGED <<ch, chClosed, call, past, done>> /\ reader.at = "reading"
    BY <1>26 DEF DispatchLoads, calls
  <2>2. \A d \in Calls \ {c} : Undisturbed(d)
    BY <1>26, <2>1 DEF DispatchLoads, Undisturbed, InHand, ClientTyped
  <2>3. ASSUME Accountable(c), call[c].at \in {"stored", "checked", "waiting"} PROVE Accountable(c)'
    <3>1. c \in client.knows \ client.ended /\ call[c].at = "waiting"
      BY <1>26, <2>3 DEF DispatchLoads, Fresh
    <3>2. CASE \E k \in 1..Len(ch[c]) : EndsAt(c, k)
      BY <2>1, <3>1, <3>2, EndKept
    <3>3. CASE Flowing(c)
      <4>1. c \in pending
        BY <3>1, <3>3 DEF Flowing, Entered
      <4>2. reader' = [at |-> "found", holds |-> c, kind |-> kind] /\ InHand(c) = 0
        BY <1>26, <2>1, <4>1 DEF DispatchLoads, InHand
      <4>3. CASE kind = "chunk"
        <5>1. InHand(c)' = 1 /\ client'.sent[c] = client.sent[c] + 1
          BY <1>26, <4>2, <4>3 DEF DispatchLoads, InHand, ClientTyped
        <5> QED
          BY <2>1, <3>3, <4>2, <5>1 DEF Accountable, Flowing, ClientTyped, CallersTyped, Callers,
             ChannelsTyped
      <4>4. CASE kind # "chunk"
        <5>1. InHand(c)' = 0 /\ client'.sent[c] = client.sent[c]
          BY <1>26, <4>2, <4>4 DEF DispatchLoads, InHand, ClientTyped
        <5> QED
          BY <2>1, <3>3, <4>2, <5>1 DEF Accountable, Flowing
      <4> QED
        BY <4>3, <4>4
    <3> QED
      BY <2>3, <3>2, <3>3 DEF Accountable
  <2> QED
    BY <1>0, <2>1, <2>2, <2>3 DEF Accounted
<1> QED
  BY <1>1, <1>2, <1>3, <1>4, <1>5, <1>6, <1>7, <1>8, <1>9, <1>10, <1>11, <1>12, <1>13, <1>14, <1>15,
     <1>16, <1>17, <1>18, <1>19, <1>20, <1>21, <1>22, <1>23, <1>24, <1>25, <1>26 DEF Next,
     SessionStep, CallStep

--------------------------------------------------------------------------------

\* The invariant holds at first.
LEMMA InitIInv == Init => IInv
<1> SUFFICES ASSUME Init PROVE IInv
  OBVIOUS
<1> USE RelayAssumption DEF Init
<1>1. SessionTyped /\ CleanerTyped /\ ReaderTyped /\ MapTyped
  BY DEF SessionTyped, CleanerTyped, ReaderTyped, MapTyped, Holds, Kinds
<1>2. ChannelsTyped /\ CallersTyped /\ ClientTyped /\ PastTyped
  BY DEF ChannelsTyped, CallersTyped, ClientTyped, PastTyped, Callers, Places, Results
<1>3. Held /\ Announced /\ Entered /\ Visiting /\ Fresh
  BY DEF Held, Announced, Entered, Visiting, Fresh
<1>4. ToldWhenSessionDies /\ TruncatedOnlyByOverflow /\ Accounted
  BY DEF ToldWhenSessionDies, TruncatedOnlyByOverflow, Accounted
<1> QED
  BY <1>1, <1>2, <1>3, <1>4 DEF IInv, TypeOK

\* Every step keeps it.
LEMMA NextIInv == IInv /\ [Next]_vars => IInv'
  BY TypeStep, HeldStep, AnnouncedStep, EnteredStep, VisitingStep, ToldStep, FreshStep, TruncatedStep,
     AccountedStep DEF IInv

\* So it always holds.
LEMMA Invariance == Spec => []IInv
  BY InitIInv, NextIInv, PTL DEF Spec

\* The type invariant holds for any calls and any buffer: no channel exceeds its capacity.
THEOREM TypeCorrect == Spec => []TypeOK
<1>1. IInv => TypeOK
  BY DEF IInv
<1> QED
  BY <1>1, Invariance, PTL

\* session.go: no call that passed the look at closed is left waiting on an open channel of a session
\* that has been cleaned up.
THEOREM NobodyForgotten == Spec => []ToldWhenSessionDies
<1>1. IInv => ToldWhenSessionDies
  BY DEF IInv
<1> QED
  BY <1>1, Invariance, PTL

\* http.go: what is reported as a complete answer is one, unless a message found the channel full.
THEOREM AnswersAreWhole == Spec => []TruncatedOnlyByOverflow
<1>1. IInv => TruncatedOnlyByOverflow
  BY DEF IInv
<1> QED
  BY <1>1, Invariance, PTL

\* manager.go: when the cleanup of an announced session is over, its credential is withdrawn.
THEOREM CredentialsWithdrawn == Spec => []AuthGoneWithSession
<1>1. IInv => AuthGoneWithSession
  BY DEF IInv, Announced, AuthGoneWithSession
<1> QED
  BY <1>1, Invariance, PTL
==============================================================================
