------------------------------ MODULE LaneService ------------------------------
(***************************************************************************)
(* What a caller of enqueueCommandInLane is promised, with no lane, slot,  *)
(* generation or pump in sight: every call goes once through               *)
(*                                                                         *)
(*     new -> waiting -> executing -> resolved | rejected                  *)
(*                                                                         *)
(* or is turned away (refused, cleared) before it has run, and the calls   *)
(* of a lane start in the order they were accepted.                        *)
(***************************************************************************)
EXTENDS Integers

CONSTANTS Calls,        \* the calls of enqueueCommandInLane
          Lanes,        \* the command lanes
          LaneOf        \* the lane each call names

VARIABLES phase,        \* where each call is
          acceptedAt    \* when it was accepted; 0 before

vars == <<phase, acceptedAt>>

Phases == {"new", "waiting", "executing", "resolved", "rejected", "cleared", "refused"}
HasStarted == {"executing", "resolved", "rejected"}

\* One synchronous step of the program may take a call along one of these edges.
\* A call that finds a free slot starts in the step that accepts it.
Edges ==
  { <<"new", "refused">>, <<"new", "waiting">>, <<"new", "executing">>,
    <<"waiting", "executing">>, <<"waiting", "cleared">>,
    <<"executing", "resolved">>, <<"executing", "rejected">> }

Init ==
  /\ phase = [c \in Calls |-> "new"]
  /\ acceptedAt = [c \in Calls |-> 0]

Overtakes(later, earlier) ==
  /\ LaneOf[later] = LaneOf[earlier]
  /\ phase[later] \in HasStarted
  /\ phase[earlier] = "waiting"
  /\ acceptedAt[earlier] < acceptedAt[later]

InOrder == \A c, d \in Calls : ~Overtakes(c, d)

\* Once given, the place in the order of acceptance is kept.
KeepsPlace(c) == acceptedAt[c] # 0 => acceptedAt'[c] = acceptedAt[c]

Next ==
  /\ \A c \in Calls : \/ phase'[c] = phase[c]
                      \/ <<phase[c], phase'[c]>> \in Edges
  /\ \A c \in Calls : KeepsPlace(c)
  /\ InOrder'

Spec == Init /\ [][Next]_vars
================================================================================
