----------------------------- MODULE MCFollowupQueue -----------------------------
(* Three deliveries on two routes.  By default the third repeats the first message. *)
EXTENDS FollowupQueue

MCDeliveries == {"d1", "d2", "d3"}
MCMessageOf == [d \in MCDeliveries |-> IF d = "d2" THEN "m2" ELSE "m1"]
MCDistinct == [d \in MCDeliveries |-> d]
MCRouteOf == [d \in MCDeliveries |-> IF d = "d2" THEN "telegram" ELSE "slack"]
MCSlots == {1, 2}

Collect == [mode |-> "collect", cap |-> 2, dropPolicy |-> "summarize"]
Followup == [mode |-> "followup", cap |-> 1, dropPolicy |-> "summarize"]
DropOld == [mode |-> "followup", cap |-> 1, dropPolicy |-> "old"]
DropNew == [mode |-> "collect", cap |-> 1, dropPolicy |-> "new"]
\* Every mode with every policy: the settings may change between two messages.
MCSettings == {Collect, Followup, DropOld, DropNew}
MCThree == {Collect, DropOld, DropNew}
================================================================================
