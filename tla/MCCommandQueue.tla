----------------------------- MODULE MCCommandQueue -----------------------------
(* Three calls compete for one lane: one runs while two wait in order.        *)
EXTENDS CommandQueue, TLC

MCLanes == {"main"}
MCCalls == {"m1", "m2", "m3"}
MCLaneOf == [c \in MCCalls |-> "main"]
\* 0 is what Math.max(1, ...) turns into 1.
MCConcurrencyArgs == {0, 2}
================================================================================
