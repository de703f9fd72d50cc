------------------------------ MODULE MCGatewayRuns ------------------------------
(* Two runs of one session, the second inside a manual cron run.             *)
EXTENDS GatewayRuns, TLC

MCRuns == {"r1", "c1"}
MCCronRuns == {"c1"}
MCSessions == {"session:a"}
MCSessionOf == [r \in MCRuns |-> "session:a"]
MCLaneArg == [r \in MCRuns |-> IF r = "c1" THEN "cron" ELSE ""]
================================================================================
