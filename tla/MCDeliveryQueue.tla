----------------------------- MODULE MCDeliveryQueue -----------------------------
(* One delivery, or two of which the second has bestEffort and onError.            *)
EXTENDS DeliveryQueue, TLC

MCBestEffort == {2}
MCOnError == {2}
MCNone == {}
MCSymmetry == Permutations(Scans)
================================================================================
