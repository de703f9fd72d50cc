------------------------------ MODULE MCWsRelay ------------------------------
(* The calls of the relay as model values.                                    *)
EXTENDS WsRelay

CONSTANTS c1, c2
MCOne == {c1}
MCTwo == {c1, c2}
==============================================================================
