----------------------------- MODULE StoreService -----------------------------
(***************************************************************************)
(* What those who change the session store are promised, with no process,  *)
(* queue, lock or copy in sight: each change is made at one instant, as a  *)
(* whole, and what is made stays.                                          *)
(*                                                                         *)
(*     not asked -> asked -> made -> answered "ok"   |   answered "failed" *)
(*                                                                         *)
(* A change that only looks ("touch") is answered and makes nothing.  The  *)
(* promise ends when the exclusion breaks; answers are still given once.   *)
(***************************************************************************)
CONSTANT Changes   \* the calls that change the store

VARIABLES
  asked,    \* what each call wants
  made,     \* the changes that the store has
  answer,   \* what each caller was told
  broken    \* whether the exclusion has been broken

vars == <<asked, made, answer, broken>>

Init ==
  /\ asked = [c \in Changes |-> "nothing"]
  /\ made = {}
  /\ answer = [c \in Changes |-> "none"]
  /\ broken = FALSE

\* At most this is made in a step, and nothing that was made is lost.
Makes(new) ==
  /\ broken => broken'
  /\ broken' \/ made' = made \cup new

Ask(c) ==
  /\ asked[c] = "nothing"
  /\ \E what \in {"change", "touch"} : asked' = [asked EXCEPT ![c] = what]
  /\ Makes({})
  /\ UNCHANGED answer

Wanted(c) == IF asked[c] = "change" THEN {c} ELSE {}
Pending(c) == asked[c] # "nothing" /\ answer[c] = "none"

\* A change is in the store before its caller is told, if he ever is.
Make(c) ==
  /\ Pending(c)
  /\ Makes(Wanted(c))
  /\ UNCHANGED <<asked, answer>>

Confirm(c) ==
  /\ Pending(c)
  /\ broken' \/ Wanted(c) \subseteq made
  /\ Makes({})
  /\ answer' = [answer EXCEPT ![c] = "ok"]
  /\ UNCHANGED asked

\* What is refused has not been made.
Refuse(c) ==
  /\ Pending(c)
  /\ broken' \/ c \notin made
  /\ Makes({})
  /\ answer' = [answer EXCEPT ![c] = "failed"]
  /\ UNCHANGED asked

Break == broken' /\ UNCHANGED <<asked, answer>>

Next == (\E c \in Changes : Ask(c) \/ Make(c) \/ Confirm(c) \/ Refuse(c)) \/ Break

Spec == Init /\ [][Next]_vars
================================================================================
