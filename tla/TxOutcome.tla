------------------------------ MODULE TxOutcome ------------------------------
(***************************************************************************)
(* What sendExtrinsic promises its caller, without nodes, pools, forks or  *)
(* callbacks: there is a growing record of final outcomes, at most one per *)
(* call; a call is made after the calls the caller awaits have settled;    *)
(* and a promise settles once, with the final outcome of its own call.     *)
(***************************************************************************)
CONSTANTS Calls, After, Results, Pending

VARIABLES
  made,    \* the calls of sendExtrinsic made so far
  final,   \* final[c]: the final outcome of c on the chain, or Pending
  promise  \* promise[c]: what the caller of c holds

vars == <<made, final, promise>>

Init ==
  /\ made = {}
  /\ final = [c \in Calls |-> Pending]
  /\ promise = [c \in Calls |-> Pending]

Make(c) ==
  /\ c \notin made
  /\ \A d \in After[c] : promise[d] # Pending
  /\ made' = made \cup {c}
  /\ UNCHANGED <<final, promise>>

\* A finalized block fixes the outcome of some calls, for good.
Record ==
  /\ final' \in [Calls -> Results \cup {Pending}]
  /\ \A c \in Calls : final'[c] # final[c] => final[c] = Pending /\ c \in made
  /\ UNCHANGED <<made, promise>>

Settle(c) ==
  /\ promise[c] = Pending
  /\ final[c] # Pending
  /\ promise' = [promise EXCEPT ![c] = final[c]]
  /\ UNCHANGED <<made, final>>

Next == Record \/ \E c \in Calls : Make(c) \/ Settle(c)

Spec == Init /\ [][Next]_vars
=============================================================================
