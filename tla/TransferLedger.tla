--------------------------- MODULE TransferLedger ---------------------------
(***************************************************************************)
(* What a cross-chain transfer promises: it takes the amount from the      *)
(* sender, once, and gives the same amount of the same asset to the        *)
(* recipient that was named, on the chain that was named; or it changes    *)
(* nothing; or the asset is trapped on the way.                            *)
(***************************************************************************)
EXTENDS Naturals

CONSTANTS Transfers

VARIABLES
  funds,   \* funds[<<chain, account, asset>>]
  order,   \* order[t]: what the caller asked for
  status   \* status[t]

vars == <<funds, order, status>>

Init ==
  /\ status = [t \in Transfers |-> "asked"]
  /\ \A t \in Transfers : order[t].amount \in Nat

Change(t, from, to) == status[t] = from /\ status' = [status EXCEPT ![t] = to]

Refuse(t) == Change(t, "asked", "refused") /\ UNCHANGED <<funds, order>>

Depart(t) ==
  /\ Change(t, "asked", "moving")
  /\ funds[order[t].from] >= order[t].amount
  /\ funds' = [funds EXCEPT ![order[t].from] = @ - order[t].amount]
  /\ UNCHANGED order

Arrive(t) ==
  /\ Change(t, "moving", "received")
  /\ funds' = [funds EXCEPT ![order[t].to] = @ + order[t].amount]
  /\ UNCHANGED order

Trap(t) == Change(t, "moving", "trapped") /\ UNCHANGED <<funds, order>>

Next == \E t \in Transfers : Refuse(t) \/ Depart(t) \/ Arrive(t) \/ Trap(t)

Spec == Init /\ [][Next]_vars
=============================================================================
