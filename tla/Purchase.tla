----------------------------- MODULE Purchase -----------------------------
(* What paying for a plan promises, whoever reports the payment and        *)
(* however often: money that is held either buys the plan or goes back,    *)
(* and neither is ever undone.                                             *)
CONSTANTS Payments

VARIABLE deal

Init == deal = [p \in Payments |-> "open"]

Becomes(p, from, to) ==
  /\ deal[p] = from
  /\ deal' = [deal EXCEPT ![p] = to]

Hold(p) == Becomes(p, "open", "held")
Use(p) == Becomes(p, "held", "used")
Return(p) == Becomes(p, "held", "returned")

Next == \E p \in Payments : Hold(p) \/ Use(p) \/ Return(p)

Spec == Init /\ [][Next]_deal
=============================================================================
