---------------------------- MODULE MCPayments ----------------------------
(* Small histories for TLC: one or two orders, up to two requests at once, *)
(* Free, a Pro plan and a Premium plan.                                    *)
EXTENDS Payments, TLC

CONSTANTS p1, p2, r1, r2, free, pro, premium

Rank3 == free :> 0 @@ pro :> 1 @@ premium :> 2

Signed(S) == [plan : S, signed : {TRUE}]
Unsigned(S) == [plan : S, signed : {FALSE}]
SignedPro == Signed({pro})
SignedBoth == Signed({pro, premium})
UnsignedPro == Unsigned({pro})

Requests2 == Permutations({r1, r2})
Payments2 == Permutations({p1, p2})
Symmetry == {f @@ g : f \in Requests2, g \in Payments2}

(* The Premium plan ends at 1, and p1 has prepaid the Pro plan after it.   *)
PrepaidInit ==
  LET sub == [plan |-> premium, until |-> 1, credit |-> NoPay]
  IN /\ org = [sub |-> sub, expiredFrom |-> free,
               sched |-> [plan |-> pro, start |-> 1, until |-> 2, pay |-> p1]]
     /\ pay = [p \in Payments |->
          IF p = p1
          THEN [status |-> "paid",
                order |-> [plan |-> pro, signed |-> TRUE, seen |-> sub, until |-> 2],
                paidAt |-> 0, applying |-> "overdue", applied |-> TRUE,
                refund |-> "none"]
          ELSE [status |-> "none", order |-> NoOrder, paidAt |-> 0,
                applying |-> "no", applied |-> FALSE, refund |-> "none"]]
     /\ bank = [p \in Payments |->
          [held |-> IF p = p1 THEN "right" ELSE "no", returned |-> {},
           told |-> p = p1]]
     /\ req = [r \in Requests |-> Idle]
     /\ now = 0
     /\ bought = [p \in Payments |-> 0]

(* A workspace before its first order, or with the prepaid plan.           *)
TermsSpec == (Init \/ PrepaidInit) /\ [][Next]_vars
=============================================================================
