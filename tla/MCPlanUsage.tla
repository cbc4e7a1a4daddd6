---------------------------- MODULE MCPlanUsage ----------------------------
(* Small workspaces for TLC: up to two projects and three tasks, a Free    *)
(* plan with room for one project and one open task per project, and a     *)
(* paid plan with room for two of each.                                    *)
EXTENDS PlanUsage, TLC

CONSTANTS p1, p2, t1, t2, t3, r1, r2, free, pro

OneTaskEach == t1 :> p1 @@ t2 :> p2
TwoOfOne == t1 :> p1 @@ t2 :> p1
ThreeOfOne == t1 :> p1 @@ t2 :> p1 @@ t3 :> p1
TwoAndOne == t1 :> p1 @@ t2 :> p1 @@ t3 :> p2

Limits1and2 == free :> 1 @@ pro :> 2
Limits2and2 == free :> 2 @@ pro :> 2

(* Swapping the two projects together with their tasks, or the requests.   *)
Swap(a, b, c, d) == a :> b @@ b :> a @@ c :> d @@ d :> c
Requests2 == Permutations({r1, r2})
Symmetry ==
  Requests2 \cup {f @@ Swap(p1, p2, t1, t2) : f \in Requests2}

(* A workspace in use: every project and task there, on the paid plan.     *)
InUseInit ==
  /\ db = [x \in Docs |->
             IF x = Org
             THEN [plan |-> pro, projectCount |-> Cardinality(Projects)]
             ELSE IF x \in Projects THEN [life |-> "live", arch |-> "no"]
             ELSE [life |-> "live", arch |-> "no", status |-> "open"]]
  /\ aged = {}
  /\ req = [r \in Requests |-> Idle]

InUseSpec == InUseInit /\ [][Next]_vars
=============================================================================
