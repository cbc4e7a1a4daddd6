------------------------------ MODULE MCSeats ------------------------------
(* A small workspace for TLC: an account, a person who has not signed      *)
(* up yet, and two invites to that person's address.                       *)
EXTENDS Seats, TLC

CONSTANTS o1, u1, u2, e1, e2, i1, i2, r1, r2

AllForOne == i1 :> o1 @@ i2 :> o1
SameAddress == i1 :> e2 @@ i2 :> e2

(* Requests, and invites to one address, are alike.                        *)
Symmetry == Permutations({r1, r2}) \cup Permutations({i1, i2})

(* One account, nothing else.                                              *)
FirstInit ==
  /\ db = [x \in Docs |->
             IF x \in Orgs THEN [life |-> "none", seatLimit |-> FreeSeats,
                                 seatsUsed |-> 0, adminCount |-> 0]
             ELSE IF x \in Invites THEN [status |-> "none", role |-> "admin"]
             ELSE IF x = u1 THEN [life |-> "active", email |-> e1]
             ELSE IF x \in Users THEN [life |-> "none", email |-> NoEmail]
             ELSE "none"]
  /\ overdue = {}
  /\ req = [r \in Requests |-> Idle]

(* Bound: an account moves to another address or one is deleted, not both, *)
(* and no invite gets older after a deletion.                              *)
Moved == db[u1].email = e2
Deleted == \E u \in Users : db[u].life = "deleted"

FirstNext ==
  /\ Next
  /\ ~(Moved /\ Deleted') /\ ~(Deleted /\ Moved')
  /\ Deleted => overdue' \subseteq overdue

FirstSpec == FirstInit /\ [][FirstNext]_vars

=============================================================================
