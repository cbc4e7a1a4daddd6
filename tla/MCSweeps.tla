------------------------------ MODULE MCSweeps ------------------------------
(* What servers owe over time, for TLC, looked at from four sides one      *)
(* after the other: the lock of the sweeps of two servers, the archival    *)
(* of one of these sweeps beside requests (which keeps a hold of its own,  *)
(* whatever the lock does), a payment that somebody insists on, and the    *)
(* calls of a browser tab.                                                 *)
EXTENDS JobLock, GracePeriod, ApiClient, MCPayments

CONSTANTS s1, s2, w1, w2, j1, t1, t2, t3, c1, c2

(* What is looked at.                                                      *)
VARIABLE side

Sides == {"locks", "archival", "payment", "calls"}

(* What is not looked at has nothing to do.                                *)
SweepsInit ==
  /\ side \in Sides
  /\ LockInit
  /\ GraceInit
  /\ Init
  /\ ClientInit
  /\ side # "archival" => work = 0
  /\ side # "payment" => org.sub.plan = free
  /\ side # "calls" => serverUp

SweepsNext ==
  /\ \/ side = "locks" /\ LockNext /\ UNCHANGED <<graceVars, vars, clientVars>>
     \/ side = "archival" /\ GraceNext /\ UNCHANGED <<lockVars, vars, clientVars>>
     \/ side = "payment" /\ Next /\ UNCHANGED <<lockVars, graceVars, clientVars>>
     \/ side = "calls" /\ ClientNext /\ UNCHANGED <<lockVars, graceVars, vars>>
  /\ UNCHANGED side

SweepsSpec ==
  /\ SweepsInit
  /\ [][SweepsNext]_<<lockVars, graceVars, vars, clientVars, side>>
  /\ GraceFairness
  /\ ClientFairness
  /\ Diligence
  /\ \A p \in Payments : SF_vars(Insist(p))

(* Documents have their types.                                             *)
SweepsTypeOK == LockTypeOK /\ GraceTypeOK /\ ClientTypeOK /\ TypeOK

=============================================================================
