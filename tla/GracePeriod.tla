----------------------------- MODULE GracePeriod -----------------------------
(***************************************************************************)
(* What happens to a workspace after its paid plan has ended: ten days of  *)
(* grace, then the archival of whatever the Free plan has no room for      *)
(* (gracePeriod.service.ts, planLifecycle.ts). Every request and the sweep *)
(* move it along, on several servers at once.                              *)
(*                                                                         *)
(* work counts the projects and tasks in use, all that the archival is     *)
(* about; PlanUsage models which ones they are.                            *)
(***************************************************************************)
EXTENDS Integers, FiniteSets

CONSTANTS
  Workers,    \* requests and sweeps in flight at once
  MaxWork,    \* bound: work ever in use
  FreeWork,   \* what the Free plan has room for
  MaxShelved, \* bound: work archived in one expiry, which only what comes
              \* back from the bin makes more of
  GraceFaults      \* what goes wrong: "crash", "stall", "fail"

ASSUME GraceAssumption ==
  /\ MaxWork \in Nat /\ FreeWork \in 0..MaxWork
  /\ MaxShelved \in Nat /\ MaxShelved >= MaxWork - FreeWork

NoHold == "nobody"

ASSUME NobodyAssumption == NoHold \notin Workers

VARIABLES
  work,     \* the work in use
  plan,     \* of the organization: plan; grace is "none" without
            \* planExpiredAt, else whether graceEndsAt has passed;
            \* graceEnforcedAt; graceEnforcingAt and whether it is stale;
            \* graceArchived
  worker,   \* what each request or sweep is doing
  shelved,  \* what the archival has put away since the plan ended (history)
  through,  \* an archival has committed since the plan ended (history)
  lost      \* an archival of this expiry was not followed by its record
            \* (history)

graceVars == <<work, plan, worker, shelved, through, lost>>

PlanDocs == [paid : BOOLEAN, grace : {"none", "running", "over"},
             enforced : BOOLEAN, hold : Workers \cup {NoHold}, stale : BOOLEAN,
             archived : 0..MaxShelved]

Idling == [st |-> "idle"]
Stopped == [st |-> "down"]
DoesWork(w, st) == worker[w].st = st
Carries(w, q) == worker' = [worker EXCEPT ![w] = q]

Engaged == {w \in Workers : worker[w] \notin {Idling, Stopped}}

Holding == {w \in Workers : worker[w].st \in {"hold", "done", "failed"}}

(* What a change of plan clears.                                           *)
Cleared(p) == [p EXCEPT !.enforced = FALSE, !.hold = NoHold, !.stale = FALSE,
                        !.archived = 0]

(* A plan free of charge whose grace period has ended by the clock of the  *)
(* request.                                                                *)
Due == ~plan.paid /\ plan.grace = "over"

Over == work > FreeWork

-----------------------------------------------------------------------------
(* The plan ends (expirePlanIfDue), the ten days pass, and somebody pays   *)
(* (changePlan, activateScheduledPaidPlan). No request lasts for ten days, *)
(* nor for a term.                                                         *)
PlanEnds ==
  /\ plan.paid
  /\ Engaged = {}
  /\ plan' = [Cleared(plan) EXCEPT !.paid = FALSE, !.grace = "running"]
  /\ shelved' = 0
  /\ through' = FALSE
  /\ lost' = FALSE
  /\ UNCHANGED <<work, worker>>

GraceEnds ==
  /\ plan.grace = "running"
  /\ Engaged = {}
  /\ plan' = [plan EXCEPT !.grace = "over"]
  /\ UNCHANGED <<work, worker, shelved, through, lost>>

Renew ==
  /\ ~plan.paid
  /\ plan' = [Cleared(plan) EXCEPT !.paid = TRUE, !.grace = "none"]
  /\ shelved' = 0
  /\ through' = FALSE
  /\ lost' = FALSE
  /\ UNCHANGED <<work, worker>>

(* getPlanUsage.restricted or paused.                                      *)
Refused == ~plan.paid /\ Over

Room == IF plan.paid THEN MaxWork ELSE FreeWork

(* New work, within the limits and unless enforcePlanState refuses it.     *)
AddWork ==
  /\ ~Refused
  /\ work < Room
  /\ work' = work + 1
  /\ UNCHANGED <<plan, worker, shelved, through, lost>>

(* A project comes back from the bin with tasks nobody counts.             *)
RestoreWork ==
  /\ ~Refused
  /\ work < MaxWork
  /\ shelved + MaxWork - FreeWork <= MaxShelved
  /\ work' = MaxWork
  /\ UNCHANGED <<plan, worker, shelved, through, lost>>

RemoveWork ==
  /\ work > 0
  /\ work' = work - 1
  /\ UNCHANGED <<plan, worker, shelved, through, lost>>

-----------------------------------------------------------------------------
(* enforceGraceFully in a request, enforceDueGracePeriods in the sweep,    *)
(* which only looks again when the first try did nothing.                  *)
Enforce(w, sweep) ==
  /\ worker[w] = Idling
  /\ Due
  /\ Carries(w, [st |-> "try", again |-> FALSE, sweep |-> sweep])
  /\ UNCHANGED <<work, plan, shelved, through, lost>>

(* What the first update of enforceGraceIfDue matches.                     *)
Holdable(again) ==
  /\ Due
  /\ plan.enforced = again
  /\ plan.hold = NoHold \/ plan.stale

After(w, ran) ==
  IF worker[w].again \/ (ran /\ worker[w].sweep) THEN Idling
  ELSE [st |-> "look", sweep |-> worker[w].sweep]

(* Mutant of TakeHold: the workspace counts as archived from here on.      *)
TakeHold_Marks(w) ==
  /\ DoesWork(w, "try")
  /\ Holdable(worker[w].again)
  /\ plan' = [plan EXCEPT !.hold = w, !.stale = FALSE, !.enforced = TRUE]
  /\ Carries(w, [st |-> "hold", again |-> worker[w].again, sweep |-> worker[w].sweep,
               had |-> plan.archived])
  /\ UNCHANGED <<work, shelved, through, lost>>

TakeHold(w) ==
  /\ DoesWork(w, "try")
  /\ Holdable(worker[w].again)
  /\ plan' = [plan EXCEPT !.hold = w, !.stale = FALSE]
  /\ Carries(w, [st |-> "hold", again |-> worker[w].again, sweep |-> worker[w].sweep,
               had |-> plan.archived])
  /\ UNCHANGED <<work, shelved, through, lost>>

NoHoldForMe(w) ==
  /\ DoesWork(w, "try")
  /\ ~Holdable(worker[w].again)
  /\ Carries(w, After(w, FALSE))
  /\ UNCHANGED <<work, plan, shelved, through, lost>>

(* Mutant of Excess: the difference, even when there is room left.          *)
Excess_Signed == work - FreeWork

Excess == IF Over THEN work - FreeWork ELSE 0

(* Mutant of Archivable: the transaction does not look at the plan.        *)
Archivable_AnyPlan == Excess

(* archiveExcessForFree does nothing on a plan that is paid again.         *)
Archivable == IF plan.paid THEN 0 ELSE Excess

(* archiveExcessForFree, one transaction.                                  *)
ArchiveExcess(w) ==
  /\ DoesWork(w, "hold")
  /\ work' = work - Archivable
  /\ shelved' = shelved + Archivable
  /\ through' = TRUE
  /\ Carries(w, [st |-> "done", again |-> worker[w].again, sweep |-> worker[w].sweep,
               n |-> Archivable, had |-> worker[w].had])
  /\ UNCHANGED <<plan, lost>>

(* Mutant of Mine: the record is made whoever holds the workspace now.     *)
Mine_Any(w) == TRUE

Mine(w) == Due /\ plan.hold = w

(* Mutant of Recorded: a second archival forgets the first.                *)
Recorded_Last(w) ==
  [plan EXCEPT !.hold = NoHold, !.stale = FALSE, !.enforced = TRUE, !.archived = worker[w].n]

Recorded(w) ==
  [plan EXCEPT !.hold = NoHold, !.stale = FALSE, !.enforced = TRUE,
               !.archived = worker[w].n + IF worker[w].again THEN worker[w].had ELSE 0]

(* The update that ends the run matches the workspace only as it was held. *)
RecordArchival(w) ==
  /\ DoesWork(w, "done")
  /\ IF Mine(w) THEN plan' = Recorded(w) /\ UNCHANGED lost
     ELSE lost' = (lost \/ worker[w].n > 0) /\ UNCHANGED plan
  /\ Carries(w, After(w, Mine(w)))
  /\ UNCHANGED <<work, shelved, through>>

Unrecorded(w) == DoesWork(w, "done") /\ worker[w].n > 0

(* The archival or the record fails, and the hold is given up.             *)
FailArchival(w) ==
  /\ "fail" \in GraceFaults
  /\ worker[w].st \in {"hold", "done"}
  /\ lost' = (lost \/ Unrecorded(w))
  /\ Carries(w, [st |-> "failed", again |-> worker[w].again, sweep |-> worker[w].sweep])
  /\ UNCHANGED <<work, plan, shelved, through>>

ReleaseHold(w) ==
  /\ DoesWork(w, "failed")
  /\ plan' = IF plan.hold = w THEN [plan EXCEPT !.hold = NoHold, !.stale = FALSE] ELSE plan
  /\ Carries(w, After(w, FALSE))
  /\ UNCHANGED <<work, shelved, through, lost>>

(* Mutant of LookAgain: a workspace is archived once and no more.           *)
LookAgain_Once(w) ==
  /\ DoesWork(w, "look")
  /\ Carries(w, Idling)
  /\ UNCHANGED <<work, plan, shelved, through, lost>>

(* getPlanUsage, then perhaps enforceGraceIfDue with again.                *)
LookAgain(w) ==
  /\ DoesWork(w, "look")
  /\ Carries(w, IF Due /\ plan.enforced /\ Over
              THEN [st |-> "try", again |-> TRUE, sweep |-> worker[w].sweep]
              ELSE Idling)
  /\ UNCHANGED <<work, plan, shelved, through, lost>>

CrashWorker(w) ==
  /\ "crash" \in GraceFaults
  /\ worker[w] \notin {Idling, Stopped}
  /\ lost' = (lost \/ Unrecorded(w))
  /\ Carries(w, Stopped)
  /\ UNCHANGED <<work, plan, shelved, through>>

RestartWorker(w) ==
  /\ worker[w] = Stopped
  /\ Carries(w, Idling)
  /\ UNCHANGED <<work, plan, shelved, through, lost>>

(* CLAIM_STALE_MS: two minutes are longer than an archival takes, unless   *)
(* it stalls.                                                              *)
HoldStale ==
  /\ plan.hold # NoHold
  /\ ~plan.stale
  /\ "stall" \in GraceFaults \/ plan.hold \notin Holding
  /\ plan' = [plan EXCEPT !.stale = TRUE]
  /\ UNCHANGED <<work, worker, shelved, through, lost>>

GraceInit ==
  /\ work \in 0..MaxWork
  /\ plan = [paid |-> TRUE, grace |-> "none", enforced |-> FALSE, hold |-> NoHold,
             stale |-> FALSE, archived |-> 0]
  /\ worker = [w \in Workers |-> Idling]
  /\ shelved = 0
  /\ through = FALSE
  /\ lost = FALSE

SweepComes == \E w \in Workers : Enforce(w, TRUE)

Goes(w) ==
  TakeHold(w) \/ NoHoldForMe(w) \/ ArchiveExcess(w) \/ RecordArchival(w) \/ LookAgain(w)
    \/ ReleaseHold(w) \/ RestartWorker(w)

GoesWrong(w) == FailArchival(w) \/ CrashWorker(w)

GraceNext ==
  \/ PlanEnds \/ GraceEnds \/ Renew \/ HoldStale
  \/ AddWork \/ RestoreWork \/ RemoveWork
  \/ \E w \in Workers : Goes(w) \/ GoesWrong(w) \/ \E sweep \in BOOLEAN : Enforce(w, sweep)

GraceSpec == GraceInit /\ [][GraceNext]_graceVars

(* A server goes through with what it has begun, a hold nobody uses gets   *)
(* old, the sweep comes every half an hour, and failures stop some time.   *)
GraceFairness ==
  /\ \A w \in Workers : WF_graceVars(Goes(w))
  /\ WF_graceVars(plan.hold \notin Holding /\ HoldStale)
  /\ SF_graceVars(SweepComes)
  /\ <>[][\A w \in Workers : ~GoesWrong(w)]_graceVars

FairGraceSpec == GraceSpec /\ GraceFairness

-----------------------------------------------------------------------------
(* Work, plan and counts have their types.                                 *)
GraceTypeOK ==
  /\ work \in 0..MaxWork
  /\ plan \in PlanDocs
  /\ shelved \in 0..MaxShelved

(* Buying a plan leaves nothing of the grace period behind, whatever was   *)
(* archiving at the time, and nothing is archived on a paid plan.          *)
PaidIsClean ==
  plan.paid =>
    /\ plan.grace = "none" /\ ~plan.enforced /\ plan.archived = 0 /\ plan.hold = NoHold
    /\ shelved = 0

(* "A request that arrives meanwhile still sees the grace rules instead of *)
(* a workspace that looks paused": only a workspace that has been through  *)
(* an archival since its plan ended counts as archived. What is said to    *)
(* have been archived was, and is all of it unless a record was lost.      *)
SummaryAddsUp ==
  /\ plan.enforced => through
  /\ plan.archived <= shelved
  /\ plan.enforced /\ ~lost /\ (\A w \in Workers : ~DoesWork(w, "done")) =>
       plan.archived = shelved

(* The state of the organization and the archival agree.                   *)
GraceInOrder == PaidIsClean /\ SummaryAddsUp

(* A workspace over the Free plan when its grace ends is brought within it *)
(* unless somebody pays, however many runs crash, fail or stall on the way *)
(* (enforceDueGracePeriods).                                               *)
EventuallyWithinFree == Due /\ Over ~> plan.paid \/ ~Over
=============================================================================
