----------------------------- MODULE PlanNotices -----------------------------
(***************************************************************************)
(* The notice each administrator has of a plan that ends or has ended      *)
(* (planReminders.ts): found, deleted and written in three database calls, *)
(* by sweeps that may overlap when one outlasts its claim or the test      *)
(* controls run it.                                                        *)
(***************************************************************************)
EXTENDS Integers, FiniteSets

CONSTANTS
  Admins,     \* administrators of the workspace
  Notifiers,  \* runs of sendPlanRenewalReminders at once
  MaxTerm     \* bound: end dates, and purchases

ASSUME NoticesAssumption == MaxTerm \in Nat

VARIABLES
  term,      \* which date the plan ends or ended on, the stage it is at, and
             \* the purchase the plan was last changed by
  notice,    \* the renewal notification of each administrator
  notifier,  \* what each run is doing
  overlapped,  \* administrators a run wrote to while another one did or was to
               \* come with another stage (history)
  outdated,  \* administrators a run had still to write to when the plan was
             \* bought (history)
  dropped    \* what each administrator has dismissed since the plan was
             \* bought, unless runs overlapped (history)

noticeVars == <<term, notice, notifier, overlapped, outdated, dropped>>

(* 0: more than a week to go. renewalStage: 1 is "7d", 2 is "1d"; after    *)
(* the end 3 is "expired", 4 "archived"; 5: a month after the end.         *)
Stages == 1..4

(* A notice keeps its stage and the end date, and its message names the    *)
(* plan as the last purchase left it.                                      *)
NoNotice == [st |-> "none", stage |-> 0, n |-> 0, deal |-> 0]
NoticeDocs == {NoNotice} \cup
  [st : {"live", "dismissed"}, stage : Stages, n : 0..MaxTerm, deal : 0..MaxTerm]

Still == [st |-> "idle"]

(* Run s goes on as q; with nobody left to tell it is through.             *)
Notifies(s, q) ==
  notifier' = [notifier EXCEPT ![s] = IF q.st = "next" /\ q.todo = {} THEN Still ELSE q]

(* Between the look at an administrator's notice and the new one.          *)
AtNotice(s) == notifier[s].st \in {"delete", "create"}

(* A run has still to look at an administrator, or is at it.               *)
ToTell(s, a) == notifier[s] # Still /\ a \in notifier[s].todo
Tells(s, a) == AtNotice(s) /\ notifier[s].who = a

(* About whom a run has still to write.                                    *)
BeingTold == {a \in Admins : \E s \in Notifiers : ToTell(s, a) \/ Tells(s, a)}

(* Run x and one that looks at a's notice for the job q disturb each other: *)
(* both are at this notice, or x has yet to come with another stage.       *)
Collides(x, q, a) ==
  \/ Tells(x, a)
  \/ ToTell(x, a) /\ <<notifier[x].n, notifier[x].stage>> # <<q.n, q.stage>>

-----------------------------------------------------------------------------
(* The end of the plan comes nearer, passes and is forgotten.              *)
TermAges ==
  /\ term.stage < 5
  /\ term' = [term EXCEPT !.stage = @ + 1]
  /\ UNCHANGED <<notice, notifier, overlapped, outdated, dropped>>

(* activateScheduledPaidPlan: at the end of the plan, or after it, one paid *)
(* for ahead begins. The notices stay as they are.                         *)
ActivatePlan ==
  /\ term.stage >= 2
  /\ term.n < MaxTerm
  /\ term' = [n |-> term.n + 1, stage |-> 0, deal |-> term.deal]
  /\ UNCHANGED <<notice, notifier, overlapped, outdated, dropped>>

(* changePlan: "Buying a plan answers any renew your plan notice", the     *)
(* dismissed ones too.                                                     *)
Bought ==
  /\ notice' = [a \in Admins |-> NoNotice]
  /\ outdated' = outdated \cup BeingTold
  /\ overlapped' = overlapped \cap BeingTold
  /\ dropped' = [a \in Admins |-> {}]
  /\ UNCHANGED notifier

(* A purchase that sets another end date; a payment honoured late may      *)
(* leave little of the term.                                               *)
RenewPlan ==
  /\ term.n < MaxTerm /\ term.deal < MaxTerm
  /\ \E left \in 0..2 : term' = [n |-> term.n + 1, stage |-> left, deal |-> term.deal + 1]
  /\ Bought

(* quotePlan: an upgrade within the cycle keeps the end date.              *)
UpgradePlan ==
  /\ term.stage <= 2
  /\ term.deal < MaxTerm
  /\ term' = [term EXCEPT !.deal = @ + 1]
  /\ Bought

DismissNotice(a) ==
  /\ notice[a].st = "live"
  /\ notice' = [notice EXCEPT ![a].st = "dismissed"]
  /\ dropped' = IF a \in overlapped THEN dropped
                ELSE [dropped EXCEPT ![a] = @ \cup {<<notice[a].n, notice[a].stage>>}]
  /\ UNCHANGED <<term, notifier, overlapped, outdated>>

(* sendPlanRenewalReminders: the organizations that are due.               *)
FindTerms(s) ==
  /\ notifier[s] = Still
  /\ term.stage \in Stages
  /\ Notifies(s, [st |-> "next", todo |-> Admins, who |-> "nobody",
                  stage |-> term.stage, n |-> term.n, deal |-> term.deal])
  /\ UNCHANGED <<term, notice, overlapped, outdated, dropped>>

(* Mutant of Has: only a notice that is still shown counts.                *)
Has_Shown(q, a) == notice[a].st = "live" /\ notice[a].stage = q.stage /\ notice[a].n = q.n

(* writeReminder: "unless they already have exactly this step for this end *)
(* date".                                                                  *)
Has(q, a) == notice[a].st # "none" /\ notice[a].stage = q.stage /\ notice[a].n = q.n

FindNotice(s, a) ==
  LET q == notifier[s]
      clash == \E x \in Notifiers \ {s} : Collides(x, q, a)
  IN  /\ q.st = "next"
      /\ a \in q.todo
      /\ Notifies(s, [q EXCEPT !.todo = @ \ {a}, !.who = a,
                               !.st = IF Has(q, a) THEN "next" ELSE "delete"])
      /\ overlapped' = IF clash THEN overlapped \cup {a} ELSE overlapped
      /\ dropped' = IF clash THEN [dropped EXCEPT ![a] = {}] ELSE dropped
      /\ UNCHANGED <<term, notice, outdated>>

DeleteNotice(s) ==
  LET q == notifier[s]
  IN  /\ q.st = "delete"
      /\ notice' = [notice EXCEPT ![q.who] = NoNotice]
      /\ Notifies(s, [q EXCEPT !.st = "create"])
      /\ UNCHANGED <<term, overlapped, outdated, dropped>>

(* The unique index lets one of two runs write: "Another server wrote the  *)
(* same notice a moment ago."                                              *)
CreateNotice(s) ==
  LET q == notifier[s]
  IN  /\ q.st = "create"
      /\ notice' = IF notice[q.who] = NoNotice
                   THEN [notice EXCEPT ![q.who] = [st |-> "live", stage |-> q.stage,
                                                   n |-> q.n, deal |-> q.deal]]
                   ELSE notice
      /\ Notifies(s, [q EXCEPT !.st = "next"])
      /\ UNCHANGED <<term, overlapped, outdated, dropped>>

(* A call failed and the run is given up, or the server stopped.           *)
NotifierEnds(s) ==
  /\ notifier[s] # Still
  /\ Notifies(s, Still)
  /\ UNCHANGED <<term, notice, overlapped, outdated, dropped>>

NoticesInit ==
  /\ term = [n |-> 0, stage |-> 0, deal |-> 0]
  /\ notice = [a \in Admins |-> NoNotice]
  /\ notifier = [s \in Notifiers |-> Still]
  /\ overlapped = {} /\ outdated = {}
  /\ dropped = [a \in Admins |-> {}]

(* When a purchase went past a run about everybody little more is said.    *)
NoticesNext == outdated # Admins /\ (
  \/ TermAges \/ ActivatePlan \/ RenewPlan \/ UpgradePlan
  \/ \E a \in Admins : DismissNotice(a) \/ \E s \in Notifiers : FindNotice(s, a)
  \/ \E s \in Notifiers : FindTerms(s) \/ DeleteNotice(s) \/ CreateNotice(s) \/ NotifierEnds(s))

NoticesSpec == NoticesInit /\ [][NoticesNext]_noticeVars

-----------------------------------------------------------------------------
(* Terms and notices have their types.                                     *)
NoticesTypeOK ==
  /\ term \in [n : 0..MaxTerm, stage : 0..5, deal : 0..MaxTerm]
  /\ notice \in [Admins -> NoticeDocs]
  /\ overlapped \subseteq Admins /\ outdated \subseteq Admins

(* However runs overlap, nobody is told of a stage of the plan before it is *)
(* there. Buying the plan takes every notice away ("renewing removes it"):  *)
(* one that shows was written for the plan as it was bought last, unless a  *)
(* run was still to write to this administrator at that moment. And until   *)
(* the plan is bought again, what an administrator sent away does not come  *)
(* back ("so a sweep that runs again doesn't bring back one they            *)
(* dismissed"), unless two runs wrote to this administrator at once.        *)
NoticesInOrder ==
  \A a \in Admins :
    notice[a].st = "live" =>
      /\ notice[a].n < term.n \/ (notice[a].n = term.n /\ notice[a].stage <= term.stage)
      /\ a \notin outdated => notice[a].deal = term.deal
      /\ a \notin overlapped => <<notice[a].n, notice[a].stage>> \notin dropped[a]
=============================================================================
