----------------------------- MODULE Payments -----------------------------
(***************************************************************************)
(* Paying for a plan of one workspace: orders, the two ways a payment is   *)
(* reported (the browser and the webhook), its application under a claim,  *)
(* refunds, prepaid and scheduled changes, their cancellation, and the     *)
(* expiry and activation of plans (billing.service.ts, planLifecycle.ts,   *)
(* changePlan of orgs.service.ts, refundRazorpayPayment of razorpay.ts).   *)
(*                                                                         *)
(* Each findOneAndUpdate and each transaction is one step: a transaction   *)
(* here validates by its own writes whatever it decides by. Between two    *)
(* steps of a request anything may happen, the end of its process too.     *)
(* Time is counted in plan terms; one billing cycle is modelled.           *)
(***************************************************************************)
EXTENDS Integers, FiniteSets

CONSTANTS
  Requests,    \* requests and sweeps in flight at once
  Payments,    \* ids of payments, one per order
  NoPay,       \* a null payment id
  Plans,
  Free,        \* the plan without an end
  Rank,        \* planRank
  StartPlans,  \* plans the workspace may start on
  Offers,      \* what is ordered: a plan, with or without a signed quote
  Amounts,     \* what is captured: the "right" amount, or a "wrong" one
  Ops,         \* the kinds of request this workspace receives
  Faults,      \* what goes wrong: "crash", "stall", "refundFails", "error"
  MaxTime      \* bound on the number of terms that pass

ASSUME PaymentsAssumption ==
  /\ NoPay \notin Payments
  /\ Free \in Plans
  /\ Rank \in [Plans -> Nat]
  /\ \A plan \in Plans \ {Free} : Rank[Free] < Rank[plan]
  /\ StartPlans \subseteq Plans
  /\ Offers \subseteq [plan : Plans \ {Free}, signed : BOOLEAN]
  /\ Amounts \subseteq {"right", "wrong"}
  /\ MaxTime \in Nat

VARIABLES
  org,     \* the plan fields of the organization
  pay,     \* the payment documents
  bank,    \* what Razorpay holds, has returned, and was told of each payment
  req,     \* what each request is doing
  now,     \* the date, in terms
  bought   \* history: how often a payment has moved the plan (2: or more)

vars == <<org, pay, bank, req, now, bought>>

(* A date of 0 is null.                                                    *)
Schedules == [plan : Plans, start : Nat, until : Nat, pay : Payments \cup {NoPay}]
NoSched == [plan |-> Free, start |-> 0, until |-> 0, pay |-> NoPay]

(* plan, planExpiresAt, and which purchase set the credit fields: two      *)
(* purchases never have the same creditStartedAt and creditValuePaise.     *)
Subscriptions == [plan : Plans, until : Nat, credit : Payments \cup {NoPay}]

OrgDocs == [sub : Subscriptions, expiredFrom : Plans, sched : Schedules]

(* What is ordered: seen is the subscription the quote was made for.       *)
Orders == [plan : Plans, signed : BOOLEAN, seen : Subscriptions, until : Nat]

(* A claim is overdue when it is older than APPLY_CLAIM_STALE_MS, for a    *)
(* refund than five minutes.                                               *)
PaymentDocs ==
  [status : {"none", "created", "paid"}, order : Orders, paidAt : Nat,
   applying : {"no", "claimed", "overdue"}, applied : BOOLEAN,
   refund : {"none", "processing", "overdue", "refunded"}]

Receipts == {"stale", "mismatch", "cancel"}
Accounts ==
  [held : {"no"} \cup Amounts, returned : SUBSET Receipts, told : BOOLEAN]

Idle == [pc |-> "idle"]
Down == [pc |-> "down"]  \* its process crashed and has not restarted
(* seen: the organization as read; keep: preservePaidSchedule.             *)
Works ==
  [pc : {"claim", "expire", "expiring", "read", "apply", "mark", "release",
         "refund", "record", "unclaim", "cancel", "clear"},
   job : {"browser", "webhook", "mismatch", "cancel", "sweep"},
   p : Payments \cup {NoPay}, seen : OrgDocs, keep : BOOLEAN]

FreeSub == [plan |-> Free, until |-> 0, credit |-> NoPay]
Blank == [sub |-> FreeSub, expiredFrom |-> Free, sched |-> NoSched]
NoOrder == [plan |-> Free, signed |-> FALSE, seen |-> FreeSub, until |-> 0]

-----------------------------------------------------------------------------
(* What the services ask of the documents.                                 *)

Running(sub) == sub.plan # Free /\ sub.until > now
Ended(sub) == sub.plan # Free /\ sub.until <= now

Lower(plan, sub) == Rank[plan] < Rank[sub.plan]

(* expiresAt of quotePlan: a lower plan follows the running term, a        *)
(* renewal adds a term to it, an upgrade keeps its end.                    *)
QuotedUntil(plan, sub) ==
  IF ~Running(sub) THEN now + 1
  ELSE IF plan = sub.plan \/ Lower(plan, sub) THEN sub.until + 1
  ELSE sub.until

(* A prepaid downgrade: scheduled of the quote; it starts at seen.until.   *)
Prepaid(order) == order.signed /\ Lower(order.plan, order.seen)

(* The first check of applyPayment against the signed quote.               *)
QuoteLost(order, o) ==
  /\ order.signed
  /\ order.seen.plan = o.sub.plan
  /\ o.sched # NoSched \/ o.sub # order.seen

(* The payment came before the source plan ended, its report after.        *)
HonouredLate(doc, o) ==
  /\ o.sub.plan = Free
  /\ Prepaid(doc.order)
  /\ o.expiredFrom = doc.order.seen.plan
  /\ doc.paidAt <= doc.order.seen.until
  /\ doc.order.until > now

(* Mutants of Applicable: the claim of another is ignored; what is applied *)
(* already is applied again; a claim left by a crash is never taken over.  *)
Applicable_Claimed(doc) ==
  doc.status = "paid" /\ doc.refund = "none" /\ ~doc.applied
Applicable_Applied(doc) ==
  doc.status = "paid" /\ doc.refund = "none" /\ doc.applying # "claimed"
Applicable_NoTakeover(doc) ==
  /\ doc.status = "paid"
  /\ doc.refund = "none"
  /\ ~doc.applied
  /\ doc.applying = "no"

Applicable(doc) ==
  /\ doc.status = "paid"
  /\ doc.refund = "none"
  /\ ~doc.applied
  /\ doc.applying # "claimed"

Refundable(doc) == doc.refund \in {"none", "overdue"}
InRefund(doc) == doc.refund \in {"processing", "overdue"}

(* Mutant of Good: a refund under way is not looked at.                    *)
Good_AnyRefund(doc) == doc.status = "paid" /\ doc.applied

(* A prepaid plan that may be activated, and is kept when its time comes.  *)
Good(doc) == doc.status = "paid" /\ doc.applied /\ doc.refund = "none"

PaidSchedule(o) == o.sched.plan # Free

-----------------------------------------------------------------------------
(* How a request goes on, answers, or throws. The webhook answers 200 also *)
(* to a wrong amount, and is then not delivered again.                     *)

At(r, pc) == req[r].pc = pc

Start(r, pc, job, p, seen) ==
  /\ At(r, "idle")
  /\ req' = [req EXCEPT ![r] = [pc |-> pc, job |-> job, p |-> p,
                                seen |-> seen, keep |-> FALSE]]

Goto(r, pc) == req' = [req EXCEPT ![r].pc = pc]
Return(r) == req' = [req EXCEPT ![r] = Idle]

Tell(p) == bank' = [bank EXCEPT ![p].told = TRUE]

Answer(r) ==
  /\ Return(r)
  /\ IF req[r].job \in {"webhook", "mismatch"} THEN Tell(req[r].p)
     ELSE UNCHANGED bank

Throw(r) == Return(r) /\ UNCHANGED bank
Continue(r, pc) == Goto(r, pc) /\ UNCHANGED bank

Doc(r) == pay[req[r].p]
Store(p, doc) == pay' = [pay EXCEPT ![p] = doc]

Buy(p) == bought' = [bought EXCEPT ![p] = IF @ < 2 THEN @ + 1 ELSE @]

-----------------------------------------------------------------------------
(* Orders and their payment.                                               *)

(* The quote is read, checked and stored unchanged: the order cannot be    *)
(* paid before it is stored. A lower plan needs a signed quote.            *)
CreateOrder(p, offer) ==
  /\ pay[p].status = "none"
  /\ org.sched = NoSched
  /\ Lower(offer.plan, org.sub) => offer.signed /\ Running(org.sub)
  /\ Store(p, [pay[p] EXCEPT
       !.status = "created",
       !.order = [plan |-> offer.plan, signed |-> offer.signed,
                  seen |-> org.sub,
                  until |-> QuotedUntil(offer.plan, org.sub)]])
  /\ UNCHANGED <<org, bank, req, now, bought>>

(* At Razorpay: the customer pays.                                         *)
Capture(p, amount) ==
  /\ pay[p].status = "created"
  /\ bank[p].held = "no"
  /\ bank' = [bank EXCEPT ![p].held = amount]
  /\ UNCHANGED <<org, pay, req, now, bought>>

(* Mutant of ReportPaid: the webhook does not compare the amount.          *)
ReportPaid_AnyAmount(r, p, job) ==
  /\ bank[p].held # "no"
  /\ job = "webhook"
  /\ Start(r, "claim", job, p, Blank)
  /\ Store(p, [pay[p] EXCEPT !.status = "paid", !.paidAt = now])
  /\ UNCHANGED <<org, bank, now, bought>>

(* The browser cannot tell the amount; the webhook found it right.         *)
ReportPaid(r, p, job) ==
  /\ bank[p].held # "no"
  /\ \/ job = "browser" /\ "browser" \in Ops
     \/ job = "webhook" /\ bank[p].held = "right"
  /\ Start(r, "claim", job, p, Blank)
  /\ Store(p, IF pay[p].status = "created"
              THEN [pay[p] EXCEPT !.status = "paid", !.paidAt = now]
              ELSE pay[p])
  /\ UNCHANGED <<org, bank, now, bought>>

(* The webhook found the amount wrong.                                     *)
ReportMismatch(r, p) ==
  /\ bank[p].held = "wrong"
  /\ IF Refundable(pay[p])
     THEN /\ Start(r, "refund", "mismatch", p, Blank)
          /\ Store(p, [pay[p] EXCEPT !.status = "paid", !.paidAt = now,
                                     !.refund = "processing"])
          /\ UNCHANGED bank
     ELSE At(r, "idle") /\ Tell(p) /\ UNCHANGED <<pay, req>>
  /\ UNCHANGED <<org, now, bought>>

(* The claim of applyPayment. Whoever does not get it answers that nothing *)
(* was applied, which is no error.                                         *)
ClaimApply(r) ==
  /\ At(r, "claim")
  /\ IF Applicable(Doc(r))
     THEN /\ Store(req[r].p, [Doc(r) EXCEPT !.applying = "claimed"])
          /\ Continue(r, "expire")
     ELSE Answer(r) /\ UNCHANGED pay
  /\ UNCHANGED <<org, now, bought>>

-----------------------------------------------------------------------------
(* expirePlanIfDue: every request, the sweep and applyPayment call it.     *)

Sweep(r) ==
  /\ "sweep" \in Ops
  /\ Ended(org.sub) \/ (PaidSchedule(org) /\ org.sched.start <= now)
  /\ Start(r, "expire", "sweep", NoPay, Blank)
  /\ UNCHANGED <<org, pay, bank, now, bought>>

AfterExpiry(r) ==
  IF req[r].job = "sweep" THEN Throw(r) ELSE Continue(r, "read")

(* One transaction: it matches the schedule of the organization and the    *)
(* refundStatus of the payment again.                                      *)
ActivateScheduledPaidPlan(r) ==
  /\ At(r, "expire")
  /\ PaidSchedule(org)
  /\ org.sched.start <= now
  /\ ~Running(org.sub)
  /\ Good(pay[org.sched.pay])
  /\ org' = [sub |-> [plan |-> org.sched.plan, until |-> now + 1,
                      credit |-> org.sched.pay],
             expiredFrom |-> Free, sched |-> NoSched]
  /\ Store(org.sched.pay, [pay[org.sched.pay] EXCEPT !.order.until = now + 1])
  /\ Buy(org.sched.pay)
  /\ AfterExpiry(r)
  /\ UNCHANGED now

(* No scheduled plan was activated: there is none, it is not paid for, or  *)
(* the usage of the workspace, which is not modelled, does not fit it.     *)
FindEnded(r) ==
  /\ At(r, "expire")
  /\ IF Ended(org.sub)
     THEN /\ req' = [req EXCEPT ![r].pc = "expiring",
                ![r].keep = PaidSchedule(org) /\ Good(pay[org.sched.pay])]
          /\ UNCHANGED bank
     ELSE AfterExpiry(r)
  /\ UNCHANGED <<org, pay, now, bought>>

ExpirePlan(r) ==
  /\ At(r, "expiring")
  /\ org' = IF Ended(org.sub)
            THEN [sub |-> FreeSub, expiredFrom |-> org.sub.plan,
                  sched |-> IF req[r].keep THEN org.sched ELSE NoSched]
            ELSE org
  /\ AfterExpiry(r)
  /\ UNCHANGED <<pay, now, bought>>

-----------------------------------------------------------------------------
(* applyPayment under its claim.                                           *)

ReadBilling(r) ==
  /\ At(r, "read")
  /\ req' = [req EXCEPT ![r].pc = "apply", ![r].seen = org]
  /\ UNCHANGED <<org, pay, bank, now, bought>>

RejectQuote(r) ==
  /\ At(r, "apply")
  /\ \/ QuoteLost(Doc(r).order, req[r].seen)
     \/ /\ Lower(Doc(r).order.plan, req[r].seen.sub)
        /\ req[r].seen.sub.until <= Doc(r).paidAt
  /\ Continue(r, "refund")
  /\ UNCHANGED <<org, pay, now, bought>>

(* A lower plan, paid in advance: one conditional update.                  *)
SchedulePaidPlan(r) ==
  LET seen == req[r].seen
      order == Doc(r).order
  IN /\ At(r, "apply")
     /\ ~QuoteLost(order, seen)
     /\ Lower(order.plan, seen.sub)
     /\ seen.sub.until > Doc(r).paidAt
     /\ IF /\ org.sub.plan = seen.sub.plan
           /\ org.sub.until = seen.sub.until
           /\ org.sched = NoSched
        THEN /\ org' = [org EXCEPT !.sched =
                  [plan |-> order.plan, start |-> seen.sub.until,
                   until |-> order.until, pay |-> req[r].p]]
             /\ Continue(r, "mark")
        ELSE Continue(r, "refund") /\ UNCHANGED org
     /\ UNCHANGED <<pay, now, bought>>

(* Mutant of Expected: changePlan is called without an expected state.     *)
Expected_Any(doc, seen) == {org.sub}

(* The subscription changePlan insists on: the one just read for a late    *)
(* payment, the one of the quote if it was signed, otherwise any.          *)
Expected(doc, seen) ==
  IF HonouredLate(doc, seen) THEN {seen.sub}
  ELSE IF doc.order.signed THEN {doc.order.seen}
  ELSE {org.sub}

(* changePlan with the period of the quote.                                *)
ChangePlan(r) ==
  LET order == Doc(r).order
  IN /\ At(r, "apply")
     /\ ~QuoteLost(order, req[r].seen)
     /\ ~Lower(order.plan, req[r].seen.sub)
     /\ IF org.sched = NoSched /\ org.sub \in Expected(Doc(r), req[r].seen)
        THEN /\ org' = [sub |-> [plan |-> order.plan, until |-> order.until,
                                 credit |-> req[r].p],
                        expiredFrom |-> Free, sched |-> NoSched]
             /\ Buy(req[r].p)
             /\ Continue(r, "mark")
        ELSE Continue(r, "refund") /\ UNCHANGED <<org, bought>>
     /\ UNCHANGED <<pay, now>>

MarkApplied(r) ==
  /\ At(r, "mark")
  /\ Store(req[r].p, [Doc(r) EXCEPT !.applied = TRUE])
  /\ Answer(r)
  /\ UNCHANGED <<org, now, bought>>

(* Any other error, such as a usage over the limits of the plan: the claim *)
(* is given back.                                                          *)
FailToApply(r) ==
  /\ "error" \in Faults
  /\ req[r].pc \in {"expire", "expiring", "read", "apply"}
  /\ IF req[r].job = "sweep" THEN Throw(r) ELSE Continue(r, "release")
  /\ UNCHANGED <<org, pay, now, bought>>

ReleaseClaim(r) ==
  /\ At(r, "release")
  /\ Store(req[r].p, [Doc(r) EXCEPT !.applying = "no"])
  /\ Throw(r)
  /\ UNCHANGED <<org, now, bought>>

-----------------------------------------------------------------------------
(* Refunds. Each purpose has a receipt of its own, by which a refund made  *)
(* earlier is found again.                                                 *)

Receipt(r) ==
  IF req[r].job \in {"browser", "webhook"} THEN "stale" ELSE req[r].job

Refund(r) ==
  /\ At(r, "refund")
  /\ Goto(r, "record")
  /\ bank' = [bank EXCEPT ![req[r].p].returned = @ \cup {Receipt(r)}]
  /\ UNCHANGED <<org, pay, now, bought>>

(* No answer, or a refusal: the money may have gone back all the same.     *)
(* applyPayment leaves its claim to go stale, the others give theirs back. *)
RefundFails(r) ==
  /\ "refundFails" \in Faults
  /\ At(r, "refund")
  /\ \E done \in {{}, {Receipt(r)}} :
        bank' = [bank EXCEPT ![req[r].p].returned = @ \cup done]
  /\ IF Receipt(r) = "stale" THEN Return(r) ELSE Goto(r, "unclaim")
  /\ UNCHANGED <<org, pay, now, bought>>

GiveUpRefund(r) ==
  /\ At(r, "unclaim")
  /\ Store(req[r].p, IF InRefund(Doc(r))
                     THEN [Doc(r) EXCEPT !.refund = "none"] ELSE Doc(r))
  /\ Throw(r)
  /\ UNCHANGED <<org, now, bought>>

RecordStaleRefund(r) ==
  /\ At(r, "record")
  /\ Receipt(r) = "stale"
  /\ Store(req[r].p, [Doc(r) EXCEPT !.applying = "no", !.applied = TRUE,
                                    !.refund = "refunded"])
  /\ Throw(r)
  /\ UNCHANGED <<org, now, bought>>

RecordMismatchRefund(r) ==
  /\ At(r, "record")
  /\ Receipt(r) = "mismatch"
  /\ Store(req[r].p, IF InRefund(Doc(r))
                     THEN [Doc(r) EXCEPT !.applied = TRUE, !.refund = "refunded"]
                     ELSE Doc(r))
  /\ Answer(r)
  /\ UNCHANGED <<org, now, bought>>

RecordCancelRefund(r) ==
  /\ At(r, "record")
  /\ Receipt(r) = "cancel"
  /\ Store(req[r].p, IF InRefund(Doc(r))
                     THEN [Doc(r) EXCEPT !.refund = "refunded"] ELSE Doc(r))
  /\ Continue(r, "clear")
  /\ UNCHANGED <<org, now, bought>>

-----------------------------------------------------------------------------
(* Scheduling a fall to Free, and cancelling a schedule.                   *)

ScheduleFreeDowngrade ==
  /\ "scheduleFree" \in Ops
  /\ Running(org.sub)
  /\ org.sched = NoSched
  /\ org' = [org EXCEPT !.sched.start = org.sub.until]
  /\ UNCHANGED <<pay, bank, req, now, bought>>

CancelScheduledChange(r) ==
  /\ "cancel" \in Ops
  /\ org.sched # NoSched
  /\ org.sched.start > now
  /\ Start(r, IF org.sched.pay = NoPay THEN "clear" ELSE "cancel", "cancel",
           org.sched.pay, org)
  /\ UNCHANGED <<org, pay, bank, now, bought>>

ClaimCancelRefund(r) ==
  /\ At(r, "cancel")
  /\ IF Refundable(Doc(r))
     THEN /\ Store(req[r].p, [Doc(r) EXCEPT !.refund = "processing"])
          /\ Continue(r, "refund")
     ELSE Throw(r) /\ UNCHANGED pay
  /\ UNCHANGED <<org, now, bought>>

(* Mutant of ClearSchedule: whatever is scheduled is cleared.              *)
ClearSchedule_Any(r) ==
  /\ At(r, "clear")
  /\ org' = [org EXCEPT !.sched = NoSched]
  /\ Throw(r)
  /\ UNCHANGED <<pay, now, bought>>

ClearSchedule(r) ==
  /\ At(r, "clear")
  /\ org' = IF org.sched = req[r].seen.sched
            THEN [org EXCEPT !.sched = NoSched] ELSE org
  /\ Throw(r)
  /\ UNCHANGED <<pay, now, bought>>

-----------------------------------------------------------------------------
(* Time and failures.                                                      *)

Tick ==
  /\ now < MaxTime
  /\ now' = now + 1
  /\ UNCHANGED <<org, pay, bank, req, bought>>

AtWork(p) == \E r \in Requests : req[r] \notin {Idle, Down} /\ req[r].p = p

Holder(r) == req[r] \notin {Idle, Down} /\ req[r].pc \notin {"claim", "cancel"}

(* Without a stall a claim outlives only the process that made it.         *)
ClaimAges(p) ==
  /\ "stall" \in Faults \/ ~\E r \in Requests : Holder(r) /\ req[r].p = p
  /\ pay[p].applying = "claimed" \/ pay[p].refund = "processing"
  /\ Store(p, [pay[p] EXCEPT
       !.applying = IF @ = "claimed" THEN "overdue" ELSE @,
       !.refund = IF @ = "processing" THEN "overdue" ELSE @])
  /\ UNCHANGED <<org, bank, req, now, bought>>

Crash(r) ==
  /\ "crash" \in Faults
  /\ req[r] \notin {Idle, Down}
  /\ req' = [req EXCEPT ![r] = Down]
  /\ UNCHANGED <<org, pay, bank, now, bought>>

Restart(r) ==
  /\ At(r, "down")
  /\ Throw(r)
  /\ UNCHANGED <<org, pay, now, bought>>

-----------------------------------------------------------------------------
Init ==
  /\ org \in {[Blank EXCEPT !.sub = [plan |-> plan,
                                     until |-> IF plan = Free THEN 0 ELSE 1,
                                     credit |-> NoPay]]
               : plan \in StartPlans}
  /\ pay = [p \in Payments |->
              [status |-> "none", order |-> NoOrder, paidAt |-> 0,
               applying |-> "no", applied |-> FALSE, refund |-> "none"]]
  /\ bank = [p \in Payments |-> [held |-> "no", returned |-> {}, told |-> FALSE]]
  /\ req = [r \in Requests |-> Idle]
  /\ now = 0
  /\ bought = [p \in Payments |-> 0]

Report(r, p) ==
  \/ \E job \in {"browser", "webhook"} : ReportPaid(r, p, job)
  \/ ReportMismatch(r, p)

(* What a request does by itself once it has started.                      *)
Proceed(r) ==
  \/ ClaimApply(r)
  \/ ActivateScheduledPaidPlan(r) \/ FindEnded(r) \/ ExpirePlan(r)
  \/ ReadBilling(r) \/ RejectQuote(r) \/ SchedulePaidPlan(r) \/ ChangePlan(r)
  \/ MarkApplied(r) \/ ReleaseClaim(r)
  \/ Refund(r) \/ GiveUpRefund(r)
  \/ RecordStaleRefund(r) \/ RecordMismatchRefund(r) \/ RecordCancelRefund(r)
  \/ ClaimCancelRefund(r) \/ ClearSchedule(r)

Next ==
  \/ \E p \in Payments :
       \/ \E offer \in Offers : CreateOrder(p, offer)
       \/ \E amount \in Amounts : Capture(p, amount)
       \/ ClaimAges(p)
       \/ \E r \in Requests : Report(r, p)
  \/ \E r \in Requests :
       \/ Sweep(r) \/ CancelScheduledChange(r)
       \/ Proceed(r)
       \/ FailToApply(r) \/ RefundFails(r) \/ Crash(r) \/ Restart(r)
  \/ ScheduleFreeDowngrade
  \/ Tick

Spec == Init /\ [][Next]_vars

(* A process that is not stopped runs its requests to their end, a claim   *)
(* grows old, and processes do not crash for ever.                         *)
Diligence ==
  /\ \A r \in Requests : WF_vars(Proceed(r) \/ Restart(r))
  /\ \A p \in Payments : WF_vars(ClaimAges(p))
  /\ <>[][\A r \in Requests : ~Crash(r)]_vars

Settled(p) == pay[p].applied \/ pay[p].refund = "refunded"

(* Razorpay delivers the webhook until it is answered with a 200.          *)
Redeliver(p) ==
  /\ bank[p].held = "right"
  /\ ~bank[p].told
  /\ \E r \in Requests : ReportPaid(r, p, "webhook")

(* Someone confirms again until the payment is applied or refunded.        *)
Insist(p) ==
  ~Settled(p) /\ \E r \in Requests : ReportPaid(r, p, "browser")

WebhookSpec == Spec /\ Diligence /\ \A p \in Payments : SF_vars(Redeliver(p))
InsistentSpec == Spec /\ Diligence /\ \A p \in Payments : SF_vars(Insist(p))

-----------------------------------------------------------------------------
(* Properties.                                                             *)

(* Documents, accounts and requests have their types.                      *)
TypeOK ==
  /\ org \in OrgDocs
  /\ pay \in [Payments -> PaymentDocs]
  /\ bank \in [Payments -> Accounts]
  /\ req \in [Requests -> Works \cup {Idle, Down}]
  /\ now \in 0..MaxTime
  /\ bought \in [Payments -> 0..2]

(* No payment moves the plan twice, whoever reports it and whatever was    *)
(* left half done ("Only one caller applies a payment, so a repeat can't   *)
(* extend it twice").                                                      *)
AppliedOnce == \A p \in Payments : bought[p] <= 1

(* What Razorpay has given back did not buy a plan: the claim of           *)
(* applyPayment, the refunds and the activation of a prepaid plan exclude  *)
(* each other.                                                             *)
UsedNotReturned ==
  \A p \in Payments : bought[p] > 0 => bank[p].returned = {}

(* At the step in which a payment buys a plan its money is still held: a   *)
(* prepaid plan is not activated once its cancellation has begun to refund *)
(* it, even if that cancellation crashed half-way.                         *)
BoughtWhileHeld ==
  [][\A p \in Payments :
       bought'[p] # bought[p] => bank[p].returned = {}]_vars

(* A payment is given back under one receipt only: the refunds of three    *)
(* handlers do not meet.                                                   *)
ReturnedOnce == \A p \in Payments : Cardinality(bank[p].returned) <= 1

(* A payment that counts as applied, and that nobody is working on, was    *)
(* refunded, or has moved the plan, or is what is scheduled ("never left   *)
(* as prepaid value with no corresponding subscription").                  *)
PrepaidKept ==
  \A p \in Payments :
    pay[p].applied /\ ~AtWork(p) =>
      \/ pay[p].refund = "refunded"
      \/ bought[p] > 0
      \/ org.sched.pay = p

(* Money is given back once at most, and what counts as applied has had     *)
(* its effect: the claims of the appliers and of the refunds keep them     *)
(* apart.                                                                  *)
MoneyAccountedFor == ReturnedOnce /\ PrepaidKept

(* A purchase never shortens the running term, and a renewal makes it      *)
(* longer ("renewing adds a period on top of the current end date").       *)
PaidTermGrows ==
  [][\A p \in Payments :
       bought'[p] # bought[p] /\ Running(org.sub) =>
         /\ org'.sub.until >= org.sub.until
         /\ org'.sub.plan = org.sub.plan => org'.sub.until > org.sub.until]_vars

(* A plan is bought with money that is held, and no purchase shortens what *)
(* was bought before, in whatever term it was quoted.                      *)
TermsKept == BoughtWhileHeld /\ PaidTermGrows

(* A payment of another amount than the order's buys nothing ("If that     *)
(* isn't what the order was for, nothing is applied").                     *)
WrongAmountBuysNothing ==
  \A p \in Payments :
    bank[p].held = "wrong" => bought[p] = 0 /\ org.sched.pay # p

(* A payment moves the plan as often as it was paid for: once if the amount *)
(* was right, else never.                                                  *)
BuysAsPaid == AppliedOnce /\ WrongAmountBuysNothing

(* A payment is open, then held, then used or returned for good.           *)
Deal ==
  [p \in Payments |->
     IF bought[p] > 0 /\ bank[p].returned # {} THEN "both"
     ELSE IF bank[p].returned # {} THEN "returned"
     ELSE IF bought[p] > 0 THEN "used"
     ELSE IF pay[p].status = "paid" THEN "held" ELSE "open"]

Promise == INSTANCE Purchase WITH deal <- Deal

(* The payment flow implements Purchase.                                   *)
PromiseKept == Promise!Spec

(* Captured money is eventually applied or refunded.                       *)
CapturedSettles ==
  \A p \in Payments : bank[p].held = "right" ~> Settled(p)
=============================================================================
