--------------------------- MODULE PaymentsProofs ---------------------------
(***************************************************************************)
(* What Payments promises, proved for any number of payments, requests,    *)
(* plans and terms. The types first, with where each kind of request can   *)
(* be. Then what becomes of the money: a payment moves the plan as often   *)
(* as it was paid for, is given back once at most, and what was bought     *)
(* lasts as long as quoted; what a step does to the requests and documents *)
(* comes before, then one invariant for each question.                     *)
(***************************************************************************)
EXTENDS Payments, FiniteSetTheorems, TLAPS

-----------------------------------------------------------------------------
Serving(r) == req[r] \notin {Idle, Down}

(* The requests that apply a payment, and those that cancel a schedule.    *)
Applies(r) == Serving(r) /\ req[r].job \in {"browser", "webhook"}
Cancels(r) == Serving(r) /\ req[r].job = "cancel"

(* Where a request can be, by what it is for; what has no payment is the   *)
(* sweep, or clears a schedule nobody paid for.                            *)
FlowOK(q) ==
  /\ q.job = "sweep" => q.pc \in {"expire", "expiring"}
  /\ q.job = "mismatch" => q.pc \in {"refund", "record", "unclaim"}
  /\ q.job = "cancel" =>
       /\ q.pc \in {"cancel", "refund", "record", "unclaim", "clear"}
       /\ q.p = q.seen.sched.pay
  /\ q.job \in {"browser", "webhook"} => q.pc \notin {"cancel", "clear", "unclaim"}
  /\ q.p = NoPay => q.job = "sweep" \/ q.pc = "clear"

OrgTyped == org \in OrgDocs /\ (PaidSchedule(org) => org.sched.pay \in Payments)
PayTyped == pay \in [Payments -> PaymentDocs]
BankTyped == bank \in [Payments -> Accounts]
ReqTyped ==
  /\ req \in [Requests -> Works \cup {Idle, Down}]
  /\ \A r \in Requests : Serving(r) => FlowOK(req[r])
CountsTyped == now \in 0..MaxTime /\ bought \in [Payments -> 0..2]

TypeInv == OrgTyped /\ PayTyped /\ BankTyped /\ ReqTyped /\ CountsTyped

LEMMA TypeInvTypes == TypeInv => TypeOK
  BY DEF TypeInv, TypeOK, OrgTyped, PayTyped, BankTyped, ReqTyped, CountsTyped

-----------------------------------------------------------------------------
(* A request that is somewhere works, has a kind, and a payment if it      *)
(* needs one.                                                              *)
LEMMA WorkingTyped ==
  ASSUME ReqTyped, NEW r \in Requests, req[r].pc \notin {"idle", "down"}
  PROVE  Serving(r) /\ req[r] \in Works /\ FlowOK(req[r])
  BY DEF ReqTyped, Serving, Idle, Down

LEMMA IdleIs ==
  ASSUME ReqTyped, NEW r \in Requests
  PROVE  /\ req[r].pc = "idle" <=> req[r] = Idle
         /\ req[r].pc = "down" <=> req[r] = Down
         /\ Serving(r) <=> req[r].pc \notin {"idle", "down"}
         /\ Serving(r) <=> req[r] \in Works
  BY DEF ReqTyped, Idle, Down, Works, Serving

LEMMA ReturnTyped ==
  ASSUME ReqTyped, NEW r \in Requests, Return(r)
  PROVE  ReqTyped'
  BY DEF ReqTyped, Return, Serving, Idle, Down

LEMMA GotoTyped ==
  ASSUME ReqTyped, NEW r \in Requests, NEW pc, Serving(r), Goto(r, pc),
         [req[r] EXCEPT !.pc = pc] \in Works, FlowOK([req[r] EXCEPT !.pc = pc])
  PROVE  ReqTyped'
  BY DEF ReqTyped, Goto, Serving, Idle, Down

LEMMA StartTyped ==
  ASSUME ReqTyped, NEW r \in Requests, NEW pc, NEW job, NEW p, NEW seen,
         Start(r, pc, job, p, seen),
         [pc |-> pc, job |-> job, p |-> p, seen |-> seen, keep |-> FALSE] \in Works,
         FlowOK([pc |-> pc, job |-> job, p |-> p, seen |-> seen, keep |-> FALSE])
  PROVE  ReqTyped'
  BY DEF ReqTyped, Start, Serving, Idle, Down

LEMMA StoreTyped ==
  ASSUME PayTyped, NEW p \in Payments, NEW doc \in PaymentDocs, Store(p, doc)
  PROVE  PayTyped'
  BY DEF PayTyped, Store

LEMMA AnswerTyped ==
  ASSUME ReqTyped, BankTyped, NEW r \in Requests, Answer(r), req[r].p \in Payments
  PROVE  ReqTyped' /\ BankTyped'
  <1>1. ReqTyped'
    BY ReturnTyped DEF Answer
  <1>2. BankTyped'
    BY ZenonT(60) DEF Answer, Tell, BankTyped, Accounts
  <1> QED BY <1>1, <1>2

(* A request goes on, or answers, with the bank as it is.                  *)
LEMMA ContinueTyped ==
  ASSUME ReqTyped, BankTyped, NEW r \in Requests, NEW pc, Serving(r), Continue(r, pc),
         [req[r] EXCEPT !.pc = pc] \in Works, FlowOK([req[r] EXCEPT !.pc = pc])
  PROVE  ReqTyped' /\ BankTyped'
  BY GotoTyped DEF Continue, BankTyped

LEMMA ThrowTyped ==
  ASSUME ReqTyped, BankTyped, NEW r \in Requests, Throw(r)
  PROVE  ReqTyped' /\ BankTyped'
  BY ReturnTyped DEF Throw, BankTyped

(* After the expiry an applier reads on, and the sweep is over.            *)
LEMMA AfterExpiryTyped ==
  ASSUME ReqTyped, BankTyped, NEW r \in Requests, req[r].pc \in {"expire", "expiring"},
         AfterExpiry(r)
  PROVE  ReqTyped' /\ BankTyped'
  <1>1. Serving(r) /\ req[r] \in Works /\ FlowOK(req[r])
    BY WorkingTyped
  <1>2. CASE req[r].job = "sweep"
    BY <1>2, ThrowTyped DEF AfterExpiry
  <1>3. CASE req[r].job # "sweep"
    <2>1. [req[r] EXCEPT !.pc = "read"] \in Works /\ FlowOK([req[r] EXCEPT !.pc = "read"])
      BY <1>1, <1>3 DEF Works, FlowOK
    <2> QED BY <1>1, <1>3, <2>1, ContinueTyped DEF AfterExpiry
  <1> QED BY <1>2, <1>3

(* What a step that leaves a part alone keeps of its type.                 *)
LEMMA KeptTyped ==
  /\ OrgTyped /\ org' = org => OrgTyped'
  /\ PayTyped /\ pay' = pay => PayTyped'
  /\ BankTyped /\ bank' = bank => BankTyped'
  /\ ReqTyped /\ req' = req => ReqTyped'
  /\ CountsTyped /\ now' = now /\ bought' = bought => CountsTyped'
  BY DEF OrgTyped, PaidSchedule, PayTyped, BankTyped, ReqTyped, Serving, CountsTyped

(* The document a request works on.                                        *)
LEMMA DocTyped ==
  ASSUME ReqTyped, PayTyped, NEW r \in Requests,
         req[r].pc \in {"claim", "read", "apply", "mark", "release", "refund",
                        "record", "unclaim", "cancel"}
  PROVE  /\ req[r].p \in Payments /\ Doc(r) \in PaymentDocs
         /\ Serving(r) /\ req[r] \in Works /\ FlowOK(req[r]) /\ req[r].job # "sweep"
  <1>1. Serving(r) /\ req[r] \in Works /\ FlowOK(req[r])
    BY WorkingTyped
  <1>2. req[r].p \in Payments /\ req[r].job # "sweep"
    BY <1>1 DEF Works, FlowOK
  <1> QED BY <1>1, <1>2 DEF PayTyped, Doc

LEMMA BuyTyped ==
  ASSUME CountsTyped, NEW p \in Payments, Buy(p), now' = now
  PROVE  CountsTyped'
  BY DEF CountsTyped, Buy

LEMMA QuotedUntilTyped ==
  ASSUME now \in Nat, NEW plan, NEW sub \in Subscriptions
  PROVE  QuotedUntil(plan, sub) \in Nat
  BY DEF QuotedUntil, Subscriptions

-----------------------------------------------------------------------------
LEMMA TypeCreateOrder ==
  ASSUME TypeInv, NEW p \in Payments, NEW offer \in Offers, CreateOrder(p, offer)
  PROVE  TypeInv'
  <1> DEFINE order == [plan |-> offer.plan, signed |-> offer.signed, seen |-> org.sub,
                       until |-> QuotedUntil(offer.plan, org.sub)]
             doc == [pay[p] EXCEPT !.status = "created", !.order = order]
  <1>1. org.sub \in Subscriptions /\ now \in Nat
    BY PaymentsAssumption DEF TypeInv, OrgTyped, OrgDocs, CountsTyped
  <1>2. order \in Orders
    <2>1. offer.plan \in Plans /\ offer.signed \in BOOLEAN
      BY PaymentsAssumption
    <2> QED BY <1>1, <2>1, QuotedUntilTyped DEF Orders
  <1>3. pay[p] \in PaymentDocs
    BY DEF TypeInv, PayTyped
  <1>4. doc \in PaymentDocs
    <2> HIDE DEF order
    <2> QED BY <1>2, <1>3 DEF PaymentDocs
  <1>5. PayTyped'
    BY <1>4, StoreTyped DEF CreateOrder, TypeInv
  <1> QED BY <1>5, KeptTyped DEF CreateOrder, TypeInv

LEMMA TypeCapture ==
  ASSUME TypeInv, NEW p \in Payments, NEW amount \in Amounts, Capture(p, amount)
  PROVE  TypeInv'
  <1>1. BankTyped'
    BY DEF TypeInv, BankTyped, Accounts, Capture
  <1> QED BY <1>1, KeptTyped DEF Capture, TypeInv

LEMMA BlankTyped == Blank \in OrgDocs /\ NoSched \in Schedules /\ FreeSub \in Subscriptions
  BY PaymentsAssumption DEF Blank, OrgDocs, NoSched, Schedules, FreeSub, Subscriptions

LEMMA TypeReportPaid ==
  ASSUME TypeInv, NEW r \in Requests, NEW p \in Payments,
         NEW job \in {"browser", "webhook"}, ReportPaid(r, p, job)
  PROVE  TypeInv'
  <1> DEFINE q == [pc |-> "claim", job |-> job, p |-> p, seen |-> Blank, keep |-> FALSE]
             doc == IF pay[p].status = "created"
                    THEN [pay[p] EXCEPT !.status = "paid", !.paidAt = now]
                    ELSE pay[p]
  <1>1. q \in Works /\ FlowOK(q)
    BY BlankTyped, PaymentsAssumption DEF Works, FlowOK
  <1>2. ReqTyped'
    BY <1>1, StartTyped DEF ReportPaid, TypeInv
  <1>3. doc \in PaymentDocs
    <2>1. pay[p] \in PaymentDocs /\ now \in Nat
      BY PaymentsAssumption DEF TypeInv, PayTyped, CountsTyped
    <2> QED BY <2>1 DEF PaymentDocs
  <1>4. PayTyped'
    BY <1>3, StoreTyped DEF ReportPaid, TypeInv
  <1> QED BY <1>2, <1>4, KeptTyped DEF ReportPaid, TypeInv

LEMMA TypeReportMismatch ==
  ASSUME TypeInv, NEW r \in Requests, NEW p \in Payments, ReportMismatch(r, p)
  PROVE  TypeInv'
  <1>1. pay[p] \in PaymentDocs /\ now \in Nat
    BY PaymentsAssumption DEF TypeInv, PayTyped, CountsTyped
  <1>2. CASE Refundable(pay[p])
    <2> DEFINE q == [pc |-> "refund", job |-> "mismatch", p |-> p, seen |-> Blank,
                     keep |-> FALSE]
               doc == [pay[p] EXCEPT !.status = "paid", !.paidAt = now,
                                     !.refund = "processing"]
    <2>1. q \in Works /\ FlowOK(q)
      BY BlankTyped, PaymentsAssumption DEF Works, FlowOK
    <2>2. ReqTyped'
      BY <1>2, <2>1, StartTyped DEF ReportMismatch, TypeInv
    <2>3. doc \in PaymentDocs
      BY <1>1 DEF PaymentDocs
    <2>4. PayTyped'
      BY <1>2, <2>3, StoreTyped DEF ReportMismatch, TypeInv
    <2> QED BY <1>2, <2>2, <2>4, KeptTyped DEF ReportMismatch, TypeInv
  <1>3. CASE ~Refundable(pay[p])
    <2>1. BankTyped'
      BY <1>3 DEF ReportMismatch, Tell, TypeInv, BankTyped, Accounts
    <2> QED BY <1>3, <2>1, KeptTyped DEF ReportMismatch, TypeInv
  <1> QED BY <1>2, <1>3

LEMMA TypeClaimApply ==
  ASSUME TypeInv, NEW r \in Requests, ClaimApply(r)
  PROVE  TypeInv'
  <1>1. req[r].p \in Payments /\ Doc(r) \in PaymentDocs /\ Serving(r)
        /\ req[r] \in Works /\ FlowOK(req[r])
    BY DocTyped DEF TypeInv, ClaimApply, At
  <1>2. CASE Applicable(Doc(r))
    <2>1. [req[r] EXCEPT !.pc = "expire"] \in Works /\ FlowOK([req[r] EXCEPT !.pc = "expire"])
      BY <1>1 DEF Works, FlowOK, ClaimApply, At
    <2>2. ReqTyped' /\ BankTyped'
      BY <1>1, <1>2, <2>1, ContinueTyped DEF ClaimApply, TypeInv
    <2>3. [Doc(r) EXCEPT !.applying = "claimed"] \in PaymentDocs
      BY <1>1 DEF PaymentDocs
    <2>4. PayTyped'
      BY <1>1, <1>2, <2>3, StoreTyped DEF ClaimApply, TypeInv
    <2> QED BY <2>2, <2>4, KeptTyped DEF ClaimApply, TypeInv
  <1>3. CASE ~Applicable(Doc(r))
    BY <1>1, <1>3, AnswerTyped, KeptTyped DEF ClaimApply, TypeInv
  <1> QED BY <1>2, <1>3

LEMMA TypeSweep ==
  ASSUME TypeInv, NEW r \in Requests, Sweep(r)
  PROVE  TypeInv'
  <1> DEFINE q == [pc |-> "expire", job |-> "sweep", p |-> NoPay, seen |-> Blank,
                   keep |-> FALSE]
  <1>1. q \in Works /\ FlowOK(q)
    BY BlankTyped DEF Works, FlowOK
  <1>2. ReqTyped'
    BY <1>1, StartTyped DEF Sweep, TypeInv
  <1> QED BY <1>2, KeptTyped DEF Sweep, TypeInv

LEMMA TypeActivateScheduledPaidPlan ==
  ASSUME TypeInv, NEW r \in Requests, ActivateScheduledPaidPlan(r)
  PROVE  TypeInv'
  <1> DEFINE p == org.sched.pay
  <1>1. p \in Payments /\ org \in OrgDocs /\ now \in Nat
    BY PaymentsAssumption DEF TypeInv, OrgTyped, ActivateScheduledPaidPlan, CountsTyped
  <1>2. OrgTyped'
    BY <1>1, BlankTyped
       DEF ActivateScheduledPaidPlan, OrgTyped, OrgDocs, PaidSchedule, NoSched,
           Subscriptions, Schedules, FreeSub
  <1>3. pay[p] \in PaymentDocs
    BY <1>1 DEF TypeInv, PayTyped
  <1>4. [pay[p] EXCEPT !.order.until = now + 1] \in PaymentDocs
    BY <1>1, <1>3 DEF PaymentDocs, Orders
  <1>5. PayTyped'
    BY <1>1, <1>4, StoreTyped DEF ActivateScheduledPaidPlan, TypeInv
  <1>6. CountsTyped'
    BY <1>1, BuyTyped DEF ActivateScheduledPaidPlan, TypeInv
  <1>7. ReqTyped' /\ BankTyped'
    BY AfterExpiryTyped DEF ActivateScheduledPaidPlan, TypeInv, At
  <1> QED BY <1>2, <1>5, <1>6, <1>7 DEF TypeInv

LEMMA TypeFindEnded ==
  ASSUME TypeInv, NEW r \in Requests, FindEnded(r)
  PROVE  TypeInv'
  <1>1. Serving(r) /\ req[r] \in Works /\ FlowOK(req[r])
    BY WorkingTyped DEF FindEnded, At, TypeInv
  <1>2. CASE Ended(org.sub)
    <2> DEFINE keep == PaidSchedule(org) /\ Good(pay[org.sched.pay])
               q == [req[r] EXCEPT !.pc = "expiring", !.keep = keep]
    <2>1. keep \in BOOLEAN
      OBVIOUS
    <2>2. q \in Works /\ FlowOK(q)
      <3> HIDE DEF keep
      <3> QED BY <1>1, <2>1 DEF FindEnded, At, Works, FlowOK
    <2>3. req' = [req EXCEPT ![r] = q]
      BY <1>1, <1>2 DEF FindEnded, TypeInv, ReqTyped
    <2>4. ReqTyped'
      <3> HIDE DEF q
      <3> QED BY <2>2, <2>3 DEF TypeInv, ReqTyped, Serving, Idle, Down
    <2> QED BY <1>2, <2>4, KeptTyped DEF FindEnded, TypeInv
  <1>3. CASE ~Ended(org.sub)
    <2>1. ReqTyped' /\ BankTyped'
      BY <1>3, AfterExpiryTyped DEF FindEnded, TypeInv, At
    <2> QED BY <2>1, KeptTyped DEF FindEnded, TypeInv
  <1> QED BY <1>2, <1>3

LEMMA TypeExpirePlan ==
  ASSUME TypeInv, NEW r \in Requests, ExpirePlan(r)
  PROVE  TypeInv'
  <1>1. OrgTyped'
    BY BlankTyped DEF ExpirePlan, TypeInv, OrgTyped, OrgDocs, PaidSchedule, NoSched,
                      Subscriptions, Schedules, FreeSub
  <1>2. ReqTyped' /\ BankTyped'
    BY AfterExpiryTyped DEF ExpirePlan, TypeInv, At
  <1> QED BY <1>1, <1>2, KeptTyped DEF ExpirePlan, TypeInv

LEMMA TypeReadBilling ==
  ASSUME TypeInv, NEW r \in Requests, ReadBilling(r)
  PROVE  TypeInv'
  <1> DEFINE q == [req[r] EXCEPT !.pc = "apply", !.seen = org]
  <1>1. req[r] \in Works /\ FlowOK(req[r]) /\ req[r].job # "sweep" /\ req[r].pc = "read"
    BY DocTyped DEF ReadBilling, At, TypeInv
  <1>2. org \in OrgDocs
    BY DEF TypeInv, OrgTyped
  <1>3. q \in Works /\ FlowOK(q)
    BY <1>1, <1>2 DEF Works, FlowOK
  <1>4. req' = [req EXCEPT ![r] = q]
    BY DEF ReadBilling, TypeInv, ReqTyped
  <1>5. ReqTyped'
    <2> HIDE DEF q
    <2> QED BY <1>3, <1>4 DEF TypeInv, ReqTyped, Serving, Idle, Down
  <1> QED BY <1>5, KeptTyped DEF ReadBilling, TypeInv

(* Goes on from here to there, whatever for.                               *)
LEMMA GoesOn ==
  ASSUME TypeInv, NEW r \in Requests, NEW pc, Continue(r, pc),
         \/ req[r].pc = "apply" /\ pc \in {"mark", "refund"}
         \/ req[r].pc = "cancel" /\ pc = "refund"
         \/ req[r].pc = "record" /\ req[r].job = "cancel" /\ pc = "clear"
         \/ /\ req[r].pc \in {"expire", "expiring", "read", "apply"}
            /\ req[r].job # "sweep"
            /\ pc = "release"
  PROVE  ReqTyped' /\ BankTyped'
  <1>1. Serving(r) /\ req[r] \in Works /\ FlowOK(req[r])
    BY WorkingTyped DEF TypeInv
  <1>2. [req[r] EXCEPT !.pc = pc] \in Works /\ FlowOK([req[r] EXCEPT !.pc = pc])
    BY <1>1 DEF Works, FlowOK
  <1> QED BY <1>1, <1>2, ContinueTyped DEF TypeInv

LEMMA TypeRejectQuote ==
  ASSUME TypeInv, NEW r \in Requests, RejectQuote(r)
  PROVE  TypeInv'
  <1>1. ReqTyped' /\ BankTyped'
    BY GoesOn DEF RejectQuote, At
  <1> QED BY <1>1, KeptTyped DEF RejectQuote, TypeInv

LEMMA TypeSchedulePaidPlan ==
  ASSUME TypeInv, NEW r \in Requests, SchedulePaidPlan(r)
  PROVE  TypeInv'
  <1>1. ReqTyped' /\ BankTyped'
    BY GoesOn DEF SchedulePaidPlan, At
  <1>2. /\ req[r].p \in Payments /\ Doc(r).order \in Orders
        /\ req[r].seen.sub.until \in Nat
    BY DocTyped DEF SchedulePaidPlan, At, TypeInv, PaymentDocs, Works, OrgDocs, Subscriptions
  <1>3. OrgTyped'
    BY <1>2 DEF SchedulePaidPlan, TypeInv, OrgTyped, OrgDocs, Schedules, Orders, PaidSchedule
  <1> QED BY <1>1, <1>3, KeptTyped DEF SchedulePaidPlan, TypeInv

LEMMA TypeChangePlan ==
  ASSUME TypeInv, NEW r \in Requests, ChangePlan(r)
  PROVE  TypeInv'
  <1>1. ReqTyped' /\ BankTyped'
    BY GoesOn DEF ChangePlan, At
  <1>2. req[r].p \in Payments /\ Doc(r).order \in Orders
    BY DocTyped DEF ChangePlan, At, TypeInv, PaymentDocs
  <1>3. OrgTyped'
    BY <1>2, BlankTyped, PaymentsAssumption
       DEF ChangePlan, TypeInv, OrgTyped, OrgDocs, Subscriptions, Orders, PaidSchedule, NoSched
  <1>4. CountsTyped'
    BY <1>2, BuyTyped, KeptTyped DEF ChangePlan, TypeInv
  <1> QED BY <1>1, <1>3, <1>4, KeptTyped DEF ChangePlan, TypeInv

LEMMA TypeMarkApplied ==
  ASSUME TypeInv, NEW r \in Requests, MarkApplied(r)
  PROVE  TypeInv'
  <1>1. req[r].p \in Payments /\ Doc(r) \in PaymentDocs
    BY DocTyped DEF MarkApplied, At, TypeInv
  <1>2. PayTyped'
    <2>1. [Doc(r) EXCEPT !.applied = TRUE] \in PaymentDocs
      BY <1>1 DEF PaymentDocs
    <2> QED BY <1>1, <2>1, StoreTyped DEF MarkApplied, TypeInv
  <1>3. ReqTyped' /\ BankTyped'
    BY <1>1, AnswerTyped DEF MarkApplied, TypeInv
  <1> QED BY <1>2, <1>3, KeptTyped DEF MarkApplied, TypeInv

LEMMA TypeFailToApply ==
  ASSUME TypeInv, NEW r \in Requests, FailToApply(r)
  PROVE  TypeInv'
  <1>1. CASE req[r].job = "sweep"
    <2>1. ReqTyped' /\ BankTyped'
      BY <1>1, ThrowTyped DEF FailToApply, TypeInv
    <2> QED BY <2>1, KeptTyped DEF FailToApply, TypeInv
  <1>2. CASE req[r].job # "sweep"
    <2>1. ReqTyped' /\ BankTyped'
      BY <1>2, GoesOn DEF FailToApply
    <2> QED BY <2>1, KeptTyped DEF FailToApply, TypeInv
  <1> QED BY <1>1, <1>2

LEMMA TypeReleaseClaim ==
  ASSUME TypeInv, NEW r \in Requests, ReleaseClaim(r)
  PROVE  TypeInv'
  <1>1. req[r].p \in Payments /\ Doc(r) \in PaymentDocs
    BY DocTyped DEF ReleaseClaim, At, TypeInv
  <1>2. PayTyped'
    <2>1. [Doc(r) EXCEPT !.applying = "no"] \in PaymentDocs
      BY <1>1 DEF PaymentDocs
    <2> QED BY <1>1, <2>1, StoreTyped DEF ReleaseClaim, TypeInv
  <1>3. ReqTyped' /\ BankTyped'
    BY ThrowTyped DEF ReleaseClaim, TypeInv
  <1> QED BY <1>2, <1>3, KeptTyped DEF ReleaseClaim, TypeInv

(* The receipts are those of a refund.                                     *)
LEMMA ReceiptTyped ==
  ASSUME TypeInv, NEW r \in Requests, req[r].pc \in {"refund", "record", "unclaim"}
  PROVE  /\ Receipt(r) \in Receipts /\ req[r].p \in Payments /\ Doc(r) \in PaymentDocs
         /\ Receipt(r) = "stale" <=> req[r].job \in {"browser", "webhook"}
         /\ Receipt(r) = "mismatch" <=> req[r].job = "mismatch"
         /\ Receipt(r) = "cancel" <=> req[r].job = "cancel"
  <1>1. /\ req[r].p \in Payments /\ Doc(r) \in PaymentDocs /\ req[r] \in Works
        /\ req[r].job # "sweep"
    BY DocTyped DEF TypeInv
  <1>2. req[r].job \in {"browser", "webhook", "mismatch", "cancel"}
    BY <1>1 DEF Works
  <1> QED BY <1>1, <1>2 DEF Receipt, Receipts

LEMMA TypeRefund ==
  ASSUME TypeInv, NEW r \in Requests, Refund(r)
  PROVE  TypeInv'
  <1>1. Receipt(r) \in Receipts /\ req[r].p \in Payments
    BY ReceiptTyped DEF Refund, At
  <1>2. BankTyped'
    BY <1>1 DEF TypeInv, BankTyped, Accounts, Refund
  <1>3. /\ Serving(r) /\ [req[r] EXCEPT !.pc = "record"] \in Works
        /\ FlowOK([req[r] EXCEPT !.pc = "record"])
    BY WorkingTyped DEF TypeInv, Refund, At, Works, FlowOK
  <1>4. ReqTyped'
    BY <1>3, GotoTyped DEF Refund, TypeInv
  <1> QED BY <1>2, <1>4, KeptTyped DEF Refund, TypeInv

LEMMA TypeRefundFails ==
  ASSUME TypeInv, NEW r \in Requests, RefundFails(r)
  PROVE  TypeInv'
  <1>1. /\ Receipt(r) \in Receipts /\ req[r].p \in Payments
        /\ Receipt(r) = "stale" <=> req[r].job \in {"browser", "webhook"}
    BY ReceiptTyped DEF RefundFails, At
  <1>2. BankTyped'
    BY <1>1 DEF TypeInv, BankTyped, Accounts, RefundFails
  <1>3. ReqTyped'
    <2>1. CASE Receipt(r) = "stale"
      BY <2>1, ReturnTyped DEF RefundFails, TypeInv
    <2>2. CASE Receipt(r) # "stale"
      <3>1. Serving(r) /\ req[r] \in Works /\ FlowOK(req[r])
        BY WorkingTyped DEF TypeInv, RefundFails, At
      <3>2. /\ [req[r] EXCEPT !.pc = "unclaim"] \in Works
            /\ FlowOK([req[r] EXCEPT !.pc = "unclaim"])
        BY <1>1, <2>2, <3>1 DEF RefundFails, At, Works, FlowOK
      <3> QED BY <2>2, <3>1, <3>2, GotoTyped DEF RefundFails, TypeInv
    <2> QED BY <2>1, <2>2
  <1> QED BY <1>2, <1>3, KeptTyped DEF RefundFails, TypeInv

(* The documents a refund leaves.                                          *)
LEMMA RefundDocs ==
  ASSUME NEW doc \in PaymentDocs
  PROVE  /\ [doc EXCEPT !.refund = "none"] \in PaymentDocs
         /\ [doc EXCEPT !.refund = "processing"] \in PaymentDocs
         /\ [doc EXCEPT !.refund = "refunded"] \in PaymentDocs
         /\ [doc EXCEPT !.applied = TRUE, !.refund = "refunded"] \in PaymentDocs
         /\ [doc EXCEPT !.applying = "no", !.applied = TRUE, !.refund = "refunded"]
              \in PaymentDocs
  BY DEF PaymentDocs

LEMMA TypeGiveUpRefund ==
  ASSUME TypeInv, NEW r \in Requests, GiveUpRefund(r)
  PROVE  TypeInv'
  <1>1. req[r].p \in Payments /\ Doc(r) \in PaymentDocs
    BY ReceiptTyped DEF GiveUpRefund, At
  <1>2. PayTyped'
    BY <1>1, RefundDocs, StoreTyped DEF GiveUpRefund, TypeInv
  <1>3. ReqTyped' /\ BankTyped'
    BY ThrowTyped DEF GiveUpRefund, TypeInv
  <1> QED BY <1>2, <1>3, KeptTyped DEF GiveUpRefund, TypeInv

LEMMA TypeRecordStaleRefund ==
  ASSUME TypeInv, NEW r \in Requests, RecordStaleRefund(r)
  PROVE  TypeInv'
  <1>1. req[r].p \in Payments /\ Doc(r) \in PaymentDocs
    BY ReceiptTyped, SMTT(60) DEF RecordStaleRefund, At
  <1>2. PayTyped'
    BY <1>1, RefundDocs, StoreTyped DEF RecordStaleRefund, TypeInv
  <1>3. ReqTyped' /\ BankTyped'
    BY ThrowTyped DEF RecordStaleRefund, TypeInv
  <1> QED BY <1>2, <1>3, KeptTyped DEF RecordStaleRefund, TypeInv

LEMMA TypeRecordMismatchRefund ==
  ASSUME TypeInv, NEW r \in Requests, RecordMismatchRefund(r)
  PROVE  TypeInv'
  <1>1. req[r].p \in Payments /\ Doc(r) \in PaymentDocs
    BY ReceiptTyped, SMTT(60) DEF RecordMismatchRefund, At
  <1>2. PayTyped'
    BY <1>1, RefundDocs, StoreTyped DEF RecordMismatchRefund, TypeInv
  <1>3. ReqTyped' /\ BankTyped'
    BY <1>1, AnswerTyped DEF RecordMismatchRefund, TypeInv
  <1> QED BY <1>2, <1>3, KeptTyped DEF RecordMismatchRefund, TypeInv

LEMMA TypeRecordCancelRefund ==
  ASSUME TypeInv, NEW r \in Requests, RecordCancelRefund(r)
  PROVE  TypeInv'
  <1>1. req[r].p \in Payments /\ Doc(r) \in PaymentDocs /\ req[r].job = "cancel"
    BY ReceiptTyped, SMTT(60) DEF RecordCancelRefund, At
  <1>2. PayTyped'
    BY <1>1, RefundDocs, StoreTyped DEF RecordCancelRefund, TypeInv
  <1>3. ReqTyped' /\ BankTyped'
    BY <1>1, GoesOn DEF RecordCancelRefund, At
  <1> QED BY <1>2, <1>3, KeptTyped DEF RecordCancelRefund, TypeInv

LEMMA TypeScheduleFreeDowngrade ==
  ASSUME TypeInv, ScheduleFreeDowngrade
  PROVE  TypeInv'
  <1>1. OrgTyped'
    BY DEF ScheduleFreeDowngrade, TypeInv, OrgTyped, OrgDocs, Schedules, PaidSchedule,
           Subscriptions, NoSched
  <1> QED BY <1>1, KeptTyped DEF ScheduleFreeDowngrade, TypeInv

LEMMA TypeCancelScheduledChange ==
  ASSUME TypeInv, NEW r \in Requests, CancelScheduledChange(r)
  PROVE  TypeInv'
  <1> DEFINE q == [pc |-> IF org.sched.pay = NoPay THEN "clear" ELSE "cancel",
                   job |-> "cancel", p |-> org.sched.pay, seen |-> org, keep |-> FALSE]
  <1>1. q \in Works /\ FlowOK(q)
    BY DEF TypeInv, OrgTyped, OrgDocs, Schedules, Works, FlowOK
  <1>2. ReqTyped'
    BY <1>1, StartTyped DEF CancelScheduledChange, TypeInv
  <1> QED BY <1>2, KeptTyped DEF CancelScheduledChange, TypeInv

LEMMA TypeClaimCancelRefund ==
  ASSUME TypeInv, NEW r \in Requests, ClaimCancelRefund(r)
  PROVE  TypeInv'
  <1>1. req[r].p \in Payments /\ Doc(r) \in PaymentDocs
    BY DocTyped DEF ClaimCancelRefund, At, TypeInv
  <1>2. CASE Refundable(Doc(r))
    <2>1. PayTyped'
      BY <1>1, <1>2, RefundDocs, StoreTyped DEF ClaimCancelRefund, TypeInv
    <2>2. ReqTyped' /\ BankTyped'
      BY <1>2, GoesOn DEF ClaimCancelRefund, At
    <2> QED BY <2>1, <2>2, KeptTyped, SMTT(60) DEF ClaimCancelRefund, TypeInv
  <1>3. CASE ~Refundable(Doc(r))
    <2>1. ReqTyped' /\ BankTyped'
      BY <1>3, ThrowTyped DEF ClaimCancelRefund, TypeInv
    <2> QED BY <1>3, <2>1, KeptTyped DEF ClaimCancelRefund, TypeInv
  <1> QED BY <1>2, <1>3

LEMMA TypeClearSchedule ==
  ASSUME TypeInv, NEW r \in Requests, ClearSchedule(r)
  PROVE  TypeInv'
  <1>1. OrgTyped'
    BY BlankTyped DEF ClearSchedule, TypeInv, OrgTyped, OrgDocs, PaidSchedule, NoSched
  <1>2. ReqTyped' /\ BankTyped'
    BY ThrowTyped DEF ClearSchedule, TypeInv
  <1> QED BY <1>1, <1>2, KeptTyped DEF ClearSchedule, TypeInv

LEMMA TypeTick ==
  ASSUME TypeInv, Tick
  PROVE  TypeInv'
  <1>1. CountsTyped'
    BY PaymentsAssumption DEF Tick, TypeInv, CountsTyped
  <1> QED BY <1>1, KeptTyped DEF Tick, TypeInv

LEMMA TypeClaimAges ==
  ASSUME TypeInv, NEW p \in Payments, ClaimAges(p)
  PROVE  TypeInv'
  <1>1. pay[p] \in PaymentDocs
    BY DEF TypeInv, PayTyped
  <1>2. [pay[p] EXCEPT !.applying = IF @ = "claimed" THEN "overdue" ELSE @,
                       !.refund = IF @ = "processing" THEN "overdue" ELSE @] \in PaymentDocs
    BY <1>1 DEF PaymentDocs
  <1>3. PayTyped'
    BY <1>2, StoreTyped DEF ClaimAges, TypeInv
  <1> QED BY <1>3, KeptTyped DEF ClaimAges, TypeInv

LEMMA TypeCrash ==
  ASSUME TypeInv, NEW r \in Requests, Crash(r)
  PROVE  TypeInv'
  <1>1. ReqTyped'
    BY DEF Crash, TypeInv, ReqTyped, Serving, Idle, Down
  <1> QED BY <1>1, KeptTyped DEF Crash, TypeInv

LEMMA TypeRestart ==
  ASSUME TypeInv, NEW r \in Requests, Restart(r)
  PROVE  TypeInv'
  <1>1. ReqTyped' /\ BankTyped'
    BY ThrowTyped DEF Restart, TypeInv
  <1> QED BY <1>1, KeptTyped DEF Restart, TypeInv

(* At first nothing is scheduled, and a plan that ends runs for a term.     *)
LEMMA InitOrg ==
  ASSUME Init
  PROVE  \E plan \in StartPlans :
           org = [Blank EXCEPT !.sub = [plan |-> plan,
                                        until |-> IF plan = Free THEN 0 ELSE 1,
                                        credit |-> NoPay]]
  BY DEF Init

LEMMA InitNoSched ==
  ASSUME Init
  PROVE  org \in OrgDocs /\ org.sched = NoSched
  <1>1. PICK plan \in StartPlans :
          org = [Blank EXCEPT !.sub = [plan |-> plan,
                                       until |-> IF plan = Free THEN 0 ELSE 1,
                                       credit |-> NoPay]]
    BY InitOrg
  <1> DEFINE sub == [plan |-> plan, until |-> IF plan = Free THEN 0 ELSE 1, credit |-> NoPay]
  <1>2. sub \in Subscriptions
    BY PaymentsAssumption DEF Subscriptions
  <1> HIDE DEF sub
  <1>3. org = [Blank EXCEPT !.sub = sub]
    BY <1>1 DEF sub
  <1> QED BY <1>2, <1>3, BlankTyped DEF OrgDocs, Blank

LEMMA TypeInit ==
  ASSUME Init
  PROVE  TypeInv
  <1>1. OrgTyped
    BY InitNoSched DEF OrgTyped, PaidSchedule, NoSched
  <1>2. PayTyped
    BY BlankTyped, PaymentsAssumption DEF Init, PayTyped, PaymentDocs, NoOrder, Orders
  <1>3. BankTyped
    BY DEF Init, BankTyped, Accounts
  <1>4. ReqTyped
    <2>1. req = [r \in Requests |-> Idle]
      BY DEF Init
    <2>2. \A r \in Requests : req[r] = Idle
      BY <2>1
    <2>3. req \in [Requests -> Works \cup {Idle, Down}]
      BY <2>1
    <2>4. \A r \in Requests : ~Serving(r)
      BY <2>2 DEF Serving
    <2> QED BY <2>3, <2>4 DEF ReqTyped
  <1>5. CountsTyped
    <2>1. now = 0 /\ bought = [p \in Payments |-> 0]
      BY Zenon DEF Init
    <2> QED BY <2>1, PaymentsAssumption DEF CountsTyped
  <1> QED BY <1>1, <1>2, <1>3, <1>4, <1>5 DEF TypeInv

LEMMA TypeProceed ==
  ASSUME TypeInv, NEW r \in Requests, Proceed(r)
  PROVE  TypeInv'
  BY TypeClaimApply, TypeActivateScheduledPaidPlan, TypeFindEnded, TypeExpirePlan,
     TypeReadBilling, TypeRejectQuote, TypeSchedulePaidPlan, TypeChangePlan,
     TypeMarkApplied, TypeReleaseClaim, TypeRefund, TypeGiveUpRefund,
     TypeRecordStaleRefund, TypeRecordMismatchRefund, TypeRecordCancelRefund,
     TypeClaimCancelRefund, TypeClearSchedule
  DEF Proceed

LEMMA TypeStep ==
  ASSUME TypeInv, [Next]_vars
  PROVE  TypeInv'
  <1>1. CASE Next
    BY <1>1, TypeCreateOrder, TypeCapture, TypeClaimAges, TypeReportPaid,
       TypeReportMismatch, TypeSweep, TypeCancelScheduledChange, TypeProceed,
       TypeFailToApply, TypeRefundFails, TypeCrash, TypeRestart,
       TypeScheduleFreeDowngrade, TypeTick
    DEF Next, Report
  <1>2. CASE UNCHANGED vars
    BY <1>2, KeptTyped DEF vars, TypeInv
  <1> QED BY <1>1, <1>2

(* Documents, accounts and requests keep their types, whatever fails.      *)
THEOREM TypeCorrect == Spec => []TypeOK
<1>1. Init => TypeInv
  BY TypeInit
<1>2. TypeInv /\ [Next]_vars => TypeInv'
  BY TypeStep
<1> QED BY <1>1, <1>2, TypeInvTypes, PTL DEF Spec

-----------------------------------------------------------------------------
(* What stands in for the regimes of the theorems. Calm: a process that    *)
(* began a request ends it in time. Orderly: furthermore Razorpay gives    *)
(* every refund asked of it, and captures what was ordered. OneTerm: no    *)
(* plan ends while one looks.                                              *)
Calm == Faults \cap {"crash", "stall"} = {}
Orderly == Faults \subseteq {"error"} /\ Amounts \subseteq {"right"}
Quoted == \A offer \in Offers : offer.signed
OneTerm == MaxTime = 0
Ranked == \A a, b \in Plans : Rank[a] = Rank[b] => a = b

(* The requests that hold the claim of applyPayment.                       *)
Applying(r) == Applies(r) /\ req[r].pc # "claim"
Marking(r) == Applying(r) /\ req[r].pc = "mark"

Unused(p) == bought[p] = 0 /\ org.sched.pay # p

(* A payment is applied by one request at a time, which finds it unused.   *)
Claimed ==
  \A r \in Requests : Applying(r) =>
    /\ pay[req[r].p].applying = "claimed"
    /\ \A s \in Requests : Applying(s) /\ req[s].p = req[r].p => s = r
Pending ==
  \A r \in Requests : Applying(r) /\ ~Marking(r) => Unused(req[r].p)
Once ==
  \A p \in Payments :
    /\ bought[p] <= 1
    /\ org.sched.pay = p => bought[p] = 0
    /\ \/ pay[p].applied \/ Unused(p)
       \/ \E r \in Requests : Marking(r) /\ req[r].p = p

OnceInv == Claimed /\ Pending /\ Once

(* A payment not known to be right has no effect, nor anybody to give it   *)
(* one.                                                                    *)
NoEffect(p) ==
  /\ Unused(p)
  /\ \A r \in Requests : Serving(r) /\ req[r].p = p => req[r].job = "mismatch"
AmountInv == \A p \in Payments : bank[p].held # "right" => NoEffect(p)

-----------------------------------------------------------------------------
(* What a step can do with a request r.                                    *)
Others(r) == \A s \in Requests : s # r => req'[s] = req[s]

Begins(r, pc, job, p) ==
  /\ ~Serving(r) /\ Serving(r)'
  /\ req'[r].pc = pc /\ req'[r].job = job /\ req'[r].p = p
  /\ Others(r)

Moves(r, pc) ==
  /\ Serving(r) /\ Serving(r)'
  /\ req'[r].pc = pc /\ req'[r].job = req[r].job /\ req'[r].p = req[r].p
  /\ Others(r)

Ends(r) == ~Serving(r)' /\ Others(r)

(* A request that is at work has a pc of its own.                          *)
LEMMA BusyIs ==
  ASSUME ReqTyped, NEW r \in Requests, req[r].pc \notin {"idle", "down"}
  PROVE  Serving(r) /\ req[r] \in Works /\ FlowOK(req[r])
  BY WorkingTyped

LEMMA StartBegins ==
  ASSUME ReqTyped, NEW r \in Requests, NEW pc, NEW job, NEW p, NEW seen,
         Start(r, pc, job, p, seen), pc \notin {"idle", "down"}
  PROVE  Begins(r, pc, job, p) /\ req'[r].seen = seen
  <1> DEFINE q == [pc |-> pc, job |-> job, p |-> p, seen |-> seen, keep |-> FALSE]
  <1>1. req' = [req EXCEPT ![r] = q] /\ ~Serving(r)
    BY IdleIs DEF Start, At, Serving
  <1>2. req'[r] = q /\ Others(r)
    BY <1>1 DEF ReqTyped, Others
  <1>3. q.pc = pc /\ q.job = job /\ q.p = p /\ q.seen = seen
    OBVIOUS
  <1>4. q \notin {Idle, Down}
    BY <1>3 DEF Idle, Down
  <1> HIDE DEF q
  <1> QED BY <1>1, <1>2, <1>3, <1>4 DEF Begins, Serving

LEMMA GotoMoves ==
  ASSUME ReqTyped, NEW r \in Requests, NEW pc, req[r].pc \notin {"idle", "down"},
         Goto(r, pc), pc \notin {"idle", "down"}
  PROVE  Moves(r, pc) /\ req'[r].seen = req[r].seen
  <1>1. Serving(r) /\ req[r] \in Works
    BY BusyIs
  <1>2. req'[r] = [req[r] EXCEPT !.pc = pc] /\ Others(r)
    BY DEF Goto, ReqTyped, Others
  <1>3. req'[r].pc = pc /\ req'[r].job = req[r].job /\ req'[r].p = req[r].p
        /\ req'[r].seen = req[r].seen
    BY <1>1, <1>2 DEF Works
  <1>4. Serving(r)'
    BY <1>3 DEF Serving, Idle, Down
  <1> QED BY <1>1, <1>2, <1>3, <1>4 DEF Moves

LEMMA ReturnEnds ==
  ASSUME ReqTyped, NEW r \in Requests, Return(r)
  PROVE  Ends(r)
  BY DEF ReqTyped, Return, Ends, Others, Serving

LEMMA StoreIs ==
  ASSUME PayTyped, NEW p \in Payments, NEW doc, Store(p, doc)
  PROVE  pay'[p] = doc /\ \A q \in Payments : q # p => pay'[q] = pay[q]
  BY DEF PayTyped, Store

-----------------------------------------------------------------------------
(* A payment is applied by one request at a time.                          *)

LEMMA ApplyingPays ==
  ASSUME ReqTyped, NEW r \in Requests, Applying(r)
  PROVE  req[r].p \in Payments
  <1>1. req[r] \in Works /\ FlowOK(req[r])
    BY IdleIs DEF ReqTyped, Applying, Applies
  <1>2. req[r].p \in Payments \cup {NoPay} /\ req[r].job \in {"browser", "webhook"}
    BY <1>1 DEF Works, Applying, Applies
  <1> QED BY <1>1, <1>2 DEF FlowOK

(* What applied and who marked stays, and no more is begun.                *)
LEMMA OnceQuiet ==
  ASSUME TypeInv, OnceInv, NEW r \in Requests, Others(r), ~Marking(r), ~Marking(r)',
         Applying(r)' => Applying(r) /\ req'[r].p = req[r].p,
         bought' = bought, org'.sched.pay \in {org.sched.pay, NoPay},
         \A p \in Payments :
           /\ pay[p].applying = "claimed" => pay'[p].applying = "claimed"
           /\ pay[p].applied => pay'[p].applied
  PROVE  OnceInv'
  <1>1. \A s \in Requests : Applying(s) => req[s].p \in Payments
    BY ApplyingPays DEF TypeInv
  <1>2. \A s \in Requests : Applying(s)' => Applying(s) /\ req'[s].p = req[s].p
    BY DEF Others, Applying, Applies, Serving
  <1>3. \A s \in Requests : Marking(s) <=> Marking(s)'
    BY DEF Others, Marking, Applying, Applies, Serving
  <1>4. \A s \in Requests : Marking(s) => req'[s].p = req[s].p
    BY DEF Others
  <1>5. \A p \in Payments : Unused(p) => Unused(p)'
    BY PaymentsAssumption DEF Unused
  <1>6. Claimed'
    BY <1>1, <1>2 DEF OnceInv, Claimed
  <1>7. Pending'
    BY <1>1, <1>2, <1>3, <1>5 DEF OnceInv, Pending
  <1>8. Once'
    BY <1>3, <1>4, <1>5, PaymentsAssumption DEF OnceInv, Once
  <1> QED BY <1>6, <1>7, <1>8 DEF OnceInv

LEMMA OnceSame ==
  ASSUME OnceInv, req' = req, bought' = bought, TypeInv,
         org'.sched.pay \in {org.sched.pay, NoPay},
         \A p \in Payments :
           /\ pay[p].applying = "claimed" =>
                \/ pay'[p].applying = "claimed"
                \/ \A r \in Requests : Applying(r) => req[r].p # p
           /\ pay[p].applied => pay'[p].applied
  PROVE  OnceInv'
  <1>1. \A s \in Requests : Applying(s) => req[s].p \in Payments
    BY ApplyingPays DEF TypeInv
  <1>2. \A s \in Requests : (Applying(s) <=> Applying(s)') /\ (Marking(s) <=> Marking(s)')
    BY DEF Marking, Applying, Applies, Serving
  <1>5. \A p \in Payments : Unused(p) => Unused(p)'
    BY PaymentsAssumption DEF Unused
  <1>6. Claimed'
    BY <1>1, <1>2 DEF OnceInv, Claimed
  <1>7. Pending'
    BY <1>1, <1>2, <1>5 DEF OnceInv, Pending
  <1>8. Once'
    BY <1>2, <1>5, PaymentsAssumption DEF OnceInv, Once
  <1> QED BY <1>6, <1>7, <1>8 DEF OnceInv

(* The same for a request that moves on, ends or begins.                   *)
LEMMA OnceMoves ==
  ASSUME TypeInv, OnceInv, NEW r \in Requests, NEW pc, Moves(r, pc),
         req[r].pc \notin {"claim", "mark"}, pc # "mark",
         bought' = bought, org'.sched.pay \in {org.sched.pay, NoPay},
         \A p \in Payments :
           /\ pay[p].applying = "claimed" => pay'[p].applying = "claimed"
           /\ pay[p].applied => pay'[p].applied
  PROVE  OnceInv'
  <1>1. ~Marking(r) /\ ~Marking(r)' /\ Others(r)
    BY DEF Moves, Marking
  <1>2. Applying(r)' => Applying(r) /\ req'[r].p = req[r].p
    BY DEF Moves, Applying, Applies
  <1> QED BY <1>1, <1>2, OnceQuiet

LEMMA OnceEnds ==
  ASSUME TypeInv, OnceInv, NEW r \in Requests, Ends(r), req[r].pc # "mark",
         bought' = bought, org'.sched.pay \in {org.sched.pay, NoPay},
         \A p \in Payments :
           /\ pay[p].applying = "claimed" => pay'[p].applying = "claimed"
           /\ pay[p].applied => pay'[p].applied
  PROVE  OnceInv'
  <1>1. ~Marking(r) /\ ~Marking(r)' /\ ~Applying(r)' /\ Others(r)
    BY DEF Ends, Marking, Applying, Applies
  <1> QED BY <1>1, OnceQuiet

LEMMA OnceBegins ==
  ASSUME TypeInv, OnceInv, NEW r \in Requests, NEW pc, NEW job, NEW p, 
         Begins(r, pc, job, p), job \in {"browser", "webhook"} => pc = "claim",
         bought' = bought, org' = org,
         \A q \in Payments :
           /\ pay[q].applying = "claimed" => pay'[q].applying = "claimed"
           /\ pay[q].applied => pay'[q].applied
  PROVE  OnceInv'
  <1>1. ~Marking(r) /\ ~Marking(r)' /\ ~Applying(r)' /\ Others(r)
    BY DEF Begins, Marking, Applying, Applies
  <1> QED BY <1>1, OnceQuiet

(* Storing a document changes that document.                               *)
LEMMA StoreKeeps ==
  ASSUME PayTyped, NEW p \in Payments, NEW doc, Store(p, doc),
         doc.applying = pay[p].applying, pay[p].applied => doc.applied
  PROVE  \A q \in Payments :
           /\ pay[q].applying = "claimed" => pay'[q].applying = "claimed"
           /\ pay[q].applied => pay'[q].applied
  BY StoreIs

LEMMA OnceCreateOrder ==
  ASSUME TypeInv, OnceInv, NEW p \in Payments, NEW offer \in Offers,
         CreateOrder(p, offer)
  PROVE  OnceInv'
  <1> DEFINE order == [plan |-> offer.plan, signed |-> offer.signed, seen |-> org.sub,
                       until |-> QuotedUntil(offer.plan, org.sub)]
             doc == [pay[p] EXCEPT !.status = "created", !.order = order]
  <1>1. pay[p] \in PaymentDocs /\ Store(p, doc)
    BY DEF TypeInv, PayTyped, CreateOrder
  <1> HIDE DEF order
  <1>2. doc.applying = pay[p].applying /\ doc.applied = pay[p].applied
    BY <1>1 DEF PaymentDocs
  <1> QED BY <1>1, <1>2, StoreKeeps, OnceSame DEF CreateOrder, TypeInv

LEMMA OnceReportPaid ==
  ASSUME TypeInv, OnceInv, NEW r \in Requests, NEW p \in Payments,
         NEW job \in {"browser", "webhook"}, ReportPaid(r, p, job)
  PROVE  OnceInv'
  <1> DEFINE doc == IF pay[p].status = "created"
                    THEN [pay[p] EXCEPT !.status = "paid", !.paidAt = now]
                    ELSE pay[p]
  <1>1. doc.applying = pay[p].applying /\ doc.applied = pay[p].applied
    BY DEF TypeInv, PayTyped, PaymentDocs
  <1>2. Begins(r, "claim", job, p)
    BY StartBegins DEF ReportPaid, TypeInv
  <1> QED BY <1>1, <1>2, StoreKeeps, OnceBegins DEF ReportPaid, TypeInv

LEMMA OnceReportMismatch ==
  ASSUME TypeInv, OnceInv, NEW r \in Requests, NEW p \in Payments, ReportMismatch(r, p)
  PROVE  OnceInv'
  <1>1. CASE Refundable(pay[p])
    <2> DEFINE doc == [pay[p] EXCEPT !.status = "paid", !.paidAt = now,
                                     !.refund = "processing"]
    <2>1. doc.applying = pay[p].applying /\ doc.applied = pay[p].applied
      BY DEF TypeInv, PayTyped, PaymentDocs
    <2>2. Begins(r, "refund", "mismatch", p)
      BY <1>1, StartBegins DEF ReportMismatch, TypeInv
    <2> QED BY <1>1, <2>1, <2>2, StoreKeeps, OnceBegins DEF ReportMismatch, TypeInv
  <1>2. CASE ~Refundable(pay[p])
    BY <1>2, OnceSame DEF ReportMismatch
  <1> QED BY <1>1, <1>2

LEMMA OnceClaimAges ==
  ASSUME TypeInv, OnceInv, Calm, NEW p \in Payments, ClaimAges(p)
  PROVE  OnceInv'
  <1> DEFINE doc == [pay[p] EXCEPT
                       !.applying = IF @ = "claimed" THEN "overdue" ELSE @,
                       !.refund = IF @ = "processing" THEN "overdue" ELSE @]
  <1>1. Store(p, doc)
    BY DEF ClaimAges
  <1>2. doc.applied = pay[p].applied
    BY DEF TypeInv, PayTyped, PaymentDocs
  <1>3. \A q \in Payments : (q # p => pay'[q] = pay[q]) /\ (pay[q].applied => pay'[q].applied)
    BY <1>1, <1>2, StoreIs, ZenonT(60) DEF TypeInv
  <1>4. \A r \in Requests : Applying(r) => req[r].p # p
    BY DEF ClaimAges, Calm, Holder, Applying, Applies, Serving, TypeInv, ReqTyped, FlowOK
  <1> QED BY <1>3, <1>4, OnceSame DEF ClaimAges

LEMMA OnceClaimApply ==
  ASSUME TypeInv, OnceInv, NEW r \in Requests, ClaimApply(r)
  PROVE  OnceInv'
  <1> DEFINE p == req[r].p
             doc == [pay[p] EXCEPT !.applying = "claimed"]
  <1>1. p \in Payments /\ Doc(r) \in PaymentDocs /\ ~Applying(r) /\ ~Marking(r)
    BY DocTyped DEF ClaimApply, At, TypeInv, Applying, Marking
  <1>2. CASE Applicable(Doc(r))
    <2>1. Moves(r, "expire") /\ Store(p, doc) /\ bought' = bought /\ org' = org
      BY <1>2, GotoMoves DEF ClaimApply, At, TypeInv, Continue, Doc
    <2>2. pay'[p].applying = "claimed" /\ pay'[p].applied = pay[p].applied
          /\ \A q \in Payments : q # p => pay'[q] = pay[q]
      BY <1>1, <2>1, StoreIs DEF TypeInv, Doc, PaymentDocs
    <2>3. ~pay[p].applied /\ pay[p].applying # "claimed"
      BY <1>2 DEF Applicable, Doc
    <2>4. \A s \in Requests : Applying(s) => req[s].p # p
      BY <2>3 DEF OnceInv, Claimed
    <2>5. Unused(p)
      BY <1>1, <2>3, <2>4 DEF OnceInv, Once, Marking
    <2>6. \A s \in Requests : s # r =>
            (Applying(s)' <=> Applying(s)) /\ (Marking(s)' <=> Marking(s)) /\ req'[s].p = req[s].p
      BY <2>1 DEF Moves, Others, Applying, Marking, Applies, Serving
    <2>7. ~Marking(r)' /\ req'[r].p = p
      BY <2>1 DEF Moves, Marking
    <2>8. \A q \in Payments : Unused(q)' <=> Unused(q)
      BY <2>1 DEF Unused
    <2>9. \A s \in Requests : Applying(s) => req[s].p \in Payments
      BY ApplyingPays DEF TypeInv
    <2>10. Claimed'
      BY <2>2, <2>4, <2>6, <2>7, <2>9 DEF OnceInv, Claimed
    <2>11. Pending'
      BY <2>5, <2>6, <2>7, <2>8, <2>9, <1>1 DEF OnceInv, Pending
    <2>12. Once'
      BY <2>1, <2>2, <2>6, <2>8, <1>1 DEF OnceInv, Once
    <2> QED BY <2>10, <2>11, <2>12 DEF OnceInv
  <1>3. CASE ~Applicable(Doc(r))
    <2>1. Ends(r)
      BY <1>3, ReturnEnds DEF ClaimApply, Answer, TypeInv
    <2> QED BY <1>3, <2>1, OnceEnds DEF ClaimApply, At
  <1> QED BY <1>2, <1>3

LEMMA OnceSweep ==
  ASSUME TypeInv, OnceInv, NEW r \in Requests, Sweep(r)
  PROVE  OnceInv'
  <1>1. Begins(r, "expire", "sweep", NoPay)
    BY StartBegins DEF Sweep, TypeInv
  <1> QED BY <1>1, OnceBegins DEF Sweep

LEMMA OnceCancelScheduledChange ==
  ASSUME TypeInv, OnceInv, NEW r \in Requests, CancelScheduledChange(r)
  PROVE  OnceInv'
  <1>1. \E pc : Begins(r, pc, "cancel", org.sched.pay)
    BY StartBegins DEF CancelScheduledChange, TypeInv
  <1> QED BY <1>1, OnceBegins DEF CancelScheduledChange

(* The expiry is done: the sweep ends and an applier reads.                *)
LEMMA AfterExpiryGoes ==
  ASSUME TypeInv, NEW r \in Requests, req[r].pc \in {"expire", "expiring"},
         AfterExpiry(r)
  PROVE  bank' = bank /\ (Ends(r) \/ (Moves(r, "read") /\ Applying(r)))
  <1>1. Serving(r) /\ req[r] \in Works /\ FlowOK(req[r])
    BY BusyIs DEF TypeInv
  <1>2. CASE req[r].job = "sweep"
    BY <1>2, ReturnEnds DEF AfterExpiry, Throw, TypeInv
  <1>3. CASE req[r].job # "sweep"
    <2>1. Applying(r)
      BY <1>1, <1>3 DEF Works, FlowOK, Applying, Applies
    <2> QED BY <1>3, <2>1, GotoMoves DEF AfterExpiry, Continue, TypeInv
  <1> QED BY <1>2, <1>3

LEMMA OnceActivateScheduledPaidPlan ==
  ASSUME TypeInv, OnceInv, NEW r \in Requests, ActivateScheduledPaidPlan(r)
  PROVE  OnceInv'
  <1> DEFINE p == org.sched.pay
             doc == [pay[p] EXCEPT !.order.until = now + 1]
  <1>1. p \in Payments /\ bought \in [Payments -> 0..2] /\ pay[p] \in PaymentDocs
    BY DEF TypeInv, OrgTyped, PayTyped, ActivateScheduledPaidPlan, CountsTyped
  <1>2. Store(p, doc) /\ Buy(p) /\ org'.sched = NoSched /\ pay[p].applied
    BY DEF ActivateScheduledPaidPlan, Good
  <1>3. doc.applying = pay[p].applying /\ doc.applied = pay[p].applied
    BY <1>1 DEF PaymentDocs
  <1>4. \A q \in Payments :
          /\ pay[q].applying = "claimed" => pay'[q].applying = "claimed"
          /\ pay[q].applied => pay'[q].applied
    <2> HIDE DEF doc
    <2> QED BY <1>1, <1>2, <1>3, StoreKeeps DEF TypeInv
  <1>5. bought[p] = 0
    BY <1>1 DEF OnceInv, Once
  <1>6. bought'[p] = 1 /\ \A q \in Payments : q # p => bought'[q] = bought[q]
    BY <1>1, <1>2, <1>5 DEF Buy
  <1>7. org'.sched.pay \notin Payments
    BY <1>2, PaymentsAssumption DEF NoSched
  <1>8. ~Marking(r) /\ ~Marking(r)' /\ Others(r)
        /\ (Applying(r)' => Applying(r) /\ req'[r].p = req[r].p)
    <2>1. Ends(r) \/ (Moves(r, "read") /\ Applying(r))
      BY AfterExpiryGoes DEF ActivateScheduledPaidPlan, At
    <2> QED BY <2>1 DEF Ends, Moves, Marking, Applying, Applies,
                        ActivateScheduledPaidPlan, At
  <1>9. \A s \in Requests : Applying(s) => req[s].p \in Payments
    BY ApplyingPays DEF TypeInv
  <1>10. \A s \in Requests :
           /\ Applying(s)' => Applying(s) /\ req'[s].p = req[s].p
           /\ Marking(s) <=> Marking(s)'
           /\ Marking(s) => req'[s].p = req[s].p
    BY <1>8 DEF Others, Marking, Applying, Applies, Serving
  <1>11. \A q \in Payments : Unused(q) => Unused(q)'
    BY <1>6, <1>7 DEF Unused
  <1>12. Claimed'
    BY <1>4, <1>9, <1>10 DEF OnceInv, Claimed
  <1>13. Pending'
    BY <1>9, <1>10, <1>11 DEF OnceInv, Pending
  <1>14. Once'
    BY <1>2, <1>4, <1>6, <1>7, <1>10, <1>11 DEF OnceInv, Once
  <1> QED BY <1>12, <1>13, <1>14 DEF OnceInv

LEMMA OnceFindEnded ==
  ASSUME TypeInv, OnceInv, NEW r \in Requests, FindEnded(r)
  PROVE  OnceInv'
  <1>1. CASE Ended(org.sub)
    <2>1. Moves(r, "expiring")
      <3> DEFINE keep == PaidSchedule(org) /\ Good(pay[org.sched.pay])
                 q == [req[r] EXCEPT !.pc = "expiring", !.keep = keep]
      <3>1. Serving(r) /\ req[r] \in Works
        BY BusyIs DEF FindEnded, At, TypeInv
      <3>2. req' = [req EXCEPT ![r] = q]
        BY <1>1, <3>1 DEF FindEnded, TypeInv, ReqTyped
      <3> HIDE DEF keep
      <3>3. q.pc = "expiring" /\ q.job = req[r].job /\ q.p = req[r].p
        BY <3>1 DEF Works
      <3> HIDE DEF q
      <3>4. req'[r] = q /\ Others(r)
        BY <3>2 DEF TypeInv, ReqTyped, Others
      <3>5. Serving(r)'
        BY <3>3, <3>4 DEF Serving, Idle, Down
      <3> QED BY <3>1, <3>3, <3>4, <3>5 DEF Moves
    <2> QED BY <1>1, <2>1, OnceMoves DEF FindEnded, At
  <1>2. CASE ~Ended(org.sub)
    <2>1. Ends(r) \/ Moves(r, "read")
      BY <1>2, AfterExpiryGoes DEF FindEnded, At
    <2> QED BY <1>2, <2>1, OnceMoves, OnceEnds DEF FindEnded, At
  <1> QED BY <1>1, <1>2

LEMMA OnceExpirePlan ==
  ASSUME TypeInv, OnceInv, NEW r \in Requests, ExpirePlan(r)
  PROVE  OnceInv'
  <1>1. Ends(r) \/ Moves(r, "read")
    BY AfterExpiryGoes DEF ExpirePlan, At
  <1>2. org'.sched.pay \in {org.sched.pay, NoPay}
    BY DEF ExpirePlan, NoSched
  <1> QED BY <1>1, <1>2, OnceMoves, OnceEnds DEF ExpirePlan, At

LEMMA ReadBillingMoves ==
  ASSUME TypeInv, NEW r \in Requests, ReadBilling(r)
  PROVE  Moves(r, "apply") /\ req'[r].seen = org
  <1> DEFINE q == [req[r] EXCEPT !.pc = "apply", !.seen = org]
  <1>1. Serving(r) /\ req[r] \in Works
    BY BusyIs DEF ReadBilling, At, TypeInv
  <1>2. req' = [req EXCEPT ![r] = q]
    BY <1>1 DEF ReadBilling, TypeInv, ReqTyped
  <1>3. q.pc = "apply" /\ q.job = req[r].job /\ q.p = req[r].p /\ q.seen = org
    BY <1>1 DEF Works
  <1> HIDE DEF q
  <1>4. req'[r] = q /\ Others(r)
    BY <1>2 DEF TypeInv, ReqTyped, Others
  <1>5. Serving(r)'
    BY <1>3, <1>4 DEF Serving, Idle, Down
  <1> QED BY <1>1, <1>3, <1>4, <1>5 DEF Moves

LEMMA OnceReadBilling ==
  ASSUME TypeInv, OnceInv, NEW r \in Requests, ReadBilling(r)
  PROVE  OnceInv'
  BY ReadBillingMoves, OnceMoves DEF ReadBilling, At

LEMMA OnceRejectQuote ==
  ASSUME TypeInv, OnceInv, NEW r \in Requests, RejectQuote(r)
  PROVE  OnceInv'
  <1>1. Moves(r, "refund")
    BY GotoMoves DEF RejectQuote, At, TypeInv, Continue
  <1> QED BY <1>1, OnceMoves DEF RejectQuote, At

(* The request that applies a payment gives it its effect and goes on to   *)
(* mark it.                                                                *)
LEMMA OnceEffect ==
  ASSUME TypeInv, OnceInv, NEW r \in Requests, Applying(r), req[r].pc # "mark",
         Moves(r, "mark"), pay' = pay, org.sched = NoSched,
         \A q \in Payments : q # req[r].p => bought'[q] = bought[q] /\ org'.sched.pay # q,
         \/ bought'[req[r].p] = bought[req[r].p]
         \/ bought'[req[r].p] = bought[req[r].p] + 1 /\ org'.sched.pay # req[r].p
  PROVE  OnceInv'
  <1> DEFINE p == req[r].p
  <1>1. p \in Payments /\ Unused(p) /\ bought[p] = 0
    BY ApplyingPays DEF TypeInv, OnceInv, Pending, Marking, Unused
  <1>2. \A s \in Requests : Applying(s) /\ req[s].p = p => s = r
    BY DEF OnceInv, Claimed
  <1>3. Marking(r)' /\ Applying(r)' /\ req'[r].p = p
    BY DEF Moves, Marking, Applying, Applies
  <1>4. \A s \in Requests : s # r =>
          (Applying(s)' <=> Applying(s)) /\ (Marking(s)' <=> Marking(s)) /\ req'[s].p = req[s].p
    BY DEF Moves, Others, Applying, Marking, Applies, Serving
  <1>5. \A s \in Requests : Applying(s) => req[s].p \in Payments
    BY ApplyingPays DEF TypeInv
  <1>6. \A q \in Payments : q # p => (Unused(q) => Unused(q)')
    BY DEF Unused
  <1>7. Claimed'
    BY <1>3, <1>4, <1>5 DEF OnceInv, Claimed
  <1>8. Pending'
    BY <1>2, <1>3, <1>4, <1>5, <1>6 DEF OnceInv, Pending
  <1>9. \A q \in Payments : q # p =>
          (/\ bought'[q] <= 1
           /\ org'.sched.pay = q => bought'[q] = 0
           /\ \/ pay'[q].applied \/ Unused(q)'
              \/ \E s \in Requests : Marking(s)' /\ req'[s].p = q)
    BY <1>4, <1>6 DEF OnceInv, Once, Marking
  <1>10. bought'[p] <= 1 /\ (org'.sched.pay = p => bought'[p] = 0)
    BY <1>1
  <1>11. Once'
    BY <1>3, <1>9, <1>10 DEF Once
  <1> QED BY <1>7, <1>8, <1>11 DEF OnceInv

LEMMA OnceSchedulePaidPlan ==
  ASSUME TypeInv, OnceInv, NEW r \in Requests, SchedulePaidPlan(r)
  PROVE  OnceInv'
  <1>1. Serving(r) /\ req[r] \in Works /\ FlowOK(req[r]) /\ req[r].p \in Payments
        /\ req[r].job # "sweep"
    BY DocTyped DEF SchedulePaidPlan, At, TypeInv
  <1>2. Applying(r) /\ req[r].pc = "apply"
    BY <1>1 DEF SchedulePaidPlan, At, Applying, Applies, Works, FlowOK
  <1>3. \/ Moves(r, "refund") /\ org' = org
        \/ Moves(r, "mark") /\ org.sched = NoSched /\ org'.sched.pay = req[r].p
    <2>1. \/ Continue(r, "refund") /\ org' = org
          \/ /\ Continue(r, "mark") /\ org.sched = NoSched
             /\ org' = [org EXCEPT !.sched =
                  [plan |-> Doc(r).order.plan, start |-> req[r].seen.sub.until,
                   until |-> Doc(r).order.until, pay |-> req[r].p]]
      BY DEF SchedulePaidPlan
    <2>2. org \in OrgDocs
      BY DEF TypeInv, OrgTyped
    <2> QED BY <2>1, <2>2, <1>2, GotoMoves DEF Continue, TypeInv, OrgDocs
  <1>4. CASE Moves(r, "refund") /\ org' = org
    BY <1>2, <1>4, OnceMoves DEF SchedulePaidPlan
  <1>5. CASE Moves(r, "mark") /\ org.sched = NoSched /\ org'.sched.pay = req[r].p
    BY <1>2, <1>5, OnceEffect DEF SchedulePaidPlan
  <1> QED BY <1>3, <1>4, <1>5

LEMMA OnceChangePlan ==
  ASSUME TypeInv, OnceInv, NEW r \in Requests, ChangePlan(r)
  PROVE  OnceInv'
  <1>1. Serving(r) /\ req[r] \in Works /\ FlowOK(req[r]) /\ req[r].p \in Payments
        /\ req[r].job # "sweep"
    BY DocTyped DEF ChangePlan, At, TypeInv
  <1>2. Applying(r) /\ req[r].pc = "apply"
    BY <1>1 DEF ChangePlan, At, Applying, Applies, Works, FlowOK
  <1>3. \/ Moves(r, "refund") /\ org' = org /\ bought' = bought
        \/ /\ Moves(r, "mark") /\ org.sched = NoSched /\ org'.sched = NoSched
           /\ Buy(req[r].p)
    BY <1>2, GotoMoves DEF ChangePlan, Continue, TypeInv
  <1>4. CASE Moves(r, "refund") /\ org' = org /\ bought' = bought
    BY <1>2, <1>4, OnceMoves DEF ChangePlan
  <1>5. CASE /\ Moves(r, "mark") /\ org.sched = NoSched /\ org'.sched = NoSched
             /\ Buy(req[r].p)
    <2>1. bought[req[r].p] = 0 /\ bought \in [Payments -> 0..2]
      BY <1>2 DEF OnceInv, Pending, Marking, Unused, TypeInv, CountsTyped
    <2>2. bought'[req[r].p] = bought[req[r].p] + 1
          /\ \A q \in Payments : q # req[r].p => bought'[q] = bought[q]
      BY <1>1, <1>5, <2>1 DEF Buy
    <2>3. \A q \in Payments : org'.sched.pay # q
      BY <1>5, PaymentsAssumption DEF NoSched
    <2> QED BY <1>1, <1>2, <1>5, <2>2, <2>3, OnceEffect DEF ChangePlan
  <1> QED BY <1>3, <1>4, <1>5

(* The holder of the claim ends: what it applied counts as applied, or     *)
(* else the payment is as it was.                                          *)
LEMMA OnceDone ==
  ASSUME TypeInv, OnceInv, NEW r \in Requests, Applying(r), Ends(r), NEW doc,
         Store(req[r].p, doc), Marking(r) => doc.applied, org' = org, bought' = bought,
         pay[req[r].p].applied => doc.applied
  PROVE  OnceInv'
  <1> DEFINE p == req[r].p
  <1>1. p \in Payments
    BY ApplyingPays DEF TypeInv
  <1>2. \A s \in Requests : Applying(s) /\ req[s].p = p => s = r
    BY DEF OnceInv, Claimed
  <1>3. pay'[p] = doc /\ \A q \in Payments : q # p => pay'[q] = pay[q]
    BY <1>1, StoreIs DEF TypeInv
  <1>4. ~Applying(r)' /\ ~Marking(r)'
    BY DEF Ends, Applying, Marking, Applies
  <1>5. \A s \in Requests : s # r =>
          (Applying(s)' <=> Applying(s)) /\ (Marking(s)' <=> Marking(s)) /\ req'[s].p = req[s].p
    BY DEF Ends, Others, Applying, Marking, Applies, Serving
  <1>6. \A s \in Requests : Applying(s) => req[s].p \in Payments
    BY ApplyingPays DEF TypeInv
  <1>7. \A q \in Payments : Unused(q)' <=> Unused(q)
    BY DEF Unused
  <1>8. Claimed'
    BY <1>2, <1>3, <1>4, <1>5, <1>6 DEF OnceInv, Claimed
  <1>9. Pending'
    BY <1>4, <1>5, <1>6, <1>7 DEF OnceInv, Pending
  <1>10. \A q \in Payments : q # p =>
          (\/ pay'[q].applied \/ Unused(q)'
           \/ \E s \in Requests : Marking(s)' /\ req'[s].p = q)
    BY <1>3, <1>5, <1>7 DEF OnceInv, Once
  <1>11. \A q \in Payments : q = p => pay'[q].applied \/ Unused(q)'
    <2>1. CASE Marking(r)
      BY <1>3, <2>1
    <2>2. CASE ~Marking(r)
      BY <1>1, <1>7, <2>2 DEF OnceInv, Pending
    <2> QED BY <2>1, <2>2
  <1>12. Once'
    BY <1>10, <1>11 DEF OnceInv, Once
  <1> QED BY <1>8, <1>9, <1>12 DEF OnceInv

(* Where only appliers can be.                                             *)
LEMMA AppliesAt ==
  ASSUME TypeInv, NEW r \in Requests,
         \/ req[r].pc \in {"read", "apply", "mark", "release"}
         \/ req[r].pc \in {"refund", "record"} /\ Receipt(r) = "stale"
  PROVE  Applying(r) /\ req[r].p \in Payments /\ Doc(r) \in PaymentDocs
  <1>1. req[r].p \in Payments /\ Doc(r) \in PaymentDocs
        /\ Serving(r) /\ req[r] \in Works /\ FlowOK(req[r]) /\ req[r].job # "sweep"
    BY DocTyped DEF TypeInv
  <1> QED BY <1>1 DEF Applying, Applies, Works, FlowOK, Receipt

LEMMA OnceMarkApplied ==
  ASSUME TypeInv, OnceInv, NEW r \in Requests, MarkApplied(r)
  PROVE  OnceInv'
  <1> DEFINE doc == [Doc(r) EXCEPT !.applied = TRUE]
  <1>1. Applying(r) /\ Doc(r) \in PaymentDocs
    BY AppliesAt DEF MarkApplied, At
  <1>2. doc.applied
    BY <1>1 DEF PaymentDocs
  <1>3. Ends(r) /\ Store(req[r].p, doc)
    BY ReturnEnds DEF MarkApplied, Answer, TypeInv
  <1> HIDE DEF doc
  <1> QED BY <1>1, <1>2, <1>3, OnceDone DEF MarkApplied

LEMMA OnceReleaseClaim ==
  ASSUME TypeInv, OnceInv, NEW r \in Requests, ReleaseClaim(r)
  PROVE  OnceInv'
  <1> DEFINE doc == [Doc(r) EXCEPT !.applying = "no"]
  <1>1. Applying(r) /\ Doc(r) \in PaymentDocs /\ ~Marking(r)
    BY AppliesAt DEF ReleaseClaim, At, Marking
  <1>2. doc.applied = pay[req[r].p].applied
    BY <1>1 DEF PaymentDocs, Doc
  <1>3. Ends(r) /\ Store(req[r].p, doc)
    BY ReturnEnds DEF ReleaseClaim, Throw, TypeInv
  <1> HIDE DEF doc
  <1> QED BY <1>1, <1>2, <1>3, OnceDone DEF ReleaseClaim

LEMMA OnceRecordStaleRefund ==
  ASSUME TypeInv, OnceInv, NEW r \in Requests, RecordStaleRefund(r)
  PROVE  OnceInv'
  <1> DEFINE doc == [Doc(r) EXCEPT !.applying = "no", !.applied = TRUE,
                                   !.refund = "refunded"]
  <1>1. Applying(r) /\ Doc(r) \in PaymentDocs
    BY AppliesAt DEF RecordStaleRefund, At
  <1>2. doc.applied
    BY <1>1 DEF PaymentDocs
  <1>3. Ends(r) /\ Store(req[r].p, doc)
    BY ReturnEnds DEF RecordStaleRefund, Throw, TypeInv
  <1> HIDE DEF doc
  <1> QED BY <1>1, <1>2, <1>3, OnceDone DEF RecordStaleRefund

LEMMA OnceFailToApply ==
  ASSUME TypeInv, OnceInv, NEW r \in Requests, FailToApply(r)
  PROVE  OnceInv'
  <1>1. Ends(r) \/ Moves(r, "release")
    BY ReturnEnds, GotoMoves DEF FailToApply, Throw, Continue, TypeInv
  <1> QED BY <1>1, OnceEnds, OnceMoves DEF FailToApply

LEMMA OnceRefund ==
  ASSUME TypeInv, OnceInv, NEW r \in Requests, Refund(r)
  PROVE  OnceInv'
  <1>1. Moves(r, "record")
    BY GotoMoves DEF Refund, At, TypeInv
  <1> QED BY <1>1, OnceMoves DEF Refund, At

LEMMA OnceRefundFails ==
  ASSUME TypeInv, OnceInv, NEW r \in Requests, RefundFails(r)
  PROVE  OnceInv'
  <1>1. req[r].pc = "refund" /\ ReqTyped
    BY DEF RefundFails, At, TypeInv
  <1>2. Return(r) \/ Goto(r, "unclaim")
    BY DEF RefundFails
  <1>3. Ends(r) \/ Moves(r, "unclaim")
    BY <1>1, <1>2, GotoMoves, ReturnEnds
  <1>4. org' = org /\ pay' = pay /\ bought' = bought
    BY DEF RefundFails
  <1> QED BY <1>1, <1>3, <1>4, OnceMoves, OnceEnds

(* A refund leaves the claim of applyPayment and what is applied alone.    *)
LEMMA RefundLeaves ==
  ASSUME TypeInv, NEW p \in Payments,
         NEW refund \in {"none", "processing", "overdue", "refunded"}, NEW doc,
         doc \in {pay[p], [pay[p] EXCEPT !.refund = refund],
                  [pay[p] EXCEPT !.applied = TRUE, !.refund = refund]},
         Store(p, doc)
  PROVE  \A q \in Payments :
           /\ pay[q].applying = "claimed" => pay'[q].applying = "claimed"
           /\ pay[q].applied => pay'[q].applied
  <1>1. doc.applying = pay[p].applying /\ (pay[p].applied => doc.applied)
    BY ZenonT(60) DEF TypeInv, PayTyped, PaymentDocs
  <1> QED BY <1>1, StoreKeeps DEF TypeInv

LEMMA OnceGiveUpRefund ==
  ASSUME TypeInv, OnceInv, NEW r \in Requests, GiveUpRefund(r)
  PROVE  OnceInv'
  <1>1. Ends(r) /\ req[r].p \in Payments
    BY ReturnEnds, DocTyped DEF GiveUpRefund, At, Throw, TypeInv
  <1>2. PICK doc : doc \in {pay[req[r].p], [pay[req[r].p] EXCEPT !.refund = "none"]}
                   /\ Store(req[r].p, doc)
    BY DEF GiveUpRefund, Doc
  <1> QED BY <1>1, <1>2, RefundLeaves, OnceEnds DEF GiveUpRefund, At

LEMMA OnceRecordMismatchRefund ==
  ASSUME TypeInv, OnceInv, NEW r \in Requests, RecordMismatchRefund(r)
  PROVE  OnceInv'
  <1>1. Ends(r) /\ req[r].p \in Payments
    BY ReturnEnds, DocTyped DEF RecordMismatchRefund, At, Answer, TypeInv
  <1>2. PICK doc : doc \in {pay[req[r].p],
                            [pay[req[r].p] EXCEPT !.applied = TRUE, !.refund = "refunded"]}
                   /\ Store(req[r].p, doc)
    BY SMTT(60) DEF RecordMismatchRefund, Doc
  <1> QED BY <1>1, <1>2, RefundLeaves, OnceEnds DEF RecordMismatchRefund, At

LEMMA OnceRecordCancelRefund ==
  ASSUME TypeInv, OnceInv, NEW r \in Requests, RecordCancelRefund(r)
  PROVE  OnceInv'
  <1>1. Moves(r, "clear") /\ req[r].p \in Payments
    BY GotoMoves, DocTyped DEF RecordCancelRefund, At, Continue, TypeInv
  <1>2. PICK doc : doc \in {pay[req[r].p], [pay[req[r].p] EXCEPT !.refund = "refunded"]}
                   /\ Store(req[r].p, doc)
    BY DEF RecordCancelRefund, Doc
  <1> QED BY <1>1, <1>2, RefundLeaves, OnceMoves DEF RecordCancelRefund, At

LEMMA OnceClaimCancelRefund ==
  ASSUME TypeInv, OnceInv, NEW r \in Requests, ClaimCancelRefund(r)
  PROVE  OnceInv'
  <1>1. req[r].p \in Payments
    BY DocTyped, SMTT(60) DEF ClaimCancelRefund, At, TypeInv
  <1>2. CASE Refundable(Doc(r))
    <2>1. Moves(r, "refund")
      BY <1>2, GotoMoves DEF ClaimCancelRefund, At, Continue, TypeInv
    <2>2. PICK doc : doc \in {[pay[req[r].p] EXCEPT !.refund = "processing"]}
                     /\ Store(req[r].p, doc)
      BY <1>2 DEF ClaimCancelRefund, Doc
    <2> QED BY <1>1, <2>1, <2>2, RefundLeaves, OnceMoves DEF ClaimCancelRefund, At
  <1>3. CASE ~Refundable(Doc(r))
    BY <1>3, ReturnEnds, OnceEnds DEF ClaimCancelRefund, At, Throw, TypeInv
  <1> QED BY <1>2, <1>3

LEMMA OnceClearSchedule ==
  ASSUME TypeInv, OnceInv, NEW r \in Requests, ClearSchedule(r)
  PROVE  OnceInv'
  <1>1. Ends(r)
    BY ReturnEnds DEF ClearSchedule, Throw, TypeInv
  <1>2. org'.sched.pay \in {org.sched.pay, NoPay}
    BY DEF ClearSchedule, TypeInv, OrgTyped, OrgDocs, NoSched
  <1> QED BY <1>1, <1>2, OnceEnds DEF ClearSchedule, At

LEMMA OnceScheduleFreeDowngrade ==
  ASSUME TypeInv, OnceInv, ScheduleFreeDowngrade
  PROVE  OnceInv'
  <1>1. org'.sched.pay = org.sched.pay
    BY DEF ScheduleFreeDowngrade, TypeInv, OrgTyped, OrgDocs, Schedules
  <1> QED BY <1>1, OnceSame DEF ScheduleFreeDowngrade

LEMMA OnceRestart ==
  ASSUME TypeInv, OnceInv, NEW r \in Requests, Restart(r)
  PROVE  OnceInv'
  BY ReturnEnds, OnceEnds DEF Restart, At, Throw, TypeInv

(* At first nobody works, nothing is bought and nothing is ordered.        *)
LEMMA InitIs ==
  ASSUME Init
  PROVE  /\ \A r \in Requests : ~Serving(r)
         /\ \A p \in Payments :
              /\ bought[p] = 0
              /\ pay[p].status = "none" /\ ~pay[p].applied
              /\ bank[p].held = "no" /\ bank[p].returned = {}
         /\ org.sched.pay = NoPay /\ now = 0
  <1>1. req = [r \in Requests |-> Idle]
    BY Zenon DEF Init
  <1>2. bought = [p \in Payments |-> 0]
    BY Zenon DEF Init
  <1>3. pay = [p \in Payments |->
                 [status |-> "none", order |-> NoOrder, paidAt |-> 0,
                  applying |-> "no", applied |-> FALSE, refund |-> "none"]]
    BY Zenon DEF Init
  <1>4. bank = [p \in Payments |-> [held |-> "no", returned |-> {}, told |-> FALSE]]
    BY Zenon DEF Init
  <1>5. now = 0
    BY Zenon DEF Init
  <1>6. org.sched.pay = NoPay
    BY InitNoSched DEF NoSched
  <1> QED BY <1>1, <1>2, <1>3, <1>4, <1>5, <1>6 DEF Serving

LEMMA OnceInit ==
  ASSUME Init
  PROVE  OnceInv
  <1>1. \A r \in Requests : ~Applying(r) /\ ~Marking(r)
    BY InitIs DEF Applying, Applies, Marking
  <1>2. \A p \in Payments : Unused(p) /\ org.sched.pay # p /\ bought[p] = 0
    BY InitIs, PaymentsAssumption DEF Unused
  <1>3. Claimed /\ Pending
    BY <1>1 DEF Claimed, Pending
  <1>4. Once
    BY <1>2 DEF Once
  <1> QED BY <1>3, <1>4 DEF OnceInv

LEMMA OnceStep ==
  ASSUME Calm, TypeInv, OnceInv, [Next]_vars
  PROVE  OnceInv'
  <1>1. ASSUME NEW r \in Requests, Proceed(r)
        PROVE  OnceInv'
    BY <1>1, OnceClaimApply, OnceActivateScheduledPaidPlan, OnceFindEnded, OnceExpirePlan,
       OnceReadBilling, OnceRejectQuote, OnceSchedulePaidPlan, OnceChangePlan,
       OnceMarkApplied, OnceReleaseClaim, OnceRefund, OnceGiveUpRefund,
       OnceRecordStaleRefund, OnceRecordMismatchRefund, OnceRecordCancelRefund,
       OnceClaimCancelRefund, OnceClearSchedule
    DEF Proceed
  <1>2. ASSUME NEW p \in Payments, NEW amount \in Amounts, Capture(p, amount)
        PROVE  OnceInv'
    BY <1>2, OnceSame DEF Capture
  <1>3. ASSUME NEW r \in Requests, Crash(r)
        PROVE  FALSE
    BY <1>3 DEF Crash, Calm
  <1>4. CASE Tick
    BY <1>4, OnceSame DEF Tick
  <1>5. CASE UNCHANGED vars
    BY <1>5, OnceSame DEF vars
  <1> QED BY <1>1, <1>2, <1>3, <1>4, <1>5, OnceCreateOrder, OnceClaimAges, OnceReportPaid,
             OnceReportMismatch, OnceSweep, OnceCancelScheduledChange, OnceFailToApply,
             OnceRefundFails, OnceRestart, OnceScheduleFreeDowngrade
          DEF Next, Report

(* No payment moves the plan twice, whoever reports it and however often,  *)
(* as long as the request that claims a payment is not cut short: whatever *)
(* was ordered, captured, refused or asked for besides, for any time.      *)
THEOREM AppliedOnceCorrect ==
  ASSUME Calm
  PROVE  Spec => []AppliedOnce
<1>1. Init => TypeInv /\ OnceInv
  BY TypeInit, OnceInit
<1>2. TypeInv /\ OnceInv /\ [Next]_vars => TypeInv' /\ OnceInv'
  BY TypeStep, OnceStep
<1>3. TypeInv /\ OnceInv => AppliedOnce
  BY DEF OnceInv, Once, AppliedOnce
<1> QED BY <1>1, <1>2, <1>3, PTL DEF Spec

-----------------------------------------------------------------------------
(* What every step of a request under way has in common.                   *)
RequestStep(r) ==
  Proceed(r) \/ FailToApply(r) \/ RefundFails(r) \/ Crash(r) \/ Restart(r)

LEMMA FindEndedGoes ==
  ASSUME TypeInv, NEW r \in Requests, FindEnded(r)
  PROVE  bank' = bank /\ (Ends(r) \/ Moves(r, "expiring") \/ Moves(r, "read"))
  <1>1. CASE Ended(org.sub)
    <2> DEFINE keep == PaidSchedule(org) /\ Good(pay[org.sched.pay])
               q == [req[r] EXCEPT !.pc = "expiring", !.keep = keep]
    <2>1. Serving(r) /\ req[r] \in Works
      BY BusyIs DEF FindEnded, At, TypeInv
    <2>2. req' = [req EXCEPT ![r] = q] /\ bank' = bank
      BY <1>1, <2>1 DEF FindEnded, TypeInv, ReqTyped
    <2> HIDE DEF keep
    <2>3. q.pc = "expiring" /\ q.job = req[r].job /\ q.p = req[r].p
      BY <2>1 DEF Works
    <2> HIDE DEF q
    <2>4. req'[r] = q /\ Others(r)
      BY <2>2 DEF TypeInv, ReqTyped, Others
    <2>5. Serving(r)'
      BY <2>3, <2>4 DEF Serving, Idle, Down
    <2> QED BY <2>1, <2>2, <2>3, <2>4, <2>5 DEF Moves
  <1>2. CASE ~Ended(org.sub)
    BY <1>2, AfterExpiryGoes DEF FindEnded, At
  <1> QED BY <1>1, <1>2

(* Which step leads where.                                                 *)
Leads(r, pc) ==
  \/ pc \in {"expiring", "read", "release"}
  \/ pc = "expire" /\ ClaimApply(r)
  \/ pc = "apply" /\ ReadBilling(r)
  \/ pc = "mark" /\ (SchedulePaidPlan(r) \/ ChangePlan(r))
  \/ pc = "refund" /\ (RejectQuote(r) \/ SchedulePaidPlan(r) \/ ChangePlan(r)
                       \/ ClaimCancelRefund(r))
  \/ pc = "record" /\ Refund(r)
  \/ pc = "unclaim" /\ RefundFails(r)
  \/ pc = "clear" /\ RecordCancelRefund(r)

(* It moves on or ends, and leaves the other requests alone.               *)
LEMMA RequestGoes ==
  ASSUME TypeInv, NEW r \in Requests, RequestStep(r)
  PROVE  Ends(r) \/ \E pc : Moves(r, pc) /\ Leads(r, pc)
  <1> DEFINE Goes == Ends(r) \/ \E pc : Moves(r, pc) /\ Leads(r, pc)
  <1> SUFFICES Goes
    OBVIOUS
  <1>0. ReqTyped
    BY DEF TypeInv
  <1>1. ASSUME NEW pc, Leads(r, pc), req[r].pc \notin {"idle", "down"}, Goto(r, pc)
        PROVE  Goes
    <2>1. pc \notin {"idle", "down"}
      BY <1>1 DEF Leads
    <2> QED BY <1>0, <1>1, <2>1, GotoMoves
  <1>2. ASSUME Return(r)
        PROVE  Goes
    BY <1>0, <1>2, ReturnEnds
  <1> HIDE DEF Goes
  <1>3. CASE ClaimApply(r)
    <2>1. Leads(r, "expire") /\ req[r].pc = "claim"
      BY <1>3 DEF Leads, ClaimApply, At
    <2>2. Goto(r, "expire") \/ Return(r)
      BY <1>3 DEF ClaimApply, Continue, Answer
    <2> QED BY <1>1, <1>2, <2>1, <2>2
  <1>4. CASE RejectQuote(r) \/ SchedulePaidPlan(r) \/ ChangePlan(r)
    <2>1. Leads(r, "refund") /\ req[r].pc = "apply"
      BY <1>4 DEF Leads, RejectQuote, SchedulePaidPlan, ChangePlan, At
    <2>2. Goto(r, "refund") \/ (Goto(r, "mark") /\ Leads(r, "mark"))
      BY <1>4 DEF RejectQuote, SchedulePaidPlan, ChangePlan, Continue, Leads
    <2> QED BY <1>1, <2>1, <2>2
  <1>5. CASE ActivateScheduledPaidPlan(r) \/ ExpirePlan(r) \/ FindEnded(r) \/ ReadBilling(r)
    <2>1. Ends(r) \/ Moves(r, "read") \/ Moves(r, "expiring")
          \/ (Moves(r, "apply") /\ ReadBilling(r))
      BY <1>5, AfterExpiryGoes, FindEndedGoes, ReadBillingMoves
         DEF ActivateScheduledPaidPlan, ExpirePlan, At
    <2>2. Leads(r, "read") /\ Leads(r, "expiring") /\ (ReadBilling(r) => Leads(r, "apply"))
      BY DEF Leads
    <2> QED BY <2>1, <2>2 DEF Goes
  <1>6. CASE MarkApplied(r) \/ ReleaseClaim(r) \/ GiveUpRefund(r) \/ RecordStaleRefund(r)
             \/ RecordMismatchRefund(r) \/ ClearSchedule(r) \/ Restart(r)
    <2>1. Return(r)
      BY <1>6 DEF MarkApplied, ReleaseClaim, GiveUpRefund, RecordStaleRefund,
                  RecordMismatchRefund, ClearSchedule, Restart, Answer, Throw
    <2> QED BY <1>2, <2>1
  <1>7. CASE Refund(r)
    <2>1. Leads(r, "record") /\ req[r].pc = "refund" /\ Goto(r, "record")
      BY <1>7 DEF Leads, Refund, At
    <2> QED BY <1>1, <2>1
  <1>8. CASE RecordCancelRefund(r)
    <2>1. Leads(r, "clear") /\ req[r].pc = "record" /\ Goto(r, "clear")
      BY <1>8 DEF Leads, RecordCancelRefund, At, Continue
    <2> QED BY <1>1, <2>1
  <1>9. CASE ClaimCancelRefund(r)
    <2>1. Leads(r, "refund") /\ req[r].pc = "cancel"
      BY <1>9 DEF Leads, ClaimCancelRefund, At
    <2>2. Goto(r, "refund") \/ Return(r)
      BY <1>9 DEF ClaimCancelRefund, Continue, Throw
    <2> QED BY <1>1, <1>2, <2>1, <2>2
  <1>10. CASE FailToApply(r)
    <2>1. Leads(r, "release") /\ req[r].pc \notin {"idle", "down"}
      BY <1>10 DEF Leads, FailToApply
    <2>2. Goto(r, "release") \/ Return(r)
      BY <1>10 DEF FailToApply, Continue, Throw
    <2> QED BY <1>1, <1>2, <2>1, <2>2
  <1>11. CASE RefundFails(r)
    <2>1. Return(r) \/ Goto(r, "unclaim")
      BY <1>11 DEF RefundFails
    <2>2. Leads(r, "unclaim") /\ req[r].pc = "refund"
      <3>1. req[r].pc = "refund"
        BY <1>11 DEF RefundFails, At
      <3> QED BY <1>11, <3>1 DEF Leads
    <2> QED BY <1>1, <1>2, <2>1, <2>2
  <1>12. CASE Crash(r)
    <2>1. Ends(r)
      BY <1>12 DEF Crash, Ends, Others, Serving, TypeInv, ReqTyped
    <2> QED BY <2>1 DEF Goes
  <1> QED BY <1>3, <1>4, <1>5, <1>6, <1>7, <1>8, <1>9, <1>10, <1>11, <1>12
          DEF RequestStep, Proceed

(* It does not change what was captured.                                   *)
LEMMA HeldStays ==
  ASSUME TypeInv, NEW r \in Requests, RequestStep(r)
  PROVE  \A p \in Payments : bank'[p].held = bank[p].held
  <1>0. BankTyped
    BY DEF TypeInv
  <1>1. ASSUME Answer(r)
        PROVE  \A p \in Payments : bank'[p].held = bank[p].held
    BY <1>0, <1>1 DEF Answer, Tell, BankTyped, Accounts
  <1>2. CASE ClaimApply(r) \/ RejectQuote(r) \/ SchedulePaidPlan(r) \/ ChangePlan(r)
             \/ ReadBilling(r) \/ MarkApplied(r) \/ ReleaseClaim(r) \/ GiveUpRefund(r)
    BY <1>1, <1>2 DEF ClaimApply, RejectQuote, SchedulePaidPlan, ChangePlan, ReadBilling,
                      MarkApplied, ReleaseClaim, GiveUpRefund, Continue, Throw
  <1>3. CASE ActivateScheduledPaidPlan(r) \/ ExpirePlan(r)
    BY <1>3, AfterExpiryGoes DEF ActivateScheduledPaidPlan, ExpirePlan, At
  <1>4. CASE FindEnded(r)
    BY <1>4, FindEndedGoes
  <1>5. CASE RecordStaleRefund(r) \/ RecordMismatchRefund(r) \/ RecordCancelRefund(r)
             \/ ClaimCancelRefund(r) \/ ClearSchedule(r) \/ Restart(r) \/ FailToApply(r)
    BY <1>1, <1>5 DEF RecordStaleRefund, RecordMismatchRefund, RecordCancelRefund,
                      ClaimCancelRefund, ClearSchedule, Restart, FailToApply, Continue, Throw
  <1>6. CASE Refund(r)
    BY <1>0, <1>6 DEF Refund, BankTyped, Accounts
  <1>7. CASE RefundFails(r)
    <2>1. PICK done : bank' = [bank EXCEPT ![req[r].p].returned = @ \cup done]
      BY <1>7 DEF RefundFails
    <2> QED BY <1>0, <2>1 DEF BankTyped, Accounts
  <1>8. CASE Crash(r)
    BY <1>8 DEF Crash
  <1> QED BY <1>2, <1>3, <1>4, <1>5, <1>6, <1>7, <1>8 DEF RequestStep, Proceed

(* It gives an effect only to the payment it applies.                      *)
LEMMA UnusedStays ==
  ASSUME TypeInv, NEW r \in Requests, RequestStep(r),
         NEW p \in Payments, Unused(p),
         SchedulePaidPlan(r) \/ ChangePlan(r) => req[r].p # p
  PROVE  Unused(p)'
  <1>0. ReqTyped /\ org \in OrgDocs /\ bought \in [Payments -> 0..2] /\ p # NoPay
    BY PaymentsAssumption DEF TypeInv, OrgTyped, CountsTyped
  <1>1. ASSUME org'.sched.pay \in {org.sched.pay, NoPay}, bought'[p] = bought[p]
        PROVE  Unused(p)'
    BY <1>0, <1>1 DEF Unused
  <1>2. ASSUME NEW q \in Payments, Buy(q), q # p
        PROVE  bought'[p] = bought[p]
    BY <1>0, <1>2 DEF Buy
  <1>3. CASE ClaimApply(r) \/ RejectQuote(r) \/ FindEnded(r)
             \/ ReadBilling(r) \/ MarkApplied(r) \/ ReleaseClaim(r) \/ GiveUpRefund(r)
    BY <1>1, <1>3 DEF ClaimApply, RejectQuote, FindEnded, ReadBilling, MarkApplied,
                      ReleaseClaim, GiveUpRefund
  <1>4. CASE ActivateScheduledPaidPlan(r)
    <2>1. org.sched.pay \in Payments /\ org.sched.pay # p /\ Buy(org.sched.pay)
          /\ org'.sched = NoSched
      BY <1>4 DEF ActivateScheduledPaidPlan, Unused, TypeInv, OrgTyped
    <2> QED BY <1>1, <1>2, <2>1 DEF NoSched
  <1>5. CASE ExpirePlan(r)
    BY <1>1, <1>5 DEF ExpirePlan, NoSched
  <1>6. CASE SchedulePaidPlan(r)
    <2>1. req[r].p # p
      BY <1>6
    <2>2. org'.sched.pay \in {org.sched.pay, req[r].p}
      BY <1>0, <1>6 DEF SchedulePaidPlan, OrgDocs
    <2> QED BY <1>0, <1>6, <2>1, <2>2 DEF SchedulePaidPlan, Unused
  <1>7. CASE ChangePlan(r)
    <2>1. req[r].p \in Payments /\ req[r].p # p
      BY <1>7, AppliesAt DEF ChangePlan, At
    <2>2. org'.sched = org.sched \/ org'.sched = NoSched
      BY <1>7 DEF ChangePlan
    <2> QED BY <1>1, <1>2, <1>7, <2>1, <2>2 DEF ChangePlan, NoSched
  <1>8. CASE RecordStaleRefund(r) \/ RecordMismatchRefund(r) \/ RecordCancelRefund(r)
             \/ ClaimCancelRefund(r) \/ Restart(r) \/ FailToApply(r) \/ Crash(r)
             \/ Refund(r)
    BY <1>1, <1>8 DEF RecordStaleRefund, RecordMismatchRefund, RecordCancelRefund,
                      ClaimCancelRefund, Restart, FailToApply, Crash, Refund
  <1>9. CASE RefundFails(r)
    <2>1. org' = org /\ bought' = bought
      BY <1>9 DEF RefundFails
    <2> QED BY <1>1, <2>1
  <1>10. CASE ClearSchedule(r)
    BY <1>0, <1>1, <1>10 DEF ClearSchedule, OrgDocs, NoSched
  <1> QED BY <1>3, <1>4, <1>5, <1>6, <1>7, <1>8, <1>9, <1>10 DEF RequestStep, Proceed

-----------------------------------------------------------------------------
(* A payment of another amount.                                            *)

LEMMA AmountSame ==
  ASSUME AmountInv, \A p \in Payments : bank[p].held # "right" => Unused(p)',
         \A p \in Payments : bank[p].held = "right" => bank'[p].held = "right",
         \A s \in Requests : Serving(s)' /\ req'[s].p \in Payments
                              /\ bank[req'[s].p].held # "right" =>
           \/ Serving(s) /\ req'[s].p = req[s].p /\ req'[s].job = req[s].job
           \/ req'[s].job = "mismatch"
  PROVE  AmountInv'
  BY DEF AmountInv, NoEffect

LEMMA AmountRequest ==
  ASSUME TypeInv, AmountInv, NEW r \in Requests, RequestStep(r)
  PROVE  AmountInv'
  <1>1. \A p \in Payments : bank'[p].held = bank[p].held
    BY HeldStays
  <1>2. \A p \in Payments : bank[p].held # "right" => Unused(p)'
    <2>1. ASSUME NEW p \in Payments, bank[p].held # "right"
          PROVE  Unused(p) /\ (SchedulePaidPlan(r) \/ ChangePlan(r) => req[r].p # p)
      <3>1. Unused(p) /\ (Applying(r) => req[r].p # p)
        BY <2>1 DEF AmountInv, NoEffect, Applying, Applies
      <3> QED BY <3>1, AppliesAt DEF SchedulePaidPlan, ChangePlan, At
    <2> QED BY <2>1, UnusedStays
  <1>3. \A s \in Requests : Serving(s)' =>
          Serving(s) /\ req'[s].p = req[s].p /\ req'[s].job = req[s].job
    BY RequestGoes DEF Ends, Moves, Others, Serving
  <1> QED BY <1>1, <1>2, <1>3, AmountSame

LEMMA AmountBegins ==
  ASSUME TypeInv, AmountInv, NEW r \in Requests, NEW pc, NEW job, NEW p,
         Begins(r, pc, job, p), org' = org, bought' = bought, bank' = bank,
         p \in Payments => bank[p].held = "right" \/ job = "mismatch"
  PROVE  AmountInv'
  <1>1. \A q \in Payments : bank[q].held # "right" => Unused(q)'
    BY DEF AmountInv, NoEffect, Unused
  <1>2. \A s \in Requests : Serving(s)' /\ s # r =>
          Serving(s) /\ req'[s].p = req[s].p /\ req'[s].job = req[s].job
    BY DEF Begins, Others, Serving
  <1>3. req'[r].p = p /\ req'[r].job = job
    BY DEF Begins
  <1> QED BY <1>1, <1>2, <1>3, AmountSame

LEMMA AmountQuiet ==
  ASSUME AmountInv, req' = req, org'.sched.pay = org.sched.pay, bought' = bought,
         \A p \in Payments : bank[p].held = "right" => bank'[p].held = "right"
  PROVE  AmountInv'
  <1>1. \A q \in Payments : bank[q].held # "right" => Unused(q)'
    BY DEF AmountInv, NoEffect, Unused
  <1> QED BY <1>1, AmountSame DEF Serving

LEMMA AmountReport ==
  ASSUME TypeInv, AmountInv, "browser" \notin Ops, NEW r \in Requests,
         NEW p \in Payments, Report(r, p)
  PROVE  AmountInv'
  <1>1. ASSUME NEW job, ReportPaid(r, p, job)
        PROVE  AmountInv'
    <2>1. Begins(r, "claim", job, p) /\ bank[p].held = "right"
      BY <1>1, StartBegins DEF ReportPaid, TypeInv
    <2> QED BY <1>1, <2>1, AmountBegins DEF ReportPaid
  <1>2. CASE ReportMismatch(r, p) /\ Refundable(pay[p])
    <2>1. Begins(r, "refund", "mismatch", p)
      BY <1>2, StartBegins DEF ReportMismatch, TypeInv
    <2> QED BY <1>2, <2>1, AmountBegins DEF ReportMismatch
  <1>3. CASE ReportMismatch(r, p) /\ ~Refundable(pay[p])
    <2>1. \A q \in Payments : bank'[q].held = bank[q].held
      BY <1>3 DEF ReportMismatch, Tell, TypeInv, BankTyped, Accounts
    <2> QED BY <1>3, <2>1, AmountQuiet DEF ReportMismatch
  <1> QED BY <1>1, <1>2, <1>3 DEF Report

LEMMA AmountStep ==
  ASSUME "browser" \notin Ops, TypeInv, AmountInv, [Next]_vars
  PROVE  AmountInv'
  <1>1. ASSUME NEW p \in Payments, NEW offer \in Offers, CreateOrder(p, offer)
        PROVE  AmountInv'
    BY <1>1, AmountQuiet DEF CreateOrder
  <1>2. ASSUME NEW p \in Payments, NEW amount \in Amounts, Capture(p, amount)
        PROVE  AmountInv'
    <2>1. \A q \in Payments : bank[q].held = "right" => bank'[q].held = "right"
      BY <1>2 DEF Capture, TypeInv, BankTyped, Accounts
    <2> QED BY <1>2, <2>1, AmountQuiet DEF Capture
  <1>3. ASSUME NEW p \in Payments, ClaimAges(p)
        PROVE  AmountInv'
    BY <1>3, AmountQuiet DEF ClaimAges
  <1>4. ASSUME NEW r \in Requests, Sweep(r)
        PROVE  AmountInv'
    <2>1. Begins(r, "expire", "sweep", NoPay)
      BY <1>4, StartBegins DEF Sweep, TypeInv
    <2> QED BY <1>4, <2>1, PaymentsAssumption, AmountBegins DEF Sweep
  <1>5. ASSUME NEW r \in Requests, CancelScheduledChange(r)
        PROVE  AmountInv'
    <2>1. \E pc : Begins(r, pc, "cancel", org.sched.pay)
      BY <1>5, StartBegins DEF CancelScheduledChange, TypeInv
    <2>2. org.sched.pay \in Payments => bank[org.sched.pay].held = "right"
      BY DEF AmountInv, NoEffect, Unused
    <2> QED BY <1>5, <2>1, <2>2, AmountBegins DEF CancelScheduledChange
  <1>6. CASE ScheduleFreeDowngrade
    <2>1. org'.sched.pay = org.sched.pay
      BY <1>6 DEF ScheduleFreeDowngrade, TypeInv, OrgTyped, OrgDocs, Schedules
    <2> QED BY <1>6, <2>1, AmountQuiet DEF ScheduleFreeDowngrade
  <1>7. CASE Tick \/ UNCHANGED vars
    BY <1>7, AmountQuiet DEF Tick, vars
  <1> QED BY <1>1, <1>2, <1>3, <1>4, <1>5, <1>6, <1>7, AmountReport, AmountRequest
          DEF Next, RequestStep

LEMMA AmountInit ==
  ASSUME Init
  PROVE  AmountInv
  BY InitIs, PaymentsAssumption DEF AmountInv, NoEffect, Unused

(* What the webhook finds to be of another amount moves no plan and is not *)
(* scheduled, whatever crashes, stalls or is refused, for any time. (The   *)
(* browser cannot tell the amount.)                                        *)
THEOREM WrongAmountCorrect ==
  ASSUME "browser" \notin Ops
  PROVE  Spec => []WrongAmountBuysNothing
<1>1. Init => TypeInv /\ AmountInv
  BY TypeInit, AmountInit
<1>2. TypeInv /\ AmountInv /\ [Next]_vars => TypeInv' /\ AmountInv'
  BY TypeStep, AmountStep
<1>3. AmountInv => WrongAmountBuysNothing
  BY DEF AmountInv, NoEffect, Unused, WrongAmountBuysNothing
<1> QED BY <1>1, <1>2, <1>3, PTL DEF Spec

-----------------------------------------------------------------------------
(* Within one term, whatever fails: subscriptions are ordered by their end *)
(* and rank, and each purchase goes up.                                    *)
Before(a, b) == a.until < b.until \/ (a.until = b.until /\ Rank[a.plan] < Rank[b.plan])
NotAfter(a, b) == a.until < b.until \/ (a.until = b.until /\ Rank[a.plan] <= Rank[b.plan])

Current(sub) == IF sub.plan = Free THEN sub.until = 0 ELSE sub.until >= 1

TermOrg ==
  /\ Current(org.sub)
  /\ org.expiredFrom = Free
  /\ PaidSchedule(org) => org.sched.start >= 1

TermPay ==
  \A p \in Payments :
    /\ bought[p] <= 1
    /\ pay[p].status = "none" => bought[p] = 0 /\ bank[p].held = "no"
    /\ pay[p].status # "none" =>
         LET order == pay[p].order
         IN /\ order.signed /\ order.plan # Free
            /\ Current(order.seen)
            /\ order.until = QuotedUntil(order.plan, order.seen)
            /\ NotAfter(order.seen, org.sub)
            /\ bought[p] > 0 => Before(order.seen, org.sub)

TermReq ==
  \A r \in Requests : Applies(r) =>
    /\ pay[req[r].p].status = "paid"
    /\ req[r].pc = "apply" =>
         /\ Current(req[r].seen.sub)
         /\ req[r].seen.expiredFrom = Free
         /\ NotAfter(pay[req[r].p].order.seen, req[r].seen.sub)
         /\ NotAfter(req[r].seen.sub, org.sub)

TermInv == TermOrg /\ TermPay /\ TermReq

LEMMA AppliesPays ==
  ASSUME ReqTyped, NEW r \in Requests, Applies(r)
  PROVE  req[r].p \in Payments /\ req[r] \in Works
  <1>1. req[r] \in Works /\ FlowOK(req[r])
    BY IdleIs DEF ReqTyped, Applies
  <1>2. req[r].p \in Payments \cup {NoPay} /\ req[r].job \in {"browser", "webhook"}
    BY <1>1 DEF Works, Applies
  <1> QED BY <1>1, <1>2 DEF FlowOK

(* A step that leaves the subscription, the orders and the purchases alone.*)
LEMMA TermQuiet ==
  ASSUME TypeInv, TermInv, now' = now, bought' = bought, org'.sub = org.sub,
         org'.expiredFrom = org.expiredFrom, PaidSchedule(org') => org'.sched.start >= 1,
         \A p \in Payments :
           /\ pay'[p].order = pay[p].order
           /\ \/ pay'[p].status = pay[p].status
              \/ pay'[p].status = "paid" /\ pay[p].status # "none"
           /\ bank'[p].held # bank[p].held => pay[p].status # "none",
         \A s \in Requests : Applies(s)' /\ req'[s] # req[s] =>
           req'[s].p \in Payments /\ req'[s].pc # "apply" /\ pay'[req'[s].p].status = "paid"
  PROVE  TermInv'
  <1>1. TermOrg'
    BY DEF TermInv, TermOrg, Current, PaidSchedule
  <1>2. \A plan, sub : QuotedUntil(plan, sub)' = QuotedUntil(plan, sub)
    BY DEF QuotedUntil, Running, Lower
  <1>3. TermPay'
    <2> SUFFICES ASSUME NEW p \in Payments
                 PROVE  /\ bought[p] <= 1
                        /\ pay'[p].status = "none" => bought[p] = 0 /\ bank'[p].held = "no"
                        /\ pay'[p].status # "none" =>
                             LET order == pay[p].order
                             IN /\ order.signed /\ order.plan # Free
                                /\ Current(order.seen)
                                /\ order.until = QuotedUntil(order.plan, order.seen)
                                /\ NotAfter(order.seen, org.sub)
                                /\ bought[p] > 0 => Before(order.seen, org.sub)
      BY <1>2 DEF TermPay, Current, NotAfter, Before
    <2> QED BY DEF TermInv, TermPay
  <1>4. TermReq'
    <2> SUFFICES ASSUME NEW s \in Requests, Applies(s)'
                 PROVE  /\ pay'[req'[s].p].status = "paid"
                        /\ req'[s].pc = "apply" =>
                             /\ Current(req'[s].seen.sub)
                             /\ req'[s].seen.expiredFrom = Free
                             /\ NotAfter(pay'[req'[s].p].order.seen, req'[s].seen.sub)
                             /\ NotAfter(req'[s].seen.sub, org'.sub)
      BY DEF TermReq, Current, NotAfter
    <2>1. CASE req'[s] # req[s]
      BY <2>1
    <2>2. CASE req'[s] = req[s]
      <3>1. Applies(s)
        BY <2>2 DEF Applies, Serving
      <3>2. req[s].p \in Payments
        BY <3>1, AppliesPays DEF TypeInv
      <3> QED BY <2>2, <3>1, <3>2 DEF TermInv, TermReq
    <2> QED BY <2>1, <2>2, SMTT(60)
  <1> QED BY <1>1, <1>3, <1>4 DEF TermInv

(* Orders are quoted once: only an activation dates one anew.              *)
LEMMA RequestDocs ==
  ASSUME TypeInv, NEW r \in Requests, RequestStep(r), ~ActivateScheduledPaidPlan(r)
  PROVE  \A p \in Payments : /\ pay'[p].order = pay[p].order
                             /\ pay'[p].status = pay[p].status
  <1> DEFINE Kept == \A p \in Payments : /\ pay'[p].order = pay[p].order
                                         /\ pay'[p].status = pay[p].status
  <1>0. ReqTyped /\ PayTyped
    BY DEF TypeInv
  <1>1. ASSUME NEW p \in Payments, NEW doc, Store(p, doc),
               doc.order = pay[p].order, doc.status = pay[p].status
        PROVE  Kept
    BY <1>0, <1>1, StoreIs
  <1> HIDE DEF Kept
  <1> SUFFICES Kept
    BY DEF Kept
  <1>2. CASE pay' = pay
    BY <1>2 DEF Kept
  <1> DEFINE Docs ==
        {Doc(r),
         [Doc(r) EXCEPT !.applying = "claimed"],
         [Doc(r) EXCEPT !.applied = TRUE],
         [Doc(r) EXCEPT !.applying = "no"],
         [Doc(r) EXCEPT !.applying = "no", !.applied = TRUE, !.refund = "refunded"],
         [Doc(r) EXCEPT !.refund = "none"],
         [Doc(r) EXCEPT !.applied = TRUE, !.refund = "refunded"],
         [Doc(r) EXCEPT !.refund = "refunded"],
         [Doc(r) EXCEPT !.refund = "processing"]}
  <1>3. ASSUME req[r].pc \in {"claim", "mark", "release", "record", "unclaim", "cancel"},
               \E doc \in Docs : Store(req[r].p, doc)
        PROVE  Kept
    <2>1. req[r].p \in Payments /\ Doc(r) \in PaymentDocs /\ Doc(r) = pay[req[r].p]
      BY <1>0, <1>3, DocTyped DEF Doc
    <2>2. \A doc \in Docs : doc.order = Doc(r).order /\ doc.status = Doc(r).status
      BY <2>1 DEF PaymentDocs
    <2> HIDE DEF Docs
    <2> QED BY <1>1, <1>3, <2>1, <2>2
  <1>4. CASE ClaimApply(r) \/ MarkApplied(r) \/ ReleaseClaim(r) \/ RecordStaleRefund(r)
    <2>1. pay' = pay \/ \E doc \in Docs : Store(req[r].p, doc)
      BY <1>4 DEF ClaimApply, MarkApplied, ReleaseClaim, RecordStaleRefund
    <2>2. req[r].pc \in {"claim", "mark", "release", "record"}
      BY <1>4 DEF ClaimApply, MarkApplied, ReleaseClaim, RecordStaleRefund, At
    <2> HIDE DEF Docs
    <2> QED BY <1>2, <1>3, <2>1, <2>2
  <1>5. CASE GiveUpRefund(r) \/ RecordMismatchRefund(r) \/ RecordCancelRefund(r)
             \/ ClaimCancelRefund(r)
    <2>1. pay' = pay \/ \E doc \in Docs : Store(req[r].p, doc)
      BY <1>5 DEF GiveUpRefund, RecordMismatchRefund, RecordCancelRefund, ClaimCancelRefund
    <2>2. req[r].pc \in {"unclaim", "record", "cancel"}
      BY <1>5 DEF GiveUpRefund, RecordMismatchRefund, RecordCancelRefund,
                  ClaimCancelRefund, At
    <2> HIDE DEF Docs
    <2> QED BY <1>2, <1>3, <2>1, <2>2
  <1>6. CASE RejectQuote(r) \/ SchedulePaidPlan(r) \/ ChangePlan(r) \/ FindEnded(r)
             \/ ExpirePlan(r) \/ ReadBilling(r) \/ Refund(r) \/ ClearSchedule(r)
             \/ Restart(r) \/ FailToApply(r) \/ Crash(r)
    <2>1. pay' = pay
      BY <1>6 DEF RejectQuote, SchedulePaidPlan, ChangePlan, FindEnded, ExpirePlan,
                  ReadBilling, Refund, ClearSchedule, Restart, FailToApply, Crash
    <2> QED BY <1>2, <2>1
  <1>7. CASE RefundFails(r)
    <2>1. pay' = pay
      BY <1>7 DEF RefundFails
    <2> QED BY <1>2, <2>1
  <1> QED BY <1>4, <1>5, <1>6, <1>7 DEF RequestStep, Proceed

(* In one term nothing ends, and nothing that is scheduled begins.         *)
LEMMA TermNoEnd ==
  ASSUME OneTerm, TypeInv, TermInv, NEW r \in Requests
  PROVE  /\ now = 0
         /\ ~ActivateScheduledPaidPlan(r)
         /\ ExpirePlan(r) => org' = org
  <1>1. now = 0
    BY DEF TypeInv, CountsTyped, OneTerm
  <1>2. org \in OrgDocs
    BY DEF TypeInv, OrgTyped
  <1>3. ~Ended(org.sub)
    BY <1>1, <1>2 DEF Ended, TermInv, TermOrg, Current, OrgDocs, Subscriptions
  <1>4. PaidSchedule(org) => org.sched.start > now
    BY <1>1, <1>2 DEF TermInv, TermOrg, OrgDocs, Schedules
  <1> QED BY <1>1, <1>2, <1>3, <1>4 DEF ActivateScheduledPaidPlan, ExpirePlan, OrgDocs, Schedules

LEMMA TermRequestQuiet ==
  ASSUME OneTerm, TypeInv, TermInv, NEW r \in Requests, RequestStep(r),
         ~ReadBilling(r), bought' = bought, org'.sub = org.sub,
         org'.expiredFrom = org.expiredFrom, PaidSchedule(org') => org'.sched.start >= 1
  PROVE  TermInv'
  <1>1. ~ActivateScheduledPaidPlan(r)
    BY TermNoEnd
  <1>2. \A p \in Payments : bank'[p].held = bank[p].held
    BY HeldStays
  <1>3. \A p \in Payments : pay'[p].order = pay[p].order /\ pay'[p].status = pay[p].status
    BY <1>1, RequestDocs
  <1>4. \A s \in Requests : Applies(s)' /\ req'[s] # req[s] =>
          req'[s].p \in Payments /\ req'[s].pc # "apply" /\ pay'[req'[s].p].status = "paid"
    <2> SUFFICES ASSUME NEW s \in Requests, Applies(s)', req'[s] # req[s]
                 PROVE  req'[s].p \in Payments /\ req'[s].pc # "apply"
                        /\ pay'[req'[s].p].status = "paid"
      OBVIOUS
    <2>1. s = r /\ \E pc : Moves(r, pc) /\ pc # "apply"
      BY RequestGoes DEF Ends, Moves, Others, Applies, Leads
    <2>2. Applies(r) /\ req'[r].p = req[r].p /\ req'[r].pc # "apply"
      BY <2>1 DEF Moves, Applies
    <2>3. req[r].p \in Payments
      BY <2>2, AppliesPays, SMTT(60) DEF TypeInv
    <2> QED BY <1>3, <2>1, <2>2, <2>3 DEF TermInv, TermReq
  <1>5. now' = now
    BY DEF RequestStep, Proceed, ClaimApply, ActivateScheduledPaidPlan, FindEnded, ExpirePlan,
           ReadBilling, RejectQuote, SchedulePaidPlan, ChangePlan, MarkApplied, ReleaseClaim,
           Refund, GiveUpRefund, RecordStaleRefund, RecordMismatchRefund, RecordCancelRefund,
           ClaimCancelRefund, ClearSchedule, FailToApply, RefundFails, Crash, Restart
  <1> QED BY <1>2, <1>3, <1>4, <1>5, TermQuiet

LEMMA NotAfterLaws ==
  ASSUME NEW a \in Subscriptions, NEW b \in Subscriptions, NEW c \in Subscriptions
  PROVE  /\ NotAfter(a, a)
         /\ NotAfter(a, b) /\ NotAfter(b, c) => NotAfter(a, c)
         /\ NotAfter(a, b) /\ Before(b, c) => Before(a, c)
         /\ Before(a, b) /\ NotAfter(b, c) => Before(a, c)
         /\ NotAfter(a, b) /\ NotAfter(b, a) => Rank[a.plan] = Rank[b.plan] /\ a.until = b.until
         /\ ~(Before(a, b) /\ NotAfter(b, a))
         /\ Before(a, b) => NotAfter(a, b)
  <1>1. /\ a.until \in Nat /\ b.until \in Nat /\ c.until \in Nat
        /\ Rank[a.plan] \in Nat /\ Rank[b.plan] \in Nat /\ Rank[c.plan] \in Nat
    BY PaymentsAssumption DEF Subscriptions
  <1> QED BY <1>1 DEF NotAfter, Before

LEMMA TermReadBilling ==
  ASSUME OneTerm, TypeInv, TermInv, NEW r \in Requests, ReadBilling(r)
  PROVE  TermInv'
  <1>1. Moves(r, "apply") /\ req'[r].seen = org
    BY ReadBillingMoves
  <1>2. Applies(r) /\ req[r].p \in Payments /\ req'[r].p = req[r].p
    BY <1>1, AppliesAt DEF ReadBilling, At, Applying, Moves
  <1>3. pay' = pay /\ org' = org /\ bought' = bought /\ bank' = bank /\ now' = now
    BY DEF ReadBilling
  <1>4. pay[req[r].p].status = "paid" /\ NotAfter(pay[req[r].p].order.seen, org.sub)
    BY <1>2 DEF TermInv, TermReq, TermPay
  <1>5. NotAfter(org.sub, org.sub)
    BY NotAfterLaws DEF TypeInv, OrgTyped, OrgDocs
  <1>6. TermOrg'
    BY <1>3 DEF TermInv, TermOrg, Current, PaidSchedule
  <1>7. TermPay'
    BY <1>3 DEF TermInv, TermPay, Current, NotAfter, Before, QuotedUntil, Running, Lower
  <1>8. TermReq'
    <2> SUFFICES ASSUME NEW s \in Requests, Applies(s)'
                 PROVE  /\ pay[req'[s].p].status = "paid"
                        /\ req'[s].pc = "apply" =>
                             /\ Current(req'[s].seen.sub)
                             /\ req'[s].seen.expiredFrom = Free
                             /\ NotAfter(pay[req'[s].p].order.seen, req'[s].seen.sub)
                             /\ NotAfter(req'[s].seen.sub, org.sub)
      BY <1>3 DEF TermReq, Current, NotAfter
    <2>1. CASE s = r
      BY <1>1, <1>2, <1>4, <1>5, <2>1 DEF TermInv, TermOrg
    <2>2. CASE s # r
      BY <1>1, <2>2 DEF Moves, Others, Applies, Serving, TermInv, TermReq
    <2> QED BY <2>1, <2>2, SMTT(60)
  <1> QED BY <1>6, <1>7, <1>8 DEF TermInv

LEMMA TermSchedulePaidPlan ==
  ASSUME OneTerm, TypeInv, TermInv, NEW r \in Requests, SchedulePaidPlan(r)
  PROVE  TermInv'
  <1>1. Applies(r) /\ req[r].p \in Payments /\ req[r].pc = "apply" /\ req[r] \in Works
    BY AppliesAt, AppliesPays DEF SchedulePaidPlan, At, Applying, TypeInv
  <1>2. org \in OrgDocs /\ req[r].seen.sub \in Subscriptions
    BY <1>1 DEF TypeInv, OrgTyped, Works, OrgDocs
  <1>3. req[r].seen.sub.until >= 1
    <2>1. pay[req[r].p].order.plan \in Plans \ {Free}
      BY <1>1 DEF TermInv, TermReq, TermPay, TypeInv, PayTyped, PaymentDocs, Orders
    <2>2. req[r].seen.sub.plan # Free
      <3>1. Rank[Free] < Rank[pay[req[r].p].order.plan]
        BY <2>1, PaymentsAssumption
      <3>2. Rank[pay[req[r].p].order.plan] < Rank[req[r].seen.sub.plan]
        BY DEF SchedulePaidPlan, Lower, Doc
      <3>3. Rank[Free] \in Nat /\ Rank[pay[req[r].p].order.plan] \in Nat
        BY <2>1, PaymentsAssumption
      <3> QED BY <3>1, <3>2, <3>3
    <2> QED BY <1>1, <2>2 DEF TermInv, TermReq, Current
  <1>4. /\ org'.sub = org.sub /\ org'.expiredFrom = org.expiredFrom
        /\ org'.sched = org.sched \/ org'.sched.start = req[r].seen.sub.until
    BY <1>2 DEF SchedulePaidPlan, OrgDocs
  <1>5. PaidSchedule(org') => org'.sched.start >= 1
    BY <1>3, <1>4 DEF TermInv, TermOrg, PaidSchedule
  <1>6. RequestStep(r) /\ ~ReadBilling(r) /\ bought' = bought
    BY <1>1, SMTT(60) DEF RequestStep, Proceed, ReadBilling, At, SchedulePaidPlan
  <1> QED BY <1>4, <1>5, <1>6, TermRequestQuiet

(* The step that buys: what is bought comes after what it was quoted for.  *)
LEMMA TermBuys ==
  ASSUME OneTerm, Ranked, TypeInv, TermInv, NEW r \in Requests, ChangePlan(r),
         org.sched = NoSched, org.sub \in Expected(Doc(r), req[r].seen)
  PROVE  LET order == pay[req[r].p].order
         IN /\ org.sub = order.seen
            /\ bought[req[r].p] = 0
            /\ order.until >= 1
            /\ \A credit : Before(order.seen, [plan |-> order.plan, until |-> order.until,
                                               credit |-> credit])
  <1> DEFINE p == req[r].p
             order == pay[p].order
             seen == req[r].seen
  <1>1. Applies(r) /\ p \in Payments /\ req[r].pc = "apply" /\ req[r] \in Works
    BY AppliesAt, AppliesPays DEF ChangePlan, At, Applying, TypeInv
  <1>2. /\ order \in Orders /\ seen.sub \in Subscriptions /\ org.sub \in Subscriptions
        /\ order.seen \in Subscriptions /\ bought[p] \in 0..2 /\ now = 0
    BY <1>1, TermNoEnd
       DEF TypeInv, OrgTyped, PayTyped, PaymentDocs, Orders, Works, OrgDocs, CountsTyped
  <1>3. /\ order.signed /\ order.plan # Free /\ Current(order.seen)
        /\ order.until = QuotedUntil(order.plan, order.seen)
        /\ bought[p] > 0 => Before(order.seen, org.sub)
        /\ Current(seen.sub) /\ seen.expiredFrom = Free
        /\ NotAfter(order.seen, seen.sub) /\ NotAfter(seen.sub, org.sub)
    BY <1>1, SMTT(60) DEF TermInv, TermPay, TermReq
  <1>4. Rank \in [Plans -> Nat] /\ order.plan \in Plans /\ order.seen.plan \in Plans
        /\ Rank[Free] < Rank[order.plan] /\ seen.sub.plan \in Plans
        /\ order.seen.until \in Nat
    BY <1>2, <1>3, PaymentsAssumption, ZenonT(60) DEF Orders, Subscriptions
  <1>5. ~HonouredLate(Doc(r), seen)
    <2>1. order.seen.plan = Free => ~Lower(order.plan, order.seen)
      <3>1. Rank[Free] \in Nat /\ Rank[order.plan] \in Nat
        BY <1>4, PaymentsAssumption, SMTT(60)
      <3> QED BY <1>4, <3>1 DEF Lower
    <2> QED BY <1>3, <2>1 DEF HonouredLate, Prepaid, Doc
  <1>6. org.sub = order.seen
    BY <1>3, <1>5, SMTT(60) DEF Expected, Doc
  <1>7. bought[p] = 0
    <2>1. ~Before(order.seen, order.seen)
      BY <1>2, <1>4, SMTT(60) DEF Before
    <2> QED BY <1>2, <1>3, <1>6, <2>1
  <1>8. Rank[seen.sub.plan] = Rank[order.seen.plan]
    BY <1>2, <1>3, <1>6, NotAfterLaws
  <1>9. ~Lower(order.plan, order.seen)
    BY <1>8, SMTT(60) DEF ChangePlan, Lower, Doc
  <1>10. \/ order.until = 1 /\ order.seen.until = 0
         \/ /\ order.until >= 1
            /\ \/ order.until = order.seen.until + 1
               \/ order.until = order.seen.until /\ order.plan # order.seen.plan
    <2>1. CASE order.seen.plan = Free
      BY <1>2, <1>3, <2>1, SMTT(60) DEF QuotedUntil, Running, Current
    <2>2. CASE order.seen.plan # Free
      <3>1. Running(order.seen) /\ order.seen.until >= 1
        BY <1>2, <1>3, <1>4, <2>2, SMTT(60) DEF Running, Current
      <3>2. \/ order.until = order.seen.until + 1
            \/ order.until = order.seen.until /\ order.plan # order.seen.plan
        BY <1>3, <3>1, <1>9 DEF QuotedUntil
      <3> QED BY <1>4, <3>1, <3>2, SMTT(60)
    <2> QED BY <2>1, <2>2, SMTT(60)
  <1>11. order.plan # order.seen.plan => Rank[order.seen.plan] < Rank[order.plan]
    BY <1>4, <1>9, SMTT(60) DEF Lower, Ranked
  <1>12. ASSUME NEW credit
         PROVE  Before(order.seen, [plan |-> order.plan, until |-> order.until,
                                    credit |-> credit])
    BY <1>4, <1>10, <1>11 DEF Before
  <1>13. order.until >= 1
    BY <1>10
  <1> QED BY <1>6, <1>7, <1>12, <1>13

LEMMA TermChangePlan ==
  ASSUME OneTerm, Ranked, TypeInv, TermInv, NEW r \in Requests, ChangePlan(r)
  PROVE  TermInv'
  <1>1. Applies(r) /\ req[r].p \in Payments /\ req[r].pc = "apply" /\ req[r] \in Works
    BY AppliesAt, AppliesPays DEF ChangePlan, At, Applying, TypeInv
  <1>2. CASE ~(org.sched = NoSched /\ org.sub \in Expected(Doc(r), req[r].seen))
    <2>1. org' = org /\ bought' = bought
      BY <1>2 DEF ChangePlan
    <2>2. RequestStep(r) /\ ~ReadBilling(r)
      BY <1>1 DEF RequestStep, Proceed, ReadBilling, At
    <2> QED BY <2>1, <2>2, TermRequestQuiet DEF TermInv, TermOrg
  <1>3. CASE org.sched = NoSched /\ org.sub \in Expected(Doc(r), req[r].seen)
    <2> PICK p \in Payments : p = req[r].p
      BY <1>1
    <2> DEFINE order == pay[p].order
    <2>1. /\ org.sub = order.seen /\ bought[p] = 0 /\ order.until >= 1
          /\ Before(org.sub, [plan |-> order.plan, until |-> order.until, credit |-> p])
      BY <1>3, TermBuys
    <2>2. /\ org' = [sub |-> [plan |-> order.plan, until |-> order.until, credit |-> p],
                     expiredFrom |-> Free, sched |-> NoSched]
          /\ Buy(p) /\ Continue(r, "mark") /\ pay' = pay /\ now' = now
      BY <1>3 DEF ChangePlan, Doc
    <2>3. Before(org.sub, org'.sub)
      BY <2>1, <2>2
    <2>4. order.plan # Free /\ order \in Orders
      BY <1>1 DEF TermInv, TermPay, TermReq, TypeInv, PayTyped, PaymentDocs
    <2>5. org'.sub \in Subscriptions /\ org.sub \in Subscriptions
      BY <2>2, <2>4 DEF Subscriptions, Orders, TypeInv, OrgTyped, OrgDocs
    <2>6. \A a \in Subscriptions :
            NotAfter(a, org.sub) => Before(a, org'.sub) /\ NotAfter(a, org'.sub)
      BY <2>3, <2>5, NotAfterLaws
    <2>7. TermOrg'
      BY <2>1, <2>2, <2>4 DEF TermOrg, Current, PaidSchedule, NoSched
    <2>8. bought'[p] = 1 /\ \A q \in Payments : q # p => bought'[q] = bought[q]
      BY <2>1, <2>2 DEF Buy, TypeInv, CountsTyped
    <2>9. bank' = bank
      BY <2>2 DEF Continue
    <2>10. \A plan, sub : QuotedUntil(plan, sub)' = QuotedUntil(plan, sub)
      BY <2>2 DEF QuotedUntil, Running, Lower
    <2>11. TermPay'
      <3> SUFFICES ASSUME NEW q \in Payments
                   PROVE  /\ bought'[q] <= 1
                          /\ pay[q].status = "none" => bought'[q] = 0 /\ bank[q].held = "no"
                          /\ pay[q].status # "none" =>
                               LET o == pay[q].order
                               IN /\ o.signed /\ o.plan # Free
                                  /\ Current(o.seen)
                                  /\ o.until = QuotedUntil(o.plan, o.seen)
                                  /\ NotAfter(o.seen, org'.sub)
                                  /\ bought'[q] > 0 => Before(o.seen, org'.sub)
        BY <2>2, <2>9, <2>10 DEF TermPay, Current, NotAfter, Before
      <3>1. pay[q].order.seen \in Subscriptions
        BY DEF TypeInv, PayTyped, PaymentDocs, Orders
      <3>2. q = p => pay[q].status = "paid"
        BY <1>1 DEF TermInv, TermReq
      <3> QED BY <2>6, <2>8, <3>1, <3>2, SMTT(60) DEF TermInv, TermPay
    <2>12. Moves(r, "mark")
      BY <1>1, <2>2, GotoMoves DEF Continue, TypeInv
    <2>13. TermReq'
      <3> SUFFICES ASSUME NEW s \in Requests, Applies(s)'
                   PROVE  /\ pay[req'[s].p].status = "paid"
                          /\ req'[s].pc = "apply" =>
                               /\ Current(req'[s].seen.sub)
                               /\ req'[s].seen.expiredFrom = Free
                               /\ NotAfter(pay[req'[s].p].order.seen, req'[s].seen.sub)
                               /\ NotAfter(req'[s].seen.sub, org'.sub)
        BY <2>2 DEF TermReq, Current, NotAfter
      <3>1. CASE s = r
        BY <1>1, <2>12, <3>1 DEF Moves, TermInv, TermReq
      <3>2. CASE s # r
        <4>1. req'[s] = req[s] /\ Applies(s)
          BY <2>12, <3>2 DEF Moves, Others, Applies, Serving
        <4>2. req[s].seen.sub \in Subscriptions
          BY <4>1, AppliesPays DEF TypeInv, Works, OrgDocs
        <4> QED BY <2>6, <4>1, <4>2 DEF TermInv, TermReq
      <3> QED BY <3>1, <3>2, SMTT(60)
    <2> QED BY <2>7, <2>11, <2>13 DEF TermInv
  <1> QED BY <1>2, <1>3

LEMMA TermRequest ==
  ASSUME OneTerm, Ranked, TypeInv, TermInv, NEW r \in Requests, RequestStep(r)
  PROVE  TermInv'
  <1>1. CASE ReadBilling(r)
    BY <1>1, TermReadBilling
  <1>2. CASE SchedulePaidPlan(r)
    BY <1>2, TermSchedulePaidPlan
  <1>3. CASE ChangePlan(r)
    BY <1>3, TermChangePlan
  <1>4. ASSUME bought' = bought, org' = org, ~ReadBilling(r)
        PROVE  TermInv'
    BY <1>4, TermRequestQuiet DEF TermInv, TermOrg
  <1>5. CASE ClearSchedule(r)
    <2>1. bought' = bought /\ ~ReadBilling(r)
      BY <1>5 DEF ClearSchedule, ReadBilling, At
    <2>2. org' = org \/ org' = [org EXCEPT !.sched = NoSched]
      BY <1>5 DEF ClearSchedule
    <2>3. org'.sub = org.sub /\ org'.expiredFrom = org.expiredFrom
          /\ (PaidSchedule(org') => org'.sched.start >= 1)
      BY <2>2 DEF TypeInv, OrgTyped, OrgDocs, NoSched, PaidSchedule, TermInv, TermOrg
    <2> QED BY <2>1, <2>3, TermRequestQuiet
  <1>6. CASE ExpirePlan(r) /\ ~ReadBilling(r)
    BY <1>4, <1>6, TermNoEnd DEF ExpirePlan
  <1>7. CASE ActivateScheduledPaidPlan(r)
    BY <1>7, TermNoEnd
  <1>8. CASE (ClaimApply(r) \/ FindEnded(r) \/ RejectQuote(r) \/ MarkApplied(r)
              \/ ReleaseClaim(r) \/ Refund(r) \/ GiveUpRefund(r) \/ RecordStaleRefund(r)
              \/ RecordMismatchRefund(r) \/ RecordCancelRefund(r) \/ ClaimCancelRefund(r)
              \/ FailToApply(r) \/ Crash(r) \/ Restart(r)) /\ ~ReadBilling(r)
    <2>1. bought' = bought /\ org' = org
      BY <1>8 DEF ClaimApply, FindEnded, RejectQuote, MarkApplied, ReleaseClaim, Refund,
                  GiveUpRefund, RecordStaleRefund, RecordMismatchRefund, RecordCancelRefund,
                  ClaimCancelRefund, FailToApply, Crash, Restart
    <2> QED BY <1>4, <1>8, <2>1
  <1>9. CASE RefundFails(r) /\ ~ReadBilling(r)
    <2>1. bought' = bought /\ org' = org
      BY <1>9 DEF RefundFails
    <2> QED BY <1>4, <1>9, <2>1
  <1> QED BY <1>1, <1>2, <1>3, <1>5, <1>6, <1>7, <1>8, <1>9 DEF RequestStep, Proceed

(* A request that begins has not read the organization.                    *)
LEMMA TermBegins ==
  ASSUME OneTerm, TypeInv, TermInv, NEW r \in Requests, NEW pc, NEW job, NEW p,
         Begins(r, pc, job, p), pc # "apply", UNCHANGED <<org, bank, now, bought>>,
         \A q \in Payments :
           /\ pay'[q].order = pay[q].order
           /\ \/ pay'[q].status = pay[q].status
              \/ pay'[q].status = "paid" /\ pay[q].status # "none",
         job \in {"browser", "webhook"} => p \in Payments /\ pay'[p].status = "paid"
  PROVE  TermInv'
  <1>1. \A s \in Requests : Applies(s)' /\ req'[s] # req[s] =>
          req'[s].p \in Payments /\ req'[s].pc # "apply" /\ pay'[req'[s].p].status = "paid"
    BY DEF Begins, Others, Applies
  <1>2. PaidSchedule(org') => org'.sched.start >= 1
    BY DEF TermInv, TermOrg
  <1> QED BY <1>1, <1>2, TermQuiet

LEMMA TermReport ==
  ASSUME OneTerm, TypeInv, TermInv, NEW r \in Requests, NEW p \in Payments, Report(r, p)
  PROVE  TermInv'
  <1>0. pay[p] \in PaymentDocs /\ PayTyped
    BY DEF TypeInv, PayTyped
  <1>1. ASSUME NEW job, ReportPaid(r, p, job)
        PROVE  TermInv'
    <2> DEFINE doc == IF pay[p].status = "created"
                      THEN [pay[p] EXCEPT !.status = "paid", !.paidAt = now]
                      ELSE pay[p]
    <2>1. Begins(r, "claim", job, p) /\ bank[p].held # "no"
      BY <1>1, StartBegins DEF ReportPaid, TypeInv
    <2>2. pay[p].status # "none"
      BY <2>1 DEF TermInv, TermPay
    <2>3. doc.order = pay[p].order /\ doc.status = "paid"
      BY <1>0, <2>2 DEF PaymentDocs
    <2>4. pay'[p] = doc /\ \A q \in Payments : q # p => pay'[q] = pay[q]
      BY <1>0, <1>1, StoreIs DEF ReportPaid
    <2> HIDE DEF doc
    <2> QED BY <1>1, <2>1, <2>2, <2>3, <2>4, TermBegins DEF ReportPaid
  <1>2. CASE ReportMismatch(r, p) /\ Refundable(pay[p])
    <2> DEFINE doc == [pay[p] EXCEPT !.status = "paid", !.paidAt = now,
                                     !.refund = "processing"]
    <2>1. Begins(r, "refund", "mismatch", p) /\ bank[p].held # "no"
      BY <1>2, StartBegins DEF ReportMismatch, TypeInv
    <2>2. pay[p].status # "none"
      BY <2>1 DEF TermInv, TermPay
    <2>3. doc.order = pay[p].order /\ doc.status = "paid"
      BY <1>0 DEF PaymentDocs
    <2>4. pay'[p] = doc /\ \A q \in Payments : q # p => pay'[q] = pay[q]
      BY <1>0, <1>2, StoreIs DEF ReportMismatch
    <2> HIDE DEF doc
    <2> QED BY <1>2, <2>1, <2>2, <2>3, <2>4, TermBegins DEF ReportMismatch
  <1>3. CASE ReportMismatch(r, p) /\ ~Refundable(pay[p])
    <2>1. \A q \in Payments : bank'[q].held = bank[q].held
      BY <1>3 DEF ReportMismatch, Tell, TypeInv, BankTyped, Accounts
    <2>2. UNCHANGED <<org, pay, req, now, bought>>
      BY <1>3 DEF ReportMismatch
    <2>3. PaidSchedule(org') => org'.sched.start >= 1
      BY <2>2 DEF TermInv, TermOrg
    <2> QED BY <2>1, <2>2, <2>3, TermQuiet
  <1> QED BY <1>1, <1>2, <1>3 DEF Report

LEMMA TermCreateOrder ==
  ASSUME OneTerm, Quoted, TypeInv, TermInv, NEW p \in Payments, NEW offer \in Offers,
         CreateOrder(p, offer)
  PROVE  TermInv'
  <1> DEFINE order == [plan |-> offer.plan, signed |-> offer.signed, seen |-> org.sub,
                       until |-> QuotedUntil(offer.plan, org.sub)]
             doc == [pay[p] EXCEPT !.status = "created", !.order = order]
  <1>1. pay[p] \in PaymentDocs /\ org.sub \in Subscriptions
    BY DEF TypeInv, PayTyped, OrgTyped, OrgDocs
  <1>2. pay'[p] = doc /\ \A q \in Payments : q # p => pay'[q] = pay[q]
    BY StoreIs DEF CreateOrder, TypeInv
  <1>3. doc.status = "created" /\ doc.order = order
    BY <1>1 DEF PaymentDocs
  <1>4. order.signed /\ order.plan # Free /\ order.seen = org.sub
        /\ order.until = QuotedUntil(order.plan, order.seen)
    BY PaymentsAssumption DEF Quoted
  <1> HIDE DEF order, doc
  <1>5. UNCHANGED <<org, bank, req, now, bought>> /\ pay[p].status = "none"
    BY DEF CreateOrder
  <1>6. TermOrg'
    BY <1>5 DEF TermInv, TermOrg, Current, PaidSchedule
  <1>7. \A plan, sub : QuotedUntil(plan, sub)' = QuotedUntil(plan, sub)
    BY <1>5 DEF QuotedUntil, Running, Lower
  <1>8. TermPay'
    <2> SUFFICES ASSUME NEW q \in Payments
                 PROVE  /\ bought[q] <= 1
                        /\ pay'[q].status = "none" => bought[q] = 0 /\ bank[q].held = "no"
                        /\ pay'[q].status # "none" =>
                             LET o == pay'[q].order
                             IN /\ o.signed /\ o.plan # Free
                                /\ Current(o.seen)
                                /\ o.until = QuotedUntil(o.plan, o.seen)
                                /\ NotAfter(o.seen, org.sub)
                                /\ bought[q] > 0 => Before(o.seen, org.sub)
      BY <1>5, <1>7 DEF TermPay, Current, NotAfter, Before
    <2>1. CASE q = p
      <3>1. NotAfter(org.sub, org.sub) /\ Current(org.sub) /\ bought[p] = 0
        BY <1>1, <1>5, NotAfterLaws DEF TermInv, TermOrg, TermPay
      <3> QED BY <1>2, <1>3, <1>4, <2>1, <3>1
    <2>2. CASE q # p
      BY <1>2, <2>2 DEF TermInv, TermPay
    <2> QED BY <2>1, <2>2
  <1>9. TermReq'
    <2> SUFFICES ASSUME NEW s \in Requests, Applies(s)
                 PROVE  /\ pay'[req[s].p].status = "paid"
                        /\ req[s].pc = "apply" =>
                             /\ Current(req[s].seen.sub)
                             /\ req[s].seen.expiredFrom = Free
                             /\ NotAfter(pay'[req[s].p].order.seen, req[s].seen.sub)
                             /\ NotAfter(req[s].seen.sub, org.sub)
      BY <1>5 DEF TermReq, Applies, Serving, Current, NotAfter
    <2>1. req[s].p \in Payments /\ req[s].p # p
      BY <1>5, AppliesPays DEF TermInv, TermReq, TypeInv
    <2> QED BY <1>2, <2>1, SMTT(60) DEF TermInv, TermReq
  <1> QED BY <1>6, <1>8, <1>9 DEF TermInv

LEMMA TermCapture ==
  ASSUME TypeInv, TermInv, NEW p \in Payments, NEW amount \in Amounts, Capture(p, amount)
  PROVE  TermInv'
  <1>1. UNCHANGED <<org, pay, req, now, bought>> /\ pay[p].status = "created"
    BY DEF Capture
  <1>2. \A q \in Payments : bank'[q].held # bank[q].held => pay[q].status # "none"
    <2>1. \A q \in Payments : q # p => bank'[q] = bank[q]
      BY DEF Capture, TypeInv, BankTyped
    <2> QED BY <1>1, <2>1
  <1>3. PaidSchedule(org') => org'.sched.start >= 1
    BY <1>1 DEF TermInv, TermOrg
  <1> QED BY <1>1, <1>2, <1>3, TermQuiet

LEMMA TermClaimAges ==
  ASSUME TypeInv, TermInv, NEW p \in Payments, ClaimAges(p)
  PROVE  TermInv'
  <1> DEFINE doc == [pay[p] EXCEPT
                       !.applying = IF @ = "claimed" THEN "overdue" ELSE @,
                       !.refund = IF @ = "processing" THEN "overdue" ELSE @]
  <1>1. Store(p, doc)
    BY DEF ClaimAges
  <1>2. doc.order = pay[p].order /\ doc.status = pay[p].status
    BY DEF TypeInv, PayTyped, PaymentDocs
  <1> HIDE DEF doc
  <1>3. \A q \in Payments : pay'[q].order = pay[q].order /\ pay'[q].status = pay[q].status
    BY <1>1, <1>2, StoreIs DEF TypeInv
  <1>4. UNCHANGED <<org, bank, req, now, bought>>
    BY DEF ClaimAges
  <1>5. PaidSchedule(org') => org'.sched.start >= 1
    BY <1>4 DEF TermInv, TermOrg
  <1> QED BY <1>3, <1>4, <1>5, TermQuiet

LEMMA TermStep ==
  ASSUME OneTerm, Ranked, Quoted, TypeInv, TermInv, [Next]_vars
  PROVE  TermInv'
  <1>1. ASSUME NEW r \in Requests, Sweep(r)
        PROVE  TermInv'
    <2>1. Begins(r, "expire", "sweep", NoPay)
      BY <1>1, StartBegins DEF Sweep, TypeInv
    <2> QED BY <1>1, <2>1, TermBegins DEF Sweep
  <1>2. ASSUME NEW r \in Requests, CancelScheduledChange(r)
        PROVE  TermInv'
    <2>1. \E pc : Begins(r, pc, "cancel", org.sched.pay) /\ pc # "apply"
      BY <1>2, StartBegins DEF CancelScheduledChange, TypeInv
    <2> QED BY <1>2, <2>1, TermBegins DEF CancelScheduledChange
  <1>3. CASE ScheduleFreeDowngrade
    <2>1. org'.sub = org.sub /\ org'.expiredFrom = org.expiredFrom
          /\ org'.sched.plan = org.sched.plan /\ org.sched.plan = Free
      BY <1>3 DEF ScheduleFreeDowngrade, TypeInv, OrgTyped, OrgDocs, Schedules, NoSched
    <2>2. ~PaidSchedule(org')
      BY <2>1 DEF PaidSchedule
    <2>3. UNCHANGED <<pay, bank, req, now, bought>>
      BY <1>3 DEF ScheduleFreeDowngrade
    <2> QED BY <2>1, <2>2, <2>3, TermQuiet
  <1>4. CASE Tick
    BY <1>4 DEF Tick, OneTerm, TypeInv, CountsTyped
  <1>5. CASE UNCHANGED vars
    <2>1. UNCHANGED <<org, pay, bank, req, now, bought>>
      BY <1>5 DEF vars
    <2>2. PaidSchedule(org') => org'.sched.start >= 1
      BY <2>1 DEF TermInv, TermOrg
    <2> QED BY <2>1, <2>2, TermQuiet
  <1> QED BY <1>1, <1>2, <1>3, <1>4, <1>5, TermCreateOrder, TermCapture, TermClaimAges,
             TermReport, TermRequest DEF Next, RequestStep

LEMMA TermInit ==
  ASSUME Init
  PROVE  TermInv
  <1>1. TermOrg
    <2>1. PICK plan \in StartPlans :
            org = [Blank EXCEPT !.sub = [plan |-> plan,
                                         until |-> IF plan = Free THEN 0 ELSE 1,
                                         credit |-> NoPay]]
      BY InitOrg
    <2> QED BY <2>1 DEF Blank, TermOrg, Current, PaidSchedule, NoSched
  <1>2. TermPay
    BY InitIs DEF TermPay
  <1>3. TermReq
    BY InitIs DEF TermReq, Applies
  <1> QED BY <1>1, <1>2, <1>3 DEF TermInv

(* Within a term no payment moves the plan twice even if the requests that *)
(* apply it crash or stall, and others take their claims over: the quote   *)
(* it insists on has passed.                                               *)
THEOREM AppliedOnceWhateverFails ==
  ASSUME OneTerm, Ranked, Quoted
  PROVE  Spec => []AppliedOnce
<1>1. Init => TypeInv /\ TermInv
  BY TypeInit, TermInit
<1>2. TypeInv /\ TermInv /\ [Next]_vars => TypeInv' /\ TermInv'
  BY TypeStep, TermStep
<1>3. TermInv => AppliedOnce
  BY DEF TermInv, TermPay, AppliedOnce
<1> QED BY <1>1, <1>2, <1>3, PTL DEF Spec

(* A payment moves the plan as often as it was paid for: when requests are *)
(* not cut short for any time, and whatever fails within one term.         *)
THEOREM BuysAsPaidCorrect ==
  ASSUME "browser" \notin Ops, Calm \/ (OneTerm /\ Ranked /\ Quoted)
  PROVE  Spec => []BuysAsPaid
<1>1. Init => TypeInv /\ AmountInv /\ (Calm => OnceInv) /\ (~Calm => TermInv)
  BY TypeInit, AmountInit, OnceInit, TermInit
<1>2. /\ TypeInv /\ AmountInv /\ (Calm => OnceInv) /\ (~Calm => TermInv)
      /\ [Next]_vars
      => TypeInv' /\ AmountInv' /\ (Calm => OnceInv') /\ (~Calm => TermInv')
  BY TypeStep, AmountStep, OnceStep, TermStep
<1>3. TypeInv /\ AmountInv /\ (Calm => OnceInv) /\ (~Calm => TermInv) => BuysAsPaid
  <2>1. AmountInv => WrongAmountBuysNothing
    BY DEF AmountInv, NoEffect, Unused, WrongAmountBuysNothing
  <2>2. OnceInv => AppliedOnce
    BY DEF OnceInv, Once, AppliedOnce
  <2>3. TermInv => AppliedOnce
    BY DEF TermInv, TermPay, AppliedOnce
  <2> QED BY <2>1, <2>2, <2>3 DEF BuysAsPaid
<1> DEFINE I == TypeInv /\ AmountInv /\ (Calm => OnceInv) /\ (~Calm => TermInv)
<1>4. Init => I
  BY <1>1
<1>5. I /\ [Next]_vars => I'
  <2>1. Calm <=> Calm'
    BY DEF Calm
  <2> QED BY <1>2, <2>1
<1>6. I => BuysAsPaid
  BY <1>3
<1> HIDE DEF I
<1> QED BY <1>4, <1>5, <1>6, PTL DEF Spec

-----------------------------------------------------------------------------
(* Money given back. Nobody has begun to use, or to cancel, a payment that *)
(* is Clean.                                                               *)
Clean(p) ==
  /\ Unused(p)
  /\ "cancel" \notin bank[p].returned
  /\ \A r \in Requests : Cancels(r) => req[r].p # p

(* What is given back under "stale" had no effect, and what is given back  *)
(* by a cancellation is in refund.                                         *)
MoneyPay ==
  \A p \in Payments :
    /\ bank[p].held # "wrong"
    /\ bank[p].returned \subseteq {"stale", "cancel"}
    /\ "stale" \in bank[p].returned =>
         /\ Clean(p)
         /\ \/ pay[p].applied
            \/ \E r \in Requests : Applying(r) /\ req[r].p = p /\ req[r].pc = "record"
    /\ "cancel" \in bank[p].returned => pay[p].refund # "none"
    /\ \/ pay[p].applied \/ Clean(p)
       \/ \E r \in Requests : Marking(r) /\ req[r].p = p

MoneyReq ==
  \A r \in Requests :
    /\ Serving(r) => req[r].job # "mismatch" /\ req[r].pc # "unclaim"
    /\ Applying(r) =>
         /\ ~Marking(r) => Clean(req[r].p)
         /\ req[r].pc # "record" => "stale" \notin bank[req[r].p].returned
    /\ Cancels(r) /\ req[r].p \in Payments =>
         /\ req[r].pc # "cancel" => pay[req[r].p].refund # "none"
         /\ req[r].pc = "clear" => pay[req[r].p].refund = "refunded"

MoneyInv == MoneyPay /\ MoneyReq

(* Within a term, what is applied keeps its effect or is refunded, and     *)
(* what has moved the plan is not cancelled.                               *)
KeptInv ==
  \A p \in Payments :
    /\ pay[p].applied \/ (\E r \in Requests : Marking(r) /\ req[r].p = p) =>
         pay[p].refund = "refunded" \/ bought[p] > 0 \/ org.sched.pay = p
    /\ bought[p] > 0 =>
         bank[p].returned = {} /\ \A r \in Requests : Cancels(r) => req[r].p # p

(* A step of a request that gives nothing back and has no effect yet.      *)
LEMMA MoneyGoes ==
  ASSUME TypeInv, MoneyInv, NEW r \in Requests, Others(r),
         \A p \in Payments :
           /\ bank'[p].held = bank[p].held /\ bank'[p].returned = bank[p].returned
           /\ pay[p].refund # "none" => pay'[p].refund # "none"
           /\ pay[p].refund = "refunded" => pay'[p].refund = "refunded"
           /\ pay[p].applied => pay'[p].applied
           /\ Clean(p) => Clean(p)',
         Applying(r) /\ req[r].pc \in {"mark", "record"} => pay'[req[r].p].applied,
         Applying(r)' =>
           /\ ~Marking(r)' /\ req'[r].p \in Payments
           /\ Clean(req'[r].p) /\ "stale" \notin bank[req'[r].p].returned,
         Cancels(r)' /\ req'[r].p \in Payments =>
           /\ req'[r].pc # "cancel" => pay'[req'[r].p].refund # "none"
           /\ req'[r].pc = "clear" => pay'[req'[r].p].refund = "refunded",
         Serving(r)' => req'[r].job # "mismatch" /\ req'[r].pc # "unclaim"
  PROVE  MoneyInv'
  <1>1. \A s \in Requests : s # r =>
          /\ req'[s] = req[s]
          /\ Applying(s)' <=> Applying(s)
          /\ Marking(s)' <=> Marking(s)
          /\ Cancels(s)' <=> Cancels(s)
          /\ Serving(s)' <=> Serving(s)
    BY DEF Others, Applying, Applies, Marking, Cancels, Serving
  <1>2. \A s \in Requests : Applying(s) => req[s].p \in Payments
    BY ApplyingPays DEF TypeInv
  <1>3. Marking(r) => Applying(r) /\ req[r].pc = "mark"
    BY DEF Marking
  <1>4. MoneyPay'
    <2> SUFFICES ASSUME NEW p \in Payments
                 PROVE  /\ bank'[p].held # "wrong"
                        /\ bank'[p].returned \subseteq {"stale", "cancel"}
                        /\ "stale" \in bank'[p].returned =>
                             /\ Clean(p)'
                             /\ \/ pay'[p].applied
                                \/ \E s \in Requests : Applying(s)' /\ req'[s].p = p
                                                       /\ req'[s].pc = "record"
                        /\ "cancel" \in bank'[p].returned => pay'[p].refund # "none"
                        /\ \/ pay'[p].applied \/ Clean(p)'
                           \/ \E s \in Requests : Marking(s)' /\ req'[s].p = p
      BY DEF MoneyPay
    <2>1. bank'[p].held # "wrong" /\ bank'[p].returned \subseteq {"stale", "cancel"}
          /\ ("cancel" \in bank'[p].returned => pay'[p].refund # "none")
      BY DEF MoneyInv, MoneyPay
    <2>2. ASSUME "stale" \in bank'[p].returned
          PROVE  /\ Clean(p)'
                 /\ \/ pay'[p].applied
                    \/ \E s \in Requests : Applying(s)' /\ req'[s].p = p
                                           /\ req'[s].pc = "record"
      <3>1. Clean(p) /\ \/ pay[p].applied
                        \/ \E s \in Requests : Applying(s) /\ req[s].p = p
                                               /\ req[s].pc = "record"
        BY <2>2 DEF MoneyInv, MoneyPay
      <3> QED BY <1>1, <3>1
    <2>3. \/ pay'[p].applied \/ Clean(p)'
          \/ \E s \in Requests : Marking(s)' /\ req'[s].p = p
      <3>1. \/ pay[p].applied \/ Clean(p)
            \/ \E s \in Requests : Marking(s) /\ req[s].p = p
        BY DEF MoneyInv, MoneyPay
      <3> QED BY <1>1, <1>3, <3>1
    <2> QED BY <2>1, <2>2, <2>3
  <1>5. MoneyReq'
    <2> SUFFICES ASSUME NEW s \in Requests
                 PROVE  /\ Serving(s)' => req'[s].job # "mismatch" /\ req'[s].pc # "unclaim"
                        /\ Applying(s)' =>
                             /\ ~Marking(s)' => Clean(req[s].p)' 
                             /\ req'[s].pc # "record" =>
                                  "stale" \notin bank'[req'[s].p].returned
                        /\ Cancels(s)' /\ req'[s].p \in Payments =>
                             /\ req'[s].pc # "cancel" => pay'[req'[s].p].refund # "none"
                             /\ req'[s].pc = "clear" => pay'[req'[s].p].refund = "refunded"
      BY DEF MoneyReq
    <2>1. CASE s = r
      <3>1. Applying(r)' => Clean(req[r].p)'
        <4> SUFFICES ASSUME Applying(r)', NEW p \in Payments, p = req'[r].p
                     PROVE  Clean(p)'
          BY DEF Clean, Unused
        <4> QED OBVIOUS
      <3> QED BY <2>1, <3>1
    <2>2. CASE s # r
      <3>1. ASSUME Applying(s)', ~Marking(s)'
            PROVE  Clean(req[s].p)'
        <4>1. Clean(req[s].p) /\ req[s].p \in Payments /\ req'[s].p = req[s].p
          BY <1>1, <1>2, <2>2, <3>1 DEF MoneyInv, MoneyReq
        <4> SUFFICES ASSUME NEW p \in Payments, p = req'[s].p
                     PROVE  Clean(p)'
          BY <4>1 DEF Clean, Unused
        <4> QED BY <4>1
      <3> QED BY <1>1, <1>2, <2>2, <3>1 DEF MoneyInv, MoneyReq
    <2> QED BY <2>1, <2>2
  <1> QED BY <1>4, <1>5 DEF MoneyInv

(* What Razorpay was asked to give back, and what is applied or refunded.  *)
LEMMA ReturnedStays ==
  ASSUME TypeInv, NEW r \in Requests, RequestStep(r), ~Refund(r), ~RefundFails(r)
  PROVE  \A p \in Payments : bank'[p].returned = bank[p].returned
  <1>0. BankTyped
    BY DEF TypeInv
  <1>1. ASSUME Answer(r)
        PROVE  \A p \in Payments : bank'[p].returned = bank[p].returned
    BY <1>0, <1>1 DEF Answer, Tell, BankTyped, Accounts
  <1>2. CASE ClaimApply(r) \/ RejectQuote(r) \/ SchedulePaidPlan(r) \/ ChangePlan(r)
             \/ ReadBilling(r) \/ MarkApplied(r) \/ ReleaseClaim(r) \/ GiveUpRefund(r)
    BY <1>1, <1>2 DEF ClaimApply, RejectQuote, SchedulePaidPlan, ChangePlan, ReadBilling,
                      MarkApplied, ReleaseClaim, GiveUpRefund, Continue, Throw
  <1>3. CASE ActivateScheduledPaidPlan(r) \/ ExpirePlan(r)
    BY <1>3, AfterExpiryGoes DEF ActivateScheduledPaidPlan, ExpirePlan, At
  <1>4. CASE FindEnded(r)
    BY <1>4, FindEndedGoes
  <1>5. CASE RecordStaleRefund(r) \/ RecordMismatchRefund(r) \/ RecordCancelRefund(r)
             \/ ClaimCancelRefund(r) \/ ClearSchedule(r) \/ Restart(r) \/ FailToApply(r)
    BY <1>1, <1>5 DEF RecordStaleRefund, RecordMismatchRefund, RecordCancelRefund,
                      ClaimCancelRefund, ClearSchedule, Restart, FailToApply, Continue, Throw
  <1>6. CASE Crash(r)
    BY <1>6 DEF Crash
  <1> QED BY <1>2, <1>3, <1>4, <1>5, <1>6 DEF RequestStep, Proceed

LEMMA SettledStays ==
  ASSUME TypeInv, NEW r \in Requests, RequestStep(r), req[r].pc # "unclaim"
  PROVE  \A p \in Payments :
           /\ pay[p].refund # "none" => pay'[p].refund # "none"
           /\ pay[p].refund = "refunded" => pay'[p].refund = "refunded"
           /\ pay[p].applied => pay'[p].applied
  <1> DEFINE Better(p, doc) ==
        /\ pay[p].refund # "none" => doc.refund # "none"
        /\ pay[p].refund = "refunded" => doc.refund = "refunded"
        /\ pay[p].applied => doc.applied
  <1> SUFFICES \A p \in Payments : Better(p, pay'[p])
    OBVIOUS
  <1>0. ReqTyped /\ PayTyped
    BY DEF TypeInv
  <1>1. ASSUME NEW p \in Payments, NEW doc, Store(p, doc), Better(p, doc)
        PROVE  \A q \in Payments : Better(q, pay'[q])
    BY <1>0, <1>1, StoreIs
  <1>2. CASE pay' = pay
    BY <1>2
  <1> HIDE DEF Better
  <1> DEFINE Docs ==
        {Doc(r),
         [Doc(r) EXCEPT !.applying = "claimed"],
         [Doc(r) EXCEPT !.applied = TRUE],
         [Doc(r) EXCEPT !.applying = "no"],
         [Doc(r) EXCEPT !.applying = "no", !.applied = TRUE, !.refund = "refunded"],
         [Doc(r) EXCEPT !.applied = TRUE, !.refund = "refunded"],
         [Doc(r) EXCEPT !.refund = "refunded"]}
  <1>3. ASSUME req[r].pc \in {"claim", "mark", "release", "record", "unclaim", "cancel"},
               \E doc \in Docs : Store(req[r].p, doc)
        PROVE  \A q \in Payments : Better(q, pay'[q])
    <2>1. req[r].p \in Payments /\ Doc(r) \in PaymentDocs /\ Doc(r) = pay[req[r].p]
      BY <1>0, <1>3, DocTyped DEF Doc
    <2>2. \A doc \in Docs : Better(req[r].p, doc)
      BY <2>1 DEF PaymentDocs, Better
    <2> HIDE DEF Docs
    <2> QED BY <1>1, <1>3, <2>1, <2>2
  <1>4. CASE ClaimApply(r) \/ MarkApplied(r) \/ ReleaseClaim(r) \/ RecordStaleRefund(r)
    <2>1. pay' = pay \/ \E doc \in Docs : Store(req[r].p, doc)
      BY <1>4 DEF ClaimApply, MarkApplied, ReleaseClaim, RecordStaleRefund
    <2>2. req[r].pc \in {"claim", "mark", "release", "record"}
      BY <1>4 DEF ClaimApply, MarkApplied, ReleaseClaim, RecordStaleRefund, At
    <2> HIDE DEF Docs
    <2> QED BY <1>2, <1>3, <2>1, <2>2
  <1>5. CASE RecordMismatchRefund(r) \/ RecordCancelRefund(r)
    <2>1. pay' = pay \/ \E doc \in Docs : Store(req[r].p, doc)
      BY <1>5 DEF RecordMismatchRefund, RecordCancelRefund
    <2>2. req[r].pc = "record"
      BY <1>5 DEF RecordMismatchRefund, RecordCancelRefund, At
    <2> HIDE DEF Docs
    <2> QED BY <1>2, <1>3, <2>1, <2>2
  <1>6. CASE ClaimCancelRefund(r)
    <2>1. CASE Refundable(Doc(r))
      <3>1. req[r].p \in Payments /\ Doc(r) \in PaymentDocs /\ Doc(r) = pay[req[r].p]
        BY <1>0, <1>6, DocTyped DEF ClaimCancelRefund, At, Doc
      <3>2. Store(req[r].p, [Doc(r) EXCEPT !.refund = "processing"])
        BY <1>6, <2>1 DEF ClaimCancelRefund
      <3>3. Better(req[r].p, [Doc(r) EXCEPT !.refund = "processing"])
        BY <2>1, <3>1 DEF Better, Refundable, PaymentDocs
      <3> QED BY <1>1, <3>1, <3>2, <3>3
    <2>2. CASE ~Refundable(Doc(r))
      BY <1>2, <1>6, <2>2 DEF ClaimCancelRefund
    <2> QED BY <2>1, <2>2
  <1>7. CASE RejectQuote(r) \/ SchedulePaidPlan(r) \/ ChangePlan(r) \/ FindEnded(r)
             \/ ExpirePlan(r) \/ ReadBilling(r) \/ Refund(r) \/ ClearSchedule(r)
             \/ Restart(r) \/ FailToApply(r) \/ Crash(r)
    <2>1. pay' = pay
      BY <1>7 DEF RejectQuote, SchedulePaidPlan, ChangePlan, FindEnded, ExpirePlan,
                  ReadBilling, Refund, ClearSchedule, Restart, FailToApply, Crash
    <2> QED BY <1>2, <2>1
  <1>8. CASE RefundFails(r)
    <2>1. pay' = pay
      BY <1>8 DEF RefundFails
    <2> QED BY <1>2, <2>1
  <1>9. CASE ActivateScheduledPaidPlan(r)
    <2> DEFINE p == org.sched.pay
               doc == [pay[p] EXCEPT !.order.until = now + 1]
    <2>1. p \in Payments /\ Store(p, doc)
      BY <1>9 DEF ActivateScheduledPaidPlan, TypeInv, OrgTyped
    <2>2. Better(p, doc)
      BY <1>0, <2>1 DEF Better, PayTyped, PaymentDocs
    <2> HIDE DEF doc, p
    <2> QED BY <1>1, <2>1, <2>2
  <1>10. CASE GiveUpRefund(r)
    BY <1>10 DEF GiveUpRefund, At
  <1> QED BY <1>4, <1>5, <1>6, <1>7, <1>8, <1>9, <1>10 DEF RequestStep, Proceed

LEMMA CleanStays ==
  ASSUME TypeInv, NEW r \in Requests, RequestStep(r), ~Refund(r), ~RefundFails(r),
         NEW p \in Payments, Clean(p),
         SchedulePaidPlan(r) \/ ChangePlan(r) => req[r].p # p
  PROVE  Clean(p)'
  <1>1. Unused(p)'
    BY UnusedStays DEF Clean
  <1>2. "cancel" \notin bank'[p].returned
    BY ReturnedStays DEF Clean
  <1>3. \A s \in Requests : Cancels(s)' => Cancels(s) /\ req'[s].p = req[s].p
    BY RequestGoes DEF Ends, Moves, Others, Cancels, Serving
  <1> QED BY <1>1, <1>2, <1>3 DEF Clean

(* Most steps neither give money back nor give a payment its effect.       *)
LEMMA MoneyPlain ==
  ASSUME TypeInv, MoneyInv, NEW r \in Requests, RequestStep(r),
         ~Refund(r), ~RefundFails(r), ~ClaimApply(r), ~ClaimCancelRefund(r),
         ~RecordCancelRefund(r), ~MarkApplied(r), ~RecordStaleRefund(r), ~Crash(r),
         SchedulePaidPlan(r) \/ ChangePlan(r) => ~Moves(r, "mark")
  PROVE  MoneyInv'
  <1>1. Others(r)
    BY RequestGoes DEF Ends, Moves
  <1>2. req[r].pc # "unclaim"
    <2>1. req[r].pc = "unclaim" => Serving(r)
      BY BusyIs DEF TypeInv
    <2> QED BY <2>1 DEF MoneyInv, MoneyReq
  <1>3. \A p \in Payments :
          /\ bank'[p].held = bank[p].held /\ bank'[p].returned = bank[p].returned
          /\ pay[p].refund # "none" => pay'[p].refund # "none"
          /\ pay[p].refund = "refunded" => pay'[p].refund = "refunded"
          /\ pay[p].applied => pay'[p].applied
    BY <1>2, HeldStays, ReturnedStays, SettledStays
  <1>4. \A p \in Payments : Clean(p) => Clean(p)'
    <2>1. CASE ~(SchedulePaidPlan(r) \/ ChangePlan(r))
      BY <2>1, CleanStays
    <2>2. CASE SchedulePaidPlan(r) \/ ChangePlan(r)
      <3>1. ~Goto(r, "mark")
        BY <2>2, GotoMoves DEF SchedulePaidPlan, ChangePlan, At, TypeInv
      <3>2. org' = org /\ bought' = bought
        BY <2>2, <3>1 DEF SchedulePaidPlan, ChangePlan, Continue
      <3>3. \A s \in Requests : Cancels(s)' => Cancels(s) /\ req'[s].p = req[s].p
        BY RequestGoes DEF Ends, Moves, Others, Cancels, Serving
      <3> QED BY <1>3, <3>2, <3>3 DEF Clean, Unused
    <2> QED BY <2>1, <2>2
  <1>5. \/ Ends(r)
        \/ \E pc \in {"expiring", "read", "release", "apply", "refund"} :
             Moves(r, pc) /\ (pc = "refund" => RejectQuote(r) \/ SchedulePaidPlan(r)
                                                \/ ChangePlan(r))
    BY RequestGoes DEF Leads
  <1>6. ~(Applying(r) /\ req[r].pc \in {"mark", "record"})
    <2> SUFFICES ASSUME Applying(r), req[r].pc \in {"mark", "record"}
                 PROVE  FALSE
      OBVIOUS
    <2>1. Receipt(r) = "stale"
      BY DEF Applying, Applies, Receipt
    <2>2. ~At(r, "down") /\ ~At(r, "expire") /\ ~At(r, "expiring") /\ ~At(r, "read")
          /\ ~At(r, "apply") /\ ~At(r, "release") /\ ~At(r, "unclaim") /\ ~At(r, "clear")
      BY DEF At
    <2> QED BY <2>1, <2>2
            DEF RequestStep, Proceed, FailToApply, Restart, ActivateScheduledPaidPlan,
                FindEnded, ExpirePlan, ReadBilling, RejectQuote, SchedulePaidPlan, ChangePlan,
                ReleaseClaim, GiveUpRefund, RecordMismatchRefund, ClearSchedule
  <1>7. Applying(r)' =>
          /\ ~Marking(r)' /\ req'[r].p \in Payments
          /\ Clean(req'[r].p) /\ "stale" \notin bank[req'[r].p].returned
    <2> SUFFICES ASSUME Applying(r)'
                 PROVE  /\ ~Marking(r)' /\ req'[r].p \in Payments
                        /\ Clean(req'[r].p) /\ "stale" \notin bank[req'[r].p].returned
      OBVIOUS
    <2>1. PICK pc \in {"expiring", "read", "release", "apply", "refund"} : Moves(r, pc)
      BY <1>5 DEF Ends, Applying, Applies
    <2>2. Applies(r) /\ req'[r].p = req[r].p /\ req[r].p \in Payments /\ ~Marking(r)'
      BY <2>1, AppliesPays DEF Moves, Applying, Applies, Marking, TypeInv
    <2>3. req[r].pc # "claim"
      BY DEF RequestStep, Proceed, FailToApply, Restart, ActivateScheduledPaidPlan, At,
             FindEnded, ExpirePlan, ReadBilling, RejectQuote, SchedulePaidPlan, ChangePlan,
             ReleaseClaim, GiveUpRefund, RecordMismatchRefund, ClearSchedule
    <2>4. Applying(r) /\ ~Marking(r) /\ req[r].pc # "record"
      BY <1>6, <2>2, <2>3 DEF Applying, Marking
    <2> QED BY <2>2, <2>4 DEF MoneyInv, MoneyReq
  <1>8. Cancels(r)' => FALSE
    <2> SUFFICES ASSUME Cancels(r)'
                 PROVE  FALSE
      OBVIOUS
    <2>1. PICK pc \in {"expiring", "read", "release", "apply", "refund"} :
             Moves(r, pc) /\ (pc = "refund" => RejectQuote(r) \/ SchedulePaidPlan(r)
                                                \/ ChangePlan(r))
      BY <1>5 DEF Ends, Cancels
    <2>2. Serving(r) /\ req[r].job = "cancel" /\ req'[r].job = "cancel" /\ req'[r].pc = pc
      BY <2>1 DEF Moves, Cancels
    <2>3. pc = "refund" => req[r].pc = "apply"
      BY <2>1 DEF RejectQuote, SchedulePaidPlan, ChangePlan, At
    <2>4. FlowOK(req[r]) /\ FlowOK(req'[r])
      BY <2>1, <2>2, TypeStep DEF Moves, TypeInv, ReqTyped, RequestStep, Next
    <2> QED BY <2>2, <2>3, <2>4 DEF FlowOK
  <1>9. Serving(r)' => req'[r].job # "mismatch" /\ req'[r].pc # "unclaim"
    BY <1>5 DEF Ends, Moves, MoneyInv, MoneyReq
  <1> QED BY <1>1, <1>3, <1>4, <1>6, <1>7, <1>8, <1>9, MoneyGoes

(* What MoneyGoes asks of every payment, for the steps that store one.     *)
LEMMA MoneyKept ==
  ASSUME TypeInv, MoneyInv, NEW r \in Requests, RequestStep(r),
         ~Refund(r), ~RefundFails(r), ~SchedulePaidPlan(r), ~ChangePlan(r)
  PROVE  /\ Others(r)
         /\ \A p \in Payments :
              /\ bank'[p].held = bank[p].held /\ bank'[p].returned = bank[p].returned
              /\ pay[p].refund # "none" => pay'[p].refund # "none"
              /\ pay[p].refund = "refunded" => pay'[p].refund = "refunded"
              /\ pay[p].applied => pay'[p].applied
              /\ Clean(p) => Clean(p)'
  <1>1. req[r].pc # "unclaim"
    <2>1. req[r].pc = "unclaim" => Serving(r)
      BY BusyIs DEF TypeInv
    <2> QED BY <2>1 DEF MoneyInv, MoneyReq
  <1>2. Others(r)
    BY RequestGoes DEF Ends, Moves
  <1> QED BY <1>1, <1>2, HeldStays, ReturnedStays, SettledStays, CleanStays

LEMMA MoneyClaimApply ==
  ASSUME TypeInv, OnceInv, MoneyInv, NEW r \in Requests, ClaimApply(r)
  PROVE  MoneyInv'
  <1>1. RequestStep(r) /\ req[r].pc = "claim" /\ ~Refund(r) /\ ~RefundFails(r)
        /\ ~SchedulePaidPlan(r) /\ ~ChangePlan(r)
    BY DEF RequestStep, Proceed, ClaimApply, At, Refund, RefundFails, SchedulePaidPlan,
           ChangePlan
  <1>2. CASE Applicable(Doc(r))
    <2>1. Moves(r, "expire")
      BY <1>1, <1>2, GotoMoves DEF ClaimApply, Continue, TypeInv
    <2>2. req[r].p \in Payments /\ FlowOK(req[r])
      BY <1>1, DocTyped DEF TypeInv
    <2> PICK p \in Payments : p = req[r].p
      BY <2>2
    <2>3. ~pay[p].applied /\ pay[p].applying # "claimed"
      BY <1>2 DEF Applicable, Doc
    <2>4. \A s \in Requests : Applying(s) => req[s].p # p
      BY <2>3 DEF OnceInv, Claimed
    <2>5. Clean(p) /\ "stale" \notin bank[p].returned
      BY <2>3, <2>4 DEF MoneyInv, MoneyPay, Marking
    <2>6. ~Marking(r)' /\ req'[r].p = p
      BY <2>1 DEF Moves, Marking
    <2>7. req'[r].job = req[r].job /\ req'[r].pc = "expire" /\ Serving(r)
      BY <2>1 DEF Moves
    <2>8. ~Cancels(r)' /\ req'[r].job # "mismatch"
      BY <1>1, <2>2, <2>7 DEF Cancels, FlowOK, MoneyInv, MoneyReq
    <2> QED BY <1>1, <2>5, <2>6, <2>7, <2>8, MoneyKept, MoneyGoes
  <1>3. CASE ~Applicable(Doc(r))
    <2>1. Ends(r)
      BY <1>3, ReturnEnds DEF ClaimApply, Answer, TypeInv
    <2>2. ~Serving(r)' /\ ~Applying(r)' /\ ~Cancels(r)'
      BY <2>1 DEF Ends, Applying, Applies, Cancels
    <2> QED BY <1>1, <2>2, MoneyKept, MoneyGoes
  <1> QED BY <1>2, <1>3

LEMMA MoneyClaimCancelRefund ==
  ASSUME TypeInv, MoneyInv, NEW r \in Requests, ClaimCancelRefund(r)
  PROVE  MoneyInv'
  <1>1. RequestStep(r) /\ req[r].pc = "cancel" /\ ~Refund(r) /\ ~RefundFails(r)
        /\ ~SchedulePaidPlan(r) /\ ~ChangePlan(r)
    BY DEF RequestStep, Proceed, ClaimCancelRefund, At, Refund, RefundFails, SchedulePaidPlan,
           ChangePlan
  <1>2. req[r].p \in Payments /\ Doc(r) \in PaymentDocs /\ FlowOK(req[r]) /\ req[r] \in Works
        /\ Serving(r)
    BY <1>1, DocTyped DEF TypeInv
  <1>3. req[r].job = "cancel"
    BY <1>1, <1>2 DEF FlowOK, Works
  <1>4. CASE Refundable(Doc(r))
    <2>1. Moves(r, "refund")
      BY <1>1, <1>4, GotoMoves DEF ClaimCancelRefund, Continue, TypeInv
    <2>2. Store(req[r].p, [Doc(r) EXCEPT !.refund = "processing"])
      BY <1>4 DEF ClaimCancelRefund
    <2>3. [Doc(r) EXCEPT !.refund = "processing"].refund = "processing"
      BY <1>2 DEF PaymentDocs
    <2>4. pay'[req[r].p].refund = "processing"
      BY <1>2, <2>2, <2>3, StoreIs DEF TypeInv
    <2>5. req'[r].p = req[r].p /\ req'[r].pc = "refund" /\ req'[r].job = "cancel"
      BY <1>3, <2>1 DEF Moves
    <2>6. ~Applying(r)'
      BY <2>5 DEF Applying, Applies
    <2> QED BY <1>1, <2>4, <2>5, <2>6, MoneyKept, MoneyGoes
  <1>5. CASE ~Refundable(Doc(r))
    <2>1. Ends(r)
      BY <1>5, ReturnEnds DEF ClaimCancelRefund, Throw, TypeInv
    <2>2. ~Serving(r)' /\ ~Applying(r)' /\ ~Cancels(r)'
      BY <2>1 DEF Ends, Applying, Applies, Cancels
    <2> QED BY <1>1, <2>2, MoneyKept, MoneyGoes
  <1> QED BY <1>4, <1>5

LEMMA MoneyRecordCancelRefund ==
  ASSUME TypeInv, MoneyInv, NEW r \in Requests, RecordCancelRefund(r)
  PROVE  MoneyInv'
  <1>1. RequestStep(r) /\ req[r].pc = "record" /\ ~Refund(r) /\ ~RefundFails(r)
        /\ ~SchedulePaidPlan(r) /\ ~ChangePlan(r) /\ Receipt(r) = "cancel"
    BY DEF RequestStep, Proceed, RecordCancelRefund, At, Refund, RefundFails, SchedulePaidPlan,
           ChangePlan
  <1>2. req[r].p \in Payments /\ Doc(r) \in PaymentDocs /\ Serving(r)
    BY <1>1, DocTyped DEF TypeInv
  <1>3. req[r].job = "cancel" /\ Cancels(r)
    BY <1>1, <1>2 DEF Receipt, Cancels
  <1>4. Doc(r).refund # "none"
    BY <1>1, <1>2, <1>3 DEF MoneyInv, MoneyReq, Doc
  <1>5. pay'[req[r].p].refund = "refunded"
    <2>1. CASE InRefund(Doc(r))
      <3>1. Store(req[r].p, [Doc(r) EXCEPT !.refund = "refunded"])
        BY <2>1 DEF RecordCancelRefund
      <3>2. [Doc(r) EXCEPT !.refund = "refunded"].refund = "refunded"
        BY <1>2 DEF PaymentDocs
      <3> QED BY <1>2, <3>1, <3>2, StoreIs DEF TypeInv
    <2>2. CASE ~InRefund(Doc(r))
      <3>1. Doc(r).refund = "refunded"
        BY <1>2, <1>4, <2>2 DEF InRefund, PaymentDocs
      <3>2. Store(req[r].p, Doc(r))
        BY <2>2 DEF RecordCancelRefund
      <3> QED BY <1>2, <3>1, <3>2, StoreIs DEF TypeInv
    <2> QED BY <2>1, <2>2
  <1>6. Moves(r, "clear")
    BY <1>1, GotoMoves DEF RecordCancelRefund, Continue, TypeInv
  <1>7. req'[r].p = req[r].p /\ req'[r].pc = "clear" /\ req'[r].job = "cancel"
    BY <1>3, <1>6 DEF Moves
  <1>8. ~Applying(r)' /\ ~Applying(r)
    BY <1>3, <1>7 DEF Applying, Applies
  <1> QED BY <1>1, <1>5, <1>7, <1>8, MoneyKept, MoneyGoes

LEMMA MoneyDone ==
  ASSUME TypeInv, MoneyInv, NEW r \in Requests, MarkApplied(r) \/ RecordStaleRefund(r)
  PROVE  MoneyInv'
  <1>1. RequestStep(r) /\ req[r].pc \in {"mark", "record"} /\ ~Refund(r) /\ ~RefundFails(r)
        /\ ~SchedulePaidPlan(r) /\ ~ChangePlan(r)
    BY DEF RequestStep, Proceed, MarkApplied, RecordStaleRefund, At, Refund, RefundFails,
           SchedulePaidPlan, ChangePlan
  <1>2. req[r].p \in Payments /\ Doc(r) \in PaymentDocs
    BY <1>1, DocTyped DEF TypeInv
  <1>3. pay'[req[r].p].applied
    <2>1. CASE MarkApplied(r)
      <3>1. Store(req[r].p, [Doc(r) EXCEPT !.applied = TRUE])
        BY <2>1 DEF MarkApplied
      <3>2. [Doc(r) EXCEPT !.applied = TRUE].applied
        BY <1>2 DEF PaymentDocs
      <3> QED BY <1>2, <3>1, <3>2, StoreIs DEF TypeInv
    <2>2. CASE RecordStaleRefund(r)
      <3> DEFINE doc == [Doc(r) EXCEPT !.applying = "no", !.applied = TRUE,
                                       !.refund = "refunded"]
      <3>1. Store(req[r].p, doc)
        BY <2>2 DEF RecordStaleRefund
      <3>2. doc.applied
        BY <1>2 DEF PaymentDocs
      <3> HIDE DEF doc
      <3> QED BY <1>2, <3>1, <3>2, StoreIs DEF TypeInv
    <2> QED BY <2>1, <2>2
  <1>4. Ends(r)
    BY ReturnEnds DEF MarkApplied, RecordStaleRefund, Answer, Throw, TypeInv
  <1>5. ~Serving(r)' /\ ~Applying(r)' /\ ~Cancels(r)'
    BY <1>4 DEF Ends, Applying, Applies, Cancels
  <1> QED BY <1>1, <1>3, <1>5, MoneyKept, MoneyGoes

(* The step that gives a payment its effect: nobody else can.              *)
LEMMA MoneyEffect ==
  ASSUME TypeInv, OnceInv, MoneyInv, NEW r \in Requests,
         SchedulePaidPlan(r) \/ ChangePlan(r), Moves(r, "mark")
  PROVE  MoneyInv'
  <1>1. Applying(r) /\ ~Marking(r) /\ req[r].p \in Payments /\ req[r].pc = "apply"
    BY AppliesAt DEF SchedulePaidPlan, ChangePlan, At, Marking
  <1> PICK p \in Payments : p = req[r].p
    BY <1>1
  <1>2. \A s \in Requests : Applying(s) /\ req[s].p = p => s = r
    BY <1>1 DEF OnceInv, Claimed
  <1>3. Clean(p) /\ "stale" \notin bank[p].returned
    BY <1>1 DEF MoneyInv, MoneyReq
  <1>4. RequestStep(r) /\ ~Refund(r) /\ ~RefundFails(r) /\ pay' = pay
    BY <1>1 DEF RequestStep, Proceed, SchedulePaidPlan, ChangePlan, Refund, RefundFails, At
  <1>5. \A q \in Payments :
          bank'[q].held = bank[q].held /\ bank'[q].returned = bank[q].returned
    BY <1>4, HeldStays, ReturnedStays
  <1>6. \A q \in Payments : q # p => (Clean(q) => Clean(q)')
    BY <1>4, CleanStays
  <1>7. \A s \in Requests : s # r =>
          /\ req'[s] = req[s]
          /\ Applying(s)' <=> Applying(s)
          /\ Marking(s)' <=> Marking(s)
          /\ Cancels(s)' <=> Cancels(s)
          /\ Serving(s)' <=> Serving(s)
    BY DEF Moves, Others, Applying, Applies, Marking, Cancels, Serving
  <1>8. Marking(r)' /\ Applying(r)' /\ req'[r].p = p /\ ~Cancels(r)' /\ req'[r].pc = "mark"
        /\ req'[r].job = req[r].job /\ Serving(r)
    BY <1>1 DEF Moves, Marking, Applying, Applies, Cancels
  <1>9. \A s \in Requests : Applying(s) => req[s].p \in Payments
    BY ApplyingPays DEF TypeInv
  <1>10. ~Marking(r) /\ req[r].pc # "record"
    BY <1>1
  <1>11. MoneyPay'
    <2> SUFFICES ASSUME NEW q \in Payments
                 PROVE  /\ bank[q].held # "wrong"
                        /\ bank[q].returned \subseteq {"stale", "cancel"}
                        /\ "stale" \in bank[q].returned =>
                             /\ Clean(q)'
                             /\ \/ pay[q].applied
                                \/ \E s \in Requests : Applying(s)' /\ req'[s].p = q
                                                       /\ req'[s].pc = "record"
                        /\ "cancel" \in bank[q].returned => pay[q].refund # "none"
                        /\ \/ pay[q].applied \/ Clean(q)'
                           \/ \E s \in Requests : Marking(s)' /\ req'[s].p = q
      BY <1>4, <1>5 DEF MoneyPay
    <2>1. CASE q = p
      BY <1>3, <1>8, <2>1 DEF MoneyInv, MoneyPay
    <2>2. CASE q # p
      BY <1>6, <1>7, <1>10, <2>2 DEF MoneyInv, MoneyPay
    <2> QED BY <2>1, <2>2
  <1>12. MoneyReq'
    <2> SUFFICES ASSUME NEW s \in Requests
                 PROVE  /\ Serving(s)' => req'[s].job # "mismatch" /\ req'[s].pc # "unclaim"
                        /\ Applying(s)' =>
                             /\ ~Marking(s)' => Clean(req[s].p)'
                             /\ req'[s].pc # "record" =>
                                  "stale" \notin bank'[req'[s].p].returned
                        /\ Cancels(s)' /\ req'[s].p \in Payments =>
                             /\ req'[s].pc # "cancel" => pay'[req'[s].p].refund # "none"
                             /\ req'[s].pc = "clear" => pay'[req'[s].p].refund = "refunded"
      BY DEF MoneyReq
    <2>1. CASE s = r
      BY <1>3, <1>5, <1>8, <2>1 DEF MoneyInv, MoneyReq
    <2>2. CASE s # r
      <3>1. ASSUME Applying(s)', ~Marking(s)'
            PROVE  Clean(req[s].p)'
        <4>1. Clean(req[s].p) /\ req[s].p \in Payments /\ req'[s].p = req[s].p
              /\ req[s].p # p
          BY <1>2, <1>7, <1>9, <2>2, <3>1 DEF MoneyInv, MoneyReq
        <4> SUFFICES ASSUME NEW q \in Payments, q = req'[s].p
                     PROVE  Clean(q)'
          BY <4>1 DEF Clean, Unused
        <4> QED BY <1>6, <4>1
      <3> QED BY <1>4, <1>5, <1>7, <1>9, <2>2, <3>1 DEF MoneyInv, MoneyReq
    <2> QED BY <2>1, <2>2
  <1> QED BY <1>11, <1>12 DEF MoneyInv

(* The step that asks Razorpay for the money.                              *)
LEMMA MoneyRefund ==
  ASSUME TypeInv, OnceInv, MoneyInv, NEW r \in Requests, Refund(r)
  PROVE  MoneyInv'
  <1>1. Moves(r, "record") /\ req[r].pc = "refund" /\ Serving(r)
    BY GotoMoves DEF Refund, At, TypeInv, Moves
  <1>2. req[r].p \in Payments /\ req[r] \in Works /\ FlowOK(req[r])
    BY <1>1, DocTyped DEF TypeInv
  <1> PICK p \in Payments : p = req[r].p
    BY <1>2
  <1>3. \/ Applying(r) /\ Receipt(r) = "stale" /\ ~Cancels(r)
        \/ Cancels(r) /\ Receipt(r) = "cancel" /\ ~Applying(r)
    BY <1>1, <1>2 DEF Works, FlowOK, Applying, Applies, Cancels, Receipt, MoneyInv, MoneyReq
  <1>4. UNCHANGED <<org, pay, now, bought>>
    BY DEF Refund
  <1>5. /\ bank'[p].held = bank[p].held
        /\ bank'[p].returned = bank[p].returned \cup {Receipt(r)}
        /\ \A q \in Payments : q # p => bank'[q] = bank[q]
    BY DEF Refund, TypeInv, BankTyped, Accounts
  <1>6. \A s \in Requests :
          /\ s # r => req'[s] = req[s]
          /\ req'[s].p = req[s].p \/ s # r
          /\ Applying(s)' <=> Applying(s)
          /\ Marking(s)' <=> Marking(s)
          /\ Cancels(s)' <=> Cancels(s)
          /\ Serving(s)' <=> Serving(s)
    BY <1>1 DEF Moves, Others, Applying, Applies, Marking, Cancels, Serving
  <1>7. req'[r].pc = "record" /\ req'[r].p = p /\ req'[r].job = req[r].job /\ ~Marking(r)
        /\ ~Marking(r)'
    BY <1>1 DEF Moves, Marking
  <1>8. \A s \in Requests : s # r => req'[s].p = req[s].p /\ req'[s].pc = req[s].pc
    BY <1>6
  <1>9. \A s \in Requests : req'[s].p = req[s].p
    BY <1>7, <1>8
  <1>10. \A q \in Payments : Unused(q)' <=> Unused(q)
    BY <1>4 DEF Unused
  <1>11. \A q \in Payments : q # p \/ Applying(r) => (Clean(q)' <=> Clean(q))
    BY <1>3, <1>5, <1>6, <1>9, <1>10 DEF Clean
  <1>12. \A s \in Requests : Applying(s) => req[s].p \in Payments
    BY ApplyingPays DEF TypeInv
  <1>13. Applying(r) =>
           /\ \A s \in Requests : Applying(s) /\ req[s].p = p => s = r
           /\ Clean(p) /\ Clean(p)'
    BY <1>7, <1>11 DEF OnceInv, Claimed, MoneyInv, MoneyReq
  <1>14. Cancels(r) => /\ ~Clean(p) /\ "stale" \notin bank[p].returned
                       /\ pay[p].refund # "none"
                       /\ \A s \in Requests : Applying(s) /\ req[s].p = p => Marking(s)
    <2>1. Cancels(r) => ~Clean(p) /\ pay[p].refund # "none"
      BY <1>1 DEF Clean, MoneyInv, MoneyReq
    <2> QED BY <2>1 DEF MoneyInv, MoneyPay, MoneyReq
  <1>15. MoneyPay'
    <2> SUFFICES ASSUME NEW q \in Payments
                 PROVE  /\ bank'[q].held # "wrong"
                        /\ bank'[q].returned \subseteq {"stale", "cancel"}
                        /\ "stale" \in bank'[q].returned =>
                             /\ Clean(q)'
                             /\ \/ pay[q].applied
                                \/ \E s \in Requests : Applying(s)' /\ req'[s].p = q
                                                       /\ req'[s].pc = "record"
                        /\ "cancel" \in bank'[q].returned => pay[q].refund # "none"
                        /\ \/ pay[q].applied \/ Clean(q)'
                           \/ \E s \in Requests : Marking(s)' /\ req'[s].p = q
      BY <1>4 DEF MoneyPay
    <2>1. CASE q = p /\ Applying(r)
      BY <1>3, <1>5, <1>6, <1>7, <1>13, <2>1 DEF MoneyInv, MoneyPay
    <2>2. CASE q = p /\ Cancels(r)
      <3>1. pay[p].applied \/ \E s \in Requests : Marking(s) /\ req[s].p = p
        BY <1>14, <2>2 DEF MoneyInv, MoneyPay
      <3>2. "stale" \notin bank'[p].returned /\ bank'[p].returned \subseteq {"stale", "cancel"}
            /\ bank'[p].held # "wrong"
        BY <1>3, <1>5, <1>14, <2>2 DEF MoneyInv, MoneyPay
      <3> QED BY <1>6, <1>9, <1>14, <2>2, <3>1, <3>2
    <2>3. CASE q # p
      <3>1. bank'[q] = bank[q] /\ (Clean(q)' <=> Clean(q))
        BY <1>5, <1>11, <2>3
      <3>2. \A s \in Requests : Applying(s) /\ req[s].p = q /\ req[s].pc = "record" =>
              req'[s].pc = "record"
        BY <1>8, <2>3
      <3> QED BY <1>6, <1>9, <3>1, <3>2 DEF MoneyInv, MoneyPay
    <2> QED BY <1>3, <2>1, <2>2, <2>3
  <1>16. MoneyReq'
    <2> SUFFICES ASSUME NEW s \in Requests
                 PROVE  /\ Serving(s)' => req'[s].job # "mismatch" /\ req'[s].pc # "unclaim"
                        /\ Applying(s)' =>
                             /\ ~Marking(s)' => Clean(req[s].p)'
                             /\ req'[s].pc # "record" =>
                                  "stale" \notin bank'[req'[s].p].returned
                        /\ Cancels(s)' /\ req'[s].p \in Payments =>
                             /\ req'[s].pc # "cancel" => pay[req'[s].p].refund # "none"
                             /\ req'[s].pc = "clear" => pay[req'[s].p].refund = "refunded"
      BY <1>4 DEF MoneyReq
    <2>1. Serving(s)' => req'[s].job # "mismatch" /\ req'[s].pc # "unclaim"
      BY <1>1, <1>6, <1>7, <1>8 DEF MoneyInv, MoneyReq
    <2>2. Cancels(s)' /\ req'[s].p \in Payments =>
            /\ req'[s].pc # "cancel" => pay[req'[s].p].refund # "none"
            /\ req'[s].pc = "clear" => pay[req'[s].p].refund = "refunded"
      BY <1>6, <1>7, <1>8, <1>14 DEF MoneyInv, MoneyReq
    <2>3. ASSUME Applying(s)'
          PROVE  req'[s].pc # "record" => "stale" \notin bank'[req'[s].p].returned
      <3>1. Applying(s) /\ req[s].p \in Payments
        BY <1>6, <1>12, <2>3
      <3>2. CASE s = r
        BY <1>7, <3>2
      <3>3. CASE s # r /\ req[s].p = p
        BY <1>3, <1>5, <1>8, <1>13, <1>14, <3>1, <3>3
      <3>4. CASE s # r /\ req[s].p # p
        BY <1>5, <1>8, <3>1, <3>4 DEF MoneyInv, MoneyReq
      <3> QED BY <3>2, <3>3, <3>4
    <2>4. ASSUME Applying(s)', ~Marking(s)'
          PROVE  Clean(req[s].p)'
      <3>1. Applying(s) /\ ~Marking(s) /\ Clean(req[s].p) /\ req[s].p \in Payments
        BY <1>6, <1>12, <2>4 DEF MoneyInv, MoneyReq
      <3>2. req[s].p # p \/ Applying(r)
        BY <1>3, <1>14, <3>1
      <3> SUFFICES ASSUME NEW q \in Payments, q = req'[s].p
                   PROVE  Clean(q)'
        BY <1>9, <3>1 DEF Clean, Unused
      <3> QED BY <1>9, <1>11, <3>1, <3>2
    <2> QED BY <2>1, <2>2, <2>3, <2>4
  <1> QED BY <1>15, <1>16 DEF MoneyInv

LEMMA MoneySame ==
  ASSUME TypeInv, MoneyInv, req' = req, bought' = bought, org'.sched.pay = org.sched.pay,
         \A p \in Payments :
           /\ bank'[p].held # "wrong" /\ bank'[p].returned = bank[p].returned
           /\ pay[p].refund # "none" => pay'[p].refund # "none"
           /\ pay[p].refund = "refunded" => pay'[p].refund = "refunded"
           /\ pay[p].applied => pay'[p].applied
  PROVE  MoneyInv'
  <1>1. \A s \in Requests :
          /\ Applying(s)' <=> Applying(s)
          /\ Marking(s)' <=> Marking(s)
          /\ Cancels(s)' <=> Cancels(s)
          /\ Serving(s)' <=> Serving(s)
    BY DEF Applying, Applies, Marking, Cancels, Serving
  <1>2. \A p \in Payments : Clean(p)' <=> Clean(p)
    BY <1>1 DEF Clean, Unused
  <1>3. \A s \in Requests : Applying(s) => req[s].p \in Payments
    BY ApplyingPays DEF TypeInv
  <1>4. MoneyPay'
    BY <1>1, <1>2 DEF MoneyInv, MoneyPay
  <1>5. MoneyReq'
    <2> SUFFICES ASSUME NEW s \in Requests
                 PROVE  /\ Serving(s) => req[s].job # "mismatch" /\ req[s].pc # "unclaim"
                        /\ Applying(s) =>
                             /\ ~Marking(s) => Clean(req[s].p)'
                             /\ req[s].pc # "record" =>
                                  "stale" \notin bank'[req[s].p].returned
                        /\ Cancels(s) /\ req[s].p \in Payments =>
                             /\ req[s].pc # "cancel" => pay'[req[s].p].refund # "none"
                             /\ req[s].pc = "clear" => pay'[req[s].p].refund = "refunded"
      BY <1>1 DEF MoneyReq
    <2>1. ASSUME Applying(s), ~Marking(s)
          PROVE  Clean(req[s].p)'
      <3>1. Clean(req[s].p) /\ req[s].p \in Payments
        BY <1>3, <2>1 DEF MoneyInv, MoneyReq
      <3> SUFFICES ASSUME NEW q \in Payments, q = req'[s].p
                   PROVE  Clean(q)'
        BY <3>1 DEF Clean, Unused
      <3> QED BY <1>2, <3>1
    <2> QED BY <1>3, <2>1 DEF MoneyInv, MoneyReq
  <1> QED BY <1>4, <1>5 DEF MoneyInv

(* A request that begins; one that cancels has a payment that is scheduled.*)
LEMMA MoneyBegins ==
  ASSUME TypeInv, MoneyInv, NEW r \in Requests, NEW pc, NEW job, NEW p,
         Begins(r, pc, job, p), UNCHANGED <<org, bank, bought>>,
         \A q \in Payments :
           /\ pay'[q].refund = pay[q].refund
           /\ pay[q].applied => pay'[q].applied,
         pc # "unclaim", job # "mismatch",
         job \in {"browser", "webhook"} => pc = "claim",
         job = "cancel" => p = org.sched.pay /\ (p \in Payments => pc = "cancel")
  PROVE  MoneyInv'
  <1>1. Others(r) /\ ~Applying(r) /\ ~Applying(r)' /\ req'[r].pc = pc /\ req'[r].job = job
        /\ req'[r].p = p
    BY DEF Begins, Applying, Applies
  <1>2. Cancels(r)' => job = "cancel"
    BY <1>1 DEF Cancels
  <1>3. \A q \in Payments : Clean(q) => Clean(q)'
    <2> SUFFICES ASSUME NEW q \in Payments, Clean(q)
                 PROVE  Clean(q)'
      OBVIOUS
    <2>1. Unused(q)' /\ "cancel" \notin bank'[q].returned
      BY DEF Clean, Unused
    <2>2. \A s \in Requests : Cancels(s)' => req'[s].p # q
      BY <1>1, <1>2 DEF Clean, Unused, Others, Cancels, Serving
    <2> QED BY <2>1, <2>2 DEF Clean
  <1> QED BY <1>1, <1>2, <1>3, MoneyGoes

LEMMA MoneyRequest ==
  ASSUME Orderly, TypeInv, OnceInv, MoneyInv, NEW r \in Requests, RequestStep(r)
  PROVE  MoneyInv'
  <1>1. CASE Refund(r)
    BY <1>1, MoneyRefund
  <1>2. CASE RefundFails(r) \/ Crash(r)
    <2>1. ~RefundFails(r)
      BY DEF Orderly, RefundFails
    <2>2. ~Crash(r)
      BY DEF Orderly, Crash
    <2> QED BY <1>2, <2>1, <2>2
  <1>3. CASE ClaimApply(r)
    BY <1>3, MoneyClaimApply
  <1>4. CASE ClaimCancelRefund(r)
    BY <1>4, MoneyClaimCancelRefund
  <1>5. CASE RecordCancelRefund(r)
    BY <1>5, MoneyRecordCancelRefund
  <1>6. CASE MarkApplied(r) \/ RecordStaleRefund(r)
    BY <1>6, MoneyDone
  <1>7. CASE (SchedulePaidPlan(r) \/ ChangePlan(r)) /\ Moves(r, "mark")
    BY <1>7, MoneyEffect
  <1> QED BY <1>1, <1>2, <1>3, <1>4, <1>5, <1>6, <1>7, MoneyPlain

LEMMA MoneyStep ==
  ASSUME Orderly, TypeInv, OnceInv, MoneyInv, [Next]_vars
  PROVE  MoneyInv'
  <1>0. PayTyped /\ BankTyped /\ org \in OrgDocs
    BY DEF TypeInv, OrgTyped
  <1>1. ASSUME NEW p \in Payments, NEW offer \in Offers, CreateOrder(p, offer)
        PROVE  MoneyInv'
    <2> DEFINE order == [plan |-> offer.plan, signed |-> offer.signed, seen |-> org.sub,
                         until |-> QuotedUntil(offer.plan, org.sub)]
               doc == [pay[p] EXCEPT !.status = "created", !.order = order]
    <2>1. Store(p, doc)
      BY <1>1 DEF CreateOrder
    <2> HIDE DEF order
    <2>2. doc.refund = pay[p].refund /\ doc.applied = pay[p].applied
      BY <1>0 DEF PayTyped, PaymentDocs
    <2> HIDE DEF doc
    <2>3. \A q \in Payments : pay'[q].refund = pay[q].refund /\ pay'[q].applied = pay[q].applied
      BY <1>0, <2>1, <2>2, StoreIs
    <2> QED BY <1>1, <2>3, MoneySame DEF CreateOrder, MoneyInv, MoneyPay
  <1>2. ASSUME NEW p \in Payments, NEW amount \in Amounts, Capture(p, amount)
        PROVE  MoneyInv'
    <2>1. amount = "right"
      BY DEF Orderly
    <2>2. \A q \in Payments : bank'[q].held # "wrong" /\ bank'[q].returned = bank[q].returned
      BY <1>0, <1>2, <2>1 DEF Capture, BankTyped, Accounts, MoneyInv, MoneyPay
    <2> QED BY <1>2, <2>2, MoneySame DEF Capture
  <1>3. ASSUME NEW p \in Payments, ClaimAges(p)
        PROVE  MoneyInv'
    <2> DEFINE doc == [pay[p] EXCEPT
                         !.applying = IF @ = "claimed" THEN "overdue" ELSE @,
                         !.refund = IF @ = "processing" THEN "overdue" ELSE @]
    <2>1. Store(p, doc)
      BY <1>3 DEF ClaimAges
    <2>2. /\ pay[p].refund # "none" => doc.refund # "none"
          /\ pay[p].refund = "refunded" => doc.refund = "refunded"
          /\ doc.applied = pay[p].applied
      BY <1>0 DEF PayTyped, PaymentDocs
    <2> HIDE DEF doc
    <2>3. \A q \in Payments :
            /\ pay[q].refund # "none" => pay'[q].refund # "none"
            /\ pay[q].refund = "refunded" => pay'[q].refund = "refunded"
            /\ pay'[q].applied = pay[q].applied
      BY <1>0, <2>1, <2>2, StoreIs
    <2> QED BY <1>3, <2>3, MoneySame DEF ClaimAges, MoneyInv, MoneyPay
  <1>4. ASSUME NEW r \in Requests, NEW p \in Payments, Report(r, p)
        PROVE  MoneyInv'
    <2>1. ~ReportMismatch(r, p)
      BY DEF ReportMismatch, MoneyInv, MoneyPay
    <2>2. PICK job \in {"browser", "webhook"} : ReportPaid(r, p, job)
      BY <1>4, <2>1 DEF Report
    <2> DEFINE doc == IF pay[p].status = "created"
                      THEN [pay[p] EXCEPT !.status = "paid", !.paidAt = now]
                      ELSE pay[p]
    <2>3. doc.refund = pay[p].refund /\ doc.applied = pay[p].applied
      BY <1>0 DEF PayTyped, PaymentDocs
    <2>4. Store(p, doc) /\ UNCHANGED <<org, bank, bought>>
      BY <2>2 DEF ReportPaid
    <2>5. Begins(r, "claim", job, p)
      BY <2>2, StartBegins DEF ReportPaid, TypeInv
    <2> HIDE DEF doc
    <2>6. \A q \in Payments : pay'[q].refund = pay[q].refund /\ pay'[q].applied = pay[q].applied
      BY <1>0, <2>3, <2>4, StoreIs
    <2> QED BY <2>4, <2>5, <2>6, MoneyBegins
  <1>5. ASSUME NEW r \in Requests, Sweep(r)
        PROVE  MoneyInv'
    <2>1. Begins(r, "expire", "sweep", NoPay)
      BY <1>5, StartBegins DEF Sweep, TypeInv
    <2> QED BY <1>5, <2>1, MoneyBegins DEF Sweep
  <1>6. ASSUME NEW r \in Requests, CancelScheduledChange(r)
        PROVE  MoneyInv'
    <2> DEFINE pc == IF org.sched.pay = NoPay THEN "clear" ELSE "cancel"
    <2>1. Begins(r, pc, "cancel", org.sched.pay)
      BY <1>6, StartBegins DEF CancelScheduledChange, TypeInv
    <2>2. (org.sched.pay \in Payments => pc = "cancel") /\ pc # "unclaim"
      BY PaymentsAssumption
    <2> QED BY <1>6, <2>1, <2>2, MoneyBegins DEF CancelScheduledChange
  <1>7. CASE ScheduleFreeDowngrade
    <2>1. org'.sched.pay = org.sched.pay
      BY <1>0, <1>7 DEF ScheduleFreeDowngrade, OrgDocs, Schedules
    <2> QED BY <1>7, <2>1, MoneySame DEF ScheduleFreeDowngrade, MoneyInv, MoneyPay
  <1>8. CASE Tick \/ UNCHANGED vars
    BY <1>8, MoneySame DEF Tick, vars, MoneyInv, MoneyPay
  <1> QED BY <1>1, <1>2, <1>3, <1>4, <1>5, <1>6, <1>7, <1>8, MoneyRequest
          DEF Next, RequestStep

LEMMA MoneyInit ==
  ASSUME Init
  PROVE  MoneyInv
  <1>1. \A p \in Payments : Clean(p)
    BY InitIs, PaymentsAssumption DEF Clean, Unused, Cancels
  <1>2. MoneyPay
    BY <1>1, InitIs DEF MoneyPay
  <1>3. MoneyReq
    BY InitIs DEF MoneyReq, Applying, Applies, Cancels
  <1> QED BY <1>2, <1>3 DEF MoneyInv

LEMMA OrderlyCalm == Orderly => Calm
  BY DEF Orderly, Calm

LEMMA MoneyReturnedOnce ==
  ASSUME TypeInv, MoneyInv
  PROVE  ReturnedOnce
  <1> SUFFICES ASSUME NEW p \in Payments
               PROVE  Cardinality(bank[p].returned) <= 1
    BY DEF ReturnedOnce
  <1>1. ~("stale" \in bank[p].returned /\ "cancel" \in bank[p].returned)
        /\ bank[p].returned \subseteq {"stale", "cancel"}
    BY DEF MoneyInv, MoneyPay, Clean
  <1>2. CASE bank[p].returned = {}
    <2>1. Cardinality(bank[p].returned) = 0
      BY <1>2, FS_EmptySet, Zenon
    <2> QED BY <2>1
  <1>3. CASE \E receipt : bank[p].returned = {receipt}
    <2>1. Cardinality(bank[p].returned) = 1
      BY <1>3, FS_Singleton, Zenon
    <2> QED BY <2>1
  <1> QED BY <1>1, <1>2, <1>3

(* As long as requests run to their end and Razorpay pays what it is asked *)
(* to, no payment is given back twice, by whichever of the handlers, and   *)
(* in whatever term.                                                       *)
THEOREM ReturnedOnceCorrect ==
  ASSUME Orderly
  PROVE  Spec => []ReturnedOnce
<1>1. Init => TypeInv /\ OnceInv /\ MoneyInv
  BY TypeInit, OnceInit, MoneyInit
<1>2. TypeInv /\ OnceInv /\ MoneyInv /\ [Next]_vars => TypeInv' /\ OnceInv' /\ MoneyInv'
  BY TypeStep, OnceStep, MoneyStep, OrderlyCalm
<1>3. TypeInv /\ OnceInv /\ MoneyInv => ReturnedOnce
  BY MoneyReturnedOnce
<1> QED BY <1>1, <1>2, <1>3, PTL DEF Spec

-----------------------------------------------------------------------------
(* What is bought lasts. A payment that has not been used yet was quoted   *)
(* for a subscription, which it does not shorten while it runs.            *)
Lengthens(order) ==
  Running(order.seen) =>
    /\ order.until >= order.seen.until
    /\ order.plan = order.seen.plan => order.until > order.seen.until

QuoteInv ==
  /\ \A p \in Payments :
       /\ pay[p].status = "none" => bank[p].held = "no"
       /\ pay[p].status # "none" /\ bought[p] = 0 =>
            pay[p].order.signed /\ Lengthens(pay[p].order)
  /\ \A r \in Requests : Applies(r) => pay[req[r].p].status # "none"

(* Time passes for a quote too: what it does not shorten runs no longer.   *)
LEMMA QuoteStays ==
  ASSUME TypeInv, QuoteInv, now' \in Nat, now' >= now,
         \A p \in Payments :
           /\ bought'[p] = 0 => bought[p] = 0 /\ pay'[p].order = pay[p].order
           /\ pay'[p].status = "none" <=> pay[p].status = "none"
           /\ pay[p].status = "none" => bank'[p].held = bank[p].held,
         \A s \in Requests : Applies(s)' =>
           \/ Applies(s) /\ req'[s].p = req[s].p
           \/ req'[s].p \in Payments /\ pay[req'[s].p].status # "none"
  PROVE  QuoteInv'
  <1>1. \A p \in Payments : pay[p].order \in Orders
    BY DEF TypeInv, PayTyped, PaymentDocs
  <1>2. \A order \in Orders : Lengthens(order) => Lengthens(order)'
    BY DEF Lengthens, Running, Orders, Subscriptions, TypeInv, CountsTyped
  <1>3. ASSUME NEW p \in Payments, pay'[p].status # "none", bought'[p] = 0
        PROVE  pay'[p].order.signed /\ Lengthens(pay[p].order)'
    <2>1. pay[p].order.signed /\ Lengthens(pay[p].order) /\ pay'[p].order = pay[p].order
      BY <1>3 DEF QuoteInv
    <2> PICK order \in Orders : order = pay[p].order
      BY <1>1
    <2> QED BY <1>2, <2>1 DEF Lengthens, Running
  <1>4. \A s \in Requests : Applies(s) => req[s].p \in Payments
    BY AppliesPays, SMTT(60) DEF TypeInv
  <1> QED BY <1>3, <1>4 DEF QuoteInv, Lengthens

LEMMA RequestTime ==
  ASSUME NEW r \in Requests, RequestStep(r)
  PROVE  now' = now
  BY DEF RequestStep, Proceed, ClaimApply, ActivateScheduledPaidPlan, FindEnded, ExpirePlan,
         ReadBilling, RejectQuote, SchedulePaidPlan, ChangePlan, MarkApplied, ReleaseClaim,
         Refund, GiveUpRefund, RecordStaleRefund, RecordMismatchRefund, RecordCancelRefund,
         ClaimCancelRefund, ClearSchedule, FailToApply, RefundFails, Crash, Restart

(* What buys: the activation of what is scheduled, and a change of plan.   *)
Activates(r, p) == ActivateScheduledPaidPlan(r) /\ p = org.sched.pay /\ Buy(p)
Purchases(r, p) ==
  /\ ChangePlan(r) /\ p = req[r].p /\ Buy(p) /\ Moves(r, "mark")
  /\ org.sched = NoSched /\ org.sub \in Expected(pay[p], req[r].seen)

LEMMA WhoBuys ==
  ASSUME TypeInv, NEW r \in Requests, RequestStep(r)
  PROVE  \/ bought' = bought
         \/ \E p \in Payments : Activates(r, p) \/ Purchases(r, p)
  <1>1. CASE ActivateScheduledPaidPlan(r)
    <2>1. org.sched.pay \in Payments /\ Buy(org.sched.pay)
      BY <1>1 DEF ActivateScheduledPaidPlan, TypeInv, OrgTyped
    <2> QED BY <1>1, <2>1 DEF Activates
  <1>2. CASE ChangePlan(r)
    <2>1. req[r].p \in Payments
      BY <1>2, AppliesAt DEF ChangePlan, At
    <2>2. \/ bought' = bought
          \/ Buy(req[r].p) /\ Continue(r, "mark") /\ org.sched = NoSched
             /\ org.sub \in Expected(Doc(r), req[r].seen)
      BY <1>2 DEF ChangePlan
    <2>3. Continue(r, "mark") => Moves(r, "mark")
      BY <1>2, GotoMoves DEF Continue, ChangePlan, At, TypeInv
    <2> QED BY <1>2, <2>1, <2>2, <2>3 DEF Purchases, Doc
  <1>3. CASE RefundFails(r)
    BY <1>3 DEF RefundFails
  <1>4. CASE ~ActivateScheduledPaidPlan(r) /\ ~ChangePlan(r) /\ ~RefundFails(r)
    BY <1>4 DEF RequestStep, Proceed, ClaimApply, FindEnded, ExpirePlan,
           ReadBilling, RejectQuote, SchedulePaidPlan, MarkApplied, ReleaseClaim,
           Refund, GiveUpRefund, RecordStaleRefund, RecordMismatchRefund, RecordCancelRefund,
           ClaimCancelRefund, ClearSchedule, FailToApply, Crash, Restart
  <1> QED BY <1>1, <1>2, <1>3, <1>4

LEMMA BuyCounts ==
  ASSUME TypeInv, NEW p \in Payments, Buy(p)
  PROVE  bought'[p] > 0 /\ \A q \in Payments : q # p => bought'[q] = bought[q]
  BY DEF Buy, TypeInv, CountsTyped

LEMMA QuoteRequest ==
  ASSUME TypeInv, QuoteInv, NEW r \in Requests, RequestStep(r)
  PROVE  QuoteInv'
  <1>1. now' = now /\ now \in Nat
    BY RequestTime DEF TypeInv, CountsTyped
  <1>2. \A p \in Payments : bank'[p].held = bank[p].held
    BY HeldStays
  <1>3. \A s \in Requests : Applies(s)' => Applies(s) /\ req'[s].p = req[s].p
    BY RequestGoes DEF Ends, Moves, Others, Applies, Serving
  <1>4. \A p \in Payments : bought'[p] = 0 => bought[p] = 0
    BY WhoBuys, BuyCounts DEF Activates, Purchases
  <1>5. \A p \in Payments : bought'[p] = 0 => pay'[p].order = pay[p].order
    <2>1. CASE ActivateScheduledPaidPlan(r)
      <3>1. org.sched.pay \in Payments
        BY <2>1 DEF ActivateScheduledPaidPlan, TypeInv, OrgTyped
      <3>2. bought'[org.sched.pay] > 0
        BY <2>1, <3>1, BuyCounts DEF ActivateScheduledPaidPlan
      <3>3. \A p \in Payments : p # org.sched.pay => pay'[p] = pay[p]
        BY <2>1, <3>1, StoreIs DEF ActivateScheduledPaidPlan, TypeInv
      <3> QED BY <3>2, <3>3
    <2> QED BY <2>1, RequestDocs
  <1>6. \A p \in Payments : pay'[p].status = pay[p].status
    <2>1. CASE ActivateScheduledPaidPlan(r)
      <3> DEFINE doc == [pay[org.sched.pay] EXCEPT !.order.until = now + 1]
      <3>1. org.sched.pay \in Payments /\ Store(org.sched.pay, doc)
        BY <2>1 DEF ActivateScheduledPaidPlan, TypeInv, OrgTyped
      <3>2. doc.status = pay[org.sched.pay].status
        BY <3>1 DEF TypeInv, PayTyped, PaymentDocs
      <3> HIDE DEF doc
      <3> QED BY <3>1, <3>2, StoreIs DEF TypeInv
    <2> QED BY <2>1, RequestDocs
  <1> QED BY <1>1, <1>2, <1>3, <1>4, <1>5, <1>6, QuoteStays

LEMMA QuoteCreateOrder ==
  ASSUME Quoted, TypeInv, QuoteInv, NEW p \in Payments, NEW offer \in Offers,
         CreateOrder(p, offer)
  PROVE  QuoteInv'
  <1> DEFINE order == [plan |-> offer.plan, signed |-> offer.signed, seen |-> org.sub,
                       until |-> QuotedUntil(offer.plan, org.sub)]
             doc == [pay[p] EXCEPT !.status = "created", !.order = order]
  <1>1. pay[p] \in PaymentDocs /\ org.sub \in Subscriptions /\ now \in Nat
    BY DEF TypeInv, PayTyped, OrgTyped, OrgDocs, CountsTyped
  <1>2. pay'[p] = doc /\ \A q \in Payments : q # p => pay'[q] = pay[q]
    BY StoreIs DEF CreateOrder, TypeInv
  <1>3. doc.status = "created" /\ doc.order = order
    BY <1>1 DEF PaymentDocs
  <1>4. order.plan = offer.plan /\ order.signed /\ order.seen = org.sub
        /\ order.until = QuotedUntil(order.plan, order.seen)
    BY DEF Quoted
  <1> HIDE DEF order, doc
  <1>5. UNCHANGED <<org, bank, req, now, bought>> /\ pay[p].status = "none"
    BY DEF CreateOrder
  <1>6. Lengthens(order)
    BY <1>1, <1>4 DEF Lengthens, QuotedUntil, Running, Subscriptions
  <1>7. \A q \in Payments :
          /\ pay'[q].status = "none" => bank'[q].held = "no"
          /\ pay'[q].status # "none" /\ bought'[q] = 0 =>
               pay'[q].order.signed /\ Lengthens(pay[q].order)'
    <2> SUFFICES ASSUME NEW q \in Payments
                 PROVE  /\ pay'[q].status = "none" => bank[q].held = "no"
                        /\ pay'[q].status # "none" /\ bought[q] = 0 =>
                             pay'[q].order.signed /\ Lengthens(pay'[q].order)
      BY <1>5 DEF Lengthens, Running
    <2>1. CASE q = p
      BY <1>2, <1>3, <1>4, <1>6, <2>1
    <2>2. CASE q # p
      BY <1>2, <2>2 DEF QuoteInv
    <2> QED BY <2>1, <2>2
  <1>8. \A s \in Requests : Applies(s)' => pay'[req'[s].p].status # "none"
    <2> SUFFICES ASSUME NEW s \in Requests, Applies(s)
                 PROVE  pay'[req[s].p].status # "none"
      BY <1>5 DEF Applies, Serving
    <2>1. req[s].p \in Payments /\ req[s].p # p
      BY <1>5, AppliesPays DEF QuoteInv, TypeInv
    <2> QED BY <1>2, <2>1 DEF QuoteInv
  <1> QED BY <1>7, <1>8 DEF QuoteInv

LEMMA QuoteStep ==
  ASSUME Quoted, TypeInv, QuoteInv, [Next]_vars
  PROVE  QuoteInv'
  <1>0. PayTyped /\ BankTyped /\ now \in Nat /\ now' \in Nat
    BY TypeStep DEF TypeInv, CountsTyped
  <1>1. ASSUME NEW p \in Payments, NEW amount \in Amounts, Capture(p, amount)
        PROVE  QuoteInv'
    <2>1. \A q \in Payments : q # p => bank'[q] = bank[q]
      BY <1>0, <1>1 DEF Capture, BankTyped
    <2>2. pay[p].status # "none" /\ UNCHANGED <<org, pay, req, now, bought>>
      BY <1>1 DEF Capture
    <2> QED BY <1>0, <2>1, <2>2, QuoteStays DEF Applies, Serving
  <1>2. ASSUME NEW p \in Payments, ClaimAges(p)
        PROVE  QuoteInv'
    <2> DEFINE doc == [pay[p] EXCEPT
                         !.applying = IF @ = "claimed" THEN "overdue" ELSE @,
                         !.refund = IF @ = "processing" THEN "overdue" ELSE @]
    <2>1. Store(p, doc) /\ UNCHANGED <<org, bank, req, now, bought>>
      BY <1>2 DEF ClaimAges
    <2>2. doc.order = pay[p].order /\ doc.status = pay[p].status
      BY <1>0 DEF PayTyped, PaymentDocs
    <2> HIDE DEF doc
    <2>3. \A q \in Payments : pay'[q].order = pay[q].order /\ pay'[q].status = pay[q].status
      BY <1>0, <2>1, <2>2, StoreIs
    <2> QED BY <1>0, <2>1, <2>3, QuoteStays DEF Applies, Serving
  <1>3. ASSUME NEW r \in Requests, NEW pc, NEW job, NEW p, Begins(r, pc, job, p),
               job \in {"browser", "webhook"} => p \in Payments /\ pay[p].status # "none",
               \A q \in Payments : /\ pay'[q].order = pay[q].order
                                   /\ pay'[q].status = "none" <=> pay[q].status = "none",
               UNCHANGED <<bank, now, bought>>
        PROVE  QuoteInv'
    <2>1. \A s \in Requests : Applies(s)' =>
            \/ Applies(s) /\ req'[s].p = req[s].p
            \/ req'[s].p \in Payments /\ pay[req'[s].p].status # "none"
      BY <1>3 DEF Begins, Others, Applies, Serving
    <2> QED BY <1>0, <1>3, <2>1, QuoteStays
  <1>4. ASSUME NEW r \in Requests, NEW p \in Payments, NEW job, ReportPaid(r, p, job)
        PROVE  QuoteInv'
    <2> DEFINE doc == IF pay[p].status = "created"
                      THEN [pay[p] EXCEPT !.status = "paid", !.paidAt = now]
                      ELSE pay[p]
    <2>1. Store(p, doc) /\ UNCHANGED <<bank, now, bought>> /\ pay[p].status # "none"
      BY <1>4 DEF ReportPaid, QuoteInv
    <2>2. doc.order = pay[p].order /\ (doc.status = "none" <=> pay[p].status = "none")
      BY <1>0 DEF PayTyped, PaymentDocs
    <2>3. Begins(r, "claim", job, p)
      BY <1>4, StartBegins DEF ReportPaid, TypeInv
    <2> HIDE DEF doc
    <2>4. \A q \in Payments : /\ pay'[q].order = pay[q].order
                              /\ pay'[q].status = "none" <=> pay[q].status = "none"
      BY <1>0, <2>1, <2>2, StoreIs
    <2> QED BY <1>3, <2>1, <2>3, <2>4
  <1>5. ASSUME NEW r \in Requests, NEW p \in Payments, ReportMismatch(r, p)
        PROVE  QuoteInv'
    <2>1. CASE Refundable(pay[p])
      <3> DEFINE doc == [pay[p] EXCEPT !.status = "paid", !.paidAt = now,
                                       !.refund = "processing"]
      <3>1. Store(p, doc) /\ UNCHANGED <<bank, now, bought>> /\ pay[p].status # "none"
        BY <1>5, <2>1 DEF ReportMismatch, QuoteInv
      <3>2. doc.order = pay[p].order /\ doc.status = "paid"
        BY <1>0 DEF PayTyped, PaymentDocs
      <3>3. Begins(r, "refund", "mismatch", p)
        BY <1>5, <2>1, StartBegins DEF ReportMismatch, TypeInv
      <3> HIDE DEF doc
      <3>4. \A q \in Payments : /\ pay'[q].order = pay[q].order
                                /\ pay'[q].status = "none" <=> pay[q].status = "none"
        BY <1>0, <3>1, <3>2, StoreIs
      <3> QED BY <1>3, <3>1, <3>3, <3>4
    <2>2. CASE ~Refundable(pay[p])
      <3>1. \A q \in Payments : bank'[q].held = bank[q].held
        BY <1>0, <1>5, <2>2 DEF ReportMismatch, Tell, BankTyped, Accounts
      <3> QED BY <1>0, <1>5, <2>2, <3>1, QuoteStays DEF ReportMismatch, Applies, Serving
    <2> QED BY <2>1, <2>2
  <1>6. ASSUME NEW r \in Requests, Sweep(r)
        PROVE  QuoteInv'
    <2>1. Begins(r, "expire", "sweep", NoPay)
      BY <1>6, StartBegins DEF Sweep, TypeInv
    <2> QED BY <1>3, <1>6, <2>1 DEF Sweep
  <1>7. ASSUME NEW r \in Requests, CancelScheduledChange(r)
        PROVE  QuoteInv'
    <2>1. \E pc : Begins(r, pc, "cancel", org.sched.pay)
      BY <1>7, StartBegins DEF CancelScheduledChange, TypeInv
    <2> QED BY <1>3, <1>7, <2>1 DEF CancelScheduledChange
  <1>8. CASE ScheduleFreeDowngrade \/ Tick \/ UNCHANGED vars
    BY <1>0, <1>8, QuoteStays DEF ScheduleFreeDowngrade, Tick, vars, Applies, Serving
  <1> QED BY <1>1, <1>2, <1>4, <1>5, <1>6, <1>7, <1>8, QuoteCreateOrder, QuoteRequest
          DEF Next, Report, RequestStep

LEMMA QuoteInit ==
  ASSUME Init
  PROVE  QuoteInv
  BY InitIs DEF QuoteInv, Applies

(* Only a request under way buys.                                          *)
LEMMA BuysByRequest ==
  ASSUME TypeInv, [Next]_vars, bought' # bought
  PROVE  \E r \in Requests, p \in Payments :
           RequestStep(r) /\ (Activates(r, p) \/ Purchases(r, p))
  <1>1. \E r \in Requests : RequestStep(r)
    BY DEF Next, vars, CreateOrder, Capture, ClaimAges, Report, ReportPaid, ReportMismatch,
           Sweep, CancelScheduledChange, ScheduleFreeDowngrade, Tick, RequestStep
  <1> QED BY <1>1, WhoBuys, SMTT(60)

(* No purchase shortens what runs, and no money that went back buys a      *)
(* plan: in any term, with every order quoted, as long as requests end and *)
(* Razorpay pays what it is asked to.                                      *)
THEOREM TermsKeptCorrect ==
  ASSUME Orderly, Quoted
  PROVE  Spec => TermsKept
<1> DEFINE Inv == TypeInv /\ OnceInv /\ MoneyInv /\ QuoteInv
           Held == \A p \in Payments : bought'[p] # bought[p] => bank[p].returned = {}
           Grows == \A p \in Payments :
                      bought'[p] # bought[p] /\ Running(org.sub) =>
                        /\ org'.sub.until >= org.sub.until
                        /\ org'.sub.plan = org.sub.plan => org'.sub.until > org.sub.until
<1>1. Init => Inv
  BY TypeInit, OnceInit, MoneyInit, QuoteInit
<1>2. Inv /\ [Next]_vars => Inv'
  BY TypeStep, OnceStep, MoneyStep, QuoteStep, OrderlyCalm
<1>3. ASSUME Inv, [Next]_vars
      PROVE  Held /\ Grows
  <2>1. CASE bought' = bought
    BY <2>1
  <2>2. CASE bought' # bought
    <3> PICK r \in Requests, p \in Payments :
               RequestStep(r) /\ (Activates(r, p) \/ Purchases(r, p))
      BY <1>3, <2>2, BuysByRequest
    <3>1. \A q \in Payments : bought'[q] # bought[q] => q = p
      BY <1>3, BuyCounts DEF Activates, Purchases
    <3>2. CASE Activates(r, p)
      <4>1. Good(pay[p]) /\ ~Clean(p) /\ ~Running(org.sub)
        BY <3>2 DEF Activates, ActivateScheduledPaidPlan, Clean, Unused
      <4>2. bank[p].returned = {}
        BY <1>3, <4>1 DEF MoneyInv, MoneyPay, Good
      <4> QED BY <3>1, <4>1, <4>2
    <3>3. CASE Purchases(r, p)
      <4>1. Applying(r) /\ ~Marking(r) /\ req[r].pc = "apply" /\ req[r].p = p
        BY <1>3, <3>3, AppliesAt DEF Purchases, ChangePlan, At, Marking
      <4>2. Clean(p) /\ "stale" \notin bank[p].returned
        BY <1>3, <4>1 DEF MoneyInv, MoneyReq
      <4>3. bank[p].returned = {}
        BY <1>3, <4>2 DEF MoneyInv, MoneyPay, Clean
      <4>4. pay[p].order.signed /\ Lengthens(pay[p].order)
        BY <1>3, <4>1, <4>2 DEF QuoteInv, Clean, Unused, Applying
      <4>5. /\ org'.sub.plan = pay[p].order.plan /\ org'.sub.until = pay[p].order.until
            /\ org.sub \in Expected(pay[p], req[r].seen)
        <5>1. Buy(p) /\ bought' # bought
          BY <2>2, <3>3 DEF Purchases
        <5> QED BY <3>3, <4>1, <5>1 DEF Purchases, ChangePlan, Doc
      <4>6. CASE Running(org.sub)
        <5>1. org.sub = pay[p].order.seen
          BY <4>4, <4>5, <4>6 DEF Expected, HonouredLate, Running
        <5> QED BY <3>1, <4>3, <4>4, <4>5, <4>6, <5>1 DEF Lengthens
      <4> QED BY <3>1, <4>3, <4>6
    <3> QED BY <3>2, <3>3
  <2> QED BY <2>1, <2>2
<1> HIDE DEF Inv
<1>4. Spec => [][Held]_vars
  BY <1>1, <1>2, <1>3, PTL DEF Spec
<1>5. Spec => [][Grows]_vars
  BY <1>1, <1>2, <1>3, PTL DEF Spec
<1> QED BY <1>4, <1>5 DEF TermsKept, BoughtWhileHeld, PaidTermGrows

-----------------------------------------------------------------------------
(* Within a term: what counts as applied has its effect still, or was      *)
(* refunded.                                                               *)
InEffect(p) == pay[p].refund = "refunded" \/ bought[p] > 0 \/ org.sched.pay = p
Done(p) == pay[p].applied \/ \E r \in Requests : Marking(r) /\ req[r].p = p
Safe(p) == bank[p].returned = {} /\ \A r \in Requests : Cancels(r) => req[r].p # p

LEMMA KeptIs == KeptInv <=> \A p \in Payments :
                              (Done(p) => InEffect(p)) /\ (bought[p] > 0 => Safe(p))
  BY DEF KeptInv, InEffect, Done, Safe

LEMMA KeptStays ==
  ASSUME KeptInv,
         \A p \in Payments :
           /\ Done(p)' => Done(p) \/ InEffect(p)'
           /\ InEffect(p) => InEffect(p)'
           /\ bought'[p] > 0 => bought[p] > 0 \/ Safe(p)'
           /\ bought[p] > 0 => (Safe(p) => Safe(p)')
  PROVE  KeptInv'
  <1>1. \A p \in Payments : (Done(p) => InEffect(p)) /\ (bought[p] > 0 => Safe(p))
    BY KeptIs
  <1>2. \A p \in Payments : (Done(p)' => InEffect(p)') /\ (bought'[p] > 0 => Safe(p)')
    BY <1>1
  <1> QED BY <1>2 DEF KeptInv, InEffect, Done, Safe

(* What is done is done by the request that marks it, or refunds it.       *)
LEMMA DoneByRequest ==
  ASSUME Orderly, TypeInv, MoneyInv, NEW r \in Requests, RequestStep(r),
         NEW p \in Payments, Done(p)', ~Done(p)
  PROVE  InEffect(p)'
  <1>0. ReqTyped /\ PayTyped
    BY DEF TypeInv
  <1>1. CASE pay'[p].applied
    <2>1. ASSUME NEW q \in Payments, NEW doc, Store(q, doc), doc.applied = pay[q].applied
          PROVE  FALSE
      BY <1>0, <1>1, <2>1, StoreIs DEF Done
    <2>2. pay' # pay
      BY <1>1 DEF Done
    <2>3. ASSUME At(r, "claim") \/ At(r, "mark") \/ At(r, "release") \/ At(r, "record")
                 \/ At(r, "unclaim") \/ At(r, "cancel")
          PROVE  req[r].p \in Payments /\ Doc(r) \in PaymentDocs /\ Doc(r) = pay[req[r].p]
      BY <1>0, <2>3, DocTyped DEF Doc, At
    <2>4. CASE ClaimApply(r) \/ ReleaseClaim(r) \/ GiveUpRefund(r) \/ RecordCancelRefund(r)
               \/ ClaimCancelRefund(r)
      <3> DEFINE Docs == {Doc(r), [Doc(r) EXCEPT !.applying = "claimed"],
                          [Doc(r) EXCEPT !.applying = "no"], [Doc(r) EXCEPT !.refund = "none"],
                          [Doc(r) EXCEPT !.refund = "refunded"],
                          [Doc(r) EXCEPT !.refund = "processing"]}
      <3>1. \E doc \in Docs : Store(req[r].p, doc)
        BY <2>2, <2>4 DEF ClaimApply, ReleaseClaim, GiveUpRefund, RecordCancelRefund,
                          ClaimCancelRefund
      <3>2. req[r].p \in Payments /\ Doc(r) \in PaymentDocs /\ Doc(r) = pay[req[r].p]
        BY <2>3, <2>4 DEF ClaimApply, ReleaseClaim, GiveUpRefund, RecordCancelRefund,
                          ClaimCancelRefund
      <3>3. \A doc \in Docs : doc.applied = pay[req[r].p].applied
        BY <3>2 DEF PaymentDocs
      <3> HIDE DEF Docs
      <3> QED BY <2>1, <3>1, <3>2, <3>3
    <2>5. CASE ActivateScheduledPaidPlan(r)
      <3> DEFINE doc == [pay[org.sched.pay] EXCEPT !.order.until = now + 1]
      <3>1. org.sched.pay \in Payments /\ Store(org.sched.pay, doc)
        BY <2>5 DEF ActivateScheduledPaidPlan, TypeInv, OrgTyped
      <3>2. doc.applied = pay[org.sched.pay].applied
        BY <3>1 DEF TypeInv, PayTyped, PaymentDocs
      <3> HIDE DEF doc
      <3> QED BY <2>1, <3>1, <3>2
    <2>6. CASE MarkApplied(r)
      <3>1. req[r].p \in Payments /\ Store(req[r].p, [Doc(r) EXCEPT !.applied = TRUE])
        BY <2>3, <2>6 DEF MarkApplied
      <3>2. p = req[r].p
        BY <1>0, <1>1, <3>1, StoreIs DEF Done
      <3>3. Marking(r)
        BY <2>6, AppliesAt DEF MarkApplied, At, Marking
      <3> QED BY <3>2, <3>3 DEF Done
    <2>7. CASE RecordStaleRefund(r)
      <3> DEFINE doc == [Doc(r) EXCEPT !.applying = "no", !.applied = TRUE,
                                       !.refund = "refunded"]
      <3>1. req[r].p \in Payments /\ Store(req[r].p, doc) /\ Doc(r) \in PaymentDocs
        BY <2>3, <2>7 DEF RecordStaleRefund
      <3>2. doc.refund = "refunded"
        BY <3>1 DEF PaymentDocs
      <3> HIDE DEF doc
      <3>3. p = req[r].p /\ pay'[p].refund = "refunded"
        BY <1>0, <1>1, <3>1, <3>2, StoreIs DEF Done
      <3> QED BY <3>3 DEF InEffect
    <2>8. ~RecordMismatchRefund(r)
      <3>1. req[r].pc = "record" => Serving(r)
        BY <1>0, BusyIs
      <3> QED BY <3>1 DEF RecordMismatchRefund, At, Receipt, MoneyInv, MoneyReq
    <2>9. ~RefundFails(r) /\ ~Crash(r)
      <3>1. ~RefundFails(r)
        BY DEF Orderly, RefundFails
      <3> QED BY <3>1 DEF Orderly, Crash
    <2> QED BY <2>2, <2>4, <2>5, <2>6, <2>7, <2>8, <2>9
            DEF RequestStep, Proceed, FindEnded, ExpirePlan, ReadBilling, RejectQuote,
                SchedulePaidPlan, ChangePlan, Refund, ClearSchedule, FailToApply, Restart
  <1>2. CASE \E s \in Requests : Marking(s)' /\ req'[s].p = p
    <2>1. PICK s \in Requests : Marking(s)' /\ req'[s].p = p
      BY <1>2
    <2>2. ~(Marking(s) /\ req[s].p = p)
      BY DEF Done
    <2>3. s = r /\ Moves(r, "mark") /\ (SchedulePaidPlan(r) \/ ChangePlan(r))
      <3>1. s = r
        BY <2>1, <2>2, RequestGoes
           DEF Ends, Moves, Others, Marking, Applying, Applies, Serving
      <3>2. PICK pc : Moves(r, pc) /\ Leads(r, pc)
        BY <2>1, <3>1, RequestGoes DEF Ends, Marking, Applying, Applies
      <3>3. pc = "mark"
        BY <2>1, <3>1, <3>2 DEF Moves, Marking
      <3> QED BY <3>1, <3>2, <3>3 DEF Leads
    <2>4. req[r].p = p
      BY <2>1, <2>3 DEF Moves
    <2>5. Continue(r, "mark")
      <3>1. ~Continue(r, "refund")
        BY <2>3, GotoMoves DEF Continue, Moves, SchedulePaidPlan, ChangePlan, At, TypeInv
      <3> QED BY <2>3, <3>1 DEF SchedulePaidPlan, ChangePlan
    <2>6. ~Continue(r, "refund")
      BY <2>3, GotoMoves DEF Continue, Moves, SchedulePaidPlan, ChangePlan, At, TypeInv
    <2>7. CASE SchedulePaidPlan(r)
      <3>1. org'.sched.pay = p
        BY <2>4, <2>6, <2>7 DEF SchedulePaidPlan, TypeInv, OrgTyped, OrgDocs
      <3> QED BY <3>1 DEF InEffect
    <2>8. CASE ChangePlan(r)
      <3>1. Buy(p)
        BY <2>4, <2>6, <2>8 DEF ChangePlan
      <3> QED BY <3>1, BuyCounts DEF InEffect
    <2> QED BY <2>3, <2>7, <2>8
  <1> QED BY <1>1, <1>2 DEF Done

LEMMA KeptRequest ==
  ASSUME Orderly, OneTerm, TypeInv, OnceInv, MoneyInv, TermInv, KeptInv,
         NEW r \in Requests, RequestStep(r)
  PROVE  KeptInv'
  <1>0. ReqTyped /\ PayTyped /\ org \in OrgDocs
    BY DEF TypeInv, OrgTyped
  <1>1. ~ActivateScheduledPaidPlan(r) /\ (ExpirePlan(r) => org' = org)
    BY TermNoEnd
  <1>2. req[r].pc # "unclaim"
    <2>1. req[r].pc = "unclaim" => Serving(r)
      BY <1>0, BusyIs
    <2> QED BY <2>1 DEF MoneyInv, MoneyReq
  <1>3. \A p \in Payments : pay[p].refund = "refunded" => pay'[p].refund = "refunded"
    BY <1>2, SettledStays
  <1>4. \A p \in Payments : bought[p] > 0 => bought'[p] > 0
    BY WhoBuys, BuyCounts DEF Purchases, Activates
  <1>5. \A p \in Payments : org.sched.pay = p => InEffect(p)'
    <2> SUFFICES ASSUME NEW p \in Payments, org.sched.pay = p, org'.sched # org.sched
                 PROVE  InEffect(p)'
      BY DEF InEffect
    <2>1. org.sched # NoSched
      BY PaymentsAssumption DEF NoSched
    <2>2. ClearSchedule(r)
      <3>1. CASE SchedulePaidPlan(r) \/ ChangePlan(r)
        BY <2>1, <3>1 DEF SchedulePaidPlan, ChangePlan
      <3>2. CASE RefundFails(r)
        BY <3>2 DEF RefundFails
      <3>3. CASE ~SchedulePaidPlan(r) /\ ~ChangePlan(r) /\ ~RefundFails(r)
        BY <1>1, <3>3 DEF RequestStep, Proceed, ClaimApply, FindEnded, ReadBilling, RejectQuote,
           MarkApplied, ReleaseClaim, Refund, GiveUpRefund, RecordStaleRefund,
           RecordMismatchRefund, RecordCancelRefund, ClaimCancelRefund, FailToApply, Crash,
           Restart
      <3> QED BY <3>1, <3>2, <3>3
    <2>3. req[r].pc = "clear" /\ org.sched = req[r].seen.sched /\ pay' = pay
      BY <2>2 DEF ClearSchedule, At
    <2>4. Serving(r) /\ FlowOK(req[r]) /\ req[r] \in Works
      BY <1>0, <2>3, BusyIs
    <2>5. Cancels(r) /\ req[r].p = p
      BY <2>3, <2>4 DEF FlowOK, Works, Cancels
    <2> QED BY <2>3, <2>5 DEF MoneyInv, MoneyReq, InEffect
  <1>6. \A s \in Requests : Cancels(s)' => Cancels(s) /\ req'[s].p = req[s].p
    BY RequestGoes DEF Ends, Moves, Others, Cancels, Serving
  <1>7. \A p \in Payments : bought[p] > 0 => (Safe(p) => Safe(p)')
    <2> SUFFICES ASSUME NEW p \in Payments, bought[p] > 0, Safe(p)
                 PROVE  bank'[p].returned = {}
      BY <1>6 DEF Safe
    <2>1. ~RefundFails(r)
      BY DEF Orderly, RefundFails
    <2>2. CASE Refund(r)
      <3>1. Serving(r) /\ FlowOK(req[r]) /\ req[r] \in Works /\ req[r].pc = "refund"
        BY <1>0, <2>2, BusyIs DEF Refund, At
      <3>2. req[r].p # p
        <4>1. Applying(r) \/ Cancels(r)
          BY <3>1 DEF FlowOK, Works, Applying, Applies, Cancels, MoneyInv, MoneyReq
        <4>2. Applying(r) => Clean(req[r].p)
          BY <3>1 DEF MoneyInv, MoneyReq, Marking
        <4> QED BY <4>1, <4>2 DEF Clean, Unused, Safe
      <3> QED BY <2>2, <3>2 DEF Refund, TypeInv, BankTyped, Safe
    <2>3. CASE ~Refund(r)
      BY <2>1, <2>3, ReturnedStays DEF Safe
    <2> QED BY <2>2, <2>3
  <1>8. \A p \in Payments : bought'[p] > 0 => bought[p] > 0 \/ Safe(p)'
    <2> SUFFICES ASSUME NEW p \in Payments, bought'[p] > 0, ~(bought[p] > 0)
                 PROVE  Safe(p)'
      OBVIOUS
    <2>1. Purchases(r, p)
      BY <1>1, WhoBuys, BuyCounts DEF Purchases, Activates
    <2>2. Applying(r) /\ ~Marking(r) /\ req[r].pc = "apply" /\ req[r].p = p
      BY <2>1, AppliesAt DEF Purchases, ChangePlan, At, Marking
    <2>3. Clean(p) /\ "stale" \notin bank[p].returned
      BY <2>2 DEF MoneyInv, MoneyReq
    <2>4. bank[p].returned = {}
      BY <2>3 DEF MoneyInv, MoneyPay, Clean
    <2>5. bank'[p].returned = bank[p].returned
      BY <2>2, ReturnedStays DEF Refund, RefundFails, At
    <2> QED BY <1>6, <2>3, <2>4, <2>5 DEF Clean, Safe
  <1>9. \A p \in Payments : InEffect(p) => InEffect(p)'
    BY <1>3, <1>4, <1>5 DEF InEffect
  <1> QED BY <1>7, <1>8, <1>9, DoneByRequest, KeptStays

LEMMA KeptOther ==
  ASSUME KeptInv, bought' = bought, org'.sched.pay = org.sched.pay,
         \A p \in Payments :
           /\ pay'[p].applied = pay[p].applied
           /\ pay[p].refund = "refunded" => pay'[p].refund = "refunded"
           /\ bank'[p].returned = bank[p].returned,
         \A s \in Requests :
           /\ Marking(s)' => Marking(s) /\ req'[s].p = req[s].p
           /\ Cancels(s)' => \/ Cancels(s) /\ req'[s].p = req[s].p
                             \/ req'[s].p \in Payments => bought[req'[s].p] = 0
  PROVE  KeptInv'
  <1>1. \A p \in Payments : (Done(p)' => Done(p)) /\ (InEffect(p) => InEffect(p)')
    BY DEF Done, InEffect
  <1>2. \A p \in Payments : bought[p] > 0 => (Safe(p) => Safe(p)')
    <2> SUFFICES ASSUME NEW p \in Payments, bought[p] > 0, Safe(p)
                 PROVE  Safe(p)'
      OBVIOUS
    <2> QED BY DEF Safe
  <1> QED BY <1>1, <1>2, KeptStays

LEMMA KeptStep ==
  ASSUME Orderly, OneTerm, TypeInv, OnceInv, MoneyInv, TermInv, KeptInv, [Next]_vars
  PROVE  KeptInv'
  <1>0. PayTyped /\ BankTyped /\ org \in OrgDocs
    BY DEF TypeInv, OrgTyped
  <1>1. ASSUME NEW p \in Payments, NEW offer \in Offers, CreateOrder(p, offer)
        PROVE  KeptInv'
    <2> DEFINE order == [plan |-> offer.plan, signed |-> offer.signed, seen |-> org.sub,
                         until |-> QuotedUntil(offer.plan, org.sub)]
               doc == [pay[p] EXCEPT !.status = "created", !.order = order]
    <2>1. Store(p, doc) /\ UNCHANGED <<org, bank, req, now, bought>>
      BY <1>1 DEF CreateOrder
    <2> HIDE DEF order
    <2>2. doc.refund = pay[p].refund /\ doc.applied = pay[p].applied
      BY <1>0 DEF PayTyped, PaymentDocs
    <2> HIDE DEF doc
    <2>3. \A q \in Payments : pay'[q].refund = pay[q].refund /\ pay'[q].applied = pay[q].applied
      BY <1>0, <2>1, <2>2, StoreIs
    <2> QED BY <2>1, <2>3, KeptOther DEF Marking, Applying, Applies, Cancels, Serving
  <1>2. ASSUME NEW p \in Payments, NEW amount \in Amounts, Capture(p, amount)
        PROVE  KeptInv'
    <2>1. \A q \in Payments : bank'[q].returned = bank[q].returned
      BY <1>0, <1>2 DEF Capture, BankTyped, Accounts
    <2> QED BY <1>2, <2>1, KeptOther
            DEF Capture, Marking, Applying, Applies, Cancels, Serving
  <1>3. ASSUME NEW p \in Payments, ClaimAges(p)
        PROVE  KeptInv'
    <2> DEFINE doc == [pay[p] EXCEPT
                         !.applying = IF @ = "claimed" THEN "overdue" ELSE @,
                         !.refund = IF @ = "processing" THEN "overdue" ELSE @]
    <2>1. Store(p, doc) /\ UNCHANGED <<org, bank, req, now, bought>>
      BY <1>3 DEF ClaimAges
    <2>2. (pay[p].refund = "refunded" => doc.refund = "refunded")
          /\ doc.applied = pay[p].applied
      BY <1>0 DEF PayTyped, PaymentDocs
    <2> HIDE DEF doc
    <2>3. \A q \in Payments :
            /\ pay[q].refund = "refunded" => pay'[q].refund = "refunded"
            /\ pay'[q].applied = pay[q].applied
      BY <1>0, <2>1, <2>2, StoreIs
    <2> QED BY <2>1, <2>3, KeptOther DEF Marking, Applying, Applies, Cancels, Serving
  <1>4. ASSUME NEW r \in Requests, NEW pc, NEW job, NEW p, Begins(r, pc, job, p), pc # "mark",
               job = "cancel" => p = org.sched.pay, UNCHANGED <<org, bank, bought>>,
               \A q \in Payments : /\ pay'[q].refund = pay[q].refund
                                   /\ pay'[q].applied = pay[q].applied
        PROVE  KeptInv'
    <2>1. \A s \in Requests :
            /\ Marking(s)' => Marking(s) /\ req'[s].p = req[s].p
            /\ Cancels(s)' => \/ Cancels(s) /\ req'[s].p = req[s].p
                              \/ req'[s].p \in Payments => bought[req'[s].p] = 0
      <3>1. \A q \in Payments : org.sched.pay = q => bought[q] = 0
        BY DEF OnceInv, Once
      <3> QED BY <1>4, <3>1 DEF Begins, Others, Marking, Applying, Applies, Cancels, Serving
    <2> QED BY <1>4, <2>1, KeptOther
  <1>5. ASSUME NEW r \in Requests, NEW p \in Payments, Report(r, p)
        PROVE  KeptInv'
    <2>1. ~ReportMismatch(r, p)
      BY DEF ReportMismatch, MoneyInv, MoneyPay
    <2>2. PICK job \in {"browser", "webhook"} : ReportPaid(r, p, job)
      BY <1>5, <2>1 DEF Report
    <2> DEFINE doc == IF pay[p].status = "created"
                      THEN [pay[p] EXCEPT !.status = "paid", !.paidAt = now]
                      ELSE pay[p]
    <2>3. doc.refund = pay[p].refund /\ doc.applied = pay[p].applied
      BY <1>0 DEF PayTyped, PaymentDocs
    <2>4. Store(p, doc) /\ UNCHANGED <<org, bank, bought>>
      BY <2>2 DEF ReportPaid
    <2>5. Begins(r, "claim", job, p)
      BY <2>2, StartBegins DEF ReportPaid, TypeInv
    <2> HIDE DEF doc
    <2>6. \A q \in Payments : pay'[q].refund = pay[q].refund /\ pay'[q].applied = pay[q].applied
      BY <1>0, <2>3, <2>4, StoreIs
    <2> QED BY <1>4, <2>4, <2>5, <2>6
  <1>6. ASSUME NEW r \in Requests, Sweep(r)
        PROVE  KeptInv'
    <2>1. Begins(r, "expire", "sweep", NoPay)
      BY <1>6, StartBegins DEF Sweep, TypeInv
    <2> QED BY <1>4, <1>6, <2>1 DEF Sweep
  <1>7. ASSUME NEW r \in Requests, CancelScheduledChange(r)
        PROVE  KeptInv'
    <2>1. \E pc : pc # "mark" /\ Begins(r, pc, "cancel", org.sched.pay)
      BY <1>7, StartBegins DEF CancelScheduledChange, TypeInv
    <2> QED BY <1>4, <1>7, <2>1 DEF CancelScheduledChange
  <1>8. CASE ScheduleFreeDowngrade
    <2>1. org'.sched.pay = org.sched.pay
      BY <1>0, <1>8 DEF ScheduleFreeDowngrade, OrgDocs, Schedules
    <2> QED BY <1>8, <2>1, KeptOther
            DEF ScheduleFreeDowngrade, Marking, Applying, Applies, Cancels, Serving
  <1>9. CASE Tick \/ UNCHANGED vars
    BY <1>9, KeptOther DEF Tick, vars, Marking, Applying, Applies, Cancels, Serving
  <1> QED BY <1>1, <1>2, <1>3, <1>5, <1>6, <1>7, <1>8, <1>9, KeptRequest
          DEF Next, RequestStep

LEMMA KeptInit ==
  ASSUME Init
  PROVE  KeptInv
  BY InitIs DEF KeptInv, Marking, Applying, Applies

(* Money is accounted for within a term, as long as requests end and       *)
(* Razorpay pays what it is asked to: it is given back once at most, and   *)
(* what counts as applied is refunded, or bought, or scheduled.            *)
THEOREM MoneyAccountedForCorrect ==
  ASSUME Orderly, OneTerm, Ranked, Quoted
  PROVE  Spec => []MoneyAccountedFor
<1> DEFINE Inv == TypeInv /\ OnceInv /\ MoneyInv /\ TermInv /\ KeptInv
<1>1. Init => Inv
  BY TypeInit, OnceInit, MoneyInit, TermInit, KeptInit
<1>2. Inv /\ [Next]_vars => Inv'
  BY TypeStep, OnceStep, MoneyStep, TermStep, KeptStep, OrderlyCalm
<1>3. Inv => MoneyAccountedFor
  BY MoneyReturnedOnce DEF MoneyAccountedFor, PrepaidKept, KeptInv
<1> HIDE DEF Inv
<1> QED BY <1>1, <1>2, <1>3, PTL DEF Spec

-----------------------------------------------------------------------------
(* The payment flow implements Purchase. What is applied was paid for.     *)
PaidFor == \A p \in Payments : pay[p].applied => pay[p].status = "paid"

LEMMA PaidStep ==
  ASSUME Orderly, OneTerm, TypeInv, MoneyInv, TermInv, PaidFor, [Next]_vars
  PROVE  PaidFor'
  <1>0. PayTyped /\ ReqTyped
    BY DEF TypeInv
  <1>1. ASSUME NEW p \in Payments, NEW doc, Store(p, doc),
               doc.applied => doc.status = "paid"
        PROVE  PaidFor'
    BY <1>0, <1>1, StoreIs DEF PaidFor
  <1>2. CASE pay' = pay
    BY <1>2 DEF PaidFor
  <1>3. ASSUME NEW p \in Payments, NEW offer \in Offers, CreateOrder(p, offer)
        PROVE  PaidFor'
    <2> DEFINE order == [plan |-> offer.plan, signed |-> offer.signed, seen |-> org.sub,
                         until |-> QuotedUntil(offer.plan, org.sub)]
               doc == [pay[p] EXCEPT !.status = "created", !.order = order]
    <2>1. Store(p, doc) /\ pay[p].status = "none"
      BY <1>3 DEF CreateOrder
    <2> HIDE DEF order
    <2>2. ~doc.applied
      BY <1>0, <2>1 DEF PayTyped, PaymentDocs, PaidFor
    <2> HIDE DEF doc
    <2> QED BY <1>1, <2>1, <2>2
  <1>4. ASSUME NEW p \in Payments, ClaimAges(p)
        PROVE  PaidFor'
    <2> DEFINE doc == [pay[p] EXCEPT
                         !.applying = IF @ = "claimed" THEN "overdue" ELSE @,
                         !.refund = IF @ = "processing" THEN "overdue" ELSE @]
    <2>1. Store(p, doc)
      BY <1>4 DEF ClaimAges
    <2>2. doc.applied => doc.status = "paid"
      BY <1>0 DEF PayTyped, PaymentDocs, PaidFor
    <2> HIDE DEF doc
    <2> QED BY <1>1, <2>1, <2>2
  <1>5. ASSUME NEW r \in Requests, NEW p \in Payments, Report(r, p)
        PROVE  PaidFor'
    <2>1. ~ReportMismatch(r, p)
      BY DEF ReportMismatch, MoneyInv, MoneyPay
    <2> DEFINE doc == IF pay[p].status = "created"
                      THEN [pay[p] EXCEPT !.status = "paid", !.paidAt = now]
                      ELSE pay[p]
    <2>2. Store(p, doc)
      BY <1>5, <2>1 DEF Report, ReportPaid
    <2>3. doc.applied => doc.status = "paid"
      BY <1>0 DEF PayTyped, PaymentDocs, PaidFor
    <2> HIDE DEF doc
    <2> QED BY <1>1, <2>2, <2>3
  <1>6. ASSUME NEW r \in Requests, RequestStep(r)
        PROVE  PaidFor'
    <2>1. \A p \in Payments : pay'[p].status = pay[p].status
      BY <1>6, RequestDocs, TermNoEnd
    <2>2. CASE MarkApplied(r) \/ RecordStaleRefund(r)
      <3> DEFINE Docs == {[Doc(r) EXCEPT !.applied = TRUE],
                          [Doc(r) EXCEPT !.applying = "no", !.applied = TRUE,
                                         !.refund = "refunded"]}
      <3>1. req[r].pc \in {"mark", "record"}
        BY <2>2 DEF MarkApplied, RecordStaleRefund, At
      <3>2. req[r].p \in Payments /\ Doc(r) \in PaymentDocs /\ FlowOK(req[r])
            /\ req[r] \in Works /\ Serving(r)
        BY <1>0, <3>1, DocTyped
      <3>3. Applies(r)
        <4>1. req[r].pc = "mark" \/ Receipt(r) = "stale"
          BY <2>2 DEF MarkApplied, RecordStaleRefund, At
        <4>2. req[r].job \in {"browser", "webhook", "mismatch", "cancel", "sweep"}
          BY <3>2 DEF Works
        <4> QED BY <3>2, <4>1, <4>2 DEF Receipt, FlowOK, Applies
      <3>4. Doc(r).status = "paid"
        BY <3>3 DEF TermInv, TermReq, Doc
      <3>5. \E doc \in Docs : Store(req[r].p, doc)
        BY <2>2 DEF MarkApplied, RecordStaleRefund
      <3>6. \A doc \in Docs : doc.status = "paid"
        BY <3>2, <3>4 DEF PaymentDocs
      <3> HIDE DEF Docs
      <3> QED BY <1>1, <3>2, <3>5, <3>6
    <2>3. CASE ClaimApply(r) \/ ReleaseClaim(r) \/ GiveUpRefund(r) \/ RecordCancelRefund(r)
               \/ ClaimCancelRefund(r)
      <3> DEFINE Docs == {Doc(r), [Doc(r) EXCEPT !.applying = "claimed"],
                          [Doc(r) EXCEPT !.applying = "no"], [Doc(r) EXCEPT !.refund = "none"],
                          [Doc(r) EXCEPT !.refund = "refunded"],
                          [Doc(r) EXCEPT !.refund = "processing"]}
      <3>1. req[r].pc \in {"claim", "release", "unclaim", "record", "cancel"}
        BY <2>3 DEF ClaimApply, ReleaseClaim, GiveUpRefund, RecordCancelRefund,
                    ClaimCancelRefund, At
      <3>2. req[r].p \in Payments /\ Doc(r) \in PaymentDocs /\ Doc(r) = pay[req[r].p]
        BY <1>0, <3>1, DocTyped DEF Doc
      <3>3. pay' = pay \/ \E doc \in Docs : Store(req[r].p, doc)
        BY <2>3 DEF ClaimApply, ReleaseClaim, GiveUpRefund, RecordCancelRefund,
                    ClaimCancelRefund
      <3>4. \A doc \in Docs : doc.applied => doc.status = "paid"
        BY <3>2 DEF PaymentDocs, PaidFor
      <3> HIDE DEF Docs
      <3> QED BY <1>1, <1>2, <3>2, <3>3, <3>4
    <2>4. ~RecordMismatchRefund(r)
      <3>1. req[r].pc = "record" => Serving(r)
        BY <1>0, BusyIs
      <3> QED BY <3>1 DEF RecordMismatchRefund, At, Receipt, MoneyInv, MoneyReq
    <2>5. ~RefundFails(r)
      BY DEF Orderly, RefundFails
    <2>6. ~ActivateScheduledPaidPlan(r)
      BY TermNoEnd
    <2> QED BY <1>2, <1>6, <2>2, <2>3, <2>4, <2>5, <2>6
            DEF RequestStep, Proceed, FindEnded, ExpirePlan, ReadBilling, RejectQuote,
                SchedulePaidPlan, ChangePlan, Refund, ClearSchedule, FailToApply, Crash, Restart
  <1>7. CASE \E p \in Payments, amount \in Amounts : Capture(p, amount)
    BY <1>2, <1>7 DEF Capture
  <1>8. CASE ScheduleFreeDowngrade \/ Tick \/ UNCHANGED vars
    BY <1>2, <1>8 DEF ScheduleFreeDowngrade, Tick, vars
  <1>9. CASE \E r \in Requests : Sweep(r) \/ CancelScheduledChange(r)
    BY <1>2, <1>9 DEF Sweep, CancelScheduledChange
  <1> QED BY <1>3, <1>4, <1>5, <1>6, <1>7, <1>8, <1>9 DEF Next, RequestStep

LEMMA DealSame ==
  ASSUME \A p \in Payments :
           /\ bought'[p] > 0 <=> bought[p] > 0
           /\ bank'[p].returned = {} <=> bank[p].returned = {}
           /\ pay'[p].status = "paid" <=> pay[p].status = "paid"
  PROVE  Deal' = Deal
  BY DEF Deal

LEMMA DealBecomes ==
  ASSUME NEW p \in Payments, NEW to,
         \A q \in Payments : q # p =>
           /\ bought'[q] > 0 <=> bought[q] > 0
           /\ bank'[q].returned = {} <=> bank[q].returned = {}
           /\ pay'[q].status = "paid" <=> pay[q].status = "paid",
         Deal'[p] = to
  PROVE  Deal' = [Deal EXCEPT ![p] = to]
  <1>1. \A q \in Payments : q # p => Deal'[q] = Deal[q]
    BY DEF Deal
  <1>2. Deal = [q \in Payments |-> Deal[q]] /\ Deal' = [q \in Payments |-> Deal'[q]]
    BY DEF Deal
  <1> HIDE DEF Deal
  <1> QED BY <1>1, <1>2

LEMMA DealIs ==
  ASSUME NEW p \in Payments
  PROVE  Deal[p] = IF bought[p] > 0 /\ bank[p].returned # {} THEN "both"
                   ELSE IF bank[p].returned # {} THEN "returned"
                   ELSE IF bought[p] > 0 THEN "used"
                   ELSE IF pay[p].status = "paid" THEN "held" ELSE "open"
  BY DEF Deal

LEMMA PromiseRequest ==
  ASSUME Orderly, OneTerm, TypeInv, OnceInv, MoneyInv, TermInv, KeptInv, PaidFor,
         NEW r \in Requests, RequestStep(r)
  PROVE  Promise!Next \/ Deal' = Deal
  <1>0. ReqTyped /\ PayTyped /\ BankTyped /\ bought \in [Payments -> 0..2]
    BY DEF TypeInv, CountsTyped
  <1>1. ~ActivateScheduledPaidPlan(r)
    BY TermNoEnd
  <1>2. \A p \in Payments : pay'[p].status = pay[p].status
    BY <1>1, RequestDocs
  <1>3. ~RefundFails(r)
    BY DEF Orderly, RefundFails
  <1>4. CASE bought' # bought
    <2>1. PICK p \in Payments : Purchases(r, p)
      BY <1>1, <1>4, WhoBuys DEF Activates
    <2>2. Applying(r) /\ ~Marking(r) /\ req[r].pc = "apply" /\ req[r].p = p
      BY <2>1, AppliesAt DEF Purchases, ChangePlan, At, Marking
    <2>3. Clean(p) /\ "stale" \notin bank[p].returned /\ pay[p].status = "paid"
      BY <2>2 DEF MoneyInv, MoneyReq, TermInv, TermReq, Applying
    <2>4. bank[p].returned = {} /\ bought[p] = 0
      BY <2>3 DEF MoneyInv, MoneyPay, Clean, Unused
    <2>5. \A q \in Payments : bank'[q].returned = bank[q].returned
      BY <1>3, <2>2, ReturnedStays DEF Refund, At
    <2>6. bought'[p] > 0 /\ \A q \in Payments : q # p => bought'[q] = bought[q]
      BY <2>1, BuyCounts DEF Purchases
    <2>7. Deal[p] = "held"
      BY <2>3, <2>4, DealIs
    <2>8. Deal'[p] = "used"
      BY <2>4, <2>5, <2>6 DEF Deal
    <2>9. Deal' = [Deal EXCEPT ![p] = "used"]
      BY <1>2, <2>5, <2>6, <2>8, DealBecomes
    <2> QED BY <2>7, <2>9 DEF Promise!Next, Promise!Use, Promise!Becomes
  <1>5. CASE bought' = bought /\ Refund(r)
    <2>1. Serving(r) /\ FlowOK(req[r]) /\ req[r] \in Works /\ req[r].pc = "refund"
          /\ req[r].p \in Payments
      BY <1>0, <1>5, DocTyped DEF Refund, At
    <2> PICK p \in Payments : p = req[r].p
      BY <2>1
    <2>2. Applying(r) \/ Cancels(r)
      BY <2>1 DEF FlowOK, Works, Applying, Applies, Cancels, MoneyInv, MoneyReq
    <2>3. bought[p] = 0
      <3>1. Applying(r) => Clean(p)
        BY <2>1 DEF MoneyInv, MoneyReq, Marking
      <3> QED BY <1>0, <2>2, <3>1 DEF Clean, Unused, KeptInv
    <2>4. pay[p].status = "paid"
      <3>1. CASE Applying(r)
        BY <3>1 DEF TermInv, TermReq, Applying
      <3>2. CASE Cancels(r)
        <4>1. ~Clean(p)
          BY <3>2 DEF Clean
        <4>2. pay[p].applied \/ \E s \in Requests : Marking(s) /\ req[s].p = p
          BY <4>1 DEF MoneyInv, MoneyPay
        <4> QED BY <4>2 DEF PaidFor, TermInv, TermReq, Marking, Applying
      <3> QED BY <2>2, <3>1, <3>2
    <2>5. bank'[p].returned # {} /\ \A q \in Payments : q # p => bank'[q] = bank[q]
      BY <1>0, <1>5 DEF Refund, BankTyped, Accounts
    <2>6. CASE bank[p].returned # {}
      BY <1>2, <1>5, <2>5, <2>6, DealSame
    <2>7. CASE bank[p].returned = {}
      <3>1. Deal[p] = "held"
        BY <2>3, <2>4, <2>7, DealIs
      <3>2. Deal'[p] = "returned"
        BY <1>5, <2>3, <2>5 DEF Deal
      <3>3. Deal' = [Deal EXCEPT ![p] = "returned"]
        BY <1>2, <1>5, <2>5, <3>2, DealBecomes, ZenonT(60)
      <3> QED BY <3>1, <3>3 DEF Promise!Next, Promise!Return, Promise!Becomes
    <2> QED BY <2>6, <2>7
  <1>6. CASE bought' = bought /\ ~Refund(r)
    BY <1>2, <1>3, <1>6, ReturnedStays, DealSame
  <1> QED BY <1>4, <1>5, <1>6

LEMMA PromiseStep ==
  ASSUME Orderly, OneTerm, TypeInv, OnceInv, MoneyInv, TermInv, KeptInv, PaidFor,
         [Next]_vars
  PROVE  Promise!Next \/ Deal' = Deal
  <1>0. PayTyped /\ BankTyped /\ bought \in [Payments -> 0..2]
    BY DEF TypeInv, CountsTyped
  <1>1. ASSUME NEW p \in Payments, NEW offer \in Offers, CreateOrder(p, offer)
        PROVE  Deal' = Deal
    <2> DEFINE order == [plan |-> offer.plan, signed |-> offer.signed, seen |-> org.sub,
                         until |-> QuotedUntil(offer.plan, org.sub)]
               doc == [pay[p] EXCEPT !.status = "created", !.order = order]
    <2>1. Store(p, doc) /\ UNCHANGED <<bank, bought>> /\ pay[p].status = "none"
      BY <1>1 DEF CreateOrder
    <2> HIDE DEF order
    <2>2. doc.status = "created"
      BY <1>0 DEF PayTyped, PaymentDocs
    <2> HIDE DEF doc
    <2>3. \A q \in Payments : pay'[q].status = "paid" <=> pay[q].status = "paid"
      BY <1>0, <2>1, <2>2, StoreIs
    <2> QED BY <2>1, <2>3, DealSame
  <1>2. ASSUME NEW p \in Payments, NEW amount \in Amounts, Capture(p, amount)
        PROVE  Deal' = Deal
    <2>1. \A q \in Payments : bank'[q].returned = bank[q].returned
      BY <1>0, <1>2 DEF Capture, BankTyped, Accounts
    <2> QED BY <1>2, <2>1, DealSame DEF Capture
  <1>3. ASSUME NEW p \in Payments, ClaimAges(p)
        PROVE  Deal' = Deal
    <2> DEFINE doc == [pay[p] EXCEPT
                         !.applying = IF @ = "claimed" THEN "overdue" ELSE @,
                         !.refund = IF @ = "processing" THEN "overdue" ELSE @]
    <2>1. Store(p, doc) /\ UNCHANGED <<bank, bought>>
      BY <1>3 DEF ClaimAges
    <2>2. doc.status = pay[p].status
      BY <1>0 DEF PayTyped, PaymentDocs
    <2> HIDE DEF doc
    <2>3. \A q \in Payments : pay'[q].status = pay[q].status
      BY <1>0, <2>1, <2>2, StoreIs
    <2> QED BY <2>1, <2>3, DealSame
  <1>4. ASSUME NEW r \in Requests, NEW p \in Payments, Report(r, p)
        PROVE  Promise!Next \/ Deal' = Deal
    <2>1. ~ReportMismatch(r, p)
      BY DEF ReportMismatch, MoneyInv, MoneyPay
    <2>2. PICK job \in {"browser", "webhook"} : ReportPaid(r, p, job)
      BY <1>4, <2>1 DEF Report
    <2>3. CASE pay[p].status # "created"
      <3>1. Store(p, pay[p]) /\ UNCHANGED <<bank, bought>>
        BY <2>2, <2>3 DEF ReportPaid
      <3>2. \A q \in Payments : pay'[q] = pay[q]
        BY <1>0, <3>1, StoreIs
      <3> QED BY <3>1, <3>2, DealSame
    <2>4. CASE pay[p].status = "created"
      <3> DEFINE doc == [pay[p] EXCEPT !.status = "paid", !.paidAt = now]
      <3>1. Store(p, doc) /\ UNCHANGED <<bank, bought>>
        BY <2>2, <2>4 DEF ReportPaid
      <3>2. doc.status = "paid"
        BY <1>0 DEF PayTyped, PaymentDocs
      <3> HIDE DEF doc
      <3>3. pay'[p].status = "paid" /\ \A q \in Payments : q # p => pay'[q] = pay[q]
        BY <1>0, <3>1, <3>2, StoreIs
      <3>4. ~Done(p)
        BY <2>4 DEF Done, PaidFor, TermInv, TermReq, Marking, Applying
      <3>5. Clean(p) /\ "stale" \notin bank[p].returned
        <4>1. Clean(p)
          BY <3>4 DEF Done, MoneyInv, MoneyPay
        <4>2. ~pay[p].applied
          BY <3>4 DEF Done
        <4>3. \A s \in Requests : Applying(s) => req[s].p # p
          BY <2>4 DEF TermInv, TermReq, Applying
        <4> QED BY <4>1, <4>2, <4>3 DEF MoneyInv, MoneyPay
      <3>6. bank[p].returned = {} /\ bought[p] = 0
        BY <3>5 DEF MoneyInv, MoneyPay, Clean, Unused
      <3>7. Deal[p] = "open"
        BY <2>4, <3>6, DealIs
      <3>8. Deal'[p] = "held"
        BY <3>1, <3>3, <3>6 DEF Deal
      <3>9. Deal' = [Deal EXCEPT ![p] = "held"]
        BY <3>1, <3>3, <3>8, DealBecomes
      <3> QED BY <3>7, <3>9 DEF Promise!Next, Promise!Hold, Promise!Becomes
    <2> QED BY <2>3, <2>4
  <1>5. CASE \/ \E r \in Requests : Sweep(r) \/ CancelScheduledChange(r)
             \/ ScheduleFreeDowngrade \/ Tick \/ UNCHANGED vars
    BY <1>5, DealSame DEF Sweep, CancelScheduledChange, ScheduleFreeDowngrade, Tick, vars
  <1> QED BY <1>1, <1>2, <1>3, <1>4, <1>5, PromiseRequest DEF Next, RequestStep

(* The payment flow implements Purchase, within a term, as long as         *)
(* requests end and Razorpay pays what it is asked to: whatever is ordered *)
(* and reported, held money buys a plan or goes back, never both, and      *)
(* neither is undone.                                                      *)
THEOREM PromiseKeptCorrect ==
  ASSUME Orderly, OneTerm, Ranked, Quoted
  PROVE  Spec => PromiseKept
<1> DEFINE Inv == TypeInv /\ OnceInv /\ MoneyInv /\ TermInv /\ KeptInv /\ PaidFor
<1>1. Init => Inv
  BY TypeInit, OnceInit, MoneyInit, TermInit, KeptInit, InitIs DEF PaidFor
<1>2. Init => Promise!Init
  BY InitIs DEF Promise!Init, Deal
<1>3. Inv /\ [Next]_vars => Inv'
  BY TypeStep, OnceStep, MoneyStep, TermStep, KeptStep, PaidStep, OrderlyCalm
<1>4. Inv /\ [Next]_vars => [Promise!Next]_Deal
  BY PromiseStep
<1> HIDE DEF Inv
<1> QED BY <1>1, <1>2, <1>3, <1>4, PTL DEF Spec, PromiseKept, Promise!Spec

=============================================================================
