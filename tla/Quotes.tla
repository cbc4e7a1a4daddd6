------------------------------- MODULE Quotes -------------------------------
(***************************************************************************)
(* What a plan costs and how long it lasts (constants/plans.ts): prepaid   *)
(* terms that are renewed, upgraded for the difference, moved to the other *)
(* billing cycle with credit for what is unused, or followed by a lower    *)
(* plan bought in advance.                                                 *)
(*                                                                         *)
(* One administrator at a time: what two do at once is in Payments. Time   *)
(* is counted in days, money in rupees; the code counts milliseconds and   *)
(* paise, with the same rounding of halves upwards.                        *)
(***************************************************************************)
EXTENDS Integers, Sequences

CONSTANTS
  MonthStart,  \* the calendar: the day on which each month begins, from 0 on
  Price,       \* PLAN_PRICE_PAISE of the paid plans, by plan and cycle
  FirstDays,   \* days on which the story may begin
  Steps,       \* bound: how many days may pass at once
  LastDay,     \* bound on the day
  MaxOrders    \* bound on the orders

ASSUME QuotesAssumption ==
  /\ 0 \in DOMAIN MonthStart /\ MonthStart[0] = 0
  /\ \A m \in DOMAIN MonthStart :
       /\ m \in Nat /\ MonthStart[m] \in Nat
       /\ m + 1 \in DOMAIN MonthStart => MonthStart[m + 1] - MonthStart[m] \in 28..31
       /\ m + 13 \in DOMAIN MonthStart =>
            LET year == MonthStart[m + 12] - MonthStart[m]
                days == MonthStart[m + 1] - MonthStart[m]
                later == MonthStart[m + 13] - MonthStart[m + 12]
            IN  \/ year \in {365, 366} /\ days <= later
                \/ year = 366 /\ days = later + 1
  /\ DOMAIN Price = {"pro", "premium"}
  /\ \A p \in DOMAIN Price : Price[p] \in [{"monthly", "yearly"} -> Nat \ {0}]
  /\ \A c \in {"monthly", "yearly"} : Price["pro"][c] <= Price["premium"][c]
  /\ FirstDays \subseteq 0..LastDay /\ Steps \subseteq Nat \ {0}
  /\ LastDay \in Nat /\ MaxOrders \in Nat

VARIABLES
  today,    \* the day
  sub,      \* the subscription of the workspace
  follows,   \* the plan scheduled after it
  order,    \* the order that was made last, with its signed quote
  owed,     \* captured and not given back, less the value of the time gone
            \* by (history)
  orders    \* number of orders (history, bounded)

quoteVars == <<today, sub, follows, order, owed, orders>>

BillingCycles == {"monthly", "yearly"}
Ranks == [free |-> 0, pro |-> 1, premium |-> 2]

Untracked == -1
FreePlan(from) ==
  [plan |-> "free", cycle |-> "none", expires |-> 0, start |-> 0, value |-> 0, from |-> from]
Term(p, c, start, end, value) ==
  [plan |-> p, cycle |-> c, expires |-> end, start |-> start, value |-> value, from |-> "none"]
NoChange == [plan |-> "none"]
NoneOrdered == [plan |-> "none"]

-----------------------------------------------------------------------------
(* The calendar.                                                           *)
MonthDays(m) == MonthStart[m + 1] - MonthStart[m]
MonthOf(d) ==
  CHOOSE m \in DOMAIN MonthStart :
    /\ m + 1 \in DOMAIN MonthStart
    /\ MonthStart[m] <= d /\ d < MonthStart[m + 1]

Smaller(a, b) == IF a < b THEN a ELSE b
Larger(a, b) == IF a > b THEN a ELSE b
Months(c) == IF c = "yearly" THEN 12 ELSE 1

(* Same day of a later month, or its last day.                             *)
AddBillingPeriod(d, c) ==
  LET m == MonthOf(d)
      day == d - MonthStart[m]
      to == m + Months(c)
  IN  MonthStart[to] + Smaller(day, MonthDays(to) - 1)

(* Math.round of a quotient.                                               *)
Rounded(x, y) == (2 * x + y) \div (2 * y)

-----------------------------------------------------------------------------
(* quotePlan.                                                              *)
Unexpired(s, d) == s.plan # "free" /\ s.expires > d

(* The estimate for plans that were bought before credit was tracked.      *)
RemainingCredit(s, d) ==
  IF ~Unexpired(s, d) THEN 0
  ELSE IF s.start # Untracked
       THEN Rounded(s.value * (s.expires - d), s.expires - s.start)
       ELSE Rounded(Price[s.plan][s.cycle] * (s.expires - d),
                    AddBillingPeriod(d, s.cycle) - d)

(* How far a credit reaches: whole periods one after the other, and the    *)
(* last one in part.                                                       *)
CreditCoverage(credit, full, c, d) ==
  LET whole == credit \div full
      rest == credit % full
      end[n \in 0..whole] == IF n = 0 THEN d ELSE AddBillingPeriod(end[n - 1], c)
      last == end[whole]
  IN  last + Rounded((AddBillingPeriod(last, c) - last) * rest, full)

Quote(amount, end, start, value, scheduled) ==
  [amount |-> amount, expires |-> end, start |-> start, value |-> value,
   scheduled |-> scheduled]

(* A lower plan is bought in advance and starts when the current one ends. *)
PrepaidQuote(s, p, c) ==
  Quote(Price[p][c], AddBillingPeriod(s.expires, c), s.expires, Price[p][c], TRUE)

(* Mutant of RenewalQuote: what is left of the old term is not carried on. *)
RenewalQuote_NoCredit(s, p, c, d) ==
  LET from == IF Unexpired(s, d) THEN s.expires ELSE d
  IN  Quote(Price[p][c], AddBillingPeriod(from, c), d, Price[p][c], FALSE)

(* A period is added to the current end, or starts today.                  *)
RenewalQuote(s, p, c, d) ==
  LET from == IF Unexpired(s, d) THEN s.expires ELSE d
  IN  Quote(Price[p][c], AddBillingPeriod(from, c), d,
            RemainingCredit(s, d) + Price[p][c], FALSE)

(* Moving up within the cycle costs the difference and keeps the end.      *)
UpgradeQuote(s, p, c, d) ==
  LET credit == RemainingCredit(s, d)
      amount == Larger(0, Rounded(Price[p][c] * credit, Price[s.plan][c]) - credit)
  IN  Quote(amount, s.expires, d, credit + amount, FALSE)

(* Mutant of CycleQuote: credit beyond the price is paid out.              *)
CycleQuote_PaysOut(s, p, c, d) ==
  LET credit == RemainingCredit(s, d)
      amount == Price[p][c] - credit
  IN  Quote(amount, CreditCoverage(credit + amount, Price[p][c], c, d), d,
            credit + amount, FALSE)

(* Another cycle starts today, and the credit pays for it as far as it     *)
(* reaches.                                                                *)
CycleQuote(s, p, c, d) ==
  LET credit == RemainingCredit(s, d)
      amount == Larger(0, Price[p][c] - credit)
  IN  Quote(amount, CreditCoverage(credit + amount, Price[p][c], c, d), d,
            credit + amount, FALSE)

QuotePlan(s, p, c, d) ==
  IF ~Unexpired(s, d) THEN RenewalQuote(s, p, c, d)
  ELSE IF Ranks[p] < Ranks[s.plan] THEN PrepaidQuote(s, p, c)
  ELSE IF s.cycle # c THEN CycleQuote(s, p, c, d)
  ELSE IF p # s.plan THEN UpgradeQuote(s, p, c, d)
  ELSE RenewalQuote(s, p, c, d)

-----------------------------------------------------------------------------
Due == sub.plan # "free" /\ sub.expires <= today

(* changePlan: the rest of the old term becomes part of the new one, from  *)
(* the day of the quote on. The history takes the estimate of an untracked *)
(* rest as paid for.                                                       *)
Replace(new, day) ==
  /\ sub' = new
  /\ owed' = owed - sub.value + RemainingCredit(sub, day)

(* createOrder, with the quote that was shown. Requests of the workspace   *)
(* expire an ended plan first. A quote of nothing is applied at once.      *)
OrderPlan(p, c) ==
  LET quote == QuotePlan(sub, p, c, today)
  IN  /\ orders < MaxOrders
      /\ order = NoneOrdered
      /\ ~Due
      /\ follows = NoChange
      /\ Ranks[p] >= Ranks[sub.plan] \/ Unexpired(sub, today)
      /\ orders' = orders + 1
      /\ IF quote.amount = 0
         THEN /\ Replace(Term(p, c, quote.start, quote.expires, quote.value), today)
              /\ UNCHANGED order
         ELSE /\ order' = [plan |-> p, cycle |-> c, quote |-> quote, sub |-> sub,
                           day |-> today, paid |-> -1]
              /\ UNCHANGED <<sub, owed>>
      /\ UNCHANGED <<today, follows>>

(* Razorpay captures the money; paidAt is the day.                         *)
PayOrder ==
  /\ order # NoneOrdered
  /\ order.paid = -1
  /\ order' = [order EXCEPT !.paid = today]
  /\ owed' = owed + order.quote.amount
  /\ UNCHANGED <<today, sub, follows, orders>>

AbandonOrder ==
  /\ order # NoneOrdered
  /\ order.paid = -1
  /\ order' = NoneOrdered
  /\ UNCHANGED <<today, sub, follows, owed, orders>>

Captured == order # NoneOrdered /\ order.paid # -1

(* Paid before the old plan ended, reported after it became Free.          *)
Late ==
  /\ sub.plan = "free"
  /\ sub.from = order.sub.plan
  /\ order.quote.scheduled
  /\ order.paid <= order.quote.start
  /\ order.quote.expires > today

IsLower == Ranks[order.plan] < Ranks[sub.plan]

(* changePlan compares the subscription with the quote.                    *)
SubAsQuoted == sub = order.sub

(* applyPayment: the three things it may do with the money, or give it     *)
(* back.                                                                   *)
ApplyLate ==
  /\ Captured /\ ~Due /\ Late /\ follows = NoChange
  /\ sub' = Term(order.plan, order.cycle, order.quote.start, order.quote.expires,
                 order.quote.amount)
  /\ order' = NoneOrdered
  /\ UNCHANGED <<today, follows, owed, orders>>

SchedulePrepaid ==
  /\ Captured /\ ~Due /\ ~Late /\ IsLower
  /\ SubAsQuoted
  /\ sub.expires > order.paid
  /\ follows = NoChange
  /\ follows' = [plan |-> order.plan, cycle |-> order.cycle, starts |-> sub.expires,
                amount |-> order.quote.amount]
  /\ order' = NoneOrdered
  /\ UNCHANGED <<today, sub, owed, orders>>

ApplyPaid ==
  /\ Captured /\ ~Due /\ ~Late /\ ~IsLower
  /\ SubAsQuoted
  /\ follows = NoChange
  /\ Replace(Term(order.plan, order.cycle, order.quote.start, order.quote.expires,
                  order.quote.value), order.day)
  /\ order' = NoneOrdered
  /\ UNCHANGED <<today, follows, orders>>

RefundStale ==
  /\ Captured /\ ~Due
  /\ IF Late THEN follows # NoChange ELSE ~SubAsQuoted \/ follows # NoChange
  /\ owed' = owed - order.quote.amount
  /\ order' = NoneOrdered
  /\ UNCHANGED <<today, sub, follows, orders>>

-----------------------------------------------------------------------------
(* scheduleFreeDowngrade.                                                  *)
ScheduleFree ==
  /\ ~Due /\ sub.plan # "free"
  /\ follows = NoChange
  /\ follows' = [plan |-> "free", cycle |-> "none", starts |-> sub.expires, amount |-> 0]
  /\ UNCHANGED <<today, sub, order, owed, orders>>

(* cancelScheduledChange refunds what was paid in advance.                 *)
CancelPrepaid ==
  /\ ~Due
  /\ follows # NoChange
  /\ follows.starts > today
  /\ follows' = NoChange
  /\ owed' = owed - follows.amount
  /\ UNCHANGED <<today, sub, order, orders>>

(* activateScheduledPaidPlan, when the usage fits the plan: one period     *)
(* from the day it starts on, however late that is.                        *)
Activate ==
  /\ follows # NoChange /\ follows.plan # "free"
  /\ follows.starts <= today
  /\ sub.plan = "free" \/ Due
  /\ sub' = Term(follows.plan, follows.cycle, today,
                 AddBillingPeriod(today, follows.cycle), follows.amount)
  /\ owed' = owed - sub.value
  /\ follows' = NoChange
  /\ UNCHANGED <<today, order, orders>>

(* expirePlanIfDue: a prepaid plan that cannot start yet stays scheduled.  *)
PlanEnds ==
  /\ Due
  /\ sub' = FreePlan(sub.plan)
  /\ owed' = owed - sub.value
  /\ follows' = IF follows # NoChange /\ follows.plan # "free" THEN follows ELSE NoChange
  /\ UNCHANGED <<today, order, orders>>

PassDays ==
  \E n \in Steps :
    /\ today + n <= LastDay
    /\ today' = today + n
    /\ UNCHANGED <<sub, follows, order, owed, orders>>

-----------------------------------------------------------------------------
(* A new workspace, or one with a plan from before credit was tracked.     *)
QuotesInit ==
  /\ today \in FirstDays
  /\ sub \in {FreePlan("none"), Term("pro", "monthly", Untracked, today + 20, 0)}
  /\ follows = NoChange
  /\ order = NoneOrdered
  /\ owed = 0
  /\ orders = 0

QuotesNext ==
  \/ \E p \in DOMAIN Price, c \in BillingCycles : OrderPlan(p, c)
  \/ PayOrder \/ AbandonOrder
  \/ ApplyLate \/ SchedulePrepaid \/ ApplyPaid \/ RefundStale
  \/ ScheduleFree \/ CancelPrepaid
  \/ Activate \/ PlanEnds
  \/ PassDays

QuotesSpec == QuotesInit /\ [][QuotesNext]_quoteVars

-----------------------------------------------------------------------------
(* Subscription, order and schedule have their types.                      *)
QuotesTypeOK ==
  /\ today \in 0..LastDay
  /\ sub.plan \in DOMAIN Ranks
  /\ sub.plan # "free" => sub.cycle \in BillingCycles /\ sub.start < sub.expires
  /\ order # NoneOrdered => order.quote.amount > 0 /\ order.quote.expires > order.day
  /\ follows # NoChange /\ sub.plan # "free" => follows.starts = sub.expires

(* The current term, the one bought in advance and an order in the making. *)
Ahead ==
  sub.value + (IF follows = NoChange THEN 0 ELSE follows.amount)
            + (IF Captured THEN order.quote.amount ELSE 0)

(* Credit neither appears nor is lost: what the workspace paid and did not *)
(* get back is the value of the time gone by and of what is ahead.         *)
CreditKept == owed = Ahead

(* The shortest and the longest a period can be.                           *)
ShortestPeriod(c) == IF c = "yearly" THEN 365 ELSE 28
LongestPeriod(c) == IF c = "yearly" THEN 366 ELSE 31

(* Rounding: an order is off by less than a day, and than a rupee of the   *)
(* cheapest plan, which an upgrade values at the price of the new one.     *)
Slack(p, c) == (orders + 1) * Price[p][c] * (Price["pro"][c] + LongestPeriod(c))

(* However a term was come by, a day of it is worth what a day of the plan *)
(* costs in the price list: no sequence of renewals, upgrades and changes  *)
(* of cycle makes time cheaper or dearer.                                  *)
AtListPrice ==
  sub.plan # "free" /\ sub.start # Untracked =>
    LET cost == Price[sub.plan][sub.cycle] * (sub.expires - sub.start)
        least == Price["pro"][sub.cycle]
    IN  /\ least * (sub.value * ShortestPeriod(sub.cycle) - cost) <= Slack(sub.plan, sub.cycle)
        /\ least * (cost - sub.value * LongestPeriod(sub.cycle)) <= Slack(sub.plan, sub.cycle)

QuotesInOrder == CreditKept /\ AtListPrice

=============================================================================
