------------------------------ MODULE MCPlans ------------------------------
(* The plan of a workspace for TLC, looked at from three sides one after   *)
(* the other: its payments and the requests beside them, what it costs,    *)
(* and the notices of its end; and, of the same make, the reminders of     *)
(* what else is due.                                                       *)
EXTENDS MCPayments, Quotes, Reminders, PlanNotices

CONSTANT a1

(* Four years from a January on: the third one leaps.                      *)
Year(february) == <<31, february, 31, 30, 31, 30, 31, 31, 30, 31, 30, 31>>
MonthLengths == Year(28) \o Year(28) \o Year(29) \o Year(28)
FourYears[m \in 0..48] == IF m = 0 THEN 0 ELSE FourYears[m - 1] + MonthLengths[m]

(* PLAN_PRICE_PAISE in rupees.                                             *)
ListPrices ==
  [pro |-> [monthly |-> 449, yearly |-> 4499],
   premium |-> [monthly |-> 1149, yearly |-> 11499]]

MixesOfChanges == {{}, {"date"}, {"done"}, {"archive"}, {"assign"}, {"role"}}

(* Of the roles, the one with most reminders is looked at with new dates;  *)
(* a member may become anything.                                           *)
StartRole ==
  CASE "date" \in change -> "manager" [] "done" \in change -> "admin" [] OTHER -> "member"

(* What is looked at.                                                      *)
VARIABLE side

Sides == {"payments", "prices", "notices", "reminders"}

PlansInit ==
  /\ side \in Sides
  /\ Init
  /\ QuotesInit
  /\ RemindersInit
  /\ NoticesInit
  /\ side # "payments" => org.sub.plan = pro
  /\ side # "prices" => sub = FreePlan("none") /\ today = 0
  /\ change = {} <=> side # "reminders"
  /\ change = {} => subject = "task"
  /\ subject = "task" => person.role = StartRole

PlansNext ==
  /\ \/ side = "payments" /\ Next /\ UNCHANGED <<quoteVars, reminderVars, noticeVars>>
     \/ side = "prices" /\ QuotesNext /\ UNCHANGED <<vars, reminderVars, noticeVars>>
     \/ side = "notices" /\ NoticesNext /\ UNCHANGED <<vars, quoteVars, reminderVars>>
     \/ side = "reminders" /\ RemindersNext /\ UNCHANGED <<vars, quoteVars, noticeVars>>
  /\ UNCHANGED side

PlansSpec ==
  PlansInit /\ [][PlansNext]_<<vars, quoteVars, reminderVars, noticeVars, side>>

(* Documents have their types.                                             *)
PlansTypeOK == TypeOK /\ QuotesTypeOK /\ RemindersTypeOK /\ NoticesTypeOK

=============================================================================
