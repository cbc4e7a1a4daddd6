CONSTANTS
  p1 = p1
  p2 = p2
  r1 = r1
  r2 = r2
  a1 = a1
  free = free
  pro = pro
  premium = premium
  NoPay = none
  Free = free
  Plans = {free, pro, premium}
  Rank <- Rank3
  Requests = {r1, r2}
  Payments = {p1, p2}
  StartPlans = {pro, premium}
  Offers <- SignedBoth
  Amounts = {"right"}
  Ops = {"browser", "cancel", "scheduleFree"}
  Faults = {}
  MaxTime = 0
  MonthStart <- FourYears
  Price <- ListPrices
  FirstDays = {0, 30}
  Steps = {10, 31}
  LastDay = 72
  MaxOrders = 3
  Rounds = {r1, r2}
  MaxCycle = 1
  Subjects = {"task", "project"}
  Changes <- MixesOfChanges
  Admins = {a1}
  Notifiers = {r1, r2}
  MaxTerm = 1
SPECIFICATION PlansSpec
SYMMETRY Symmetry
INVARIANTS PlansTypeOK MoneyAccountedFor QuotesInOrder RemindersInOrder NoticesInOrder
PROPERTIES PromiseKept
CHECK_DEADLOCK FALSE
