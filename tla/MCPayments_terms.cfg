CONSTANTS
  p1 = p1
  p2 = p2
  r1 = r1
  r2 = r2
  free = free
  pro = pro
  premium = premium
  NoPay = none
  Free = free
  Plans = {free, pro, premium}
  Rank <- Rank3
  Requests = {r1, r2}
  Payments = {p1, p2}
  StartPlans = {pro, premium}
  Offers <- SignedBoth
  Amounts = {"right"}
  Ops = {"browser", "cancel", "sweep"}
  Faults = {}
  MaxTime = 2
SPECIFICATION TermsSpec
SYMMETRY Requests2
PROPERTIES TermsKept
CHECK_DEADLOCK FALSE
