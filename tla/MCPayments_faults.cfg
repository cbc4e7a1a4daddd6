CONSTANTS
  p1 = p1
  p2 = p2
  r1 = r1
  r2 = r2
  free = free
  pro = pro
  premium = premium
  NoPay = none
  Free = free
  Plans = {free, pro, premium}
  Rank <- Rank3
  Requests = {r1, r2}
  Payments = {p1, p2}
  StartPlans = {pro}
  Offers <- SignedPro
  Amounts = {"right", "wrong"}
  Ops = {"scheduleFree"}
  Faults = {"crash", "stall", "refundFails", "error"}
  MaxTime = 0
SPECIFICATION Spec
SYMMETRY Symmetry
INVARIANTS BuysAsPaid
CHECK_DEADLOCK FALSE
