CONSTANTS
  s1 = s1
  s2 = s2
  w1 = w1
  w2 = w2
  j1 = j1
  t1 = t1
  t2 = t2
  t3 = t3
  c1 = c1
  c2 = c2
  Servers = {s1, s2}
  Jobs = {j1}
  Runs = {t1, t2, t3}
  Claim = 3
  Period = 4
  MaxLate = 1
  Workers = {w1, w2}
  MaxWork = 2
  FreeWork = 1
  MaxShelved = 2
  GraceFaults = {"crash", "stall", "fail"}
  Calls = {c1, c2}
  MaxChecks = 2
  p1 = p1
  p2 = p2
  r1 = r1
  r2 = r2
  free = free
  pro = pro
  premium = premium
  NoPay = none
  Free = free
  Plans = {free, pro, premium}
  Rank <- Rank3
  Requests = {r1, r2}
  Payments = {p1}
  StartPlans = {free, premium}
  Offers <- SignedBoth
  Amounts = {"right"}
  Ops = {"browser", "scheduleFree"}
  Faults = {"crash"}
  MaxTime = 1
SPECIFICATION SweepsSpec
INVARIANTS SweepsTypeOK OneRunPerClaim NeverBlockedForLong GraceInOrder CallsInOrder
PROPERTIES EventuallyWithinFree CallsServed CapturedSettles
CHECK_DEADLOCK FALSE
