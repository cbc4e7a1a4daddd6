CONSTANTS
  p1 = p1
  p2 = p2
  t1 = t1
  t2 = t2
  t3 = t3
  r1 = r1
  r2 = r2
  free = free
  pro = pro
  Org = org
  Free = free
  Plans = {free, pro}
  Requests = {r1, r2}
  Projects = {p1, p2}
  Tasks = {t1, t2, t3}
  ProjectOf <- TwoAndOne
  ProjectLimit <- Limits1and2
  TaskLimit <- Limits1and2
  Ops = {"createProject", "createTask", "completeTask", "editTask", "reopenTask", "moveTaskToBin", "changePlan", "expirePlan", "archiveExcess", "keepPlanArchived"}
SPECIFICATION Spec
SYMMETRY Requests2
INVARIANTS SlotsExact
PROPERTIES EnforcedWithinFree NoTaskOverPlan
CHECK_DEADLOCK FALSE
