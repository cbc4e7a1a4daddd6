CONSTANTS
  o1 = o1
  u1 = u1
  u2 = u2
  e1 = e1
  e2 = e2
  i1 = i1
  i2 = i2
  r1 = r1
  r2 = r2
  NoEmail = none
  Requests = {r1, r2}
  Orgs = {o1}
  Users = {u1, u2}
  Emails = {e1, e2}
  Newcomers = {e2}
  Movers = {e2}
  Invites = {i1, i2}
  OrgOf <- AllForOne
  SentTo <- SameAddress
  Roles = {"admin", "member"}
  FreeSeats = 1
  PaidSeats = {2}
  Ops = {"invite", "reconcile", "listInvites", "revokeInvite", "answerInvite", "changeRole", "removeMember", "createOrg", "changePlan", "expirePlan", "signup", "verify", "changeEmail", "deleteAccount", "age"}
SPECIFICATION FirstSpec
SYMMETRY Symmetry
INVARIANTS TypeOK CountersExact OrgsInOrder
PROPERTIES SeatsHandedOn
CHECK_DEADLOCK FALSE
