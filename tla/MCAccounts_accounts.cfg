CONSTANTS
  b1 = b1
  b2 = b2
  r1 = r1
  r2 = r2
  a1 = a1
  a2 = a2
  Browsers = {b1, b2}
  MaxTokens = 3
  SessionRequests = {r1, r2}
  MaxEndings = 1
  SessionMixes <- MixesOfSessions
  Addresses = {a1, a2}
  LinkRequests = {r1, r2}
  MaxLinks = 3
  LinkMixes <- MixesOfLinks
SPECIFICATION AccountsSpec
SYMMETRY Symmetry
INVARIANTS AccountsTypeOK FamiliesInOrder LinksInOrder
PROPERTIES EndedStaysEnded AddressConfirmed
CHECK_DEADLOCK FALSE
