CONSTANTS
  u1 = u1
  u2 = u2
  u3 = u3
  r1 = r1
  r2 = r2
  s1 = s1
  s2 = s2
  People = {u1, u2, u3}
  Chats = {g1}
  GroupRequests = {r1, r2}
  MaxGroup = 3
  Invitees = {u1, u2, u3}
  Slots = {s1, s2}
  MeetingRequests = {r1, r2}
  MeetingMixes <- MixesOfMeetings
SPECIFICATION PeopleSpec
SYMMETRY Symmetry
INVARIANTS PeopleTypeOK GroupsInOrder MeetingsInOrder
PROPERTIES AnswerStays
CHECK_DEADLOCK FALSE
