CONSTANTS
  v1 = v1
  v2 = v2
  r1 = r1
  r2 = r2
  s1 = s1
  s2 = s2
  s3 = s3
  Members = {v1, v2}
  MaxMessages = 2
  Files = {f1}
  MessageRequests = {r1, r2}
  MessageMixes <- MixesOfMessages
  Speakers = {s1, s2, s3}
  DiscussionRequests = {r1, r2}
  Scenes <- ScenesAndNone
SPECIFICATION TalkSpec
SYMMETRY Symmetry
INVARIANTS TalkTypeOK MessagesInOrder DiscussionsInOrder
CHECK_DEADLOCK FALSE
