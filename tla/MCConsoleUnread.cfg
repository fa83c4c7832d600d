SPECIFICATION Spec
CONSTANTS
  Conversation = {1, 2}
  Slot = {q1, q2}
  Token = {t1, t2}
  PageSize = 1
  MaxTime = 2
  MaxDelay = 1
  MaxRequests = 3
  NoToken = NoToken
CHECK_DEADLOCK FALSE
INVARIANTS
  UnreadMissesNothing
