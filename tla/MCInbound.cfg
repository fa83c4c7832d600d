SPECIFICATION FairSpec
CONSTANTS
  u1 = u1
  t1 = t1
  Nobody = Nobody
  Request = {r1, r2}
  Delivery = {d1}
  Genuine = {d1}
  Update = {u1}
  Batch <- OneUpdate
  Worker = {w1, w2}
  Thread = {t1}
  Envelopes <- OneThread
  MaxBotTurns = 2
  MaxCopies = 3
  MaxFaults = 2
  MaxKills = 2
  MaxErrors = 0
PROPERTIES
  ImplementsEventLog
  DeliveredIsHandled
CHECK_DEADLOCK FALSE
