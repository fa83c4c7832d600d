SPECIFICATION InboxFairSpec
CONSTANTS
  e1 = e1
  e2 = e2
  t1 = t1
  Nobody = Nobody
  Worker = {w1, w2}
  Event = {e1, e2}
  Thread = {t1}
  Agent = {a1, a2}
  Call = {k1}
  Envelopes <- SharedThread
  MaxBotTurns = 2
  MaxCopies = 1
  MaxKills = 0
  MaxErrors = 0
  MaxCalls = 4
PROPERTIES
  EveryEventCloses
CHECK_DEADLOCK FALSE
