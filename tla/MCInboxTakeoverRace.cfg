SPECIFICATION InboxSpec
CONSTANTS
  e1 = e1
  e2 = e2
  t1 = t1
  Nobody = Nobody
  Worker = {w1}
  Event = {e1}
  Thread = {t1}
  Agent = {a1, a2}
  Call = {k1, k2}
  Envelopes <- SharedThread
  MaxBotTurns = 2
  MaxCopies = 1
  MaxKills = 0
  MaxErrors = 0
  MaxCalls = 2
PROPERTIES
  NeverStolen
CHECK_DEADLOCK FALSE
