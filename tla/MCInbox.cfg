SPECIFICATION InboxSpec
CONSTANTS
  e1 = e1
  e2 = e2
  t1 = t1
  Nobody = Nobody
  Worker = {w1, w2}
  Event = {e1, e2}
  Thread = {t1}
  Agent = {a1, a2}
  Call = {k1, k2}
  Envelopes <- SharedThread
  MaxBotTurns = 2
  MaxCopies = 2
  MaxKills = 1
  MaxErrors = 1
  MaxCalls = 3
SYMMETRY Symmetry
INVARIANTS
  BotNeverTalksOverHuman
  BotRunBelowLimit
PROPERTIES
  UnansweredIsHandedOver
  OnlyOverlapMisassigns
CHECK_DEADLOCK FALSE
