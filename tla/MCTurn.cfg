SPECIFICATION TurnSpec
CONSTANTS
  c1 = c1
  Merchant = {m1}
  Reference = {p1}
  Usage = {c1}
  Amount = {1, 3}
  Messages <- MCMessages
  MaxPersisted = 4
  MaxEnvelopes = 2
  MaxCrashes = 1
INVARIANTS
  TurnTypeOK
  HandoffSkipsGeneration
  FactsNeedEvidence
  CompletedMeansReplied
  TraceExplains
PROPERTIES
  NeverLeftOnRead
CHECK_DEADLOCK FALSE
