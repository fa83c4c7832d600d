SPECIFICATION FairSpec
CONSTANTS
  worker = worker
  api = api
  Sender = {worker, api}
  Drafts <- MCDrafts
  Manifests <- MCManifests
  Capacity = 4
  Refill = 1
  Token = 2
  Expiry = 6
  MaxAttempts = 3
  Ahead <- MCAhead
  MaxSkew = 1
  MaxDelay = 1
  MaxIdle = 1
  Never = Never
  TextLength = 5
INVARIANTS
  QuotaKept
  RepeatsAreAdjacent
  CutsKeepText
  PlainCutsAreMarked
PROPERTIES
  ImplementsReplyDelivery
  
CHECK_DEADLOCK FALSE
