SPECIFICATION FairSpec
CONSTANTS
  Setup = {s1, s2, s3}
  Bot = {b1, b2}
  MaxTimeouts = 2
  MaxLost = 1
  Document = {d1}
  Loader = {w1, w2}
  MaxKills = 2
  MaxErrors = 1
  MaxAgain = 1
  Nobody = Nobody
  Nothing = Nothing
INVARIANTS
  BotSetupTypeOK
  ActiveIsHeard
  ReadyIsSearchable
PROPERTIES
  FirstWebhookAuthenticates
  NeverOverwritten
  SetupSettles
  EveryUploadSettles
CHECK_DEADLOCK FALSE
