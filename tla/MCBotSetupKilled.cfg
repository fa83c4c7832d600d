SPECIFICATION FairSpec
CONSTANTS
  Setup = {s1}
  Bot = {b1}
  MaxTimeouts = 0
  MaxLost = 0
  Document = {d1}
  Loader = {w1}
  MaxKills = 1
  MaxErrors = 0
  MaxAgain = 0
  Nobody = Nobody
  Nothing = Nothing
PROPERTIES
  KilledLosesNothing
CHECK_DEADLOCK FALSE
