SPECIFICATION MeteredSpec
CONSTANTS
  Merchant = {m1, m2}
  Reference = {p1}
  Usage = {c1, c2}
  Amount = {1, 3}
  MaxEnvelopes = 2
  MaxCrashes = 1
INVARIANTS
  Solvent
  HoldsAddUp
  LedgerBalances
  AskedOnce
  DraftedIsCharged
PROPERTIES
  ClosedForGood
  ImplementsWallet
  HoldIsDecided
CHECK_DEADLOCK FALSE
