SPECIFICATION Spec
CONSTANTS
  u1 = u1
  u2 = u2
  Claimers = {u1, u2}
  DEPLOY_COST = 2
  MIN_CLAIM = 2
  U64 = 12
  Amounts = {8}
  Outside <- OneOutside
  MaxScore = 1
  Rent = 1
  Monitors = {m1, m2}
  Confirms = {k1, k2}
  MaxInflows = 2
  MaxFlushes = 1
  MaxOffers = 2
INVARIANTS OfferIsInTree
CHECK_DEADLOCK FALSE
