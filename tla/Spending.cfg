CONSTANTS
  c4 = c4
  c3 = c3
  n2 = n2
  n1 = n1
  o1 = o1
  p1 = p1
  p2 = p2
  Coins <- TwoCoinsAndNew
  Withdrawn <- TwoCoins
  Value <- MCValue
  Price <- MCPrice
  Proposals = {p1, p2}
  Calls = {k1, k2}
  Refreshes = {}
  Loopers = {}
  Runs = {r1, r2, r3}
  FeeRefresh = 1
  FeeWithdraw = 0
  MaxCrashes = 0
  None = None
SPECIFICATION Spec
SYMMETRY Alike
INVARIANTS FreshNeverShown EveryCoinAccounted SentIsCommitted Protected
CHECK_DEADLOCK FALSE
