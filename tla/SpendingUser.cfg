CONSTANTS
  c4 = c4
  c3 = c3
  n2 = n2
  n1 = n1
  o1 = o1
  p1 = p1
  p2 = p2
  Coins <- OneCoinAndNew
  Withdrawn <- OneCoin
  Value <- MCValue
  Price <- MCPrice
  Proposals = {p1}
  Calls = {k1}
  Refreshes = {m1}
  Loopers = {loop}
  Runs = {r1}
  FeeRefresh = 1
  FeeWithdraw = 0
  MaxCrashes = 1
  None = None
SPECIFICATION FairSpec
INVARIANTS ShownIsThere
PROPERTIES PendingIsPaid GroupsFinish ImplementsPurse
