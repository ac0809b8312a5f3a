CONSTANTS
  withdrawn = withdrawn
  second = second
  spent = spent
  change = change
  tipped = tipped
  d1 = d1
  d2 = d2
  Coins = {withdrawn, spent, change, tipped}
  Initial = {withdrawn, spent, change}
  Amount <- WithoutDust
  Denoms = {d1}
  DenomOf <- OneDenom
  Source <- MCSource
  Old <- MCOld
  Attempts = {1, 2}
  ScopeChecked = FALSE
  MaxCrashes = 1
SPECIFICATION FairSpec
INVARIANTS ValueIsTracked FinishedIsPaidBack
PROPERTIES RecoupsFinish
CHECK_DEADLOCK FALSE
