CONSTANTS
  tipped = tipped
  d1 = d1
  d2 = d2
  Coins = {tipped}
  Initial = {}
  Amount <- MCAmount
  Denoms = {d1, d2}
  DenomOf <- MCDenomOf
  Source <- MCSource
  Old <- MCOld
  Attempts = {1}
  ScopeChecked = FALSE
  MaxCrashes = 1
  Updaters = {u1, u2}
  Selectors = {s1}
  BadDenoms = {d2}
  MaxKeys = 1
SPECIFICATION Spec
INVARIANTS VerdictsAreStored TakenOnce
CHECK_DEADLOCK FALSE
