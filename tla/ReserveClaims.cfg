CONSTANTS
  Creators = {c1}
  Loop = loop
  Withdrawer1 = w1
  Withdrawer2 = w2
  Withdrawers <- TwoWithdrawers
  BankUrls = {TRUE, FALSE}
  BankMayRefuse = TRUE
  Expected = 2
  Transfers <- TwoTransfers
  Costs = {1, 2}
  MaxForced = 2
  MaxCrashes = 0
SPECIFICATION Spec
SYMMETRY Alike
INVARIANTS OpenPlanchetsFunded
CHECK_DEADLOCK FALSE
