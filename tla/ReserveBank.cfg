CONSTANTS
  Creators = {c1}
  Loop = loop
  Withdrawer1 = w1
  Withdrawer2 = w2
  Withdrawers <- OneWithdrawer
  BankUrls = {TRUE}
  BankMayRefuse = FALSE
  Expected = 3
  Transfers <- OneTransfer
  Costs = {1, 2}
  MaxForced = 0
  MaxCrashes = 1
SPECIFICATION FairSpec
INVARIANTS WaitMeansRegistered DormantIsDepleted
PROPERTIES CreditsBecomeCoins
CHECK_DEADLOCK FALSE
