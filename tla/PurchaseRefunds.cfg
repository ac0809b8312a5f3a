CONSTANTS
  Payers = {p1}
  Confirmer = p1
  Sessions = {}
  NoSession = none
  Querier1 = q1
  Querier2 = q2
  Queriers <- TwoQueriers
  Refunds = {1, 2}
  AutoRefund = TRUE
  EarlyRefunds = FALSE
  MayRefuse = TRUE
  MaxCrashes = 1
SPECIFICATION FairSpec
INVARIANTS CreditsRecorded
PROPERTIES QueriesEnd
CHECK_DEADLOCK FALSE
