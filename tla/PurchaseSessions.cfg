CONSTANTS
  Payers = {p1, p2}
  Confirmer = p1
  Sessions = {s1, s2}
  NoSession = none
  Querier1 = q1
  Querier2 = q2
  Queriers <- OneQuerier
  Refunds = {}
  AutoRefund = TRUE
  EarlyRefunds = TRUE
  MayRefuse = FALSE
  MaxCrashes = 1
SPECIFICATION Spec
INVARIANTS SubmittedUntilPaid
CHECK_DEADLOCK FALSE
