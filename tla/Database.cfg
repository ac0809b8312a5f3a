SPECIFICATION Spec
CONSTANTS
  c1 = c1
  c2 = c2
  t1 = t1
  t2 = t2
  Undef = Undef
  Missing = Missing
  Conns = {c1}
  Txs = {t1, t2}
  Values <- Comes
  Versions = {1}
  Operations = {"getIndexed", "put", "delete"}
  MaxRequests = 2
  EarlyThrow = FALSE
  Aborts = TRUE
  TornWrites = FALSE
  MaxCrashes = 1
INVARIANTS PromiseTellsOutcome IndexAgrees SomebodyWorks
PROPERTIES OneAfterTheOther
CHECK_DEADLOCK FALSE
