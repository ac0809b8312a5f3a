CONSTANTS
  low1 = low1
  low2 = low2
  high1 = high1
  high2 = high2
  Calls <- MCCalls
  Concurrency = 2
  NumPrio = 2
  Priority <- MCPriority
  None = None
  MaxErrors = 2
  MaxThrows = 1
SPECIFICATION FairSpec
INVARIANTS NothingWaitsIdly AnswersMatch
PROPERTIES CallsAreAnswered ImplementsPool
CHECK_DEADLOCK FALSE
