SPECIFICATION Spec
CONSTANTS
  Credits = {1, 2}
  MaxItems = 4
  MaxTransactions = 4
  Keys = {1, 7, 10, 17}
  Orders <- MCOrders
  MaxOps = 3
  MaxDeletes = 2
  MaxNodeSize = 4
  Undefined = Undefined
  fractionalLength = 2
  maxAmountValue = 3
  Throws = Throws
  Undef = Undef
  Forever = Forever
INVARIANTS HistoriesAgree TreesAreMaps FiguresAreRight SelectionsFit HistoryTells InputsAgree SignaturesHold
CHECK_DEADLOCK FALSE
