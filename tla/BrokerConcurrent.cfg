CONSTANTS
  Orders = {1, 2, 3}
  Symbols = {"2330"}
  Ticket <- Competing
  Quantities = {1}
  Prices = {1}
  MaxSeq = 3
  MaxDay = 0
  SettlementDays = 2
  SettlementEnforced = FALSE
  InitialCash = 3
  MinCommission = 0
  CommissionPct = 0
  TaxPct = 0
  LocateLimit = 0
  BorrowFee = 0
  Workers = {w1, w2}
  NoOne = NoOne
  MaxCrashes = 1
SPECIFICATION BrokerSpec
SYMMETRY Threads
INVARIANT FilledIsBacked
INVARIANT FokIsAllOrNothing
INVARIANT FillsAreNumbered
INVARIANT CashIsNotSpentTwice
CHECK_DEADLOCK FALSE
